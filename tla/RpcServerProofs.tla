--------------------------- MODULE RpcServerProofs ---------------------------
(***************************************************************************)
(* Proofs about RpcServer, for every set of connections, descriptors and   *)
(* workers, any number of requests and any pipe capacity.                  *)
(***************************************************************************)
EXTENDS RpcServer, FiniteSetTheorems, SequenceTheorems, TLAPS

-----------------------------------------------------------------------------
\* The helpers

\* Writing a byte never exceeds the pipe and always leaves one in it.
LEMMA NotifyByteType ==
  ASSUME NEW tok \in 0..PipeCap
  PROVE  NotifyByte(tok) \in 0..PipeCap /\ NotifyByte(tok) > 0
  BY BoundsAssumption DEF NotifyByte

\* What a read returns are requests of the connection that was read.
LEMMA HalvesType ==
  ASSUME NEW c \in Conns, NEW n \in Nat, NEW k \in Nat, n + k <= 2 * MaxReq
  PROVE  /\ Halves(c, n, k) \in Seq(Request)
         /\ Len(Halves(c, n, k)) = k
         /\ \A j \in 1..k : Halves(c, n, k)[j] \in Request /\ Halves(c, n, k)[j][1] = c
  <1>1. ASSUME NEW j \in 1..k
        PROVE  (n + j + 1) \div 2 \in 1..MaxReq
    <2>1. n + j + 1 \in Nat /\ n + j + 1 >= 2 /\ n + j + 1 <= 2 * MaxReq + 1
      BY BoundsAssumption
    <2>2. QED
      BY <2>1, BoundsAssumption
  <1>2. Halves(c, n, k) \in [1..k -> Request]
    BY <1>1 DEF Halves, Request
  <1>3. Halves(c, n, k) \in Seq(Request) /\ Len(Halves(c, n, k)) = k
    BY <1>2, SeqDef, LenProperties, IsASeq
  <1>4. QED
    BY <1>2, <1>3 DEF Halves

\* The elements of a concatenation come from its parts.
LEMMA ConcatElements ==
  ASSUME NEW S, NEW s \in Seq(S), NEW t \in Seq(S)
  PROVE  /\ s \o t \in Seq(S)
         /\ \A i \in 1..Len(s \o t) :
              \/ \E j \in 1..Len(s) : (s \o t)[i] = s[j]
              \/ \E j \in 1..Len(t) : (s \o t)[i] = t[j]
  <1>1. Len(s) \in Nat /\ Len(t) \in Nat
    BY LenProperties
  <1> DEFINE u == s \o t
  <1>2. /\ u \in Seq(S) /\ Len(u) = Len(s) + Len(t)
        /\ \A i \in 1..Len(s) + Len(t) : u[i] = IF i <= Len(s) THEN s[i] ELSE t[i - Len(s)]
    BY ConcatProperties
  <1> HIDE DEF u
  <1>3. ASSUME NEW i \in 1..Len(u)
        PROVE  (\E j \in 1..Len(s) : u[i] = s[j]) \/ (\E j \in 1..Len(t) : u[i] = t[j])
    <2>1. CASE i <= Len(s)
      BY <1>1, <1>2, <2>1
    <2>2. CASE ~ (i <= Len(s))
      <3>1. i - Len(s) \in 1..Len(t) /\ u[i] = t[i - Len(s)]
        BY <1>1, <1>2, <2>2
      <3>2. QED
        BY <3>1
    <2>3. QED
      BY <2>1, <2>2
  <1>4. QED
    BY <1>2, <1>3 DEF u

\* The elements of an appended sequence.
LEMMA AppendElements ==
  ASSUME NEW S, NEW s \in Seq(S), NEW e \in S
  PROVE  /\ Append(s, e) \in Seq(S)
         /\ \A i \in 1..Len(Append(s, e)) :
              Append(s, e)[i] = e \/ \E j \in 1..Len(s) : Append(s, e)[i] = s[j]
  <1>1. Len(s) \in Nat
    BY LenProperties
  <1> DEFINE u == Append(s, e)
  <1>2. /\ u \in Seq(S) /\ Len(u) = Len(s) + 1
        /\ \A i \in 1..Len(s) : u[i] = s[i]
        /\ u[Len(s) + 1] = e
    BY AppendProperties
  <1> HIDE DEF u
  <1>3. ASSUME NEW i \in 1..Len(u)
        PROVE  u[i] = e \/ \E j \in 1..Len(s) : u[i] = s[j]
    BY <1>1, <1>2
  <1>4. QED
    BY <1>2, <1>3 DEF u

\* Every element of t occurs in s.
ElementsFrom(t, s) == \A i \in 1..Len(t) : \E j \in 1..Len(s) : t[i] = s[j]

\* The elements of a subsequence.
LEMMA SubSeqElements ==
  ASSUME NEW S, NEW s \in Seq(S), NEW m \in Nat \ {0}, NEW n \in Nat, n <= Len(s)
  PROVE  /\ SubSeq(s, m, n) \in Seq(S)
         /\ ElementsFrom(SubSeq(s, m, n), s)
  <1>1. Len(s) \in Nat /\ \A i \in m..n : s[i] \in S
    BY LenProperties, ElementOfSeq
  <1> DEFINE u == SubSeq(s, m, n)
  <1>2. /\ u \in Seq(S) /\ Len(u) = IF m <= n THEN n - m + 1 ELSE 0
        /\ \A i \in 1..(n - m + 1) : u[i] = s[m + i - 1]
    BY <1>1, SubSeqProperties
  <1> HIDE DEF u
  <1>3. ASSUME NEW i \in 1..Len(u)
        PROVE  \E j \in 1..Len(s) : u[i] = s[j]
    <2>1. m + i - 1 \in 1..Len(s) /\ u[i] = s[m + i - 1]
      BY <1>1, <1>2, SMTT(30)
    <2>2. QED
      BY <2>1
  <1>4. QED
    BY <1>2, <1>3 DEF u, ElementsFrom

-----------------------------------------------------------------------------
\* What the handlers do to an entry of conns_

\* Replacing a registered entry by another keeps types and registrations.
LEMMA UpdateEntry ==
  ASSUME TypeOK, NEW w \in ConnWorkers, NEW fd \in Fds, NEW d \in TcpConn,
         conns' = [conns EXCEPT ![w][fd] = d]
  PROVE  /\ conns' \in [ConnWorkers -> [Fds -> TcpConn \cup {NoConn}]]
         /\ conns'[w][fd] = d
         /\ \A v \in ConnWorkers, f \in Fds :
              /\ Registered(v, f) => Registered(v, f)'
              /\ v # w \/ f # fd => conns'[v][f] = conns[v][f]
  BY NoConnAssumption DEF TypeOK, Registered

\* ClientEventInInternalAction has read k halves and made d of the entry.
ReadTo(w, fd, d, k) ==
  /\ taken' = [taken EXCEPT ![fdConn[fd]] = @ + k]
  /\ taken[fdConn[fd]] + k <= sent[fdConn[fd]]
  /\ conns' = [conns EXCEPT ![w][fd] = d]
  /\ d.id = conns[w][fd].id
  /\ d.rsp_content = conns[w][fd].rsp_content
  /\ \A i \in 1..Len(d.req_content) :
       \/ d.req_content[i][1] = fdConn[fd]
       \/ \E j \in 1..Len(conns[w][fd].req_content) :
            d.req_content[i] = conns[w][fd].req_content[j]

\* What was read follows what req_content held.
ReadExactly(w, fd, d, k) ==
  /\ k >= 1
  /\ d.req_content = conns[w][fd].req_content \o Halves(fdConn[fd], taken[fdConn[fd]], k)

\* A read appends requests of the descriptor's connection to req_content.
LEMMA ReadEffect ==
  ASSUME TypeOK, NEW w \in ConnWorkers, NEW fd \in Fds, ClientEventIn(w, fd)
  PROVE  /\ fdConn[fd] \in Conns /\ conns[w][fd] \in TcpConn
         /\ \E d \in TcpConn, k \in Nat : ReadTo(w, fd, d, k) /\ ReadExactly(w, fd, d, k)
  <1> DEFINE c == fdConn[fd]
             e == conns[w][fd]
  <1>1. c \in Conns /\ e \in TcpConn
    BY DEF ClientEventIn, TypeOK, Registered
  <1>2. PICK k \in 1..Unread(fd) :
          /\ taken' = [taken EXCEPT ![c] = @ + k]
          /\ conns' = [conns EXCEPT ![w][fd].req_content = @ \o Halves(c, taken[c], k)]
    BY DEF ClientEventIn
  <1>3. k \in Nat /\ taken[c] \in Nat /\ taken[c] + k <= sent[c] /\ taken[c] + k <= 2 * MaxReq
    BY <1>1, <1>2, BoundsAssumption, SMTT(30) DEF Unread, TypeOK
  <1> DEFINE h == Halves(c, taken[c], k)
  <1>4. h \in Seq(Request) /\ \A j \in 1..Len(h) : h[j][1] = c
    BY <1>1, <1>3, HalvesType
  <1> HIDE DEF h
  <1>5. e.req_content \in Seq(Request)
    BY <1>1 DEF TcpConn
  <1> DEFINE q == e.req_content \o h
             d == [e EXCEPT !.req_content = q]
  <1>6. /\ q \in Seq(Request)
        /\ \A i \in 1..Len(q) : \/ \E j \in 1..Len(e.req_content) : q[i] = e.req_content[j]
                                \/ \E j \in 1..Len(h) : q[i] = h[j]
    <2>1. ASSUME NEW s \in Seq(Request), NEW t \in Seq(Request), NEW u, u = s \o t
          PROVE  /\ u \in Seq(Request)
                 /\ \A i \in 1..Len(u) : \/ \E j \in 1..Len(s) : u[i] = s[j]
                                         \/ \E j \in 1..Len(t) : u[i] = t[j]
      BY <2>1, ConcatElements
    <2>2. QED
      BY <1>4, <1>5, <2>1, SMTT(30)
  <1>7. conns' = [conns EXCEPT ![w][fd] = d]
    BY <1>2 DEF h
  <1> HIDE DEF q
  <1>8. \A i \in 1..Len(q) : q[i][1] = c \/ \E j \in 1..Len(e.req_content) : q[i] = e.req_content[j]
    BY <1>4, <1>6
  <1>9. d \in TcpConn /\ d.req_content = q /\ d.id = e.id /\ d.rsp_content = e.rsp_content
    BY <1>1, <1>6 DEF TcpConn
  <1> HIDE DEF d
  <1>10. ReadTo(w, fd, d, k)
    BY <1>2, <1>3, <1>7, <1>8, <1>9 DEF ReadTo
  <1>11. ReadExactly(w, fd, d, k)
    BY <1>2, <1>9 DEF ReadExactly, q, h
  <1>12. QED
    BY <1>1, <1>3, <1>9, <1>10, <1>11

\* SendRequestToRealWorker has cut request b from the entry of fd, leaving d.
DispatchTo(w, r, fd, d, b) ==
  /\ conns' = [conns EXCEPT ![w][fd] = d]
  /\ reqQ' = [reqQ EXCEPT ![r] = Append(@, b)]
  /\ b.id = conns[w][fd].id /\ b.fd = fd /\ b.worker = w
  /\ \E j \in 1..Len(conns[w][fd].req_content) : b.real_data = conns[w][fd].req_content[j]
  /\ d.id = conns[w][fd].id
  /\ d.rsp_content = conns[w][fd].rsp_content
  /\ ElementsFrom(d.req_content, conns[w][fd].req_content)

\* The two halves at the front were cut.
DispatchExactly(w, fd, d, b) ==
  LET s == conns[w][fd].req_content
  IN Len(s) >= 2 /\ b.real_data = s[1] /\ d.req_content = SubSeq(s, 3, Len(s))

\* Dispatching cuts one packet from req_content and sends it with the entry's
\* id and descriptor.
LEMMA DispatchEffect ==
  ASSUME TypeOK, NEW w \in ConnWorkers, NEW r \in RealWorkers, SendRequestToRealWorker(w, r)
  PROVE  /\ ccur[w] \in Fds /\ conns[w][ccur[w]] \in TcpConn
         /\ \E d \in TcpConn, b \in OneDataBlock :
              DispatchTo(w, r, ccur[w], d, b) /\ DispatchExactly(w, ccur[w], d, b)
  <1>1. PICK fd \in Fds : fd = ccur[w] /\ conns[w][fd] \in TcpConn
    BY DEF SendRequestToRealWorker, TypeOK, Registered
  <1> DEFINE e == conns[w][fd]
  <1>2. e.req_content \in Seq(Request) /\ Len(e.req_content) >= 2 /\ Len(e.req_content) \in Nat
    BY <1>1, LenProperties DEF SendRequestToRealWorker, TcpConn
  <1>3. e.req_content[1] \in Request /\ e.id \in Nat
    BY <1>1, <1>2, ElementOfSeq DEF TcpConn
  <1> DEFINE b == [real_data |-> e.req_content[1], id |-> e.id, fd |-> fd, worker |-> w]
             q == SubSeq(e.req_content, 3, Len(e.req_content))
             d == [e EXCEPT !.req_content = q]
  <1>4. /\ b \in OneDataBlock
        /\ b.id = e.id /\ b.fd = fd /\ b.worker = w /\ b.real_data = e.req_content[1]
    BY <1>3 DEF OneDataBlock
  <1>5. q \in Seq(Request) /\ ElementsFrom(q, e.req_content)
    BY <1>2, SubSeqElements
  <1>7. conns' = [conns EXCEPT ![w][fd] = d] /\ reqQ' = [reqQ EXCEPT ![r] = Append(@, b)]
    BY <1>1 DEF SendRequestToRealWorker
  <1> HIDE DEF q, b
  <1>6. d \in TcpConn /\ d.req_content = q /\ d.id = e.id /\ d.rsp_content = e.rsp_content
    BY <1>1, <1>5 DEF TcpConn
  <1> HIDE DEF d
  <1>8. \E j \in 1..Len(e.req_content) : b.real_data = e.req_content[j]
    BY <1>2, <1>4
  <1>9. DispatchTo(w, r, fd, d, b)
    BY <1>4, <1>5, <1>6, <1>7, <1>8 DEF DispatchTo
  <1>10. DispatchExactly(w, fd, d, b)
    BY <1>2, <1>4, <1>6 DEF DispatchExactly, q
  <1>11. QED
    BY <1>1, <1>4, <1>6, <1>9, <1>10

\* DealWithRespOneDataBlock has appended the block's answer, making d of the
\* entry with the block's descriptor and id.
RespondTo(w, block, d) ==
  /\ Matches(w, block)
  /\ conns' = [conns EXCEPT ![w][block.fd] = d]
  /\ d.id = conns[w][block.fd].id
  /\ d.req_content = conns[w][block.fd].req_content
  /\ \A i \in 1..Len(d.rsp_content) :
       \/ d.rsp_content[i] = block.real_data
       \/ \E j \in 1..Len(conns[w][block.fd].rsp_content) :
            d.rsp_content[i] = conns[w][block.fd].rsp_content[j]

\* The answer is the last of rsp_content.
RespondExactly(w, block, d) ==
  d.rsp_content = Append(conns[w][block.fd].rsp_content, block.real_data)

\* A response is appended to the rsp_content of the matching entry, or dropped.
LEMMA RespondEffect ==
  ASSUME TypeOK, NEW w \in ConnWorkers, DealWithResp(w)
  PROVE  /\ Head(cbatch[w]) \in OneDataBlock
         /\ Tail(cbatch[w]) \in Seq(OneDataBlock)
         /\ Head(cbatch[w]).fd \in Fds
         /\ \/ conns' = conns /\ ~ Matches(w, Head(cbatch[w]))
            \/ \E d \in TcpConn :
                 RespondTo(w, Head(cbatch[w]), d) /\ RespondExactly(w, Head(cbatch[w]), d)
  <1>1. PICK block \in OneDataBlock : block = Head(cbatch[w])
    BY HeadTailProperties DEF DealWithResp, TypeOK
  <1>2. Tail(cbatch[w]) \in Seq(OneDataBlock)
    BY HeadTailProperties DEF DealWithResp, TypeOK
  <1>3. block.fd \in Fds /\ block.real_data \in Request
    BY DEF OneDataBlock
  <1>4. CASE ~ Matches(w, block)
    BY <1>1, <1>2, <1>3, <1>4 DEF DealWithResp
  <1>5. CASE Matches(w, block)
    <2>1. PICK e \in TcpConn : e = conns[w][block.fd]
      BY <1>3, <1>5 DEF Matches, TypeOK, Registered
    <2>2. e.rsp_content \in Seq(Request)
      BY DEF TcpConn
    <2> DEFINE q == Append(e.rsp_content, block.real_data)
               d == [e EXCEPT !.rsp_content = q, !.out = TRUE]
    <2>3. /\ q \in Seq(Request)
          /\ \A i \in 1..Len(q) : q[i] = block.real_data
                                  \/ \E j \in 1..Len(e.rsp_content) : q[i] = e.rsp_content[j]
      <3>1. ASSUME NEW s \in Seq(Request), NEW x \in Request, NEW u, u = Append(s, x)
            PROVE  /\ u \in Seq(Request)
                   /\ \A i \in 1..Len(u) : u[i] = x \/ \E j \in 1..Len(s) : u[i] = s[j]
        BY <3>1, AppendElements
      <3>2. QED
        BY <1>3, <2>2, <3>1
    <2>5. conns' = [conns EXCEPT ![w][block.fd] = d]
      BY <1>1, <1>5, <2>1 DEF DealWithResp
    <2> HIDE DEF q
    <2>4. d \in TcpConn /\ d.rsp_content = q /\ d.id = e.id /\ d.req_content = e.req_content
      BY <2>3 DEF TcpConn
    <2> HIDE DEF d
    <2>6. RespondTo(w, block, d)
      BY <1>5, <2>1, <2>3, <2>4, <2>5 DEF RespondTo
    <2>7. RespondExactly(w, block, d)
      BY <2>1, <2>4 DEF RespondExactly, q
    <2>8. QED
      BY <1>1, <1>2, <1>3, <2>4, <2>6, <2>7
  <1>6. QED
    BY <1>4, <1>5

\* ClientEventOutInternalAction has written s, leaving d.
WriteTo(w, fd, d, s) ==
  /\ conns' = [conns EXCEPT ![w][fd] = d]
  /\ got' = [got EXCEPT ![fdConn[fd]] = @ \o s]
  /\ d.id = conns[w][fd].id
  /\ d.req_content = conns[w][fd].req_content
  /\ ElementsFrom(d.rsp_content, conns[w][fd].rsp_content)
  /\ ElementsFrom(s, conns[w][fd].rsp_content)

\* The prefix s was cut from rsp_content.
WriteExactly(w, fd, d, s) ==
  LET rsp == conns[w][fd].rsp_content
  IN \E k \in 1..Len(rsp) :
       s = SubSeq(rsp, 1, k) /\ d.rsp_content = SubSeq(rsp, k + 1, Len(rsp))

\* A write moves a prefix of rsp_content to the client.
LEMMA WriteEffect ==
  ASSUME TypeOK, NEW w \in ConnWorkers, NEW fd \in Fds, ClientEventOut(w, fd)
  PROVE  /\ fdConn[fd] \in Conns /\ conns[w][fd] \in TcpConn
         /\ \E d \in TcpConn, s \in Seq(Request) : WriteTo(w, fd, d, s) /\ WriteExactly(w, fd, d, s)
  <1> DEFINE c == fdConn[fd]
             e == conns[w][fd]
             rsp == e.rsp_content
  <1>1. c \in Conns /\ e \in TcpConn
    BY DEF ClientEventOut, TypeOK, Registered
  <1>2. rsp \in Seq(Request) /\ Len(rsp) \in Nat
    BY <1>1, LenProperties DEF TcpConn
  <1>3. PICK k \in 1..Len(rsp) :
          /\ got' = [got EXCEPT ![c] = @ \o SubSeq(rsp, 1, k)]
          /\ conns' = [conns EXCEPT ![w][fd] =
                         [@ EXCEPT !.rsp_content = SubSeq(rsp, k + 1, Len(rsp)),
                                   !.out = k < Len(rsp)]]
    BY DEF ClientEventOut
  <1> DEFINE s == SubSeq(rsp, 1, k)
             m == k + 1
             q == SubSeq(rsp, m, Len(rsp))
             o == k < Len(rsp)
             d == [e EXCEPT !.rsp_content = q, !.out = o]
  <1>4. s \in Seq(Request) /\ ElementsFrom(s, rsp)
    BY <1>2, <1>3, SubSeqElements
  <1>8. conns' = [conns EXCEPT ![w][fd] = d] /\ got' = [got EXCEPT ![c] = @ \o s]
    BY <1>3
  <1>5. q \in Seq(Request) /\ ElementsFrom(q, rsp)
    <2>1. m \in Nat \ {0} /\ Len(rsp) <= Len(rsp)
      BY <1>2, <1>3
    <2> HIDE DEF m, rsp
    <2>2. QED
      BY <1>2, <2>1, SubSeqElements
  <1>6. o \in BOOLEAN
    OBVIOUS
  <1> HIDE DEF s, q, o
  <1>7. d \in TcpConn /\ d.rsp_content = q /\ d.id = e.id /\ d.req_content = e.req_content
    BY <1>1, <1>5, <1>6 DEF TcpConn
  <1> HIDE DEF d
  <1>9. WriteTo(w, fd, d, s)
    BY <1>4, <1>5, <1>7, <1>8 DEF WriteTo
  <1>10. WriteExactly(w, fd, d, s)
    BY <1>3, <1>7 DEF WriteExactly, s, q
  <1>11. QED
    BY <1>1, <1>4, <1>7, <1>9, <1>10

-----------------------------------------------------------------------------
\* Types

\* Types after a read.
LEMMA ReadTypes ==
  ASSUME TypeOK, NEW w \in ConnWorkers, NEW fd \in Fds, ClientEventIn(w, fd)
  PROVE  TypeOK'
  <1>1. PICK d \in TcpConn, k \in Nat : ReadTo(w, fd, d, k)
    BY ReadEffect
  <1>2. fdConn[fd] \in Conns
    BY ReadEffect
  <1>3. /\ conns' \in [ConnWorkers -> [Fds -> TcpConn \cup {NoConn}]]
        /\ \A v \in ConnWorkers, f \in Fds : Registered(v, f) => Registered(v, f)'
    BY <1>1, UpdateEntry DEF ReadTo
  <1>4. taken' \in [Conns -> Nat] /\ \A b \in Conns : taken'[b] <= sent[b]
    BY <1>1, <1>2 DEF TypeOK, ReadTo
  <1>5. /\ Registered(w, fd)
        /\ cpc' = [cpc EXCEPT ![w] = "dispatch"]
        /\ ccur' = [ccur EXCEPT ![w] = fd]
        /\ UNCHANGED <<fdConn, client, sent, got, cliVars, uniqueId, respVars, cbatch, realVars>>
    BY DEF ClientEventIn
  <1>6. QED
    BY <1>3, <1>4, <1>5, SMTT(30) DEF TypeOK, Registered, kernelVars, cliVars, connVars,
          respVars, loopVars, realVars, ConnPC, RealPC

\* Types after a request is handed to a RealWorker.
LEMMA DispatchTypes ==
  ASSUME TypeOK, NEW w \in ConnWorkers, NEW r \in RealWorkers, SendRequestToRealWorker(w, r)
  PROVE  TypeOK'
  <1>1. PICK d \in TcpConn, b \in OneDataBlock : DispatchTo(w, r, ccur[w], d, b)
    BY DispatchEffect
  <1>2. ccur[w] \in Fds
    BY DispatchEffect
  <1>3. /\ conns' \in [ConnWorkers -> [Fds -> TcpConn \cup {NoConn}]]
        /\ \A v \in ConnWorkers, f \in Fds : Registered(v, f) => Registered(v, f)'
    BY <1>1, <1>2, UpdateEntry DEF DispatchTo
  <1>4. reqQ' \in [RealWorkers -> Seq(OneDataBlock)]
    BY <1>1, AppendProperties DEF TypeOK, DispatchTo
  <1>5. NotifyByte(reqTok[r]) \in 0..PipeCap
    BY NotifyByteType DEF TypeOK
  <1>6. QED
    BY <1>3, <1>4, <1>5 DEF SendRequestToRealWorker, TypeOK, Registered, kernelVars, cliVars, connVars,
          respVars, loopVars, realVars, ConnPC, RealPC

\* Types after a response is taken from the batch.
LEMMA RespondTypes ==
  ASSUME TypeOK, NEW w \in ConnWorkers, DealWithResp(w)
  PROVE  TypeOK'
  <1>1. Tail(cbatch[w]) \in Seq(OneDataBlock) /\ Head(cbatch[w]).fd \in Fds
    BY RespondEffect
  <1>2. conns' = conns \/ \E d \in TcpConn : conns' = [conns EXCEPT ![w][Head(cbatch[w]).fd] = d]
    BY RespondEffect DEF RespondTo
  <1>3. /\ conns' \in [ConnWorkers -> [Fds -> TcpConn \cup {NoConn}]]
        /\ \A v \in ConnWorkers, f \in Fds : Registered(v, f) => Registered(v, f)'
    <2>1. CASE conns' = conns
      BY <2>1 DEF TypeOK, Registered
    <2>2. ASSUME NEW d \in TcpConn, conns' = [conns EXCEPT ![w][Head(cbatch[w]).fd] = d]
          PROVE  <1>3!2 /\ <1>3!1
      BY <1>1, <2>2, UpdateEntry
    <2>3. QED
      BY <1>2, <2>1, <2>2
  <1>4. QED
    BY <1>1, <1>3 DEF DealWithResp, TypeOK, Registered, kernelVars, cliVars, connVars,
          respVars, loopVars, realVars, ConnPC, RealPC

\* Types after a write to the client.
LEMMA WriteTypes ==
  ASSUME TypeOK, NEW w \in ConnWorkers, NEW fd \in Fds, ClientEventOut(w, fd)
  PROVE  TypeOK'
  <1>1. PICK d \in TcpConn, s \in Seq(Request) : WriteTo(w, fd, d, s)
    BY WriteEffect
  <1>2. fdConn[fd] \in Conns
    BY WriteEffect
  <1>3. got' \in [Conns -> Seq(Request)]
    BY <1>1, <1>2, ConcatProperties DEF TypeOK, WriteTo
  <1>4. /\ conns' \in [ConnWorkers -> [Fds -> TcpConn \cup {NoConn}]]
        /\ \A v \in ConnWorkers, f \in Fds : Registered(v, f) => Registered(v, f)'
    BY <1>1, UpdateEntry DEF WriteTo
  <1>5. QED
    BY <1>3, <1>4 DEF ClientEventOut, TypeOK, Registered, kernelVars, cliVars, connVars,
          respVars, loopVars, realVars, ConnPC, RealPC

\* Every step keeps the type invariant.
LEMMA TypeStep ==
  TypeOK /\ [Next]_vars => TypeOK'
  <1> SUFFICES ASSUME TypeOK, [Next]_vars
               PROVE  TypeOK'
    OBVIOUS
  <1> USE DEF TypeOK, vars, kernelVars, cliVars, connVars, respVars, loopVars, realVars,
              Registered, ConnPC, RealPC
  <1>1. ASSUME NEW c \in Conns, ClientSend(c)
        PROVE  TypeOK'
    BY <1>1, BoundsAssumption, SMTT(30) DEF ClientSend
  <1>2. ASSUME NEW c \in Conns, ClientClose(c)
        PROVE  TypeOK'
    BY <1>2 DEF ClientClose
  <1>3. ASSUME NEW c \in Conns, NEW fd \in Fds, Accept(c, fd)
        PROVE  TypeOK'
    BY <1>3 DEF Accept
  <1>4. ASSUME NEW w \in ConnWorkers, AddClientFdAndNotify(w)
        PROVE  TypeOK'
    <2>1. Append(cliFds[w], accepted) \in Seq(Fds)
      BY <1>4, AppendProperties DEF AddClientFdAndNotify
    <2>2. NotifyByte(cliTok[w]) \in 0..PipeCap
      BY NotifyByteType
    <2>3. QED
      BY <1>4, <2>1, <2>2 DEF AddClientFdAndNotify
  <1>5. ASSUME NEW w \in ConnWorkers, ReadCliToken(w)
        PROVE  TypeOK'
    BY <1>5, BoundsAssumption, SMTT(30) DEF ReadCliToken
  <1>6. ASSUME NEW w \in ConnWorkers, LockCliFds(w)
        PROVE  TypeOK'
    BY <1>6 DEF LockCliFds
  <1>7. ASSUME NEW w \in ConnWorkers, AddClient(w)
        PROVE  TypeOK'
    <2> DEFINE fd == Head(cliFds[w])
               entry == [id |-> uniqueId[w] + 1, req_content |-> << >>,
                         rsp_content |-> << >>, out |-> FALSE]
    <2>1. fd \in Fds /\ Tail(cliFds[w]) \in Seq(Fds)
      BY <1>7, HeadTailProperties DEF AddClient
    <2>2. entry \in TcpConn
      BY EmptySeq DEF TcpConn
    <2> DEFINE value == IF conns[w][fd] = NoConn THEN entry ELSE conns[w][fd]
    <2>a. value \in TcpConn
      BY <2>1, <2>2
    <2>b. conns' = [conns EXCEPT ![w][fd] = value]
      BY <1>7 DEF AddClient
    <2> HIDE DEF value
    <2>3. PICK e \in TcpConn : conns' = [conns EXCEPT ![w][fd] = e]
      BY <2>a, <2>b
    <2>4. conns' \in [ConnWorkers -> [Fds -> TcpConn \cup {NoConn}]]
      BY <2>1, <2>3
    <2>5. \A v \in ConnWorkers, f \in Fds : Registered(v, f) => Registered(v, f)'
      BY <2>1, <2>3, NoConnAssumption
    <2>6. QED
      BY <1>7, <2>1, <2>4, <2>5, SMTT(30) DEF AddClient
  <1>8. ASSUME NEW w \in ConnWorkers, AddClientsDone(w)
        PROVE  TypeOK'
    BY <1>8 DEF AddClientsDone
  <1>9. ASSUME NEW w \in ConnWorkers, NEW fd \in Fds, ClientEventIn(w, fd)
        PROVE  TypeOK'
    BY <1>9, ReadTypes
  <1>10. ASSUME NEW w \in ConnWorkers, NEW r \in RealWorkers, SendRequestToRealWorker(w, r)
         PROVE  TypeOK'
    BY <1>10, DispatchTypes
  <1>11. ASSUME NEW w \in ConnWorkers, DataNotEnough(w)
         PROVE  TypeOK'
    BY <1>11 DEF DataNotEnough
  <1>12. ASSUME NEW w \in ConnWorkers, NEW fd \in Fds,
                PeerClosed(w, fd) \/ SocketError(w, fd)
         PROVE  TypeOK'
    <2>1. Registered(w, fd) /\ CloseFd(w, fd)
      BY <1>12 DEF PeerClosed, SocketError
    <2>2. QED
      BY <2>1 DEF CloseFd
  <1>13. ASSUME NEW w \in ConnWorkers, BadPacket(w)
         PROVE  TypeOK'
    BY <1>13 DEF BadPacket, CloseFd
  <1>14. ASSUME NEW w \in ConnWorkers, EraseConn(w)
         PROVE  TypeOK'
    BY <1>14 DEF EraseConn
  <1>15. ASSUME NEW r \in RealWorkers, ReadReqToken(r)
         PROVE  TypeOK'
    BY <1>15, BoundsAssumption DEF ReadReqToken
  <1>16. ASSUME NEW r \in RealWorkers, TakeRequests(r)
         PROVE  TypeOK'
    BY <1>16, EmptySeq DEF TakeRequests
  <1>17. ASSUME NEW r \in RealWorkers, DealWithRequest(r)
         PROVE  TypeOK'
    <2> DEFINE block == Head(rbatch[r])
    <2>1. block \in OneDataBlock /\ Tail(rbatch[r]) \in Seq(OneDataBlock)
      BY <1>17, HeadTailProperties DEF DealWithRequest
    <2>2. block.worker \in ConnWorkers
      BY <2>1 DEF OneDataBlock
    <2>3. Append(respQ[block.worker], block) \in Seq(OneDataBlock)
      BY <2>1, <2>2, AppendProperties
    <2>4. NotifyByte(respTok[block.worker]) \in 0..PipeCap
      BY <2>2, NotifyByteType
    <2>5. QED
      BY <1>17, <2>1, <2>2, <2>3, <2>4 DEF DealWithRequest
  <1>18. ASSUME NEW r \in RealWorkers, RefuseRequest(r)
         PROVE  TypeOK'
    <2>1. Head(rbatch[r]) \in OneDataBlock /\ Tail(rbatch[r]) \in Seq(OneDataBlock)
      BY <1>18, HeadTailProperties DEF RefuseRequest
    <2>2. Head(rbatch[r]).real_data \in Request
      BY <2>1 DEF OneDataBlock
    <2>3. QED
      BY <1>18, <2>1, <2>2 DEF RefuseRequest
  <1>19. ASSUME NEW r \in RealWorkers, RequestsDone(r)
         PROVE  TypeOK'
    BY <1>19 DEF RequestsDone
  <1>20. ASSUME NEW w \in ConnWorkers, ReadRespToken(w)
         PROVE  TypeOK'
    <2>1. respTok' \in [ConnWorkers -> 0..PipeCap]
      BY <1>20, BoundsAssumption DEF ReadRespToken
    <2>2. QED
      BY <1>20, <2>1 DEF ReadRespToken
  <1>21. ASSUME NEW w \in ConnWorkers, TakeResponses(w)
         PROVE  TypeOK'
    BY <1>21, EmptySeq DEF TakeResponses
  <1>22. ASSUME NEW w \in ConnWorkers, DealWithResp(w)
         PROVE  TypeOK'
    BY <1>22, RespondTypes
  <1>23. ASSUME NEW w \in ConnWorkers, ResponsesDone(w)
         PROVE  TypeOK'
    BY <1>23 DEF ResponsesDone
  <1>24. ASSUME NEW w \in ConnWorkers, NEW fd \in Fds, ClientEventOut(w, fd)
         PROVE  TypeOK'
    BY <1>24, WriteTypes
  <1>25. CASE UNCHANGED vars
    BY <1>25
  <1>26. QED
    BY <1>1, <1>2, <1>3, <1>4, <1>5, <1>6, <1>7, <1>8, <1>9, <1>10, <1>11, <1>12,
       <1>13, <1>14, <1>15, <1>16, <1>17, <1>18, <1>19, <1>20, <1>21, <1>22, <1>23,
       <1>24, <1>25 DEF Next

\* The type invariant holds in every reachable state.
THEOREM TypeCorrect == Spec => []TypeOK
  <1>1. Init => TypeOK
    BY BoundsAssumption, EmptySeq DEF Init, TypeOK, ConnPC, RealPC, Registered
  <1>2. QED
    BY <1>1, TypeStep, PTL DEF Spec

-----------------------------------------------------------------------------
\* The handover through queue and pipe

\* Every step keeps NoLostNotify: whoever queues leaves a byte in the pipe,
\* and whoever takes the last byte goes on to empty the queue.
LEMMA NotifyStep ==
  TypeOK /\ NoLostNotify /\ [Next]_vars => NoLostNotify'
  <1> SUFFICES ASSUME TypeOK, NoLostNotify, [Next]_vars
               PROVE  NoLostNotify'
    OBVIOUS
  <1> USE DEF NoLostNotify
  <1>0. /\ cliFds \in [ConnWorkers -> Seq(Fds)] /\ cliTok \in [ConnWorkers -> 0..PipeCap]
        /\ respQ \in [ConnWorkers -> Seq(OneDataBlock)]
        /\ respTok \in [ConnWorkers -> 0..PipeCap]
        /\ reqQ \in [RealWorkers -> Seq(OneDataBlock)]
        /\ reqTok \in [RealWorkers -> 0..PipeCap]
        /\ cpc \in [ConnWorkers -> ConnPC] /\ rpc \in [RealWorkers -> RealPC]
    BY DEF TypeOK
  <1>1. CASE UNCHANGED <<cliVars, respVars, cpc, reqQ, reqTok, rpc>>
    BY <1>1 DEF cliVars, respVars
  <1>2. ASSUME NEW w \in ConnWorkers, AddClientFdAndNotify(w)
        PROVE  NoLostNotify'
    <2>1. NotifyByte(cliTok[w]) > 0
      BY <1>0, NotifyByteType
    <2>2. QED
      BY <1>0, <1>2, <2>1 DEF AddClientFdAndNotify, respVars, loopVars, realVars
  <1>3. ASSUME NEW w \in ConnWorkers, ReadCliToken(w)
        PROVE  NoLostNotify'
    BY <1>0, <1>3 DEF ReadCliToken, respVars, realVars
  <1>4. ASSUME NEW w \in ConnWorkers, LockCliFds(w)
        PROVE  NoLostNotify'
    BY <1>0, <1>4 DEF LockCliFds, cliVars, respVars, realVars
  <1>5. ASSUME NEW w \in ConnWorkers, AddClient(w)
        PROVE  NoLostNotify'
    BY <1>0, <1>5 DEF AddClient, respVars, loopVars, realVars
  <1>6. ASSUME NEW w \in ConnWorkers, AddClientsDone(w)
        PROVE  NoLostNotify'
    BY <1>0, <1>6 DEF AddClientsDone, cliVars, respVars, realVars
  <1>7. ASSUME NEW w \in ConnWorkers, cpc[w] \in {"loop", "dispatch", "closing"},
               \E p \in ConnPC : cpc' = [cpc EXCEPT ![w] = p],
               UNCHANGED <<cliVars, respVars, reqQ, reqTok, rpc>>
        PROVE  NoLostNotify'
    BY <1>0, <1>7 DEF cliVars, respVars
  <1>8. ASSUME NEW w \in ConnWorkers, NEW r \in RealWorkers, SendRequestToRealWorker(w, r)
        PROVE  NoLostNotify'
    <2>1. NotifyByte(reqTok[r]) > 0
      BY <1>0, NotifyByteType
    <2>2. /\ reqTok' = [reqTok EXCEPT ![r] = NotifyByte(@)]
          /\ \A s \in RealWorkers \ {r} : reqQ'[s] = reqQ[s]
          /\ UNCHANGED <<cliFds, cliTok, respQ, respTok, cpc, rpc>>
      BY <1>0, <1>8 DEF SendRequestToRealWorker, cliVars, respVars, loopVars
    <2>3. QED
      BY <1>0, <2>1, <2>2
  <1>9. ASSUME NEW r \in RealWorkers, ReadReqToken(r)
        PROVE  NoLostNotify'
    BY <1>0, <1>9 DEF ReadReqToken, cliVars, respVars, loopVars
  <1>10. ASSUME NEW r \in RealWorkers, TakeRequests(r)
         PROVE  NoLostNotify'
    BY <1>0, <1>10 DEF TakeRequests, cliVars, respVars, loopVars
  <1>11. ASSUME NEW r \in RealWorkers, DealWithRequest(r)
         PROVE  NoLostNotify'
    <2>1. Head(rbatch[r]) \in OneDataBlock
      BY <1>11, HeadTailProperties DEF DealWithRequest, TypeOK
    <2>2. PICK w \in ConnWorkers : w = Head(rbatch[r]).worker
      BY <2>1 DEF OneDataBlock
    <2>3. NotifyByte(respTok[w]) > 0
      BY <1>0, NotifyByteType
    <2>4. /\ respTok' = [respTok EXCEPT ![w] = NotifyByte(@)]
          /\ \A v \in ConnWorkers \ {w} : respQ'[v] = respQ[v]
          /\ UNCHANGED <<cliFds, cliTok, reqQ, reqTok, cpc, rpc>>
      BY <1>0, <1>11, <2>2 DEF DealWithRequest, cliVars, loopVars
    <2>5. QED
      BY <1>0, <2>3, <2>4
  <1>12. ASSUME NEW r \in RealWorkers, RequestsDone(r)
         PROVE  NoLostNotify'
    BY <1>0, <1>12 DEF RequestsDone, cliVars, respVars, loopVars
  <1>13. ASSUME NEW w \in ConnWorkers, ReadRespToken(w)
         PROVE  NoLostNotify'
    BY <1>0, <1>13 DEF ReadRespToken, cliVars, realVars
  <1>14. ASSUME NEW w \in ConnWorkers, TakeResponses(w)
         PROVE  NoLostNotify'
    BY <1>0, <1>14 DEF TakeResponses, cliVars, realVars
  <1>15. ASSUME NEW w \in ConnWorkers, ResponsesDone(w)
         PROVE  NoLostNotify'
    BY <1>0, <1>15 DEF ResponsesDone, cliVars, respVars, realVars
  <1>16. ASSUME NEW w \in ConnWorkers,
                DataNotEnough(w) \/ BadPacket(w) \/ EraseConn(w)
         PROVE  NoLostNotify'
    <2>1. cpc[w] \in {"loop", "dispatch", "closing"} /\ \E p \in ConnPC : cpc' = [cpc EXCEPT ![w] = p]
      BY <1>16 DEF DataNotEnough, BadPacket, EraseConn, CloseFd, ConnPC
    <2>2. UNCHANGED <<cliVars, respVars, reqQ, reqTok, rpc>>
      BY <1>16 DEF DataNotEnough, BadPacket, EraseConn, CloseFd, realVars
    <2>3. QED
      BY <1>7, <2>1, <2>2
  <1>17. ASSUME NEW w \in ConnWorkers, NEW fd \in Fds,
                ClientEventIn(w, fd) \/ PeerClosed(w, fd) \/ SocketError(w, fd)
         PROVE  NoLostNotify'
    <2>1. cpc[w] \in {"loop", "dispatch", "closing"} /\ \E p \in ConnPC : cpc' = [cpc EXCEPT ![w] = p]
      BY <1>17 DEF ClientEventIn, PeerClosed, SocketError, CloseFd, ConnPC
    <2>2. UNCHANGED <<cliVars, respVars, reqQ, reqTok, rpc>>
      BY <1>17 DEF ClientEventIn, PeerClosed, SocketError, CloseFd, realVars
    <2>3. QED
      BY <1>7, <2>1, <2>2
  <1>18. ASSUME NEW w \in ConnWorkers, DealWithResp(w) \/ \E fd \in Fds : ClientEventOut(w, fd)
         PROVE  NoLostNotify'
    BY <1>1, <1>18 DEF DealWithResp, ClientEventOut, cliVars, respVars, loopVars, realVars
  <1>19. ASSUME NEW c \in Conns, ClientSend(c) \/ ClientClose(c)
         PROVE  NoLostNotify'
    BY <1>1, <1>19 DEF ClientSend, ClientClose, cliVars, respVars, loopVars, realVars
  <1>20. ASSUME NEW c \in Conns, NEW fd \in Fds, Accept(c, fd)
         PROVE  NoLostNotify'
    BY <1>20 DEF Accept, respVars, loopVars, realVars
  <1>21. ASSUME NEW r \in RealWorkers, RefuseRequest(r)
         PROVE  NoLostNotify'
    BY <1>1, <1>21 DEF RefuseRequest, cliVars, respVars, loopVars
  <1>22. CASE UNCHANGED vars
    BY <1>1, <1>22 DEF vars, cliVars, respVars, loopVars, realVars
  <1>23. QED
    BY <1>2, <1>3, <1>4, <1>5, <1>6, <1>8, <1>9, <1>10, <1>11, <1>12, <1>13, <1>14,
       <1>15, <1>16, <1>17, <1>18, <1>19, <1>20, <1>21, <1>22 DEF Next

\* Nothing is ever queued for a thread that would not be woken for it, for any
\* number of threads and pipes of any size.
THEOREM NotificationsSuffice == Spec => []NoLostNotify
  <1>1. Init => NoLostNotify
    BY DEF Init, NoLostNotify
  <1>2. QED
    BY <1>1, TypeCorrect, NotifyStep, PTL DEF Spec

-----------------------------------------------------------------------------
\* Descriptors

\* Steps that move no descriptor keep the table.
LEMMA QuietTable ==
  ASSUME DescriptorTable, UNCHANGED <<fdConn, accepted, cliFds>>,
         \A v \in ConnWorkers, f \in Fds : Live(v, f)' <=> Live(v, f)
  PROVE  DescriptorTable'
  <1>1. \A v \in ConnWorkers, f \in Fds : Queued(v, f)' <=> Queued(v, f)
    BY DEF Queued
  <1>2. QED
    BY <1>1 DEF DescriptorTable

\* A worker that moves between two control states other than "closing" closes
\* nothing.
LEMMA NotClosing ==
  ASSUME TypeOK, NEW w \in ConnWorkers, cpc[w] # "closing",
         NEW p \in ConnPC \ {"closing"}, cpc' = [cpc EXCEPT ![w] = p],
         \A v \in ConnWorkers \ {w} : ccur'[v] = ccur[v]
  PROVE  \A v \in ConnWorkers, f \in Fds : Closing(v, f)' <=> Closing(v, f)
  BY DEF TypeOK, Closing

\* Replacing a registered entry registers and unregisters nothing.
LEMMA UpdateKeepsLive ==
  ASSUME TypeOK, NEW w \in ConnWorkers, NEW fd \in Fds, Registered(w, fd), NEW d \in TcpConn,
         conns' = [conns EXCEPT ![w][fd] = d],
         \A v \in ConnWorkers, f \in Fds : Closing(v, f)' <=> Closing(v, f)
  PROVE  \A v \in ConnWorkers, f \in Fds : Live(v, f)' <=> Live(v, f)
  <1>1. \A v \in ConnWorkers, f \in Fds : Registered(v, f)' <=> Registered(v, f)
    <2>1. /\ conns'[w][fd] = d
          /\ \A v \in ConnWorkers, f \in Fds : v # w \/ f # fd => conns'[v][f] = conns[v][f]
      BY DEF TypeOK
    <2>2. QED
      BY <2>1, NoConnAssumption DEF Registered
  <1>2. QED
    BY <1>1 DEF Live

\* Steps that leave the ConnWorkers' maps and control states alone close and
\* register nothing.
LEMMA IdleKeepsLive ==
  ASSUME UNCHANGED <<conns, cpc, ccur>>
  PROVE  \A v \in ConnWorkers, f \in Fds : Live(v, f)' <=> Live(v, f)
  BY DEF Live, Registered, Closing

\* The handlers that move no descriptor, seen through Live.
LEMMA HandlerKeepsLive ==
  ASSUME TypeOK, NEW w \in ConnWorkers,
         \/ ReadCliToken(w) \/ LockCliFds(w) \/ AddClientsDone(w) \/ DataNotEnough(w)
         \/ ReadRespToken(w) \/ TakeResponses(w) \/ ResponsesDone(w) \/ EraseConn(w)
  PROVE  \A v \in ConnWorkers, f \in Fds : Live(v, f)' <=> Live(v, f)
  <1>1. CASE EraseConn(w)
    BY <1>1 DEF EraseConn, Live, Registered, Closing, TypeOK
  <1>2. CASE ~ EraseConn(w)
    <2>1. /\ cpc[w] # "closing" /\ conns' = conns
          /\ \E p \in ConnPC \ {"closing"} : cpc' = [cpc EXCEPT ![w] = p]
      BY <1>2 DEF ReadCliToken, LockCliFds, AddClientsDone, DataNotEnough, ReadRespToken,
                  TakeResponses, ResponsesDone, ConnPC, connVars
    <2>2. \A v \in ConnWorkers \ {w} : ccur'[v] = ccur[v]
      BY <1>2 DEF ReadCliToken, LockCliFds, AddClientsDone, DataNotEnough, ReadRespToken,
                  TakeResponses, ResponsesDone, TypeOK
    <2>3. \A v \in ConnWorkers, f \in Fds : Closing(v, f)' <=> Closing(v, f)
      BY <2>1, <2>2, NotClosing
    <2>4. QED
      BY <2>1, <2>3 DEF Live, Registered
  <1>3. QED
    BY <1>1, <1>2

\* So are the four that change an entry of conns_.
LEMMA EntryKeepsLive ==
  ASSUME TypeOK, NEW w \in ConnWorkers,
         \/ \E fd \in Fds : ClientEventIn(w, fd) \/ ClientEventOut(w, fd)
         \/ \E r \in RealWorkers : SendRequestToRealWorker(w, r)
         \/ DealWithResp(w)
  PROVE  \A v \in ConnWorkers, f \in Fds : Live(v, f)' <=> Live(v, f)
  <1>1. ASSUME NEW fd \in Fds, ClientEventIn(w, fd)
        PROVE  \A v \in ConnWorkers, f \in Fds : Live(v, f)' <=> Live(v, f)
    <2>1. PICK d \in TcpConn, k \in Nat : ReadTo(w, fd, d, k)
      BY <1>1, ReadEffect
    <2>2. \A v \in ConnWorkers, f \in Fds : Closing(v, f)' <=> Closing(v, f)
      <3>1. "dispatch" \in ConnPC \ {"closing"}
        BY DEF ConnPC
      <3>2. /\ cpc[w] # "closing" /\ cpc' = [cpc EXCEPT ![w] = "dispatch"]
            /\ \A v \in ConnWorkers \ {w} : ccur'[v] = ccur[v]
        BY <1>1 DEF ClientEventIn, TypeOK
      <3>3. QED
        BY <3>1, <3>2, NotClosing
    <2>3. Registered(w, fd) /\ conns' = [conns EXCEPT ![w][fd] = d]
      BY <1>1, <2>1 DEF ClientEventIn, ReadTo
    <2>4. QED
      BY <2>2, <2>3, UpdateKeepsLive
  <1>2. ASSUME NEW fd \in Fds, ClientEventOut(w, fd)
        PROVE  \A v \in ConnWorkers, f \in Fds : Live(v, f)' <=> Live(v, f)
    <2>1. PICK d \in TcpConn, s \in Seq(Request) : WriteTo(w, fd, d, s)
      BY <1>2, WriteEffect
    <2>2. \A v \in ConnWorkers, f \in Fds : Closing(v, f)' <=> Closing(v, f)
      BY <1>2 DEF ClientEventOut, loopVars, Closing
    <2>3. Registered(w, fd) /\ conns' = [conns EXCEPT ![w][fd] = d]
      BY <1>2, <2>1 DEF ClientEventOut, WriteTo
    <2>4. QED
      BY <2>2, <2>3, UpdateKeepsLive
  <1>3. ASSUME NEW r \in RealWorkers, SendRequestToRealWorker(w, r)
        PROVE  \A v \in ConnWorkers, f \in Fds : Live(v, f)' <=> Live(v, f)
    <2>1. PICK d \in TcpConn, b \in OneDataBlock : DispatchTo(w, r, ccur[w], d, b)
      BY <1>3, DispatchEffect
    <2>2. \A v \in ConnWorkers, f \in Fds : Closing(v, f)' <=> Closing(v, f)
      BY <1>3 DEF SendRequestToRealWorker, loopVars, Closing
    <2>3. ccur[w] \in Fds /\ Registered(w, ccur[w])
      BY <1>3 DEF SendRequestToRealWorker, TypeOK
    <2>4. conns' = [conns EXCEPT ![w][ccur[w]] = d]
      BY <2>1 DEF DispatchTo
    <2>5. QED
      BY <2>2, <2>3, <2>4, UpdateKeepsLive
  <1>4. CASE DealWithResp(w)
    <2>1. UNCHANGED <<cpc, ccur>>
      BY <1>4 DEF DealWithResp
    <2>2. CASE conns' = conns
      BY <2>1, <2>2, IdleKeepsLive
    <2>3. ASSUME NEW d \in TcpConn, RespondTo(w, Head(cbatch[w]), d)
          PROVE  \A v \in ConnWorkers, f \in Fds : Live(v, f)' <=> Live(v, f)
      <3>1. \A v \in ConnWorkers, f \in Fds : Closing(v, f)' <=> Closing(v, f)
        BY <2>1 DEF Closing
      <3>2. PICK f \in Fds : f = Head(cbatch[w]).fd
        BY <1>4, RespondEffect
      <3>3. Registered(w, f) /\ conns' = [conns EXCEPT ![w][f] = d]
        BY <2>3, <3>2 DEF RespondTo, Matches
      <3>4. QED
        BY <3>1, <3>3, UpdateKeepsLive
    <2>4. QED
      BY <1>4, <2>2, <2>3, RespondEffect
  <1>5. QED
    BY <1>1, <1>2, <1>3, <1>4

\* accept() hands out a descriptor nobody holds.
LEMMA AcceptTable ==
  ASSUME TypeOK, DescriptorTable, NEW c \in Conns, NEW fd \in Fds, Accept(c, fd)
  PROVE  DescriptorTable'
  <1>1. \A v \in ConnWorkers, f \in Fds : Live(v, f)' <=> Live(v, f)
    BY IdleKeepsLive DEF Accept, connVars, loopVars
  <1>2. \A v \in ConnWorkers, f \in Fds : Queued(v, f)' <=> Queued(v, f)
    BY DEF Accept, Queued
  <1>3. /\ accepted = NoFd /\ accepted' = fd /\ cliFds' = cliFds
        /\ fdConn[fd] = NoConn /\ fdConn'[fd] # NoConn
        /\ \A f \in Fds \ {fd} : fdConn'[f] = fdConn[f]
    BY NoConnAssumption DEF Accept, TypeOK
  <1>4. QED
    BY <1>1, <1>2, <1>3, FdsAssumption DEF DescriptorTable

\* The accepted descriptor goes into one worker's queue.
LEMMA HandoverTable ==
  ASSUME TypeOK, DescriptorTable, NEW w \in ConnWorkers, AddClientFdAndNotify(w)
  PROVE  DescriptorTable'
  <1>1. \A v \in ConnWorkers, f \in Fds : Live(v, f)' <=> Live(v, f)
    BY IdleKeepsLive DEF AddClientFdAndNotify, connVars, loopVars
  <1>2. PICK fd \in Fds : fd = accepted /\ accepted' = NoFd /\ fdConn' = fdConn
    BY DEF AddClientFdAndNotify, TypeOK, kernelVars
  <1>3. /\ cliFds'[w] = Append(cliFds[w], fd)
        /\ \A v \in ConnWorkers \ {w} : cliFds'[v] = cliFds[v]
    BY <1>2 DEF AddClientFdAndNotify, TypeOK
  <1>4. cliFds[w] \in Seq(Fds) /\ Len(cliFds[w]) \in Nat
    BY LenProperties DEF TypeOK
  <1>5. /\ Len(cliFds'[w]) = Len(cliFds[w]) + 1
        /\ \A i \in 1..Len(cliFds[w]) : cliFds'[w][i] = cliFds[w][i]
        /\ cliFds'[w][Len(cliFds[w]) + 1] = fd
    BY <1>3, <1>4, AppendProperties
  <1>6. \A f \in Fds : Queued(w, f)' <=> Queued(w, f) \/ f = fd
    <2>1. ASSUME NEW f \in Fds, Queued(w, f)'
          PROVE  Queued(w, f) \/ f = fd
      BY <1>4, <1>5, <2>1, SMTT(30) DEF Queued
    <2>2. ASSUME NEW f \in Fds, Queued(w, f) \/ f = fd
          PROVE  Queued(w, f)'
      BY <1>4, <1>5, <2>2 DEF Queued
    <2>3. QED
      BY <2>1, <2>2
  <1>7. \A v \in ConnWorkers \ {w}, f \in Fds : Queued(v, f)' <=> Queued(v, f)
    BY <1>3 DEF Queued
  <1>8. ~ Queued(w, fd) /\ \A v \in ConnWorkers : ~ Queued(v, fd) /\ ~ Live(v, fd)
    BY <1>2 DEF DescriptorTable
  <1>9. \A v \in ConnWorkers : \A i, j \in 1..Len(cliFds'[v]) :
          cliFds'[v][i] = cliFds'[v][j] => i = j
    <2>1. ASSUME NEW i \in 1..Len(cliFds'[w]), NEW j \in 1..Len(cliFds'[w]),
                 cliFds'[w][i] = cliFds'[w][j]
          PROVE  i = j
      <3>1. \A n \in 1..Len(cliFds[w]) : cliFds[w][n] # fd
        BY <1>8 DEF Queued
      <3>2. \A m, n \in 1..Len(cliFds[w]) : cliFds[w][m] = cliFds[w][n] => m = n
        BY DEF DescriptorTable
      <3>3. CASE i \in 1..Len(cliFds[w]) /\ j \in 1..Len(cliFds[w])
        <4>1. cliFds[w][i] = cliFds[w][j]
          BY <1>5, <2>1, <3>3
        <4>2. QED
          BY <3>2, <3>3, <4>1
      <3>4. CASE i \in 1..Len(cliFds[w]) /\ j = Len(cliFds[w]) + 1
        <4>1. cliFds[w][i] = fd
          BY <1>5, <2>1, <3>4
        <4>2. QED
          BY <3>1, <3>4, <4>1
      <3>5. CASE i = Len(cliFds[w]) + 1 /\ j \in 1..Len(cliFds[w])
        <4>1. cliFds[w][j] = fd
          BY <1>5, <2>1, <3>5
        <4>2. QED
          BY <3>1, <3>5, <4>1
      <3>6. \A n \in 1..Len(cliFds'[w]) : n \in 1..Len(cliFds[w]) \/ n = Len(cliFds[w]) + 1
        BY <1>4, <1>5
      <3>7. QED
        BY <2>1, <3>3, <3>4, <3>5, <3>6
    <2>2. QED
      BY <1>3, <2>1 DEF DescriptorTable
  <1>10. \A f \in Fds : /\ f # fd => (fdConn[f] # NoConn <=>
                              \E v \in ConnWorkers : Queued(v, f) \/ Live(v, f))
                        /\ fdConn[fd] # NoConn
    BY <1>2, FdsAssumption DEF DescriptorTable
  <1>11. \A f \in Fds :
           fdConn'[f] # NoConn <=>
             accepted' = f \/ \E v \in ConnWorkers : Queued(v, f)' \/ Live(v, f)'
    BY <1>1, <1>2, <1>6, <1>7, <1>10, FdsAssumption
  <1>12. \A f \in Fds, v \in ConnWorkers :
           /\ ~ (accepted' = f /\ (Queued(v, f)' \/ Live(v, f)'))
           /\ ~ (Queued(v, f)' /\ Live(v, f)')
    BY <1>1, <1>2, <1>6, <1>7, <1>8, FdsAssumption DEF DescriptorTable
  <1>13. \A f \in Fds, u, v \in ConnWorkers :
           (Queued(u, f)' \/ Live(u, f)') /\ (Queued(v, f)' \/ Live(v, f)') => u = v
    BY <1>1, <1>6, <1>7, <1>8 DEF DescriptorTable
  <1>14. QED
    BY <1>9, <1>11, <1>12, <1>13 DEF DescriptorTable

\* A queued descriptor is registered; conns_ has no entry for it.
LEMMA RegisterTable ==
  ASSUME TypeOK, DescriptorTable, NEW w \in ConnWorkers, AddClient(w)
  PROVE  /\ DescriptorTable'
         /\ ~ Registered(w, Head(cliFds[w]))
         /\ Head(cliFds[w]) \in Fds /\ fdConn[Head(cliFds[w])] # NoConn
         /\ \A v \in ConnWorkers, f \in Fds :
              Live(v, f)' <=> Live(v, f) \/ (v = w /\ f = Head(cliFds[w]))
  <1>1. cliFds[w] \in Seq(Fds) /\ Len(cliFds[w]) \in Nat \ {0}
    BY EmptySeq DEF AddClient, TypeOK
  <1>2. PICK fd \in Fds : fd = Head(cliFds[w]) /\ cliFds[w][1] = fd
    BY <1>1, HeadTailProperties DEF AddClient
  <1>3. /\ Len(cliFds'[w]) = Len(cliFds[w]) - 1
        /\ \A i \in 1..(Len(cliFds[w]) - 1) : cliFds'[w][i] = cliFds[w][i + 1]
        /\ \A v \in ConnWorkers \ {w} : cliFds'[v] = cliFds[v]
    <2>1. cliFds'[w] = Tail(cliFds[w]) /\ \A v \in ConnWorkers \ {w} : cliFds'[v] = cliFds[v]
      BY DEF AddClient, TypeOK
    <2>2. QED
      BY <1>1, <2>1, HeadTailProperties
  <1>4. UNCHANGED <<fdConn, accepted, cpc, ccur>>
    BY DEF AddClient, kernelVars, loopVars
  <1>5. Queued(w, fd)
    BY <1>1, <1>2 DEF Queued
  <1>6. ~ Registered(w, fd) /\ fdConn[fd] # NoConn
    BY <1>5 DEF DescriptorTable, Live, Closing, AddClient
  <1>7. \A v \in ConnWorkers, f \in Fds : Live(v, f)' <=> Live(v, f) \/ (v = w /\ f = fd)
    <2>1. [id |-> uniqueId[w] + 1, req_content |-> << >>, rsp_content |-> << >>,
           out |-> FALSE] \in TcpConn
      BY EmptySeq DEF TypeOK, TcpConn
    <2>2. PICK d \in TcpConn : conns' = [conns EXCEPT ![w][fd] = d]
      BY <1>2, <1>6, <2>1 DEF AddClient, Registered
    <2>3. \A v \in ConnWorkers, f \in Fds :
            Registered(v, f)' <=> Registered(v, f) \/ (v = w /\ f = fd)
      BY <2>2, NoConnAssumption DEF TypeOK, Registered
    <2>4. cpc[w] # "closing"
      BY DEF AddClient
    <2>5. QED
      BY <1>4, <2>3, <2>4 DEF Live, Closing
  <1>8. \A i, j \in 1..Len(cliFds[w]) : cliFds[w][i] = cliFds[w][j] => i = j
    BY DEF DescriptorTable
  <1>9. \A f \in Fds : Queued(w, f)' <=> Queued(w, f) /\ f # fd
    <2>1. ASSUME NEW f \in Fds, Queued(w, f)'
          PROVE  Queued(w, f) /\ f # fd
      <3>1. PICK i \in 1..Len(cliFds'[w]) : cliFds'[w][i] = f
        BY <2>1 DEF Queued
      <3>2. i + 1 \in 1..Len(cliFds[w]) /\ cliFds[w][i + 1] = f /\ i + 1 # 1
        BY <1>1, <1>3, <3>1
      <3>3. 1 \in 1..Len(cliFds[w])
        BY <1>1
      <3>4. QED
        BY <1>2, <1>8, <3>2, <3>3 DEF Queued
    <2>2. ASSUME NEW f \in Fds, Queued(w, f), f # fd
          PROVE  Queued(w, f)'
      <3>1. PICK i \in 1..Len(cliFds[w]) : cliFds[w][i] = f
        BY <2>2 DEF Queued
      <3>2. i - 1 \in 1..Len(cliFds'[w]) /\ cliFds'[w][i - 1] = f
        BY <1>1, <1>2, <1>3, <2>2, <3>1
      <3>3. QED
        BY <3>2 DEF Queued
    <2>3. QED
      BY <2>1, <2>2
  <1>10. \A v \in ConnWorkers \ {w}, f \in Fds : Queued(v, f)' <=> Queued(v, f)
    BY <1>3 DEF Queued
  <1>11. \A v \in ConnWorkers : \A i, j \in 1..Len(cliFds'[v]) :
           cliFds'[v][i] = cliFds'[v][j] => i = j
    <2>1. ASSUME NEW i \in 1..Len(cliFds'[w]), NEW j \in 1..Len(cliFds'[w]),
                 cliFds'[w][i] = cliFds'[w][j]
          PROVE  i = j
      <3>1. /\ i + 1 \in 1..Len(cliFds[w]) /\ j + 1 \in 1..Len(cliFds[w])
            /\ cliFds[w][i + 1] = cliFds[w][j + 1]
        BY <1>1, <1>3, <2>1
      <3>2. i + 1 = j + 1
        BY <1>8, <3>1
      <3>3. QED
        BY <1>1, <1>3, <3>2
    <2>2. QED
      BY <1>3, <2>1 DEF DescriptorTable
  <1>12. \A v \in ConnWorkers, f \in Fds :
           Queued(v, f)' \/ Live(v, f)' <=> Queued(v, f) \/ Live(v, f)
    BY <1>5, <1>7, <1>9, <1>10
  <1>13. \A f \in Fds, v \in ConnWorkers : ~ (Queued(v, f)' /\ Live(v, f)')
    BY <1>5, <1>7, <1>9, <1>10 DEF DescriptorTable
  <1>14. DescriptorTable'
    BY <1>4, <1>11, <1>12, <1>13 DEF DescriptorTable
  <1>15. QED
    BY <1>2, <1>6, <1>7, <1>14

\* A registered descriptor is closed.
LEMMA CloseTable ==
  ASSUME TypeOK, DescriptorTable, NEW w \in ConnWorkers, NEW fd \in Fds,
         Registered(w, fd), cpc[w] # "closing", CloseFd(w, fd)
  PROVE  /\ DescriptorTable'
         /\ \A v \in ConnWorkers, f \in Fds : Live(v, f)' <=> Live(v, f) /\ f # fd
  <1>1. /\ UNCHANGED <<accepted, cliFds, conns>>
        /\ cpc'[w] = "closing" /\ ccur'[w] = fd
        /\ \A v \in ConnWorkers \ {w} : cpc'[v] = cpc[v] /\ ccur'[v] = ccur[v]
        /\ fdConn'[fd] = NoConn /\ \A f \in Fds \ {fd} : fdConn'[f] = fdConn[f]
    BY DEF CloseFd, TypeOK, cliVars, connVars
  <1>2. Live(w, fd)
    BY DEF Live, Closing
  <1>3. /\ accepted # fd
        /\ \A v \in ConnWorkers : ~ Queued(v, fd) /\ (Live(v, fd) => v = w)
    BY <1>2 DEF DescriptorTable
  <1>4. \A v \in ConnWorkers, f \in Fds : Live(v, f)' <=> Live(v, f) /\ f # fd
    BY <1>1, <1>3 DEF Live, Registered, Closing
  <1>5. \A v \in ConnWorkers, f \in Fds : Queued(v, f)' <=> Queued(v, f)
    BY <1>1 DEF Queued
  <1>6. DescriptorTable'
    BY <1>1, <1>3, <1>4, <1>5 DEF DescriptorTable
  <1>7. QED
    BY <1>4, <1>6

\* Every step keeps the descriptor table.
LEMMA TableStep ==
  TypeOK /\ DescriptorTable /\ [Next]_vars => DescriptorTable'
  <1> SUFFICES ASSUME TypeOK, DescriptorTable, [Next]_vars
               PROVE  DescriptorTable'
    OBVIOUS
  <1>1. ASSUME NEW c \in Conns, ClientSend(c) \/ ClientClose(c)
        PROVE  DescriptorTable'
    BY <1>1, QuietTable, IdleKeepsLive DEF ClientSend, ClientClose, cliVars, connVars, loopVars
  <1>2. ASSUME NEW w \in ConnWorkers,
               \/ ReadCliToken(w) \/ LockCliFds(w) \/ AddClientsDone(w) \/ DataNotEnough(w)
               \/ ReadRespToken(w) \/ TakeResponses(w) \/ ResponsesDone(w) \/ EraseConn(w)
        PROVE  DescriptorTable'
    <2>1. UNCHANGED <<fdConn, accepted, cliFds>>
      BY <1>2 DEF ReadCliToken, LockCliFds, AddClientsDone, DataNotEnough, ReadRespToken,
                  TakeResponses, ResponsesDone, EraseConn, kernelVars, cliVars
    <2>2. QED
      BY <1>2, <2>1, QuietTable, HandlerKeepsLive
  <1>3. ASSUME NEW w \in ConnWorkers,
               \/ \E fd \in Fds : ClientEventIn(w, fd) \/ ClientEventOut(w, fd)
               \/ \E r \in RealWorkers : SendRequestToRealWorker(w, r)
               \/ DealWithResp(w)
        PROVE  DescriptorTable'
    <2>1. UNCHANGED <<fdConn, accepted, cliFds>>
      BY <1>3 DEF ClientEventIn, ClientEventOut, SendRequestToRealWorker, DealWithResp,
                  kernelVars, cliVars
    <2>2. QED
      BY <1>3, <2>1, QuietTable, EntryKeepsLive
  <1>4. ASSUME NEW r \in RealWorkers,
               \/ ReadReqToken(r) \/ TakeRequests(r) \/ DealWithRequest(r)
               \/ RefuseRequest(r) \/ RequestsDone(r)
        PROVE  DescriptorTable'
    <2>1. UNCHANGED <<fdConn, accepted, cliFds, conns, cpc, ccur>>
      BY <1>4 DEF ReadReqToken, TakeRequests, DealWithRequest, RefuseRequest, RequestsDone,
                  kernelVars, cliVars, connVars, loopVars
    <2>2. QED
      BY <2>1, QuietTable, IdleKeepsLive
  <1>5. ASSUME NEW c \in Conns, NEW fd \in Fds, Accept(c, fd)
        PROVE  DescriptorTable'
    BY <1>5, AcceptTable
  <1>6. ASSUME NEW w \in ConnWorkers, AddClientFdAndNotify(w)
        PROVE  DescriptorTable'
    BY <1>6, HandoverTable
  <1>7. ASSUME NEW w \in ConnWorkers, AddClient(w)
        PROVE  DescriptorTable'
    BY <1>7, RegisterTable
  <1>8. ASSUME NEW w \in ConnWorkers, NEW fd \in Fds, PeerClosed(w, fd) \/ SocketError(w, fd)
        PROVE  DescriptorTable'
    BY <1>8, CloseTable DEF PeerClosed, SocketError
  <1>9. ASSUME NEW w \in ConnWorkers, BadPacket(w)
        PROVE  DescriptorTable'
    <2>1. ccur[w] \in Fds /\ Registered(w, ccur[w])
      BY <1>9 DEF BadPacket, TypeOK
    <2>2. QED
      BY <1>9, <2>1, CloseTable DEF BadPacket
  <1>10. CASE UNCHANGED vars
    BY <1>10, QuietTable, IdleKeepsLive DEF vars, kernelVars, cliVars, connVars, loopVars
  <1>11. QED
    BY <1>1, <1>2, <1>3, <1>4, <1>5, <1>6, <1>7, <1>8, <1>9, <1>10 DEF Next

\* Every open descriptor has exactly one holder, for any number of connections,
\* descriptors and workers.
THEOREM OneHolder == Spec => []DescriptorTable
  <1>1. Init => DescriptorTable
    BY FdsAssumption, EmptySeq DEF Init, DescriptorTable, Queued, Live, Registered
  <1>2. QED
    BY <1>1, TypeCorrect, TableStep, PTL DEF Spec

-----------------------------------------------------------------------------
\* Routing

\* Block b occurs in the sequence s.
In(b, s) == \E i \in 1..Len(s) : s[i] = b

\* Block b is with some worker.
InFlight(b) ==
  \/ \E r \in RealWorkers : In(b, reqQ[r]) \/ In(b, rbatch[r])
  \/ \E w \in ConnWorkers : In(b, respQ[w]) \/ In(b, cbatch[w])

\* If the block's descriptor still has an entry with the block's id, then the
\* entry belongs to the connection the request came from.
Routed(b) ==
  /\ b.id <= uniqueId[b.worker]
  /\ Live(b.worker, b.fd) /\ conns[b.worker][b.fd].id = b.id
       => fdConn[b.fd] = b.real_data[1]

AllRouted == \A b \in OneDataBlock : InFlight(b) => Routed(b)

\* An entry has an id the worker has given out, and what it holds are requests
\* and answers of the descriptor's connection.
EntryOwn(w, fd) ==
  /\ Registered(w, fd) => conns[w][fd].id <= uniqueId[w]
  /\ Live(w, fd) =>
       /\ \A i \in 1..Len(conns[w][fd].req_content) :
            conns[w][fd].req_content[i][1] = fdConn[fd]
       /\ \A i \in 1..Len(conns[w][fd].rsp_content) :
            conns[w][fd].rsp_content[i][1] = fdConn[fd]

AllOwn == \A w \in ConnWorkers, fd \in Fds : EntryOwn(w, fd)

\* The inductive invariant behind RightConnection.
Routing == AllRouted /\ AllOwn /\ RightConnection

\* What a step may do to the ids and to the descriptors of live entries: an
\* entry that is live after it was live with the same id and connection, or
\* got a fresh id.
KeepsIds ==
  /\ \A w \in ConnWorkers : uniqueId[w] <= uniqueId'[w]
  /\ \A w \in ConnWorkers, f \in Fds :
       Live(w, f)' =>
         \/ Live(w, f) /\ conns'[w][f].id = conns[w][f].id /\ fdConn'[f] = fdConn[f]
         \/ uniqueId[w] < conns'[w][f].id

\* Such a step keeps every block routed.
LEMMA RoutedStable ==
  ASSUME TypeOK, TypeOK', KeepsIds, AllRouted,
         \A b \in OneDataBlock : InFlight(b)' => InFlight(b) \/ Routed(b)'
  PROVE  AllRouted'
  <1> SUFFICES ASSUME NEW b \in OneDataBlock, InFlight(b)
               PROVE  Routed(b)'
    BY DEF AllRouted
  <1>1. Routed(b)
    BY DEF AllRouted
  <1>2. /\ b.worker \in ConnWorkers /\ b.fd \in Fds /\ b.id \in Nat
        /\ uniqueId[b.worker] \in Nat /\ uniqueId'[b.worker] \in Nat
    BY DEF OneDataBlock, TypeOK
  <1>3. b.id <= uniqueId'[b.worker]
    BY <1>1, <1>2 DEF Routed, KeepsIds
  <1>4. ASSUME Live(b.worker, b.fd)', conns'[b.worker][b.fd].id = b.id
        PROVE  fdConn'[b.fd] = b.real_data[1]
    BY <1>1, <1>2, <1>4 DEF Routed, KeepsIds
  <1>5. QED
    BY <1>3, <1>4 DEF Routed

\* Moving blocks between sequences invents none.
LEMMA InMoves ==
  ASSUME NEW s \in Seq(OneDataBlock), NEW b, NEW e \in OneDataBlock
  PROVE  /\ In(b, Append(s, e)) => In(b, s) \/ b = e
         /\ s # << >> => In(Head(s), s) /\ (In(b, Tail(s)) => In(b, s))
         /\ ~ In(b, << >>)
  <1>1. In(b, Append(s, e)) => In(b, s) \/ b = e
    BY AppendElements DEF In
  <1>2. Len(s) \in Nat /\ (s # << >> => Len(s) > 0)
    BY EmptySeq, LenProperties
  <1>3. s # << >> => In(Head(s), s)
    BY <1>2, HeadTailProperties DEF In
  <1>4. ASSUME s # << >>, In(b, Tail(s))
        PROVE  In(b, s)
    <2>1. PICK i \in 1..Len(Tail(s)) : Tail(s)[i] = b
      BY <1>4 DEF In
    <2>2. Len(Tail(s)) = Len(s) - 1 /\ Tail(s)[i] = s[i + 1]
      BY <1>4, <2>1, HeadTailProperties
    <2>3. i + 1 \in 1..Len(s) /\ s[i + 1] = b
      BY <1>2, <2>1, <2>2
    <2>4. QED
      BY <2>3 DEF In
  <1>5. ~ In(b, << >>)
    BY EmptySeq DEF In
  <1>6. QED
    BY <1>1, <1>3, <1>4, <1>5

\* Responses are queued with the worker they are for.
AtHome ==
  \A w \in ConnWorkers, b \in OneDataBlock : In(b, respQ[w]) \/ In(b, cbatch[w]) => b.worker = w

\* SendRequestToRealWorker puts the worker into the block, and the RealWorker
\* answers to that worker.
LEMMA AtHomeStep ==
  TypeOK /\ AtHome /\ [Next]_vars => AtHome'
  <1> SUFFICES ASSUME TypeOK, AtHome, [Next]_vars
               PROVE  AtHome'
    OBVIOUS
  <1> USE DEF AtHome
  <1>0. /\ respQ \in [ConnWorkers -> Seq(OneDataBlock)] /\ cbatch \in [ConnWorkers -> Seq(OneDataBlock)]
        /\ \A b : ~ In(b, << >>)
    BY EmptySeq DEF TypeOK, In
  <1>1. CASE UNCHANGED <<respQ, cbatch>>
    BY <1>1
  <1>2. ASSUME NEW w \in ConnWorkers, TakeResponses(w)
        PROVE  AtHome'
    <2>1. /\ cbatch'[w] = respQ[w] /\ respQ'[w] = << >>
          /\ \A v \in ConnWorkers \ {w} : cbatch'[v] = cbatch[v] /\ respQ'[v] = respQ[v]
      BY <1>0, <1>2 DEF TakeResponses
    <2>2. QED
      BY <1>0, <2>1
  <1>3. ASSUME NEW w \in ConnWorkers, DealWithResp(w)
        PROVE  AtHome'
    <2>1. /\ cbatch[w] # << >> /\ cbatch'[w] = Tail(cbatch[w]) /\ respQ' = respQ
          /\ \A v \in ConnWorkers \ {w} : cbatch'[v] = cbatch[v]
      BY <1>0, <1>3 DEF DealWithResp, respVars
    <2>2. \A b \in OneDataBlock : In(b, Tail(cbatch[w])) => In(b, cbatch[w])
      BY <1>0, <2>1, InMoves
    <2>3. QED
      BY <2>1, <2>2
  <1>4. ASSUME NEW r \in RealWorkers, DealWithRequest(r)
        PROVE  AtHome'
    <2>1. PICK e \in OneDataBlock : e = Head(rbatch[r])
      BY <1>4, HeadTailProperties DEF DealWithRequest, TypeOK
    <2>2. e.worker \in ConnWorkers
      BY DEF OneDataBlock
    <2>3. /\ respQ'[e.worker] = Append(respQ[e.worker], e) /\ cbatch' = cbatch
          /\ \A v \in ConnWorkers \ {e.worker} : respQ'[v] = respQ[v]
      BY <1>0, <1>4, <2>1, <2>2 DEF DealWithRequest, loopVars
    <2>4. \A b \in OneDataBlock :
            In(b, Append(respQ[e.worker], e)) => In(b, respQ[e.worker]) \/ b = e
      BY <1>0, <2>2, InMoves
    <2>5. QED
      BY <2>2, <2>3, <2>4
  <1>5. ASSUME NEW c \in Conns,
               \/ ClientSend(c) \/ ClientClose(c) \/ \E fd \in Fds : Accept(c, fd)
        PROVE  UNCHANGED <<respQ, cbatch>>
    BY <1>5 DEF ClientSend, ClientClose, Accept, respVars, loopVars
  <1>6. ASSUME NEW w \in ConnWorkers,
               \/ AddClientFdAndNotify(w) \/ ReadCliToken(w) \/ LockCliFds(w) \/ AddClient(w)
               \/ AddClientsDone(w) \/ DataNotEnough(w) \/ BadPacket(w) \/ EraseConn(w)
               \/ ReadRespToken(w) \/ ResponsesDone(w)
        PROVE  UNCHANGED <<respQ, cbatch>>
    BY <1>6 DEF AddClientFdAndNotify, ReadCliToken, LockCliFds, AddClient, AddClientsDone,
                DataNotEnough, BadPacket, CloseFd, EraseConn, ReadRespToken, ResponsesDone,
                respVars, loopVars
  <1>7. ASSUME NEW w \in ConnWorkers,
               \/ \E r \in RealWorkers : SendRequestToRealWorker(w, r)
               \/ \E fd \in Fds : \/ ClientEventIn(w, fd) \/ ClientEventOut(w, fd)
                                  \/ PeerClosed(w, fd) \/ SocketError(w, fd)
        PROVE  UNCHANGED <<respQ, cbatch>>
    BY <1>7 DEF SendRequestToRealWorker, ClientEventIn, ClientEventOut, PeerClosed,
                SocketError, CloseFd, respVars, loopVars
  <1>8. ASSUME NEW r \in RealWorkers,
               ReadReqToken(r) \/ TakeRequests(r) \/ RefuseRequest(r) \/ RequestsDone(r)
        PROVE  UNCHANGED <<respQ, cbatch>>
    BY <1>8 DEF ReadReqToken, TakeRequests, RefuseRequest, RequestsDone, respVars, loopVars
  <1>9. CASE UNCHANGED vars
    BY <1>1, <1>9 DEF vars, respVars, loopVars
  <1> HIDE DEF AtHome
  <1>10. QED
    BY <1>1, <1>2, <1>3, <1>4, <1>5, <1>6, <1>7, <1>8, <1>9 DEF Next

\* A step that changes no entry, no descriptor and no answer, and only moves
\* blocks, keeps the routing.
LEMMA QuietRouting ==
  ASSUME TypeOK, TypeOK', Routing, UNCHANGED <<fdConn, conns, uniqueId, got>>,
         \A v \in ConnWorkers, f \in Fds : Live(v, f)' <=> Live(v, f),
         \A b \in OneDataBlock : InFlight(b)' => InFlight(b)
  PROVE  Routing'
  <1>1. KeepsIds
    BY DEF KeepsIds, TypeOK
  <1>2. AllRouted'
    BY <1>1, RoutedStable DEF Routing
  <1>3. AllOwn'
    BY DEF Routing, AllOwn, EntryOwn, Registered
  <1>4. RightConnection'
    BY DEF Routing, RightConnection
  <1>5. QED
    BY <1>2, <1>3, <1>4 DEF Routing

\* The RealWorkers only move blocks.
LEMMA RealFlight ==
  ASSUME TypeOK, NEW r \in RealWorkers,
         \/ ReadReqToken(r) \/ TakeRequests(r) \/ DealWithRequest(r)
         \/ RefuseRequest(r) \/ RequestsDone(r)
  PROVE  /\ UNCHANGED <<fdConn, conns, uniqueId, got, cpc, ccur, cbatch>>
         /\ \A b \in OneDataBlock : InFlight(b)' => InFlight(b)
  <1>1. UNCHANGED <<fdConn, conns, uniqueId, got, cpc, ccur, cbatch>>
    BY DEF ReadReqToken, TakeRequests, DealWithRequest, RefuseRequest, RequestsDone,
           kernelVars, connVars, loopVars
  <1>2. \A b \in OneDataBlock : InFlight(b)' => InFlight(b)
    <2>1. CASE ReadReqToken(r) \/ RequestsDone(r)
      BY <1>1, <2>1 DEF ReadReqToken, RequestsDone, respVars, InFlight
    <2>2. CASE TakeRequests(r)
      <3>1. /\ rbatch'[r] = reqQ[r] /\ reqQ'[r] = << >>
            /\ \A q \in RealWorkers \ {r} : rbatch'[q] = rbatch[q] /\ reqQ'[q] = reqQ[q]
            /\ respQ' = respQ
        BY <2>2 DEF TakeRequests, TypeOK, respVars
      <3>2. \A b : ~ In(b, << >>)
        BY EmptySeq DEF In
      <3>3. QED
        BY <1>1, <3>1, <3>2 DEF InFlight
    <2>3. CASE RefuseRequest(r)
      <3>1. /\ rbatch[r] # << >> /\ rbatch'[r] = Tail(rbatch[r])
            /\ \A q \in RealWorkers \ {r} : rbatch'[q] = rbatch[q]
            /\ reqQ' = reqQ /\ respQ' = respQ /\ rbatch[r] \in Seq(OneDataBlock)
        BY <2>3 DEF RefuseRequest, TypeOK, respVars
      <3>2. \A b \in OneDataBlock : In(b, Tail(rbatch[r])) => In(b, rbatch[r])
        BY <3>1, InMoves
      <3>3. QED
        BY <1>1, <3>1, <3>2 DEF InFlight
    <2>4. CASE DealWithRequest(r)
      <3>1. /\ rbatch[r] # << >> /\ rbatch'[r] = Tail(rbatch[r])
            /\ \A q \in RealWorkers \ {r} : rbatch'[q] = rbatch[q]
            /\ reqQ' = reqQ /\ rbatch[r] \in Seq(OneDataBlock)
        BY <2>4 DEF DealWithRequest, TypeOK
      <3>2. PICK e \in OneDataBlock : e = Head(rbatch[r])
        BY <3>1, HeadTailProperties
      <3>3. PICK w \in ConnWorkers : w = e.worker
        BY DEF OneDataBlock
      <3>4. /\ respQ'[w] = Append(respQ[w], e) /\ respQ[w] \in Seq(OneDataBlock)
            /\ \A v \in ConnWorkers \ {w} : respQ'[v] = respQ[v]
        BY <2>4, <3>2, <3>3 DEF DealWithRequest, TypeOK
      <3>5. \A b \in OneDataBlock : In(b, Append(respQ[w], e)) => In(b, respQ[w]) \/ b = e
        BY <3>4, InMoves
      <3>6. \A b \in OneDataBlock : In(b, Tail(rbatch[r])) => In(b, rbatch[r])
        BY <3>1, InMoves
      <3>7. In(e, rbatch[r])
        BY <3>1, <3>2, InMoves
      <3>8. QED
        BY <1>1, <3>1, <3>4, <3>5, <3>6, <3>7 DEF InFlight
    <2>5. QED
      BY <2>1, <2>2, <2>3, <2>4
  <1>3. QED
    BY <1>1, <1>2

\* So they keep the routing.
LEMMA RealRouting ==
  ASSUME TypeOK, TypeOK', Routing, NEW r \in RealWorkers,
         \/ ReadReqToken(r) \/ TakeRequests(r) \/ DealWithRequest(r)
         \/ RefuseRequest(r) \/ RequestsDone(r)
  PROVE  Routing'
  <1>1. /\ UNCHANGED <<fdConn, conns, uniqueId, got, cpc, ccur, cbatch>>
        /\ \A b \in OneDataBlock : InFlight(b)' => InFlight(b)
    BY RealFlight
  <1>2. QED
    BY <1>1, IdleKeepsLive, QuietRouting

\* An entry that is unchanged, or live no longer, keeps its invariant.
LEMMA OwnStable ==
  ASSUME TypeOK, TypeOK', AllOwn, NEW w \in ConnWorkers, NEW f \in Fds,
         conns'[w][f] = conns[w][f], uniqueId[w] <= uniqueId'[w],
         Live(w, f)' => Live(w, f) /\ fdConn'[f] = fdConn[f]
  PROVE  EntryOwn(w, f)'
  <1>1. EntryOwn(w, f)
    BY DEF AllOwn
  <1>2. Registered(w, f)' <=> Registered(w, f)
    BY DEF Registered
  <1>3. Registered(w, f) => conns[w][f].id \in Nat
    BY DEF Registered, TypeOK, TcpConn
  <1>4. Registered(w, f)' => conns'[w][f].id <= uniqueId'[w]
    BY <1>1, <1>2, <1>3 DEF EntryOwn, TypeOK
  <1>5. QED
    BY <1>1, <1>4 DEF EntryOwn

\* The handlers of a ConnWorker that touch no entry.
LEMMA HandlerFlight ==
  ASSUME TypeOK, NEW w \in ConnWorkers,
         \/ ReadCliToken(w) \/ LockCliFds(w) \/ AddClientsDone(w) \/ DataNotEnough(w)
         \/ ReadRespToken(w) \/ TakeResponses(w) \/ ResponsesDone(w)
  PROVE  /\ UNCHANGED <<fdConn, conns, uniqueId, got, reqQ, rbatch>>
         /\ \A b \in OneDataBlock : InFlight(b)' => InFlight(b)
         /\ \A v \in ConnWorkers, f \in Fds : Live(v, f)' <=> Live(v, f)
  <1>1. UNCHANGED <<fdConn, conns, uniqueId, got, reqQ, rbatch>>
    BY DEF ReadCliToken, LockCliFds, AddClientsDone, DataNotEnough, ReadRespToken,
           TakeResponses, ResponsesDone, kernelVars, connVars, realVars
  <1>2. \A b \in OneDataBlock : InFlight(b)' => InFlight(b)
    <2>1. CASE TakeResponses(w)
      <3>1. /\ cbatch'[w] = respQ[w] /\ respQ'[w] = << >>
            /\ \A v \in ConnWorkers \ {w} : cbatch'[v] = cbatch[v] /\ respQ'[v] = respQ[v]
        BY <2>1 DEF TakeResponses, TypeOK
      <3>2. \A b : ~ In(b, << >>)
        BY EmptySeq DEF In
      <3>3. QED
        BY <1>1, <3>1, <3>2 DEF InFlight
    <2>2. CASE ~ TakeResponses(w)
      <3>1. UNCHANGED <<respQ, cbatch>>
        BY <2>2 DEF ReadCliToken, LockCliFds, AddClientsDone, DataNotEnough, ReadRespToken,
                    ResponsesDone, respVars
      <3>2. QED
        BY <1>1, <3>1 DEF InFlight
    <2>3. QED
      BY <2>1, <2>2
  <1>3. \A v \in ConnWorkers, f \in Fds : Live(v, f)' <=> Live(v, f)
    BY HandlerKeepsLive
  <1>4. QED
    BY <1>1, <1>2, <1>3

\* They keep the routing.
LEMMA HandlerRouting ==
  ASSUME TypeOK, TypeOK', Routing, NEW w \in ConnWorkers,
         \/ ReadCliToken(w) \/ LockCliFds(w) \/ AddClientsDone(w) \/ DataNotEnough(w)
         \/ ReadRespToken(w) \/ TakeResponses(w) \/ ResponsesDone(w)
  PROVE  Routing'
  BY HandlerFlight, QuietRouting

\* accept() concerns a descriptor without live entry.
LEMMA AcceptRouting ==
  ASSUME TypeOK, TypeOK', DescriptorTable, Routing,
         NEW c \in Conns, NEW fd \in Fds, Accept(c, fd)
  PROVE  Routing'
  <1>1. /\ UNCHANGED <<conns, uniqueId, got, cpc, ccur, reqQ, rbatch, respQ, cbatch>>
        /\ fdConn[fd] = NoConn
        /\ \A f \in Fds \ {fd} : fdConn'[f] = fdConn[f]
    BY DEF Accept, TypeOK, connVars, loopVars, respVars, realVars
  <1>2. \A v \in ConnWorkers, f \in Fds : Live(v, f)' <=> Live(v, f)
    BY <1>1, IdleKeepsLive
  <1>3. \A v \in ConnWorkers : ~ Live(v, fd)
    BY <1>1 DEF DescriptorTable
  <1>4. KeepsIds
    BY <1>1, <1>2, <1>3, SMTT(30) DEF KeepsIds, TypeOK
  <1>5. \A b \in OneDataBlock : InFlight(b)' => InFlight(b)
    BY <1>1 DEF InFlight
  <1>6. AllRouted'
    BY <1>4, <1>5, RoutedStable DEF Routing
  <1>7. ASSUME NEW v \in ConnWorkers, NEW f \in Fds
        PROVE  EntryOwn(v, f)'
    <2>1. /\ conns'[v][f] = conns[v][f] /\ uniqueId[v] <= uniqueId'[v]
          /\ Live(v, f)' => Live(v, f) /\ fdConn'[f] = fdConn[f]
      BY <1>1, <1>2, <1>3, SMTT(30) DEF TypeOK
    <2>2. QED
      BY <2>1, OwnStable DEF Routing
  <1>8. RightConnection'
    BY <1>1 DEF Routing, RightConnection
  <1>9. QED
    BY <1>6, <1>7, <1>8 DEF Routing, AllOwn

\* A new entry has a fresh id and is empty.
LEMMA RegisterRouting ==
  ASSUME TypeOK, TypeOK', DescriptorTable, Routing, NEW w \in ConnWorkers, AddClient(w)
  PROVE  Routing'
  <1>0. /\ \A v \in ConnWorkers : uniqueId[v] \in Nat
        /\ conns \in [ConnWorkers -> [Fds -> TcpConn \cup {NoConn}]]
    BY DEF TypeOK
  <1>1. PICK fd \in Fds :
          /\ fd = Head(cliFds[w]) /\ ~ Registered(w, fd)
          /\ \A v \in ConnWorkers, f \in Fds : Live(v, f)' <=> Live(v, f) \/ (v = w /\ f = fd)
    BY RegisterTable
  <1> DEFINE d == [id |-> uniqueId[w] + 1, req_content |-> << >>, rsp_content |-> << >>,
                   out |-> FALSE]
  <1>2. conns' = [conns EXCEPT ![w][fd] = d] /\ uniqueId' = [uniqueId EXCEPT ![w] = @ + 1]
    BY <1>1 DEF AddClient, Registered
  <1>3. UNCHANGED <<fdConn, got, reqQ, rbatch, respQ, cbatch>>
    BY DEF AddClient, kernelVars, respVars, loopVars, realVars
  <1>4. /\ uniqueId[w] \in Nat /\ uniqueId'[w] = uniqueId[w] + 1
        /\ \A v \in ConnWorkers \ {w} : uniqueId'[v] = uniqueId[v]
        /\ conns'[w][fd] = d
        /\ \A v \in ConnWorkers, f \in Fds : v # w \/ f # fd => conns'[v][f] = conns[v][f]
    BY <1>2 DEF TypeOK
  <1>5. d.id = uniqueId[w] + 1 /\ Len(d.req_content) = 0 /\ Len(d.rsp_content) = 0
    BY EmptySeq
  <1> HIDE DEF d
  <1>6. KeepsIds
    BY <1>0, <1>1, <1>3, <1>4, <1>5 DEF KeepsIds
  <1>7. \A b \in OneDataBlock : InFlight(b)' => InFlight(b)
    BY <1>3 DEF InFlight
  <1>8. AllRouted'
    BY <1>6, <1>7, RoutedStable DEF Routing
  <1>9. ASSUME NEW v \in ConnWorkers, NEW f \in Fds
        PROVE  EntryOwn(v, f)'
    <2>1. CASE v = w /\ f = fd
      BY <1>4, <1>5, <2>1 DEF EntryOwn
    <2>2. CASE v # w \/ f # fd
      <3>1. /\ conns'[v][f] = conns[v][f] /\ uniqueId[v] <= uniqueId'[v]
            /\ Live(v, f)' => Live(v, f) /\ fdConn'[f] = fdConn[f]
        BY <1>0, <1>1, <1>3, <1>4, <2>2
      <3>2. QED
        BY <3>1, OwnStable DEF Routing
    <2>3. QED
      BY <2>1, <2>2
  <1>10. RightConnection'
    BY <1>3 DEF Routing, RightConnection
  <1>11. QED
    BY <1>8, <1>9, <1>10 DEF Routing, AllOwn

\* Closing and erasing make entries disappear and change no other.
LEMMA CloseRouting ==
  ASSUME TypeOK, TypeOK', DescriptorTable, Routing, NEW w \in ConnWorkers, NEW fd \in Fds,
         \/ Registered(w, fd) /\ cpc[w] # "closing" /\ CloseFd(w, fd)
         \/ fd = ccur[w] /\ EraseConn(w)
  PROVE  Routing'
  <1>0. /\ \A v \in ConnWorkers : uniqueId[v] \in Nat
        /\ conns \in [ConnWorkers -> [Fds -> TcpConn \cup {NoConn}]]
    BY DEF TypeOK
  <1>1. UNCHANGED <<uniqueId, got, reqQ, rbatch, respQ, cbatch>>
    BY DEF CloseFd, EraseConn, kernelVars, connVars, respVars, realVars
  <1>2. \A v \in ConnWorkers, f \in Fds :
          Live(v, f)' => /\ Live(v, f) /\ conns'[v][f] = conns[v][f]
                         /\ fdConn'[f] = fdConn[f]
    <2>1. CASE Registered(w, fd) /\ cpc[w] # "closing" /\ CloseFd(w, fd)
      <3>1. \A v \in ConnWorkers, f \in Fds : Live(v, f)' <=> Live(v, f) /\ f # fd
        BY <2>1, CloseTable
      <3>2. conns' = conns /\ \A f \in Fds \ {fd} : fdConn'[f] = fdConn[f]
        BY <2>1 DEF CloseFd, TypeOK, connVars
      <3>3. QED
        BY <3>1, <3>2
    <2>2. CASE fd = ccur[w] /\ EraseConn(w)
      <3>1. \A v \in ConnWorkers, f \in Fds : Live(v, f)' <=> Live(v, f)
        BY <2>2, HandlerKeepsLive
      <3>2. /\ fdConn' = fdConn /\ conns'[w][fd] = NoConn
            /\ \A v \in ConnWorkers, f \in Fds : v # w \/ f # fd => conns'[v][f] = conns[v][f]
        BY <2>2 DEF EraseConn, TypeOK, kernelVars
      <3>3. ~ Live(w, fd)'
        BY <3>2 DEF Live, Registered
      <3>4. QED
        BY <3>1, <3>2, <3>3
    <2>3. QED
      BY <2>1, <2>2
  <1>3. \A v \in ConnWorkers, f \in Fds : conns'[v][f] = conns[v][f] \/ conns'[v][f] = NoConn
    BY <1>0 DEF CloseFd, EraseConn, connVars
  <1>4. KeepsIds
    BY <1>0, <1>1, <1>2 DEF KeepsIds
  <1>5. \A b \in OneDataBlock : InFlight(b)' => InFlight(b)
    BY <1>1 DEF InFlight
  <1>6. AllRouted'
    BY <1>4, <1>5, RoutedStable DEF Routing
  <1>7. ASSUME NEW v \in ConnWorkers, NEW f \in Fds
        PROVE  EntryOwn(v, f)'
    <2>1. CASE conns'[v][f] = NoConn
      BY <2>1 DEF EntryOwn, Live, Registered
    <2>2. CASE conns'[v][f] = conns[v][f]
      <3>1. /\ uniqueId[v] <= uniqueId'[v]
            /\ Live(v, f)' => Live(v, f) /\ fdConn'[f] = fdConn[f]
        BY <1>0, <1>1, <1>2
      <3>2. QED
        BY <2>2, <3>1, OwnStable DEF Routing
    <2>3. QED
      BY <1>3, <2>1, <2>2
  <1>8. RightConnection'
    BY <1>1 DEF Routing, RightConnection
  <1>9. QED
    BY <1>6, <1>7, <1>8 DEF Routing, AllOwn

\* A handler that replaces one live entry by another of the same id, whose
\* contents are the connection's own, and adds only routed blocks.
LEMMA UpdateRouting ==
  ASSUME TypeOK, TypeOK', Routing, NEW w \in ConnWorkers, NEW fd \in Fds, NEW d \in TcpConn,
         Live(w, fd), UNCHANGED <<fdConn, uniqueId>>,
         conns' = [conns EXCEPT ![w][fd] = d], d.id = conns[w][fd].id,
         \A v \in ConnWorkers, f \in Fds : Live(v, f)' <=> Live(v, f),
         \A i \in 1..Len(d.req_content) : d.req_content[i][1] = fdConn[fd],
         \A i \in 1..Len(d.rsp_content) : d.rsp_content[i][1] = fdConn[fd],
         \A b \in OneDataBlock : InFlight(b)' => InFlight(b) \/ Routed(b)'
  PROVE  AllRouted' /\ AllOwn'
  <1>1. /\ \A v \in ConnWorkers : uniqueId[v] \in Nat
        /\ conns \in [ConnWorkers -> [Fds -> TcpConn \cup {NoConn}]]
    BY DEF TypeOK
  <1>2. /\ conns'[w][fd] = d
        /\ \A v \in ConnWorkers, f \in Fds : v # w \/ f # fd => conns'[v][f] = conns[v][f]
    BY <1>1
  <1>3. KeepsIds
    BY <1>1, <1>2 DEF KeepsIds
  <1>4. AllRouted'
    BY <1>3, RoutedStable DEF Routing
  <1>5. ASSUME NEW v \in ConnWorkers, NEW f \in Fds
        PROVE  EntryOwn(v, f)'
    <2>1. CASE v = w /\ f = fd
      <3>1. conns[w][fd].id <= uniqueId[w]
        BY DEF Routing, AllOwn, EntryOwn, Live
      <3>2. QED
        BY <1>2, <2>1, <3>1 DEF EntryOwn
    <2>2. CASE v # w \/ f # fd
      <3>1. /\ conns'[v][f] = conns[v][f] /\ uniqueId[v] <= uniqueId'[v]
            /\ Live(v, f)' => Live(v, f) /\ fdConn'[f] = fdConn[f]
        BY <1>1, <1>2, <2>2
      <3>2. QED
        BY <3>1, OwnStable DEF Routing
    <2>3. QED
      BY <2>1, <2>2
  <1>6. QED
    BY <1>4, <1>5 DEF AllOwn

\* What a read appends belongs to the descriptor's connection.
LEMMA ReadRouting ==
  ASSUME TypeOK, TypeOK', Routing, NEW w \in ConnWorkers, NEW fd \in Fds, ClientEventIn(w, fd)
  PROVE  Routing'
  <1>1. PICK d \in TcpConn, k \in Nat : ReadTo(w, fd, d, k)
    BY ReadEffect
  <1>2. Live(w, fd)
    BY DEF ClientEventIn, Live, Closing
  <1>3. UNCHANGED <<fdConn, uniqueId, got, reqQ, rbatch, respQ, cbatch>>
    BY DEF ClientEventIn, respVars, realVars
  <1>4. \A v \in ConnWorkers, f \in Fds : Live(v, f)' <=> Live(v, f)
    BY EntryKeepsLive
  <1>5. /\ conns' = [conns EXCEPT ![w][fd] = d] /\ d.id = conns[w][fd].id
        /\ d.rsp_content = conns[w][fd].rsp_content
    BY <1>1 DEF ReadTo
  <1>6. EntryOwn(w, fd)
    BY DEF Routing, AllOwn
  <1>7. \A i \in 1..Len(d.req_content) : d.req_content[i][1] = fdConn[fd]
    BY <1>1, <1>2, <1>6 DEF ReadTo, EntryOwn
  <1>8. \A i \in 1..Len(d.rsp_content) : d.rsp_content[i][1] = fdConn[fd]
    BY <1>2, <1>5, <1>6 DEF EntryOwn
  <1>9. \A b \in OneDataBlock : InFlight(b)' => InFlight(b)
    BY <1>3 DEF InFlight
  <1>10. AllRouted' /\ AllOwn'
    BY <1>2, <1>3, <1>4, <1>5, <1>7, <1>8, <1>9, UpdateRouting
  <1>11. RightConnection'
    BY <1>3 DEF Routing, RightConnection
  <1>12. QED
    BY <1>10, <1>11 DEF Routing

\* A dispatched block carries the id, descriptor and connection of its entry.
LEMMA DispatchRouting ==
  ASSUME TypeOK, TypeOK', Routing, NEW w \in ConnWorkers, NEW r \in RealWorkers,
         SendRequestToRealWorker(w, r)
  PROVE  Routing'
  <1>1. PICK fd \in Fds : fd = ccur[w]
    BY DispatchEffect
  <1>2. PICK d \in TcpConn, e \in OneDataBlock : DispatchTo(w, r, fd, d, e)
    BY <1>1, DispatchEffect
  <1>3. Live(w, fd)
    BY <1>1 DEF SendRequestToRealWorker, Live, Closing, TypeOK
  <1>4. UNCHANGED <<fdConn, uniqueId, got, rbatch, respQ, cbatch>>
    BY DEF SendRequestToRealWorker, kernelVars, respVars, loopVars
  <1>5. \A v \in ConnWorkers, f \in Fds : Live(v, f)' <=> Live(v, f)
    BY EntryKeepsLive
  <1>6. /\ conns' = [conns EXCEPT ![w][fd] = d] /\ d.id = conns[w][fd].id
        /\ d.rsp_content = conns[w][fd].rsp_content
        /\ e.id = conns[w][fd].id /\ e.fd = fd /\ e.worker = w
    BY <1>2 DEF DispatchTo
  <1>7. EntryOwn(w, fd)
    BY DEF Routing, AllOwn
  <1>8. \A i \in 1..Len(d.req_content) : d.req_content[i][1] = fdConn[fd]
    BY <1>2, <1>3, <1>7, SMTT(30) DEF DispatchTo, ElementsFrom, EntryOwn
  <1>9. \A i \in 1..Len(d.rsp_content) : d.rsp_content[i][1] = fdConn[fd]
    BY <1>3, <1>6, <1>7 DEF EntryOwn
  <1>10. e.real_data[1] = fdConn[fd]
    BY <1>2, <1>3, <1>7 DEF DispatchTo, EntryOwn
  <1>11. Routed(e)'
    <2>1. e.id <= uniqueId[w]
      BY <1>3, <1>6, <1>7 DEF EntryOwn, Live
    <2>2. QED
      BY <1>4, <1>6, <1>10, <2>1 DEF Routed
  <1>12. \A b \in OneDataBlock : InFlight(b)' => InFlight(b) \/ Routed(b)'
    <2>1. reqQ \in [RealWorkers -> Seq(OneDataBlock)]
      BY DEF TypeOK
    <2>2. /\ reqQ'[r] = Append(reqQ[r], e)
          /\ \A q \in RealWorkers \ {r} : reqQ'[q] = reqQ[q]
      BY <1>2, <2>1 DEF DispatchTo
    <2>3. \A b \in OneDataBlock : In(b, Append(reqQ[r], e)) => In(b, reqQ[r]) \/ b = e
      BY <2>1, InMoves
    <2>4. QED
      BY <1>4, <1>11, <2>2, <2>3 DEF InFlight
  <1>13. AllRouted' /\ AllOwn'
    BY <1>3, <1>4, <1>5, <1>6, <1>8, <1>9, <1>12, UpdateRouting
  <1>14. RightConnection'
    BY <1>4 DEF Routing, RightConnection
  <1>15. QED
    BY <1>13, <1>14 DEF Routing

\* A response is appended to an entry with the block's descriptor and id, which
\* is therefore the entry of the connection that asked.
LEMMA RespondRouting ==
  ASSUME TypeOK, TypeOK', AtHome, Routing, NEW w \in ConnWorkers, DealWithResp(w)
  PROVE  Routing'
  <1>1. PICK e \in OneDataBlock : e = Head(cbatch[w])
    BY RespondEffect
  <1>2. UNCHANGED <<fdConn, uniqueId, got, reqQ, rbatch, respQ, cpc, ccur>>
    BY DEF DealWithResp, kernelVars, respVars, realVars
  <1>3. /\ cbatch[w] # << >> /\ cbatch[w] \in Seq(OneDataBlock)
        /\ cbatch'[w] = Tail(cbatch[w])
        /\ \A v \in ConnWorkers \ {w} : cbatch'[v] = cbatch[v]
    BY DEF DealWithResp, TypeOK
  <1>4. \A b \in OneDataBlock : InFlight(b)' => InFlight(b)
    <2>1. \A b \in OneDataBlock : In(b, Tail(cbatch[w])) => In(b, cbatch[w])
      BY <1>3, InMoves
    <2>2. QED
      BY <1>2, <1>3, <2>1 DEF InFlight
  <1>5. \A v \in ConnWorkers, f \in Fds : Live(v, f)' <=> Live(v, f)
    BY EntryKeepsLive
  <1>6. CASE conns' = conns
    BY <1>2, <1>4, <1>5, <1>6, QuietRouting
  <1>7. ASSUME NEW d \in TcpConn, RespondTo(w, e, d)
        PROVE  Routing'
    <2>1. PICK fd \in Fds : fd = e.fd
      BY DEF OneDataBlock
    <2>2. Live(w, fd) /\ conns[w][fd].id = e.id
      BY <1>7, <2>1 DEF RespondTo, Matches, Live, Closing, DealWithResp
    <2>3. InFlight(e)
      BY <1>1, <1>3, InMoves DEF InFlight
    <2>4. Routed(e)
      BY <2>3 DEF Routing, AllRouted
    <2>5. e.real_data[1] = fdConn[fd]
      <3>1. e.worker = w
        BY <1>1, <1>3, InMoves DEF AtHome
      <3>2. QED
        BY <2>1, <2>2, <2>4, <3>1 DEF Routed
    <2>6. EntryOwn(w, fd)
      BY DEF Routing, AllOwn
    <2>7. /\ conns' = [conns EXCEPT ![w][fd] = d] /\ d.id = conns[w][fd].id
          /\ d.req_content = conns[w][fd].req_content
      BY <1>7, <2>1 DEF RespondTo
    <2>8. \A i \in 1..Len(d.rsp_content) : d.rsp_content[i][1] = fdConn[fd]
      BY <1>7, <2>1, <2>2, <2>5, <2>6 DEF RespondTo, EntryOwn
    <2>9. \A i \in 1..Len(d.req_content) : d.req_content[i][1] = fdConn[fd]
      BY <2>2, <2>6, <2>7 DEF EntryOwn
    <2>10. AllRouted' /\ AllOwn'
      BY <1>2, <1>4, <1>5, <2>2, <2>7, <2>8, <2>9, UpdateRouting
    <2>11. RightConnection'
      BY <1>2 DEF Routing, RightConnection
    <2>12. QED
      BY <2>10, <2>11 DEF Routing
  <1>8. QED
    BY <1>1, <1>6, <1>7, RespondEffect

\* What is written to a client are answers of its own entry.
LEMMA WriteRouting ==
  ASSUME TypeOK, TypeOK', Routing, NEW w \in ConnWorkers, NEW fd \in Fds, ClientEventOut(w, fd)
  PROVE  Routing'
  <1>1. PICK d \in TcpConn, s \in Seq(Request) : WriteTo(w, fd, d, s)
    BY WriteEffect
  <1>2. Live(w, fd)
    BY DEF ClientEventOut, Live, Closing
  <1>3. UNCHANGED <<fdConn, uniqueId, reqQ, rbatch, respQ, cbatch>>
    BY DEF ClientEventOut, respVars, loopVars, realVars
  <1>4. \A v \in ConnWorkers, f \in Fds : Live(v, f)' <=> Live(v, f)
    BY EntryKeepsLive
  <1>5. /\ conns' = [conns EXCEPT ![w][fd] = d] /\ d.id = conns[w][fd].id
        /\ d.req_content = conns[w][fd].req_content
    BY <1>1 DEF WriteTo
  <1>6. EntryOwn(w, fd)
    BY DEF Routing, AllOwn
  <1>7. /\ \A i \in 1..Len(d.rsp_content) : d.rsp_content[i][1] = fdConn[fd]
        /\ \A i \in 1..Len(s) : s[i][1] = fdConn[fd]
    BY <1>1, <1>2, <1>6 DEF WriteTo, ElementsFrom, EntryOwn
  <1>8. \A i \in 1..Len(d.req_content) : d.req_content[i][1] = fdConn[fd]
    BY <1>2, <1>5, <1>6 DEF EntryOwn
  <1>9. \A b \in OneDataBlock : InFlight(b)' => InFlight(b)
    BY <1>3 DEF InFlight
  <1>10. AllRouted' /\ AllOwn'
    BY <1>2, <1>3, <1>4, <1>5, <1>7, <1>8, <1>9, UpdateRouting
  <1>11. RightConnection'
    <2>1. PICK c \in Conns : c = fdConn[fd]
      BY WriteEffect
    <2>2. got \in [Conns -> Seq(Request)]
      BY DEF TypeOK
    <2>3. /\ got'[c] = got[c] \o s
          /\ \A x \in Conns \ {c} : got'[x] = got[x]
      BY <1>1, <2>1, <2>2 DEF WriteTo
    <2>4. \A i \in 1..Len(got[c] \o s) :
            \/ \E j \in 1..Len(got[c]) : (got[c] \o s)[i] = got[c][j]
            \/ \E j \in 1..Len(s) : (got[c] \o s)[i] = s[j]
      BY <2>2, ConcatElements
    <2>5. \A i \in 1..Len(got[c]) : got[c][i][1] = c
      BY DEF Routing, RightConnection
    <2>6. ASSUME NEW u, u = got[c] \o s, NEW i \in 1..Len(u)
          PROVE  u[i][1] = c
      <3>1. \/ \E j \in 1..Len(got[c]) : u[i] = got[c][j]
            \/ \E j \in 1..Len(s) : u[i] = s[j]
        BY <2>4, <2>6
      <3>2. QED
        BY <1>7, <2>1, <2>5, <3>1
    <2>7. QED
      BY <2>3, <2>6 DEF Routing, RightConnection
  <1>12. QED
    BY <1>10, <1>11 DEF Routing

\* Every step keeps the routing.
LEMMA RoutingStep ==
  TypeOK /\ TypeOK' /\ DescriptorTable /\ AtHome /\ Routing /\ [Next]_vars => Routing'
  <1> SUFFICES ASSUME TypeOK, TypeOK', DescriptorTable, AtHome, Routing, [Next]_vars
               PROVE  Routing'
    OBVIOUS
  <1>1. ASSUME UNCHANGED <<fdConn, conns, uniqueId, got, cpc, ccur, respQ, cbatch, reqQ, rbatch>>
        PROVE  Routing'
    BY <1>1, QuietRouting, IdleKeepsLive DEF InFlight
  <1>2. ASSUME NEW c \in Conns, ClientSend(c) \/ ClientClose(c)
        PROVE  Routing'
    BY <1>1, <1>2 DEF ClientSend, ClientClose, connVars, loopVars, respVars, realVars
  <1>3. ASSUME NEW w \in ConnWorkers, AddClientFdAndNotify(w)
        PROVE  Routing'
    BY <1>1, <1>3 DEF AddClientFdAndNotify, kernelVars, connVars, loopVars, respVars, realVars
  <1>4. ASSUME NEW c \in Conns, NEW fd \in Fds, Accept(c, fd)
        PROVE  Routing'
    BY <1>4, AcceptRouting
  <1>5. ASSUME NEW w \in ConnWorkers,
               \/ ReadCliToken(w) \/ LockCliFds(w) \/ AddClientsDone(w) \/ DataNotEnough(w)
               \/ ReadRespToken(w) \/ TakeResponses(w) \/ ResponsesDone(w)
        PROVE  Routing'
    BY <1>5, HandlerRouting
  <1>6. ASSUME NEW w \in ConnWorkers, AddClient(w)
        PROVE  Routing'
    BY <1>6, RegisterRouting
  <1>7. ASSUME NEW w \in ConnWorkers, NEW fd \in Fds, PeerClosed(w, fd) \/ SocketError(w, fd)
        PROVE  Routing'
    BY <1>7, CloseRouting DEF PeerClosed, SocketError
  <1>8. ASSUME NEW w \in ConnWorkers, BadPacket(w) \/ EraseConn(w)
        PROVE  Routing'
    <2>1. ccur[w] \in Fds /\ Registered(w, ccur[w])
      BY <1>8 DEF BadPacket, EraseConn, TypeOK
    <2>2. QED
      BY <1>8, <2>1, CloseRouting DEF BadPacket
  <1>9. ASSUME NEW w \in ConnWorkers, NEW fd \in Fds, ClientEventIn(w, fd) \/ ClientEventOut(w, fd)
        PROVE  Routing'
    BY <1>9, ReadRouting, WriteRouting
  <1>10. ASSUME NEW w \in ConnWorkers, NEW r \in RealWorkers, SendRequestToRealWorker(w, r)
         PROVE  Routing'
    BY <1>10, DispatchRouting
  <1>11. ASSUME NEW w \in ConnWorkers, DealWithResp(w)
         PROVE  Routing'
    BY <1>11, RespondRouting
  <1>12. ASSUME NEW r \in RealWorkers,
                \/ ReadReqToken(r) \/ TakeRequests(r) \/ DealWithRequest(r)
                \/ RefuseRequest(r) \/ RequestsDone(r)
         PROVE  Routing'
    BY <1>12, RealRouting
  <1>13. CASE UNCHANGED vars
    BY <1>1, <1>13 DEF vars, kernelVars, connVars, loopVars, respVars, realVars
  <1>14. QED
    BY <1>2, <1>3, <1>4, <1>5, <1>6, <1>7, <1>8, <1>9, <1>10, <1>11, <1>12, <1>13 DEF Next

\* Nothing is on the way at the start.
LEMMA RoutingInit == Init => AtHome /\ Routing
  <1> SUFFICES ASSUME Init
               PROVE  AtHome /\ Routing
    OBVIOUS
  <1>1. \A b : ~ In(b, << >>)
    BY EmptySeq DEF In
  <1>2. AtHome /\ AllRouted
    BY <1>1 DEF Init, AtHome, AllRouted, InFlight
  <1>3. AllOwn
    BY DEF Init, AllOwn, EntryOwn, Live, Registered
  <1>4. RightConnection
    BY EmptySeq DEF Init, RightConnection
  <1>5. QED
    BY <1>2, <1>3, <1>4 DEF Routing

\* Answers reach only the connection that asked, for any number of connections,
\* workers and reused descriptors.
THEOREM AnswersToAsker == Spec => []RightConnection
  <1>1. Init => AtHome /\ Routing
    BY RoutingInit
  <1>2. Routing => RightConnection
    BY DEF Routing
  <1>3. QED
    BY <1>1, <1>2, TypeCorrect, OneHolder, AtHomeStep, RoutingStep, PTL DEF Spec

-----------------------------------------------------------------------------
\* Every request is in one place

\* A set with at most one member.
Lone(S) == \A x, y \in S : x = y

\* The containers that hold request q, one set of indices for each kind.
InReqQ(q) == {r \in RealWorkers : InBlocks(q, reqQ[r]) # {}}
InDeal(q) == {r \in RealWorkers : InBlocks(q, rbatch[r]) # {}}
InRespQ(q) == {w \in ConnWorkers : InBlocks(q, respQ[w]) # {}}
InResp(q) == {w \in ConnWorkers : InBlocks(q, cbatch[w]) # {}}
InRsp(q) == {e \in LiveEntries : At(q, conns[e[1]][e[2]].rsp_content) # {}}
InReq(q) == {e \in LiveEntries : At(q, conns[e[1]][e[2]].req_content) # {}}
InGot(q) == {p \in {q} : At(q, got[q[1]]) # {}}
InRefused(q) == {q} \cap refused

\* The disjoint union of the eight sets.
Sites(A, B, C, D, E, F, G, H) ==
  ({"request"} \X A) \cup ({"deal"} \X B) \cup ({"response"} \X C) \cup ({"resp"} \X D)
  \cup ({"rsp"} \X E) \cup ({"req"} \X F) \cup ({"got"} \X G) \cup ({"refused"} \X H)

\* Where request q is: Places without the positions.
Spots(q) ==
  Sites(InReqQ(q), InDeal(q), InRespQ(q), InResp(q), InRsp(q), InReq(q), InGot(q), InRefused(q))

\* No container holds request q twice (req_content holds its two halves).
NoRepeat(q) ==
  /\ \A r \in RealWorkers : Lone(InBlocks(q, reqQ[r])) /\ Lone(InBlocks(q, rbatch[r]))
  /\ \A w \in ConnWorkers : Lone(InBlocks(q, respQ[w])) /\ Lone(InBlocks(q, cbatch[w]))
  /\ \A e \in LiveEntries : Lone(At(q, conns[e[1]][e[2]].rsp_content))
  /\ Lone(At(q, got[q[1]]))

Open(c) == \E w \in ConnWorkers, fd \in Fds : Live(w, fd) /\ fdConn[fd] = c

\* The first half of request q was read.
Begun(q) == 2 * q[2] - 1 <= taken[q[1]]

\* Request q is nowhere before its first half is read, in at most one place
\* afterwards, and in one place as long as its connection is open.
Accounted(q) ==
  /\ Lone(Spots(q)) /\ NoRepeat(q)
  /\ Spots(q) # {} => Begun(q)
  /\ Open(q[1]) /\ Begun(q) => Spots(q) # {}

\* req_content is the end of what was read, from a packet boundary on.
Stream(w, fd) ==
  LET c == fdConn[fd]
      s == conns[w][fd].req_content
      n == taken[c] - Len(s)
  IN n \in Nat /\ n % 2 = 0 /\ s = Halves(c, n, Len(s))

Streams == \A w \in ConnWorkers, fd \in Fds : Live(w, fd) => Stream(w, fd)

\* A connection has one descriptor; one that was not accepted has none and
\* sent nothing; nothing was read from one that no worker has registered.
Apart ==
  /\ \A f, g \in Fds : fdConn[f] = fdConn[g] /\ fdConn[f] # NoConn => f = g
  /\ \A c \in Conns : client[c] = "new" => sent[c] = 0 /\ \A f \in Fds : fdConn[f] # c
  /\ \A f \in Fds :
       accepted = f \/ (\E w \in ConnWorkers : Queued(w, f)) => taken[fdConn[f]] = 0

\* A handler starts with an empty batch.
Batches ==
  /\ \A r \in RealWorkers : rpc[r] # "work" => rbatch[r] = << >>
  /\ \A w \in ConnWorkers : cpc[w] # "respond" => cbatch[w] = << >>

\* A block whose connection is open carries that connection's worker,
\* descriptor and id, so its answer will find the entry.
Findable(b) ==
  \A w \in ConnWorkers, f \in Fds :
    Live(w, f) /\ fdConn[f] = b.real_data[1]
      => b.worker = w /\ b.fd = f /\ b.id = conns[w][f].id

Addressed == \A b \in OneDataBlock : InFlight(b) => Findable(b)

\* Appending a block that carries q adds the last position, another none.
LEMMA AppendBlock ==
  ASSUME NEW s \in Seq(OneDataBlock), NEW b \in OneDataBlock, NEW q
  PROVE  /\ b.real_data # q => InBlocks(q, Append(s, b)) = InBlocks(q, s)
         /\ b.real_data = q => InBlocks(q, Append(s, b)) # {}
         /\ b.real_data = q /\ InBlocks(q, s) = {} => Lone(InBlocks(q, Append(s, b)))
  <1>1. Len(s) \in Nat
    BY LenProperties
  <1> DEFINE u == Append(s, b)
  <1>2. /\ Len(u) = Len(s) + 1
        /\ \A i \in 1..Len(s) : u[i] = s[i]
        /\ u[Len(s) + 1] = b
    BY AppendProperties
  <1> HIDE DEF u
  <1>3. b.real_data # q => InBlocks(q, u) = InBlocks(q, s)
    BY <1>1, <1>2 DEF InBlocks
  <1>4. b.real_data = q => Len(s) + 1 \in InBlocks(q, u)
    BY <1>1, <1>2 DEF InBlocks
  <1>5. ASSUME b.real_data = q, InBlocks(q, s) = {}, NEW i \in InBlocks(q, u)
        PROVE  i = Len(s) + 1
    BY <1>1, <1>2, <1>5 DEF InBlocks
  <1>6. b.real_data = q /\ InBlocks(q, s) = {} => Lone(InBlocks(q, u))
    BY <1>5 DEF Lone
  <1>7. QED
    BY <1>3, <1>4, <1>6 DEF u

\* Taking the first block moves the others one position down.
LEMMA TailBlocks ==
  ASSUME NEW s \in Seq(OneDataBlock), s # << >>, NEW q
  PROVE  /\ Head(s).real_data = q => InBlocks(q, s) # {}
         /\ Head(s).real_data # q => (InBlocks(q, Tail(s)) = {} <=> InBlocks(q, s) = {})
         /\ Lone(InBlocks(q, s)) => Lone(InBlocks(q, Tail(s)))
         /\ Lone(InBlocks(q, s)) /\ Head(s).real_data = q => InBlocks(q, Tail(s)) = {}
  <1> DEFINE u == Tail(s)
             h == Head(s)
  <1>1. Len(s) \in Nat /\ Len(s) > 0
    BY LenProperties, EmptySeq
  <1>2. /\ h = s[1] /\ Len(u) = Len(s) - 1
        /\ \A i \in 1..Len(u) : u[i] = s[i + 1]
    BY <1>1, HeadTailProperties
  <1> HIDE DEF u, h
  <1>3. \A i \in InBlocks(q, u) : i + 1 \in InBlocks(q, s) /\ i \in Nat /\ i >= 1
    BY <1>1, <1>2 DEF InBlocks
  <1>4. \A i \in InBlocks(q, s) : i # 1 => i - 1 \in InBlocks(q, u)
    BY <1>1, <1>2 DEF InBlocks
  <1>5. h.real_data = q <=> 1 \in InBlocks(q, s)
    BY <1>1, <1>2 DEF InBlocks
  <1>6. h.real_data # q => (InBlocks(q, u) = {} <=> InBlocks(q, s) = {})
    BY <1>3, <1>4, <1>5
  <1>7. ASSUME Lone(InBlocks(q, s)), NEW i \in InBlocks(q, u), NEW j \in InBlocks(q, u)
        PROVE  i = j
    <2>1. i + 1 = j + 1 /\ i \in Nat /\ j \in Nat
      BY <1>3, <1>7 DEF Lone
    <2>2. QED
      BY <2>1
  <1>8. Lone(InBlocks(q, s)) => Lone(InBlocks(q, u))
    BY <1>7 DEF Lone
  <1>9. ASSUME Lone(InBlocks(q, s)), h.real_data = q, NEW i \in InBlocks(q, u)
        PROVE  FALSE
    <2>1. i + 1 = 1 /\ i \in Nat /\ i >= 1
      BY <1>3, <1>5, <1>9 DEF Lone
    <2>2. QED
      BY <2>1
  <1>10. QED
    BY <1>5, <1>6, <1>8, <1>9 DEF u, h

\* An empty sequence holds nothing.
LEMMA NoPlaces ==
  ASSUME NEW q
  PROVE  InBlocks(q, << >>) = {} /\ At(q, << >>) = {} /\ Lone({})
  BY EmptySeq DEF InBlocks, At, Lone

\* The same for the answers in rsp_content.
LEMMA AppendAt ==
  ASSUME NEW s \in Seq(Request), NEW b \in Request, NEW q
  PROVE  /\ b # q => At(q, Append(s, b)) = At(q, s)
         /\ b = q => At(q, Append(s, b)) # {}
         /\ b = q /\ At(q, s) = {} => Lone(At(q, Append(s, b)))
  <1>1. Len(s) \in Nat
    BY LenProperties
  <1> DEFINE u == Append(s, b)
  <1>2. /\ Len(u) = Len(s) + 1
        /\ \A i \in 1..Len(s) : u[i] = s[i]
        /\ u[Len(s) + 1] = b
    BY AppendProperties
  <1> HIDE DEF u
  <1>3. b # q => At(q, u) = At(q, s)
    BY <1>1, <1>2 DEF At
  <1>4. b = q => Len(s) + 1 \in At(q, u)
    BY <1>1, <1>2 DEF At
  <1>5. ASSUME b = q, At(q, s) = {}, NEW i \in At(q, u)
        PROVE  i = Len(s) + 1
    BY <1>1, <1>2, <1>5 DEF At
  <1>6. b = q /\ At(q, s) = {} => Lone(At(q, u))
    BY <1>5 DEF Lone
  <1>7. QED
    BY <1>3, <1>4, <1>6 DEF u

\* A prefix of s is moved to the end of t and d is what remains of s.
Moved(s, k, t, u, d) ==
  /\ k \in 1..Len(s)
  /\ u = t \o SubSeq(s, 1, k)
  /\ d = SubSeq(s, k + 1, Len(s))

\* A write moves every answer of the prefix and keeps the others.
LEMMA MovedAt ==
  ASSUME NEW s \in Seq(Request), NEW t \in Seq(Request), NEW k, NEW u, NEW d,
         Moved(s, k, t, u, d), NEW q
  PROVE  /\ At(q, s) = {} => At(q, u) = At(q, t) /\ At(q, d) = {}
         /\ Lone(At(q, s)) /\ At(q, s) # {} /\ At(q, t) = {} =>
              /\ Lone(At(q, u)) /\ Lone(At(q, d))
              /\ At(q, u) = {} <=> At(q, d) # {}
  <1>1. Len(s) \in Nat /\ Len(t) \in Nat /\ k \in Nat /\ k >= 1 /\ k <= Len(s)
    BY LenProperties DEF Moved
  <1> DEFINE a == SubSeq(s, 1, k)
             m == k + 1
             e == SubSeq(s, m, Len(s))
  <1>2. /\ a \in Seq(Request) /\ Len(a) = k
        /\ \A i \in 1..k : a[i] = s[i]
    <2>1. \A i \in 1..k : s[i] \in Request
      BY <1>1, ElementOfSeq
    <2>2. /\ a \in Seq(Request) /\ Len(a) = IF 1 <= k THEN k - 1 + 1 ELSE 0
          /\ \A i \in 1..(k - 1 + 1) : a[i] = s[1 + i - 1]
      BY <1>1, <2>1, SubSeqProperties
    <2> HIDE DEF a
    <2>3. QED
      BY <1>1, <2>2
  <1>3. /\ Len(e) = Len(s) - k
        /\ \A i \in 1..(Len(s) - k) : e[i] = s[k + i]
    <2>1. \A i \in m..Len(s) : s[i] \in Request
      BY <1>1, ElementOfSeq
    <2>2. m \in Nat \ {0} /\ m >= 1 /\ m <= Len(s) + 1
      BY <1>1
    <2> HIDE DEF m
    <2>3. /\ Len(e) = IF m <= Len(s) THEN Len(s) - m + 1 ELSE 0
          /\ \A i \in 1..(Len(s) - m + 1) : e[i] = s[m + i - 1]
      BY <1>1, <2>1, <2>2, SubSeqProperties
    <2> HIDE DEF e
    <2> USE DEF m
    <2>4. QED
      BY <1>1, <2>3
  <1>4. u = t \o a /\ d = e
    BY DEF Moved
  <1> HIDE DEF a, e
  <1>5. /\ Len(u) = Len(t) + k
        /\ \A i \in 1..(Len(t) + k) : u[i] = IF i <= Len(t) THEN t[i] ELSE a[i - Len(t)]
    BY <1>2, <1>4, ConcatProperties
  <1>6. /\ \A i \in 1..Len(t) : u[i] = t[i]
        /\ \A i \in 1..k : u[Len(t) + i] = s[i]
    BY <1>1, <1>2, <1>5
  <1>7. /\ \A i \in At(q, u) : i \in At(q, t) \/ (i - Len(t) \in At(q, s) /\ i - Len(t) <= k /\ i \in Int)
        /\ \A i \in At(q, t) : i \in At(q, u)
        /\ \A i \in At(q, s) : i <= k => Len(t) + i \in At(q, u)
        /\ \A i \in At(q, s) : i \in Int
    <2>1. ASSUME NEW i \in At(q, u)
          PROVE  i \in At(q, t) \/ (i - Len(t) \in At(q, s) /\ i - Len(t) <= k /\ i \in Int)
      <3>1. i \in 1..(Len(t) + k) /\ u[i] = q
        BY <1>5 DEF At
      <3>2. CASE i <= Len(t)
        BY <1>1, <1>6, <3>1, <3>2 DEF At
      <3>3. CASE ~ (i <= Len(t))
        <4>1. i - Len(t) \in 1..k /\ i - Len(t) \in 1..Len(s) /\ s[i - Len(t)] = q
          BY <1>1, <1>2, <1>5, <3>1, <3>3
        <4>2. QED
          BY <1>1, <3>1, <4>1 DEF At
      <3>4. QED
        BY <3>2, <3>3
    <2>2. QED
      BY <1>1, <1>5, <1>6, <2>1 DEF At
  <1>8. /\ \A i \in At(q, d) : k + i \in At(q, s) /\ i \in Int /\ k + i > k
        /\ \A i \in At(q, s) : i > k => i - k \in At(q, d)
    BY <1>1, <1>3, <1>4 DEF At
  <1>9. At(q, s) = {} => At(q, u) = At(q, t) /\ At(q, d) = {}
    BY <1>7, <1>8
  <1>10. ASSUME Lone(At(q, s)), NEW i \in At(q, s), At(q, t) = {}
         PROVE  /\ Lone(At(q, u)) /\ Lone(At(q, d))
                /\ At(q, u) = {} <=> At(q, d) # {}
    <2>1. \A j \in At(q, s) : j = i
      BY <1>10 DEF Lone
    <2>2. /\ \A j \in At(q, u) : j = Len(t) + i /\ i <= k
          /\ \A j \in At(q, d) : j = i - k /\ i > k
      BY <1>1, <1>7, <1>8, <1>10, <2>1
    <2>3. Lone(At(q, u)) /\ Lone(At(q, d))
      BY <2>2 DEF Lone
    <2>4. i \in Int
      BY <1>7
    <2>5. CASE i <= k
      <3>1. Len(t) + i \in At(q, u)
        BY <1>7, <2>5
      <3>2. ASSUME NEW j \in At(q, d)
            PROVE  FALSE
        BY <1>1, <2>2, <2>4, <2>5
      <3>3. QED
        BY <2>3, <3>1, <3>2
    <2>6. CASE i > k
      <3>1. i - k \in At(q, d)
        BY <1>8, <2>6
      <3>2. ASSUME NEW j \in At(q, u)
            PROVE  FALSE
        BY <1>1, <2>2, <2>4, <2>6
      <3>3. QED
        BY <2>3, <3>1, <3>2
    <2>7. QED
      BY <1>1, <2>4, <2>5, <2>6
  <1>11. QED
    BY <1>9, <1>10

\* At most one of the eight sets has a member, and it has one.
Sole(A, B, C, D, E, F, G, H) ==
  /\ Lone(A) /\ Lone(B) /\ Lone(C) /\ Lone(D) /\ Lone(E) /\ Lone(F) /\ Lone(G) /\ Lone(H)
  /\ A = {} \/ (B = {} /\ C = {} /\ D = {} /\ E = {} /\ F = {} /\ G = {} /\ H = {})
  /\ B = {} \/ (C = {} /\ D = {} /\ E = {} /\ F = {} /\ G = {} /\ H = {})
  /\ C = {} \/ (D = {} /\ E = {} /\ F = {} /\ G = {} /\ H = {})
  /\ D = {} \/ (E = {} /\ F = {} /\ G = {} /\ H = {})
  /\ E = {} \/ (F = {} /\ G = {} /\ H = {})
  /\ F = {} \/ (G = {} /\ H = {})
  /\ G = {} \/ H = {}

\* The members of the disjoint union.
LEMMA SiteMembers ==
  ASSUME NEW A, NEW B, NEW C, NEW D, NEW E, NEW F, NEW G, NEW H
  PROVE  /\ \A x \in A : <<"request", x>> \in Sites(A, B, C, D, E, F, G, H)
         /\ \A x \in B : <<"deal", x>> \in Sites(A, B, C, D, E, F, G, H)
         /\ \A x \in C : <<"response", x>> \in Sites(A, B, C, D, E, F, G, H)
         /\ \A x \in D : <<"resp", x>> \in Sites(A, B, C, D, E, F, G, H)
         /\ \A x \in E : <<"rsp", x>> \in Sites(A, B, C, D, E, F, G, H)
         /\ \A x \in F : <<"req", x>> \in Sites(A, B, C, D, E, F, G, H)
         /\ \A x \in G : <<"got", x>> \in Sites(A, B, C, D, E, F, G, H)
         /\ \A x \in H : <<"refused", x>> \in Sites(A, B, C, D, E, F, G, H)
         /\ \A z \in Sites(A, B, C, D, E, F, G, H) :
              \/ \E x \in A : z = <<"request", x>>
              \/ \E x \in B : z = <<"deal", x>>
              \/ \E x \in C : z = <<"response", x>>
              \/ \E x \in D : z = <<"resp", x>>
              \/ \E x \in E : z = <<"rsp", x>>
              \/ \E x \in F : z = <<"req", x>>
              \/ \E x \in G : z = <<"got", x>>
              \/ \E x \in H : z = <<"refused", x>>
  BY DEF Sites

\* A disjoint union with at most one member.
LEMMA SoleSites ==
  ASSUME NEW A, NEW B, NEW C, NEW D, NEW E, NEW F, NEW G, NEW H
  PROVE  /\ Lone(Sites(A, B, C, D, E, F, G, H)) <=> Sole(A, B, C, D, E, F, G, H)
         /\ Sites(A, B, C, D, E, F, G, H) = {} <=>
              A = {} /\ B = {} /\ C = {} /\ D = {} /\ E = {} /\ F = {} /\ G = {} /\ H = {}
  <1> DEFINE S == Sites(A, B, C, D, E, F, G, H)
  <1>1. /\ \A x \in A : <<"request", x>> \in S
        /\ \A x \in B : <<"deal", x>> \in S
        /\ \A x \in C : <<"response", x>> \in S
        /\ \A x \in D : <<"resp", x>> \in S
        /\ \A x \in E : <<"rsp", x>> \in S
        /\ \A x \in F : <<"req", x>> \in S
        /\ \A x \in G : <<"got", x>> \in S
        /\ \A x \in H : <<"refused", x>> \in S
    BY SiteMembers
  <1>2. \A z \in S :
          \/ \E x \in A : z = <<"request", x>>
          \/ \E x \in B : z = <<"deal", x>>
          \/ \E x \in C : z = <<"response", x>>
          \/ \E x \in D : z = <<"resp", x>>
          \/ \E x \in E : z = <<"rsp", x>>
          \/ \E x \in F : z = <<"req", x>>
          \/ \E x \in G : z = <<"got", x>>
          \/ \E x \in H : z = <<"refused", x>>
    BY SiteMembers
  <1> HIDE DEF S
  <1>3. S = {} <=> A = {} /\ B = {} /\ C = {} /\ D = {} /\ E = {} /\ F = {} /\ G = {} /\ H = {}
    BY <1>1, <1>2
  <1>4. ASSUME Lone(S)
        PROVE  Sole(A, B, C, D, E, F, G, H)
    <2>1. \A z, y \in S : z = y
      BY <1>4 DEF Lone
    <2>2. Lone(A) /\ Lone(B) /\ Lone(C) /\ Lone(D) /\ Lone(E) /\ Lone(F) /\ Lone(G) /\ Lone(H)
      BY <1>1, <2>1 DEF Lone
    <2>3. A = {} \/ (B = {} /\ C = {} /\ D = {} /\ E = {} /\ F = {} /\ G = {} /\ H = {})
      BY <1>1, <2>1
    <2>4. B = {} \/ (C = {} /\ D = {} /\ E = {} /\ F = {} /\ G = {} /\ H = {})
      BY <1>1, <2>1
    <2>5. C = {} \/ (D = {} /\ E = {} /\ F = {} /\ G = {} /\ H = {})
      BY <1>1, <2>1
    <2>6. D = {} \/ (E = {} /\ F = {} /\ G = {} /\ H = {})
      BY <1>1, <2>1
    <2>7. E = {} \/ (F = {} /\ G = {} /\ H = {})
      BY <1>1, <2>1
    <2>8. (F = {} \/ (G = {} /\ H = {})) /\ (G = {} \/ H = {})
      BY <1>1, <2>1
    <2>9. QED
      BY <2>2, <2>3, <2>4, <2>5, <2>6, <2>7, <2>8 DEF Sole
  <1>5. ASSUME Sole(A, B, C, D, E, F, G, H), NEW z \in S, NEW y \in S
        PROVE  z = y
    BY <1>2, <1>5 DEF Sole, Lone
  <1>6. Sole(A, B, C, D, E, F, G, H) => Lone(S)
    BY <1>5 DEF Lone
  <1>7. QED
    BY <1>3, <1>4, <1>6 DEF S

\* The same of a request.
LEMMA SoleSpots ==
  ASSUME NEW q
  PROVE  /\ Lone(Spots(q)) <=>
              Sole(InReqQ(q), InDeal(q), InRespQ(q), InResp(q), InRsp(q), InReq(q), InGot(q), InRefused(q))
         /\ Spots(q) = {} <=>
              /\ InReqQ(q) = {} /\ InDeal(q) = {} /\ InRespQ(q) = {} /\ InResp(q) = {}
              /\ InRsp(q) = {} /\ InReq(q) = {} /\ InGot(q) = {} /\ InRefused(q) = {}
         /\ Lone(Spots(q)') <=>
              Sole(InReqQ(q)', InDeal(q)', InRespQ(q)', InResp(q)', InRsp(q)', InReq(q)', InGot(q)',
                   InRefused(q)')
         /\ Spots(q)' = {} <=>
              /\ InReqQ(q)' = {} /\ InDeal(q)' = {} /\ InRespQ(q)' = {} /\ InResp(q)' = {}
              /\ InRsp(q)' = {} /\ InReq(q)' = {} /\ InGot(q)' = {} /\ InRefused(q)' = {}
  BY SoleSites DEF Spots

-----------------------------------------------------------------------------
\* What req_content is

\* The requests in a piece of the stream that starts at a packet boundary.
LEMMA HalvesAt ==
  ASSUME NEW c \in Conns, NEW n \in Nat, n % 2 = 0, NEW k \in Nat, n + k <= 2 * MaxReq,
         NEW q \in Request
  PROVE  At(q, Halves(c, n, k)) # {} <=> q[1] = c /\ n < 2 * q[2] /\ 2 * q[2] - 1 <= n + k
  <1>1. q = <<q[1], q[2]>> /\ q[2] \in Nat /\ q[2] >= 1
    BY BoundsAssumption DEF Request
  <1> DEFINE h == Halves(c, n, k)
  <1>2. Len(h) = k /\ \A j \in 1..k : h[j] = <<c, (n + j + 1) \div 2>>
    BY HalvesType DEF Halves
  <1> HIDE DEF h
  <1>3. ASSUME NEW j \in At(q, h)
        PROVE  q[1] = c /\ n < 2 * q[2] /\ 2 * q[2] - 1 <= n + k
    <2>1. j \in 1..k /\ h[j] = q
      BY <1>2, <1>3 DEF At
    <2>2. q[1] = c /\ q[2] = (n + j + 1) \div 2
      BY <1>2, <2>1
    <2>3. QED
      BY <1>1, <2>1, <2>2
  <1>4. ASSUME q[1] = c, n < 2 * q[2], 2 * q[2] - 1 <= n + k
        PROVE  At(q, h) # {}
    <2> DEFINE j == 2 * q[2] - 1 - n
    <2>1. j \in 1..k /\ (n + j + 1) \div 2 = q[2]
      BY <1>1, <1>4
    <2>2. h[j] = q
      BY <1>1, <1>2, <1>4, <2>1
    <2>3. j \in At(q, h)
      BY <1>2, <2>1, <2>2 DEF At
    <2>4. QED
      BY <2>3
  <1>5. QED
    BY <1>3, <1>4 DEF h

\* Two consecutive pieces are one.
LEMMA HalvesConcat ==
  ASSUME NEW c \in Conns, NEW n \in Nat, NEW m \in Nat, NEW k \in Nat, n + m + k <= 2 * MaxReq
  PROVE  Halves(c, n, m) \o Halves(c, n + m, k) = Halves(c, n, m + k)
  <1> DEFINE s == Halves(c, n, m)
             t == Halves(c, n + m, k)
             u == Halves(c, n, m + k)
  <1>1. /\ n + m <= 2 * MaxReq /\ n + m \in Nat /\ (n + m) + k <= 2 * MaxReq /\ m + k \in Nat
        /\ n + (m + k) <= 2 * MaxReq
    BY BoundsAssumption
  <1>2. /\ s \in Seq(Request) /\ Len(s) = m
        /\ t \in Seq(Request) /\ Len(t) = k
        /\ u \in Seq(Request) /\ Len(u) = m + k
    BY <1>1, HalvesType
  <1>3. /\ \A j \in 1..m : s[j] = <<c, (n + j + 1) \div 2>>
        /\ \A j \in 1..k : t[j] = <<c, (n + m + j + 1) \div 2>>
        /\ \A j \in 1..(m + k) : u[j] = <<c, (n + j + 1) \div 2>>
    BY DEF Halves
  <1> HIDE DEF s, t, u
  <1> DEFINE v == s \o t
  <1>4. /\ v \in Seq(Request) /\ Len(v) = m + k
        /\ \A i \in 1..(m + k) : v[i] = IF i <= m THEN s[i] ELSE t[i - m]
    BY <1>2, ConcatProperties
  <1> HIDE DEF v
  <1>5. ASSUME NEW i \in 1..(m + k)
        PROVE  v[i] = u[i]
    <2>1. CASE i <= m
      <3>1. i \in 1..m
        BY <2>1
      <3>2. QED
        BY <1>3, <1>4, <2>1, <3>1
    <2>2. CASE ~ (i <= m)
      <3>1. i - m \in 1..k /\ n + m + (i - m) + 1 = n + i + 1
        BY <2>2
      <3>2. QED
        BY <1>3, <1>4, <2>2, <3>1
    <2>3. QED
      BY <2>1, <2>2
  <1>6. v = u
    BY <1>2, <1>4, <1>5, SeqEqual
  <1>7. QED
    BY <1>6 DEF s, t, u, v

\* Cutting a packet leaves the piece that starts at the next one.
LEMMA HalvesCut ==
  ASSUME NEW c \in Conns, NEW n \in Nat, NEW m \in Nat, m >= 2, n + m <= 2 * MaxReq
  PROVE  /\ SubSeq(Halves(c, n, m), 3, m) = Halves(c, n + 2, m - 2)
         /\ Halves(c, n, m)[1] = <<c, (n + 2) \div 2>>
  <1> DEFINE s == Halves(c, n, m)
             u == Halves(c, n + 2, m - 2)
             v == SubSeq(s, 3, m)
  <1>1. m - 2 \in Nat /\ n + 2 \in Nat /\ (n + 2) + (m - 2) <= 2 * MaxReq
    BY BoundsAssumption
  <1>2. /\ s \in Seq(Request) /\ Len(s) = m
        /\ u \in Seq(Request) /\ Len(u) = m - 2
    BY <1>1, HalvesType
  <1>3. /\ \A j \in 1..m : s[j] = <<c, (n + j + 1) \div 2>>
        /\ \A j \in 1..(m - 2) : u[j] = <<c, (n + 2 + j + 1) \div 2>>
    BY DEF Halves
  <1> HIDE DEF s, u
  <1>4. /\ v \in Seq(Request) /\ Len(v) = m - 2
        /\ \A i \in 1..(m - 2) : v[i] = s[i + 2]
    <2>1. \A i \in 3..m : s[i] \in Request
      BY <1>2, ElementOfSeq
    <2>2. /\ v \in Seq(Request) /\ Len(v) = IF 3 <= m THEN m - 3 + 1 ELSE 0
          /\ \A i \in 1..(m - 3 + 1) : v[i] = s[3 + i - 1]
      BY <2>1, SubSeqProperties
    <2> HIDE DEF v
    <2>3. ASSUME NEW i \in 1..(m - 2)
          PROVE  v[i] = s[i + 2]
      <3>1. i \in 1..(m - 3 + 1) /\ 3 + i - 1 = i + 2
        OBVIOUS
      <3>2. QED
        BY <2>2, <3>1
    <2>4. QED
      BY <2>2, <2>3
  <1> HIDE DEF v
  <1>5. ASSUME NEW i \in 1..(m - 2)
        PROVE  v[i] = u[i]
    <2>1. i + 2 \in 1..m /\ n + (i + 2) + 1 = n + 2 + i + 1
      OBVIOUS
    <2>2. QED
      BY <1>3, <1>4, <2>1
  <1>6. v = u
    BY <1>2, <1>4, <1>5, SeqEqual
  <1>7. s[1] = <<c, (n + 2) \div 2>>
    <2>1. 1 \in 1..m /\ n + 1 + 1 = n + 2
      OBVIOUS
    <2>2. QED
      BY <1>3, <2>1
  <1>8. QED
    BY <1>6, <1>7 DEF s, u, v

\* The entry and what was read of its connection did not change.
SameStream(w, fd) ==
  /\ fdConn'[fd] = fdConn[fd]
  /\ conns'[w][fd].req_content = conns[w][fd].req_content
  /\ taken'[fdConn[fd]] = taken[fdConn[fd]]

\* Then neither did its stream.
LEMMA StreamKept ==
  ASSUME NEW w \in ConnWorkers, NEW fd \in Fds, SameStream(w, fd), Stream(w, fd)
  PROVE  Stream(w, fd)'
  BY DEF SameStream, Stream

\* A live entry's descriptor is open, and different live entries have
\* different descriptors and connections.
LEMMA LiveApart ==
  ASSUME TypeOK, DescriptorTable, Apart, NEW w \in ConnWorkers, NEW fd \in Fds, Live(w, fd)
  PROVE  /\ fdConn[fd] \in Conns /\ accepted # fd
         /\ \A v \in ConnWorkers : ~ Queued(v, fd)
         /\ \A v \in ConnWorkers, f \in Fds :
              Live(v, f) /\ (f = fd \/ fdConn[f] = fdConn[fd]) => v = w /\ f = fd
  <1>1. fdConn[fd] # NoConn /\ accepted # fd /\ \A v \in ConnWorkers : ~ Queued(v, fd)
    BY DEF DescriptorTable
  <1>2. \A v \in ConnWorkers : Live(v, fd) => v = w
    BY DEF DescriptorTable
  <1>3. \A f \in Fds : fdConn[f] = fdConn[fd] => f = fd
    BY <1>1 DEF Apart
  <1>4. fdConn[fd] \in Conns
    BY <1>1 DEF TypeOK
  <1>5. QED
    BY <1>1, <1>2, <1>3, <1>4

\* A read extends the stream of its connection only.
LEMMA ReadStreams ==
  ASSUME TypeOK, DescriptorTable, Apart, Streams, NEW w \in ConnWorkers, NEW fd \in Fds,
         ClientEventIn(w, fd)
  PROVE  Streams'
  <1>1. PICK d \in TcpConn, k \in Nat : ReadTo(w, fd, d, k) /\ ReadExactly(w, fd, d, k)
    BY ReadEffect
  <1>2. PICK c \in Conns : c = fdConn[fd]
    BY ReadEffect
  <1>3. /\ conns'[w][fd] = d /\ fdConn' = fdConn
        /\ \A v \in ConnWorkers, f \in Fds : v # w \/ f # fd => conns'[v][f] = conns[v][f]
        /\ taken'[c] = taken[c] + k /\ \A x \in Conns \ {c} : taken'[x] = taken[x]
        /\ taken[c] \in Nat /\ taken[c] + k <= 2 * MaxReq
    <2>1. conns'[w][fd] = d /\ \A v \in ConnWorkers, f \in Fds : v # w \/ f # fd => conns'[v][f] = conns[v][f]
      <3>1. conns' = [conns EXCEPT ![w][fd] = d]
        BY <1>1 DEF ReadTo
      <3>2. QED
        BY <3>1 DEF TypeOK
    <2>2. fdConn' = fdConn
      BY DEF ClientEventIn
    <2>3. /\ taken'[c] = taken[c] + k /\ \A x \in Conns \ {c} : taken'[x] = taken[x]
          /\ taken[c] \in Nat /\ taken[c] + k <= 2 * MaxReq
      BY <1>1, <1>2, BoundsAssumption, SMTT(30) DEF ReadTo, TypeOK
    <2>4. QED
      BY <2>1, <2>2, <2>3
  <1>4. Live(w, fd)
    BY DEF ClientEventIn, Live, Closing
  <1>5. \A v \in ConnWorkers, f \in Fds : Live(v, f)' <=> Live(v, f)
    BY EntryKeepsLive
  <1>6. Stream(w, fd)'
    <2>1. PICK s \in Seq(Request) : s = conns[w][fd].req_content /\ Len(s) \in Nat
      BY <1>4, LenProperties, SMTT(30) DEF TypeOK, Live, Registered, TcpConn
    <2>2. PICK n \in Nat : n = taken[c] - Len(s) /\ n % 2 = 0 /\ s = Halves(c, n, Len(s))
      BY <1>2, <1>4, <2>1 DEF Stream, Streams
    <2>3. n + Len(s) = taken[c] /\ n + Len(s) + k <= 2 * MaxReq
      BY <1>3, <2>1, <2>2
    <2>4. d.req_content = Halves(c, n, Len(s)) \o Halves(c, n + Len(s), k)
      BY <1>1, <1>2, <2>1, <2>2, <2>3 DEF ReadExactly
    <2>5. d.req_content = Halves(c, n, Len(s) + k)
      BY <2>1, <2>3, <2>4, HalvesConcat, ZenonT(60)
    <2>6. Len(s) + k \in Nat /\ n + (Len(s) + k) <= 2 * MaxReq
      BY <2>1, <2>3
    <2>7. Len(d.req_content) = Len(s) + k
      BY <2>5, <2>6, HalvesType
    <2>8. taken'[c] - Len(d.req_content) = n
      BY <1>3, <2>1, <2>3, <2>7, SMTT(30)
    <2>9. QED
      BY <1>2, <1>3, <2>2, <2>5, <2>7, <2>8 DEF Stream
  <1>7. ASSUME NEW v \in ConnWorkers, NEW f \in Fds, Live(v, f), v # w \/ f # fd
        PROVE  Stream(v, f)'
    <2>1. fdConn[f] \in Conns /\ fdConn[f] # c
      BY <1>2, <1>4, <1>7, LiveApart
    <2>2. SameStream(v, f)
      BY <1>3, <1>7, <2>1 DEF SameStream
    <2>3. QED
      BY <1>7, <2>2, StreamKept DEF Streams
  <1>8. QED
    BY <1>5, <1>6, <1>7 DEF Streams

\* Dispatching a packet starts the stream at the next one.
LEMMA DispatchStreams ==
  ASSUME TypeOK, DescriptorTable, Apart, Streams, NEW w \in ConnWorkers, NEW r \in RealWorkers,
         SendRequestToRealWorker(w, r)
  PROVE  Streams'
  <1>1. PICK fd \in Fds : fd = ccur[w]
    BY DispatchEffect
  <1>2. PICK d \in TcpConn, b \in OneDataBlock : DispatchTo(w, r, fd, d, b) /\ DispatchExactly(w, fd, d, b)
    BY <1>1, DispatchEffect
  <1>3. /\ conns'[w][fd] = d /\ UNCHANGED <<fdConn, taken>>
        /\ \A v \in ConnWorkers, f \in Fds : v # w \/ f # fd => conns'[v][f] = conns[v][f]
    <2>1. conns'[w][fd] = d /\ \A v \in ConnWorkers, f \in Fds : v # w \/ f # fd => conns'[v][f] = conns[v][f]
      <3>1. conns' = [conns EXCEPT ![w][fd] = d]
        BY <1>2 DEF DispatchTo
      <3>2. QED
        BY <3>1 DEF TypeOK
    <2>2. UNCHANGED <<fdConn, taken>>
      BY DEF SendRequestToRealWorker, kernelVars
    <2>3. QED
      BY <2>1, <2>2
  <1>4. Live(w, fd)
    BY <1>1 DEF SendRequestToRealWorker, Live, Closing, TypeOK
  <1>5. \A v \in ConnWorkers, f \in Fds : Live(v, f)' <=> Live(v, f)
    BY EntryKeepsLive
  <1>6. Stream(w, fd)'
    <2>1. PICK s \in Seq(Request) : s = conns[w][fd].req_content /\ Len(s) \in Nat
      BY <1>4, LenProperties DEF TypeOK, Live, Registered, TcpConn
    <2>2. PICK c \in Conns : c = fdConn[fd]
      BY <1>4, LiveApart
    <2>3. PICK n \in Nat : n = taken[c] - Len(s) /\ n % 2 = 0 /\ s = Halves(c, n, Len(s))
      BY <1>4, <2>1, <2>2 DEF Stream, Streams
    <2>4. taken[c] \in Nat /\ taken[c] <= 2 * MaxReq
      BY BoundsAssumption DEF TypeOK
    <2>5. Len(s) >= 2 /\ d.req_content = SubSeq(s, 3, Len(s))
      BY <1>2, <2>1 DEF DispatchExactly
    <2>6. n + Len(s) = taken[c] /\ n + Len(s) <= 2 * MaxReq
      BY <2>1, <2>3, <2>4
    <2>7. d.req_content = Halves(c, n + 2, Len(s) - 2)
      BY <2>1, <2>3, <2>5, <2>6, HalvesCut, ZenonT(60)
    <2>8. Len(s) - 2 \in Nat /\ n + 2 \in Nat /\ (n + 2) + (Len(s) - 2) <= 2 * MaxReq
      <3>1. ASSUME NEW m \in Nat, m >= 2, n + m <= 2 * MaxReq
            PROVE  m - 2 \in Nat /\ n + 2 \in Nat /\ (n + 2) + (m - 2) <= 2 * MaxReq
        BY <3>1, BoundsAssumption
      <3>2. QED
        BY <2>1, <2>5, <2>6, <3>1
    <2>9. Len(d.req_content) = Len(s) - 2
      BY <2>7, <2>8, HalvesType
    <2>10. taken[c] - Len(d.req_content) = n + 2 /\ (n + 2) % 2 = 0
      BY <2>1, <2>3, <2>6, <2>9
    <2>11. QED
      BY <1>3, <2>2, <2>7, <2>8, <2>9, <2>10 DEF Stream
  <1>7. ASSUME NEW v \in ConnWorkers, NEW f \in Fds, Live(v, f), v # w \/ f # fd
        PROVE  Stream(v, f)'
    <2>1. SameStream(v, f)
      BY <1>3, <1>7 DEF SameStream
    <2>2. QED
      BY <1>7, <2>1, StreamKept DEF Streams
  <1>8. QED
    BY <1>5, <1>6, <1>7 DEF Streams

\* The handlers that touch neither a descriptor, nor req_content, nor what was
\* read.
LEMMA QuietStreams ==
  ASSUME Streams, UNCHANGED <<fdConn, taken>>,
         \A v \in ConnWorkers, f \in Fds :
           /\ Live(v, f)' => Live(v, f)
           /\ Live(v, f) => conns'[v][f].req_content = conns[v][f].req_content
  PROVE  Streams'
  <1>1. ASSUME NEW v \in ConnWorkers, NEW f \in Fds, Live(v, f)'
        PROVE  Stream(v, f)'
    <2>1. Live(v, f) /\ SameStream(v, f)
      BY <1>1 DEF SameStream
    <2>2. QED
      BY <2>1, StreamKept DEF Streams
  <1>2. QED
    BY <1>1 DEF Streams

\* accept() and CloseConn do not touch the descriptor of another live entry.
LEMMA DescriptorStreams ==
  ASSUME TypeOK, DescriptorTable, Streams, NEW fd \in Fds, UNCHANGED <<conns, taken>>,
         \A f \in Fds \ {fd} : fdConn'[f] = fdConn[f],
         \A v \in ConnWorkers, f \in Fds : Live(v, f)' => Live(v, f) /\ f # fd
  PROVE  Streams'
  <1>1. ASSUME NEW v \in ConnWorkers, NEW f \in Fds, Live(v, f)'
        PROVE  Stream(v, f)'
    <2>1. Live(v, f) /\ f # fd
      BY <1>1
    <2>2. SameStream(v, f)
      BY <2>1 DEF SameStream
    <2>3. QED
      BY <2>1, <2>2, StreamKept DEF Streams
  <1>2. QED
    BY <1>1 DEF Streams

\* Nothing was read from a connection that is about to be registered.
LEMMA NewUnread ==
  ASSUME TypeOK, DescriptorTable, Apart, NEW w \in ConnWorkers, AddClient(w)
  PROVE  taken[fdConn[Head(cliFds[w])]] = 0 /\ fdConn[Head(cliFds[w])] \in Conns
  <1>1. PICK fd \in Fds : fd = Head(cliFds[w]) /\ fdConn[fd] # NoConn
    BY RegisterTable
  <1>2. Queued(w, fd)
    <2>1. cliFds[w] \in Seq(Fds) /\ Len(cliFds[w]) \in Nat \ {0}
      BY EmptySeq DEF AddClient, TypeOK
    <2>2. cliFds[w][1] = fd /\ 1 \in 1..Len(cliFds[w])
      BY <1>1, <2>1, HeadTailProperties DEF AddClient
    <2>3. QED
      BY <2>2 DEF Queued
  <1>3. QED
    BY <1>1, <1>2 DEF Apart, TypeOK

\* A new entry starts with an empty stream: nothing was read before.
LEMMA RegisterStreams ==
  ASSUME TypeOK, DescriptorTable, Apart, Streams, NEW w \in ConnWorkers, AddClient(w)
  PROVE  Streams'
  <1>1. PICK fd \in Fds : fd = Head(cliFds[w])
    BY RegisterTable
  <1>2. /\ ~ Registered(w, fd) /\ fdConn[fd] # NoConn
        /\ \A v \in ConnWorkers, f \in Fds : Live(v, f)' <=> Live(v, f) \/ (v = w /\ f = fd)
    BY <1>1, RegisterTable
  <1>4. taken[fdConn[fd]] = 0 /\ fdConn[fd] \in Conns
    BY <1>1, NewUnread
  <1>5. UNCHANGED <<fdConn, taken>>
    BY DEF AddClient, kernelVars
  <1> DEFINE d == [id |-> uniqueId[w] + 1, req_content |-> << >>, rsp_content |-> << >>,
                   out |-> FALSE]
  <1>6. conns' = [conns EXCEPT ![w][fd] = d]
    BY <1>1, <1>2 DEF AddClient, Registered
  <1>7. d.req_content = << >>
    OBVIOUS
  <1> HIDE DEF d
  <1>8. /\ conns'[w][fd] = d
        /\ \A v \in ConnWorkers, f \in Fds : v # w \/ f # fd => conns'[v][f] = conns[v][f]
    BY <1>6 DEF TypeOK
  <1>9. Stream(w, fd)'
    <2>1. Len(<< >>) = 0 /\ \A c : << >> = Halves(c, 0, 0)
      <3>1. \A c : Halves(c, 0, 0) = << >>
        BY DEF Halves
      <3>2. QED
        BY <3>1, EmptySeq
    <2>2. taken'[fdConn'[fd]] - Len(conns'[w][fd].req_content) = 0 /\ 0 % 2 = 0 /\ 0 \in Nat
      BY <1>4, <1>5, <1>7, <1>8, <2>1
    <2>3. QED
      BY <1>7, <1>8, <2>1, <2>2 DEF Stream
  <1>10. ASSUME NEW v \in ConnWorkers, NEW f \in Fds, Live(v, f)', v # w \/ f # fd
         PROVE  Stream(v, f)'
    <2>1. Live(v, f) /\ SameStream(v, f)
      BY <1>2, <1>5, <1>8, <1>10 DEF SameStream
    <2>2. QED
      BY <2>1, StreamKept DEF Streams
  <1>11. QED
    BY <1>9, <1>10 DEF Streams

\* Answers leave req_content alone.
LEMMA AnswersKeepReq ==
  ASSUME TypeOK, NEW w \in ConnWorkers,
         DealWithResp(w) \/ \E fd \in Fds : ClientEventOut(w, fd)
  PROVE  \A v \in ConnWorkers, f \in Fds : conns'[v][f].req_content = conns[v][f].req_content
  <1>1. ASSUME NEW fd \in Fds, NEW d \in TcpConn, conns' = [conns EXCEPT ![w][fd] = d],
               d.req_content = conns[w][fd].req_content
        PROVE  \A v \in ConnWorkers, f \in Fds : conns'[v][f].req_content = conns[v][f].req_content
    BY <1>1 DEF TypeOK
  <1>2. CASE DealWithResp(w)
    <2>1. CASE conns' = conns
      BY <2>1
    <2>2. ASSUME NEW d \in TcpConn, RespondTo(w, Head(cbatch[w]), d)
          PROVE  \A v \in ConnWorkers, f \in Fds : conns'[v][f].req_content = conns[v][f].req_content
      <3>1. PICK f \in Fds : f = Head(cbatch[w]).fd
        BY <1>2, RespondEffect
      <3>2. conns' = [conns EXCEPT ![w][f] = d] /\ d.req_content = conns[w][f].req_content
        BY <2>2, <3>1 DEF RespondTo
      <3>3. QED
        BY <1>1, <3>2
    <2>3. QED
      BY <1>2, <2>1, <2>2, RespondEffect
  <1>3. ASSUME NEW fd \in Fds, ClientEventOut(w, fd)
        PROVE  \A v \in ConnWorkers, f \in Fds : conns'[v][f].req_content = conns[v][f].req_content
    <2>1. PICK d \in TcpConn, s \in Seq(Request) : WriteTo(w, fd, d, s)
      BY <1>3, WriteEffect
    <2>2. conns' = [conns EXCEPT ![w][fd] = d] /\ d.req_content = conns[w][fd].req_content
      BY <2>1 DEF WriteTo
    <2>3. QED
      BY <1>1, <2>2
  <1>4. QED
    BY <1>2, <1>3

\* Every step keeps the streams.
LEMMA StreamsStep ==
  TypeOK /\ DescriptorTable /\ Apart /\ Streams /\ [Next]_vars => Streams'
  <1> SUFFICES ASSUME TypeOK, DescriptorTable, Apart, Streams, [Next]_vars
               PROVE  Streams'
    OBVIOUS
  <1>1. ASSUME UNCHANGED <<fdConn, taken, conns, cpc, ccur>>
        PROVE  Streams'
    BY <1>1, QuietStreams, IdleKeepsLive
  <1>2. ASSUME NEW c \in Conns, ClientSend(c) \/ ClientClose(c)
        PROVE  Streams'
    BY <1>1, <1>2 DEF ClientSend, ClientClose, connVars, loopVars
  <1>3. ASSUME NEW c \in Conns, NEW fd \in Fds, Accept(c, fd)
        PROVE  Streams'
    <2>1. UNCHANGED <<conns, taken>> /\ \A f \in Fds \ {fd} : fdConn'[f] = fdConn[f]
      BY <1>3 DEF Accept, connVars, TypeOK
    <2>2. \A v \in ConnWorkers, f \in Fds : Live(v, f)' <=> Live(v, f)
      BY <1>3, IdleKeepsLive DEF Accept, connVars, loopVars
    <2>3. \A v \in ConnWorkers : ~ Live(v, fd)
      BY <1>3 DEF Accept, DescriptorTable
    <2>4. QED
      BY <2>1, <2>2, <2>3, DescriptorStreams
  <1>4. ASSUME NEW w \in ConnWorkers, AddClientFdAndNotify(w)
        PROVE  Streams'
    BY <1>1, <1>4 DEF AddClientFdAndNotify, kernelVars, connVars, loopVars
  <1>5. ASSUME NEW w \in ConnWorkers,
               \/ ReadCliToken(w) \/ LockCliFds(w) \/ AddClientsDone(w) \/ DataNotEnough(w)
               \/ ReadRespToken(w) \/ TakeResponses(w) \/ ResponsesDone(w)
        PROVE  Streams'
    <2>1. UNCHANGED <<fdConn, taken, conns>>
      BY <1>5 DEF ReadCliToken, LockCliFds, AddClientsDone, DataNotEnough, ReadRespToken,
                  TakeResponses, ResponsesDone, kernelVars, connVars
    <2>2. \A v \in ConnWorkers, f \in Fds : Live(v, f)' <=> Live(v, f)
      BY <1>5, HandlerKeepsLive
    <2>3. QED
      BY <2>1, <2>2, QuietStreams
  <1>6. ASSUME NEW w \in ConnWorkers, EraseConn(w)
        PROVE  Streams'
    <2>1. UNCHANGED <<fdConn, taken>>
      BY <1>6 DEF EraseConn, kernelVars
    <2>2. \A v \in ConnWorkers, f \in Fds : Live(v, f)' <=> Live(v, f)
      BY <1>6, HandlerKeepsLive
    <2>3. \A v \in ConnWorkers, f \in Fds : Live(v, f) => conns'[v][f] = conns[v][f]
      BY <1>6 DEF EraseConn, Live, Closing, TypeOK
    <2>4. QED
      BY <2>1, <2>2, <2>3, QuietStreams
  <1>7. ASSUME NEW w \in ConnWorkers, AddClient(w)
        PROVE  Streams'
    BY <1>7, RegisterStreams
  <1>8. ASSUME NEW w \in ConnWorkers, NEW fd \in Fds, Registered(w, fd), cpc[w] # "closing", CloseFd(w, fd)
        PROVE  Streams'
    <2>1. UNCHANGED <<conns, taken>> /\ \A f \in Fds \ {fd} : fdConn'[f] = fdConn[f]
      BY <1>8 DEF CloseFd, connVars, TypeOK
    <2>2. \A v \in ConnWorkers, f \in Fds : Live(v, f)' => Live(v, f) /\ f # fd
      BY <1>8, CloseTable
    <2>3. QED
      BY <2>1, <2>2, DescriptorStreams
  <1>9. ASSUME NEW w \in ConnWorkers, NEW fd \in Fds, PeerClosed(w, fd) \/ SocketError(w, fd)
        PROVE  Streams'
    BY <1>8, <1>9 DEF PeerClosed, SocketError
  <1>10. ASSUME NEW w \in ConnWorkers, BadPacket(w)
         PROVE  Streams'
    <2>1. ccur[w] \in Fds /\ Registered(w, ccur[w])
      BY <1>10 DEF BadPacket, TypeOK
    <2>2. QED
      BY <1>8, <1>10, <2>1 DEF BadPacket
  <1>11. ASSUME NEW w \in ConnWorkers, DealWithResp(w) \/ \E fd \in Fds : ClientEventOut(w, fd)
         PROVE  Streams'
    <2>1. UNCHANGED <<fdConn, taken>>
      BY <1>11 DEF DealWithResp, ClientEventOut, kernelVars
    <2>2. \A v \in ConnWorkers, f \in Fds : Live(v, f)' <=> Live(v, f)
      BY <1>11, EntryKeepsLive
    <2>3. \A v \in ConnWorkers, f \in Fds : conns'[v][f].req_content = conns[v][f].req_content
      BY <1>11, AnswersKeepReq
    <2>4. QED
      BY <2>1, <2>2, <2>3, QuietStreams
  <1>12. ASSUME NEW w \in ConnWorkers, NEW r \in RealWorkers, SendRequestToRealWorker(w, r)
         PROVE  Streams'
    BY <1>12, DispatchStreams
  <1>13. ASSUME NEW w \in ConnWorkers, NEW fd \in Fds, ClientEventIn(w, fd)
         PROVE  Streams'
    BY <1>13, ReadStreams
  <1>14. ASSUME NEW r \in RealWorkers,
                \/ ReadReqToken(r) \/ TakeRequests(r) \/ DealWithRequest(r)
                \/ RefuseRequest(r) \/ RequestsDone(r)
         PROVE  Streams'
    BY <1>1, <1>14 DEF ReadReqToken, TakeRequests, DealWithRequest, RefuseRequest, RequestsDone,
                       kernelVars, connVars, loopVars
  <1>15. CASE UNCHANGED vars
    BY <1>1, <1>15 DEF vars, kernelVars, connVars, loopVars
  <1>16. QED
    BY <1>2, <1>3, <1>4, <1>5, <1>6, <1>7, <1>9, <1>10, <1>11, <1>12, <1>13, <1>14, <1>15 DEF Next

-----------------------------------------------------------------------------
\* Connections and batches

\* Steps that accept, close, hand over and read nothing.
LEMMA QuietApart ==
  ASSUME Apart, UNCHANGED <<fdConn, taken, accepted>>,
         \A c \in Conns : client'[c] = "new" => client[c] = "new" /\ sent'[c] = sent[c],
         \A v \in ConnWorkers, f \in Fds : Queued(v, f)' => Queued(v, f)
  PROVE  Apart'
  BY DEF Apart

\* Every step keeps connections apart.
LEMMA ApartStep ==
  TypeOK /\ DescriptorTable /\ Apart /\ [Next]_vars => Apart'
  <1> SUFFICES ASSUME TypeOK, DescriptorTable, Apart, [Next]_vars
               PROVE  Apart'
    OBVIOUS
  <1>1. ASSUME UNCHANGED <<fdConn, client, sent, taken, accepted, cliFds>>
        PROVE  Apart'
    BY <1>1, QuietApart DEF Queued
  <1>2. ASSUME NEW c \in Conns, ClientSend(c) \/ ClientClose(c)
        PROVE  Apart'
    <2>1. UNCHANGED <<fdConn, taken, accepted, cliFds>>
      BY <1>2 DEF ClientSend, ClientClose, cliVars
    <2>2. \A x \in Conns : client'[x] = "new" => client[x] = "new" /\ sent'[x] = sent[x]
      BY <1>2 DEF ClientSend, ClientClose, TypeOK
    <2>3. QED
      BY <2>1, <2>2, QuietApart DEF Queued
  <1>3. ASSUME NEW c \in Conns, NEW fd \in Fds, Accept(c, fd)
        PROVE  Apart'
    <2>1. /\ client[c] = "new" /\ client'[c] = "open" /\ fdConn'[fd] = c /\ accepted' = fd
          /\ \A x \in Conns \ {c} : client'[x] = client[x]
          /\ \A f \in Fds \ {fd} : fdConn'[f] = fdConn[f]
          /\ UNCHANGED <<sent, taken, cliFds>> /\ fdConn[fd] = NoConn
      BY <1>3 DEF Accept, TypeOK
    <2>2. \A f \in Fds : fdConn[f] # c
      BY <2>1 DEF Apart
    <2>3. taken[c] = 0
      BY <2>1 DEF Apart, TypeOK
    <2>4. \A v \in ConnWorkers, f \in Fds : (Queued(v, f)' <=> Queued(v, f)) /\ ~ Queued(v, fd)
      BY <2>1 DEF Queued, DescriptorTable
    <2>5. QED
      BY <2>1, <2>2, <2>3, <2>4 DEF Apart
  <1>4. ASSUME NEW w \in ConnWorkers, AddClientFdAndNotify(w)
        PROVE  Apart'
    <2>1. /\ accepted \in Fds /\ accepted' = NoFd /\ cliFds[w] \in Seq(Fds)
          /\ cliFds'[w] = Append(cliFds[w], accepted)
          /\ \A v \in ConnWorkers \ {w} : cliFds'[v] = cliFds[v]
          /\ UNCHANGED <<fdConn, client, sent, taken>>
      BY <1>4 DEF AddClientFdAndNotify, TypeOK, kernelVars
    <2>2. \A v \in ConnWorkers, f \in Fds : Queued(v, f)' => Queued(v, f) \/ f = accepted
      BY <2>1, AppendElements, SMTT(30) DEF Queued
    <2>3. QED
      BY <2>1, <2>2, FdsAssumption DEF Apart
  <1>5. ASSUME NEW w \in ConnWorkers,
               \/ ReadCliToken(w) \/ LockCliFds(w) \/ AddClientsDone(w) \/ DataNotEnough(w)
               \/ ReadRespToken(w) \/ TakeResponses(w) \/ ResponsesDone(w) \/ EraseConn(w)
               \/ DealWithResp(w) \/ (\E fd \in Fds : ClientEventOut(w, fd))
               \/ \E r \in RealWorkers : SendRequestToRealWorker(w, r)
        PROVE  Apart'
    BY <1>1, <1>5 DEF ReadCliToken, LockCliFds, AddClientsDone, DataNotEnough, ReadRespToken,
                      TakeResponses, ResponsesDone, EraseConn, DealWithResp, ClientEventOut,
                      SendRequestToRealWorker, kernelVars, cliVars
  <1>6. ASSUME NEW w \in ConnWorkers, AddClient(w)
        PROVE  Apart'
    <2>1. /\ cliFds[w] \in Seq(Fds) /\ cliFds[w] # << >> /\ cliFds'[w] = Tail(cliFds[w])
          /\ \A v \in ConnWorkers \ {w} : cliFds'[v] = cliFds[v]
          /\ UNCHANGED <<fdConn, client, sent, taken, accepted>>
      BY <1>6 DEF AddClient, TypeOK, kernelVars
    <2>2. ASSUME NEW f \in Fds, Queued(w, f)'
          PROVE  Queued(w, f)
      <3>1. PICK i \in 1..Len(Tail(cliFds[w])) : Tail(cliFds[w])[i] = f
        BY <2>1, <2>2 DEF Queued
      <3>2. Len(cliFds[w]) \in Nat /\ Len(Tail(cliFds[w])) = Len(cliFds[w]) - 1
        BY <2>1, HeadTailProperties, LenProperties
      <3>3. Tail(cliFds[w])[i] = cliFds[w][i + 1]
        BY <2>1, <3>1, HeadTailProperties
      <3>4. i + 1 \in 1..Len(cliFds[w]) /\ cliFds[w][i + 1] = f
        BY <3>1, <3>2, <3>3
      <3>5. QED
        BY <3>4 DEF Queued
    <2>3. \A v \in ConnWorkers \ {w}, f \in Fds : Queued(v, f)' => Queued(v, f)
      BY <2>1 DEF Queued
    <2>4. QED
      BY <2>1, <2>2, <2>3, QuietApart
  <1>7. ASSUME NEW w \in ConnWorkers, NEW fd \in Fds, Registered(w, fd), cpc[w] # "closing", CloseFd(w, fd)
        PROVE  Apart'
    <2>1. /\ fdConn'[fd] = NoConn /\ \A f \in Fds \ {fd} : fdConn'[f] = fdConn[f]
          /\ UNCHANGED <<client, sent, taken, accepted, cliFds>>
      BY <1>7 DEF CloseFd, TypeOK, cliVars
    <2>2. Live(w, fd)
      BY <1>7 DEF Live, Closing
    <2>3. accepted # fd /\ \A v \in ConnWorkers : ~ Queued(v, fd)
      BY <2>2, LiveApart
    <2>4. \A v \in ConnWorkers, f \in Fds : Queued(v, f)' <=> Queued(v, f)
      BY <2>1 DEF Queued
    <2>5. QED
      BY <2>1, <2>3, <2>4, NoConnAssumption DEF Apart
  <1>8. ASSUME NEW w \in ConnWorkers, NEW fd \in Fds, PeerClosed(w, fd) \/ SocketError(w, fd)
        PROVE  Apart'
    BY <1>7, <1>8 DEF PeerClosed, SocketError
  <1>9. ASSUME NEW w \in ConnWorkers, BadPacket(w)
        PROVE  Apart'
    <2>1. ccur[w] \in Fds /\ Registered(w, ccur[w])
      BY <1>9 DEF BadPacket, TypeOK
    <2>2. QED
      BY <1>7, <1>9, <2>1 DEF BadPacket
  <1>10. ASSUME NEW w \in ConnWorkers, NEW fd \in Fds, ClientEventIn(w, fd)
         PROVE  Apart'
    <2>1. /\ UNCHANGED <<fdConn, client, sent, accepted, cliFds>>
          /\ \A x \in Conns \ {fdConn[fd]} : taken'[x] = taken[x]
      <3>1. PICK d \in TcpConn, k \in Nat : ReadTo(w, fd, d, k)
        BY <1>10, ReadEffect
      <3>2. \A x \in Conns \ {fdConn[fd]} : taken'[x] = taken[x]
        BY <3>1 DEF ReadTo, TypeOK
      <3>3. QED
        BY <1>10, <3>2 DEF ClientEventIn, cliVars
    <2>2. Live(w, fd)
      BY <1>10 DEF ClientEventIn, Live, Closing
    <2>3. accepted # fd /\ \A v \in ConnWorkers : ~ Queued(v, fd)
      BY <2>2, LiveApart
    <2>4. \A v \in ConnWorkers, f \in Fds : Queued(v, f)' <=> Queued(v, f)
      BY <2>1 DEF Queued
    <2>5. ASSUME NEW f \in Fds, accepted = f \/ \E v \in ConnWorkers : Queued(v, f)
          PROVE  taken'[fdConn[f]] = 0
      <3>1. fdConn[f] \in Conns /\ f # fd
        BY <2>3, <2>5 DEF DescriptorTable, TypeOK
      <3>2. fdConn[f] # fdConn[fd]
        BY <3>1, NoConnAssumption DEF Apart
      <3>3. QED
        BY <2>1, <2>5, <3>1, <3>2 DEF Apart
    <2>6. QED
      BY <2>1, <2>4, <2>5 DEF Apart
  <1>11. ASSUME NEW r \in RealWorkers,
                \/ ReadReqToken(r) \/ TakeRequests(r) \/ DealWithRequest(r)
                \/ RefuseRequest(r) \/ RequestsDone(r)
         PROVE  Apart'
    BY <1>1, <1>11 DEF ReadReqToken, TakeRequests, DealWithRequest, RefuseRequest, RequestsDone,
                       kernelVars, cliVars
  <1>12. CASE UNCHANGED vars
    BY <1>1, <1>12 DEF vars, kernelVars, cliVars
  <1>13. QED
    BY <1>2, <1>3, <1>4, <1>5, <1>6, <1>8, <1>9, <1>10, <1>11, <1>12 DEF Next

\* Every step keeps the batches: a handler leaves its last control state only
\* when its batch is empty.
LEMMA BatchesStep ==
  TypeOK /\ Batches /\ [Next]_vars => Batches'
  <1> SUFFICES ASSUME TypeOK, Batches, [Next]_vars
               PROVE  Batches'
    OBVIOUS
  <1>1. ASSUME UNCHANGED <<rpc, rbatch, cbatch>>,
               \A w \in ConnWorkers : cpc'[w] # "respond" => cpc[w] # "respond" \/ cbatch[w] = << >>
        PROVE  Batches'
    BY <1>1 DEF Batches
  <1>2. ASSUME UNCHANGED <<rpc, rbatch, cpc, cbatch>>
        PROVE  Batches'
    BY <1>1, <1>2
  <1>3. ASSUME NEW c \in Conns,
               ClientSend(c) \/ ClientClose(c) \/ \E fd \in Fds : Accept(c, fd)
        PROVE  Batches'
    BY <1>2, <1>3 DEF ClientSend, ClientClose, Accept, loopVars, realVars
  <1>4. ASSUME NEW w \in ConnWorkers,
               \/ AddClientFdAndNotify(w) \/ AddClient(w)
               \/ (\E r \in RealWorkers : SendRequestToRealWorker(w, r))
               \/ \E fd \in Fds : ClientEventOut(w, fd)
        PROVE  Batches'
    BY <1>2, <1>4 DEF AddClientFdAndNotify, AddClient, SendRequestToRealWorker, ClientEventOut,
                      loopVars, realVars
  <1>5. ASSUME NEW w \in ConnWorkers,
               \/ ReadCliToken(w) \/ LockCliFds(w) \/ AddClientsDone(w) \/ DataNotEnough(w)
               \/ ReadRespToken(w) \/ ResponsesDone(w) \/ EraseConn(w) \/ BadPacket(w)
               \/ \E fd \in Fds : ClientEventIn(w, fd) \/ PeerClosed(w, fd) \/ SocketError(w, fd)
        PROVE  Batches'
    <2>1. UNCHANGED <<rpc, rbatch, cbatch>>
      BY <1>5 DEF ReadCliToken, LockCliFds, AddClientsDone, DataNotEnough, ReadRespToken, ResponsesDone,
                  EraseConn, BadPacket, ClientEventIn, PeerClosed, SocketError, CloseFd, realVars
    <2>2. \A v \in ConnWorkers \ {w} : cpc'[v] = cpc[v]
      BY <1>5 DEF ReadCliToken, LockCliFds, AddClientsDone, DataNotEnough, ReadRespToken, ResponsesDone,
                  EraseConn, BadPacket, ClientEventIn, PeerClosed, SocketError, CloseFd, TypeOK
    <2>3. cpc[w] # "respond" \/ cbatch[w] = << >>
      BY <1>5 DEF ReadCliToken, LockCliFds, AddClientsDone, DataNotEnough, ReadRespToken, ResponsesDone,
                  EraseConn, BadPacket, ClientEventIn, PeerClosed, SocketError
    <2>4. QED
      BY <1>1, <2>1, <2>2, <2>3
  <1>6. ASSUME NEW w \in ConnWorkers, TakeResponses(w) \/ DealWithResp(w)
        PROVE  Batches'
    <2>1. /\ UNCHANGED <<rpc, rbatch>> /\ cpc'[w] = "respond"
          /\ \A v \in ConnWorkers \ {w} : cpc'[v] = cpc[v] /\ cbatch'[v] = cbatch[v]
      BY <1>6 DEF TakeResponses, DealWithResp, TypeOK, realVars
    <2>2. QED
      BY <2>1 DEF Batches
  <1>7. ASSUME NEW r \in RealWorkers,
               \/ ReadReqToken(r) \/ TakeRequests(r) \/ DealWithRequest(r)
               \/ RefuseRequest(r) \/ RequestsDone(r)
        PROVE  Batches'
    <2>1. UNCHANGED <<cpc, cbatch>>
      BY <1>7 DEF ReadReqToken, TakeRequests, DealWithRequest, RefuseRequest, RequestsDone, loopVars
    <2>2. \A x \in RealWorkers \ {r} : rpc'[x] = rpc[x] /\ rbatch'[x] = rbatch[x]
      BY <1>7 DEF ReadReqToken, TakeRequests, DealWithRequest, RefuseRequest, RequestsDone, TypeOK
    <2>3. rpc'[r] = "work" \/ rbatch'[r] = << >>
      BY <1>7 DEF ReadReqToken, TakeRequests, DealWithRequest, RefuseRequest, RequestsDone, TypeOK,
                  Batches
    <2>4. QED
      BY <2>1, <2>2, <2>3 DEF Batches
  <1>8. CASE UNCHANGED vars
    BY <1>2, <1>8 DEF vars, loopVars, realVars
  <1>9. QED
    BY <1>3, <1>4, <1>5, <1>6, <1>7, <1>8 DEF Next

-----------------------------------------------------------------------------
\* Addresses

\* What a step may do to live entries so that blocks stay findable.
KeepsEntries ==
  \A v \in ConnWorkers, f \in Fds :
    Live(v, f)' => /\ Live(v, f) /\ fdConn'[f] = fdConn[f]
                   /\ conns'[v][f].id = conns[v][f].id

\* A step that registers no entry keeps the addresses of the blocks.
LEMMA AddressedKept ==
  ASSUME Addressed, KeepsEntries,
         \A b \in OneDataBlock : InFlight(b)' => InFlight(b) \/ Findable(b)'
  PROVE  Addressed'
  <1>1. ASSUME NEW b \in OneDataBlock, InFlight(b)
        PROVE  Findable(b)'
    <2>1. Findable(b)
      BY <1>1 DEF Addressed
    <2>2. QED
      BY <2>1 DEF Findable, KeepsEntries
  <1>2. QED
    BY <1>1 DEF Addressed

\* The handlers that change an entry keep its id.
LEMMA EntryKeepsId ==
  ASSUME TypeOK, NEW w \in ConnWorkers,
         \/ \E fd \in Fds : ClientEventIn(w, fd) \/ ClientEventOut(w, fd)
         \/ \E r \in RealWorkers : SendRequestToRealWorker(w, r)
         \/ DealWithResp(w)
  PROVE  KeepsEntries
  <1>1. fdConn' = fdConn
    BY DEF ClientEventIn, ClientEventOut, SendRequestToRealWorker, DealWithResp, kernelVars
  <1>2. \A v \in ConnWorkers, f \in Fds : Live(v, f)' <=> Live(v, f)
    BY EntryKeepsLive
  <1>3. ASSUME NEW fd \in Fds, NEW d \in TcpConn, conns' = [conns EXCEPT ![w][fd] = d],
               d.id = conns[w][fd].id
        PROVE  \A v \in ConnWorkers, f \in Fds : conns'[v][f].id = conns[v][f].id
    BY <1>3 DEF TypeOK
  <1>4. \A v \in ConnWorkers, f \in Fds : conns'[v][f].id = conns[v][f].id
    <2>1. ASSUME NEW fd \in Fds, ClientEventIn(w, fd)
          PROVE  <1>4
      <3>1. PICK d \in TcpConn, k \in Nat : ReadTo(w, fd, d, k)
        BY <2>1, ReadEffect
      <3>2. conns' = [conns EXCEPT ![w][fd] = d] /\ d.id = conns[w][fd].id
        BY <3>1 DEF ReadTo
      <3>3. QED
        BY <1>3, <3>2
    <2>2. ASSUME NEW fd \in Fds, ClientEventOut(w, fd)
          PROVE  <1>4
      <3>1. PICK d \in TcpConn, s \in Seq(Request) : WriteTo(w, fd, d, s)
        BY <2>2, WriteEffect
      <3>2. conns' = [conns EXCEPT ![w][fd] = d] /\ d.id = conns[w][fd].id
        BY <3>1 DEF WriteTo
      <3>3. QED
        BY <1>3, <3>2
    <2>3. ASSUME NEW r \in RealWorkers, SendRequestToRealWorker(w, r)
          PROVE  <1>4
      <3>1. PICK fd \in Fds : fd = ccur[w]
        BY <2>3, DispatchEffect
      <3>2. PICK d \in TcpConn, e \in OneDataBlock : DispatchTo(w, r, fd, d, e)
        BY <2>3, <3>1, DispatchEffect
      <3>3. conns' = [conns EXCEPT ![w][fd] = d] /\ d.id = conns[w][fd].id
        BY <3>2 DEF DispatchTo
      <3>4. QED
        BY <1>3, <3>3
    <2>4. ASSUME DealWithResp(w)
          PROVE  <1>4
      <3>1. CASE conns' = conns
        BY <3>1
      <3>2. ASSUME NEW d \in TcpConn, RespondTo(w, Head(cbatch[w]), d)
            PROVE  <1>4
        <4>1. PICK f \in Fds : f = Head(cbatch[w]).fd
          BY <2>4, RespondEffect
        <4>2. conns' = [conns EXCEPT ![w][f] = d] /\ d.id = conns[w][f].id
          BY <3>2, <4>1 DEF RespondTo
        <4>3. QED
          BY <1>3, <4>2
      <3>3. QED
        BY <2>4, <3>1, <3>2, RespondEffect
    <2>5. QED
      BY <2>1, <2>2, <2>3, <2>4
  <1>5. QED
    BY <1>1, <1>2, <1>4 DEF KeepsEntries

-----------------------------------------------------------------------------
\* Requests are moved, not lost and not doubled

\* What a request needs of a step that leaves what was read alone.
LEMMA AccountedKept ==
  ASSUME NEW q \in Request, Accounted(q), taken'[q[1]] = taken[q[1]],
         Open(q[1])' => Open(q[1]), NoRepeat(q)', Lone(Spots(q)'),
         Spots(q)' = {} <=> Spots(q) = {}
  PROVE  Accounted(q)'
  <1>1. Begun(q)' <=> Begun(q)
    BY DEF Begun
  <1>2. QED
    BY <1>1 DEF Accounted

\* The containers of a request did not change.
Unmoved(q) ==
  /\ InReqQ(q)' = InReqQ(q) /\ InDeal(q)' = InDeal(q)
  /\ InRespQ(q)' = InRespQ(q) /\ InResp(q)' = InResp(q)
  /\ InRsp(q)' = InRsp(q) /\ InReq(q)' = InReq(q)
  /\ InGot(q)' = InGot(q) /\ InRefused(q)' = InRefused(q)

\* Then it is where it was.
LEMMA AccountedStays ==
  ASSUME NEW q \in Request, Accounted(q), taken'[q[1]] = taken[q[1]],
         Open(q[1])' => Open(q[1]), NoRepeat(q)', Unmoved(q)
  PROVE  Accounted(q)'
  <1>1. Spots(q)' = Spots(q)
    BY DEF Spots, Unmoved
  <1>2. Lone(Spots(q)')
    BY <1>1 DEF Accounted
  <1>3. QED
    BY <1>1, <1>2, AccountedKept

\* Steps that change no entry, seen from the requests.
LEMMA IdleEntries ==
  ASSUME NEW q \in Request, NoRepeat(q), UNCHANGED <<fdConn, conns>>,
         \A v \in ConnWorkers, f \in Fds : Live(v, f)' <=> Live(v, f)
  PROVE  /\ InRsp(q)' = InRsp(q) /\ InReq(q)' = InReq(q)
         /\ Open(q[1])' <=> Open(q[1])
         /\ \A e \in LiveEntries' : Lone(At(q, conns'[e[1]][e[2]].rsp_content))
  <1>1. LiveEntries' = LiveEntries
    BY DEF LiveEntries
  <1>2. QED
    BY <1>1 DEF InRsp, InReq, Open, NoRepeat

\* TakeRequests moves the whole deque into an empty batch.
LEMMA TakeRequestsAccounted ==
  ASSUME TypeOK, Batches, NEW r \in RealWorkers, TakeRequests(r), NEW q \in Request, Accounted(q)
  PROVE  Accounted(q)'
  <1>1. /\ UNCHANGED <<fdConn, conns, cpc, ccur, taken, got, respQ, cbatch, refused>>
        /\ reqQ'[r] = << >> /\ rbatch'[r] = reqQ[r]
        /\ \A x \in RealWorkers \ {r} : reqQ'[x] = reqQ[x] /\ rbatch'[x] = rbatch[x]
    BY DEF TakeRequests, TypeOK, kernelVars, connVars, respVars, loopVars
  <1>2. rbatch[r] = << >>
    BY DEF TakeRequests, Batches
  <1>3. InBlocks(q, << >>) = {} /\ Lone({})
    BY NoPlaces
  <1>4. NoRepeat(q) /\ Lone(Spots(q))
    BY DEF Accounted
  <1>5. /\ InRsp(q)' = InRsp(q) /\ InReq(q)' = InReq(q)
        /\ Open(q[1])' <=> Open(q[1])
        /\ \A e \in LiveEntries' : Lone(At(q, conns'[e[1]][e[2]].rsp_content))
    BY <1>1, <1>4, IdleEntries, IdleKeepsLive
  <1>6. /\ InRespQ(q)' = InRespQ(q) /\ InResp(q)' = InResp(q)
        /\ InGot(q)' = InGot(q) /\ InRefused(q)' = InRefused(q)
    BY <1>1 DEF InRespQ, InResp, InGot, InRefused
  <1>7. NoRepeat(q)'
    <2>1. \A x \in RealWorkers : Lone(InBlocks(q, reqQ'[x])) /\ Lone(InBlocks(q, rbatch'[x]))
      BY <1>1, <1>3, <1>4 DEF NoRepeat
    <2>2. QED
      BY <1>1, <1>4, <1>5, <2>1 DEF NoRepeat
  <1>8. CASE InBlocks(q, reqQ[r]) = {}
    <2>1. InReqQ(q)' = InReqQ(q) /\ InDeal(q)' = InDeal(q)
      BY <1>1, <1>2, <1>3, <1>8 DEF InReqQ, InDeal
    <2>2. QED
      BY <1>1, <1>5, <1>6, <1>7, <2>1, AccountedStays DEF Unmoved
  <1>9. CASE InBlocks(q, reqQ[r]) # {}
    <2>1. r \in InReqQ(q)
      BY <1>9 DEF InReqQ
    <2>2. /\ \A x \in InReqQ(q) : x = r
          /\ InDeal(q) = {} /\ InRespQ(q) = {} /\ InResp(q) = {} /\ InRsp(q) = {}
          /\ InReq(q) = {} /\ InGot(q) = {} /\ InRefused(q) = {}
      BY <1>4, <2>1, SoleSpots DEF Sole, Lone
    <2>3. InReqQ(q)' = {}
      BY <1>1, <1>3, <2>2 DEF InReqQ
    <2>4. InDeal(q)' = {r}
      BY <1>1, <1>9, <2>2 DEF InDeal
    <2>5. Lone(Spots(q)')
      BY <1>5, <1>6, <2>2, <2>3, <2>4, SoleSpots DEF Sole, Lone
    <2>6. Spots(q) # {} /\ Spots(q)' # {}
      BY <2>1, <2>4, SoleSpots
    <2>7. QED
      BY <1>1, <1>5, <1>7, <2>5, <2>6, AccountedKept
  <1>10. QED
    BY <1>8, <1>9

\* RespDataNotifyEventInternalAction moves the responses the same way.
LEMMA TakeResponsesAccounted ==
  ASSUME TypeOK, Batches, NEW w \in ConnWorkers, TakeResponses(w), NEW q \in Request, Accounted(q)
  PROVE  Accounted(q)'
  <1>1. /\ UNCHANGED <<fdConn, conns, taken, got, reqQ, rbatch, refused>>
        /\ respQ'[w] = << >> /\ cbatch'[w] = respQ[w]
        /\ \A x \in ConnWorkers \ {w} : respQ'[x] = respQ[x] /\ cbatch'[x] = cbatch[x]
    BY DEF TakeResponses, TypeOK, kernelVars, connVars, realVars
  <1>2. cbatch[w] = << >>
    BY DEF TakeResponses, Batches
  <1>3. InBlocks(q, << >>) = {} /\ Lone({})
    BY NoPlaces
  <1>4. NoRepeat(q) /\ Lone(Spots(q))
    BY DEF Accounted
  <1>5. /\ InRsp(q)' = InRsp(q) /\ InReq(q)' = InReq(q)
        /\ Open(q[1])' <=> Open(q[1])
        /\ \A e \in LiveEntries' : Lone(At(q, conns'[e[1]][e[2]].rsp_content))
    BY <1>1, <1>4, IdleEntries, HandlerKeepsLive
  <1>6. /\ InReqQ(q)' = InReqQ(q) /\ InDeal(q)' = InDeal(q)
        /\ InGot(q)' = InGot(q) /\ InRefused(q)' = InRefused(q)
    BY <1>1 DEF InReqQ, InDeal, InGot, InRefused
  <1>7. NoRepeat(q)'
    <2>1. \A x \in ConnWorkers : Lone(InBlocks(q, respQ'[x])) /\ Lone(InBlocks(q, cbatch'[x]))
      BY <1>1, <1>3, <1>4 DEF NoRepeat
    <2>2. QED
      BY <1>1, <1>4, <1>5, <2>1 DEF NoRepeat
  <1>8. CASE InBlocks(q, respQ[w]) = {}
    <2>1. InRespQ(q)' = InRespQ(q) /\ InResp(q)' = InResp(q)
      BY <1>1, <1>2, <1>3, <1>8 DEF InRespQ, InResp
    <2>2. QED
      BY <1>1, <1>5, <1>6, <1>7, <2>1, AccountedStays DEF Unmoved
  <1>9. CASE InBlocks(q, respQ[w]) # {}
    <2>1. w \in InRespQ(q)
      BY <1>9 DEF InRespQ
    <2>2. /\ \A x \in InRespQ(q) : x = w
          /\ InReqQ(q) = {} /\ InDeal(q) = {} /\ InResp(q) = {} /\ InRsp(q) = {}
          /\ InReq(q) = {} /\ InGot(q) = {} /\ InRefused(q) = {}
      BY <1>4, <2>1, SoleSpots DEF Sole, Lone
    <2>3. InRespQ(q)' = {}
      BY <1>1, <1>3, <2>2 DEF InRespQ
    <2>4. InResp(q)' = {w}
      BY <1>1, <1>9, <2>2 DEF InResp
    <2>5. Lone(Spots(q)')
      BY <1>5, <1>6, <2>2, <2>3, <2>4, SoleSpots DEF Sole, Lone
    <2>6. Spots(q) # {} /\ Spots(q)' # {}
      BY <2>1, <2>4, SoleSpots
    <2>7. QED
      BY <1>1, <1>5, <1>7, <2>5, <2>6, AccountedKept
  <1>10. QED
    BY <1>8, <1>9

\* Taking the first block of a batch, seen from request q.
Taken(q, s, t, b) ==
  /\ Lone(InBlocks(q, t))
  /\ b.real_data # q => (InBlocks(q, t) = {} <=> InBlocks(q, s) = {})
  /\ b.real_data = q => InBlocks(q, s) # {} /\ InBlocks(q, t) = {}

LEMMA TakenHead ==
  ASSUME NEW s \in Seq(OneDataBlock), s # << >>, NEW q, Lone(InBlocks(q, s))
  PROVE  Taken(q, s, Tail(s), Head(s))
  BY TailBlocks DEF Taken

\* AddResponseAndNotify moves the first block of the batch to the deque of its
\* ConnWorker.
LEMMA DealAccounted ==
  ASSUME TypeOK, NEW r \in RealWorkers, DealWithRequest(r), NEW q \in Request, Accounted(q)
  PROVE  Accounted(q)'
  <1>1. /\ UNCHANGED <<fdConn, conns, cpc, ccur, taken, got, reqQ, cbatch, refused>>
        /\ rbatch[r] # << >> /\ rbatch[r] \in Seq(OneDataBlock)
        /\ rbatch'[r] = Tail(rbatch[r])
        /\ \A x \in RealWorkers \ {r} : rbatch'[x] = rbatch[x]
    BY DEF DealWithRequest, TypeOK, kernelVars, connVars, loopVars
  <1>2. PICK b \in OneDataBlock : b = Head(rbatch[r])
    BY <1>1, HeadTailProperties
  <1>3. PICK w \in ConnWorkers : w = b.worker
    BY DEF OneDataBlock
  <1>4. /\ respQ'[w] = Append(respQ[w], b) /\ respQ[w] \in Seq(OneDataBlock)
        /\ \A x \in ConnWorkers \ {w} : respQ'[x] = respQ[x]
    BY <1>2, <1>3 DEF DealWithRequest, TypeOK
  <1>5. NoRepeat(q) /\ Lone(Spots(q))
    BY DEF Accounted
  <1>6. /\ InRsp(q)' = InRsp(q) /\ InReq(q)' = InReq(q)
        /\ Open(q[1])' <=> Open(q[1])
        /\ \A e \in LiveEntries' : Lone(At(q, conns'[e[1]][e[2]].rsp_content))
    BY <1>1, <1>5, IdleEntries, IdleKeepsLive
  <1>7. /\ InReqQ(q)' = InReqQ(q) /\ InResp(q)' = InResp(q)
        /\ InGot(q)' = InGot(q) /\ InRefused(q)' = InRefused(q)
    BY <1>1 DEF InReqQ, InResp, InGot, InRefused
  <1>8. Taken(q, rbatch[r], rbatch'[r], b)
    BY <1>1, <1>2, <1>5, TakenHead DEF NoRepeat
  <1>9. /\ b.real_data # q => InBlocks(q, respQ'[w]) = InBlocks(q, respQ[w])
        /\ b.real_data = q => InBlocks(q, respQ'[w]) # {}
        /\ b.real_data = q /\ InBlocks(q, respQ[w]) = {} => Lone(InBlocks(q, respQ'[w]))
    BY <1>4, AppendBlock
  <1>10. CASE b.real_data # q
    <2>1. InDeal(q)' = InDeal(q) /\ InRespQ(q)' = InRespQ(q)
      BY <1>1, <1>4, <1>8, <1>9, <1>10 DEF Taken, InDeal, InRespQ
    <2>2. NoRepeat(q)'
      BY <1>1, <1>4, <1>5, <1>6, <1>8, <1>9, <1>10 DEF NoRepeat, Taken
    <2>3. QED
      BY <1>1, <1>6, <1>7, <2>1, <2>2, AccountedStays DEF Unmoved
  <1>11. CASE b.real_data = q
    <2>1. r \in InDeal(q)
      BY <1>8, <1>11 DEF InDeal, Taken
    <2>2. /\ \A x \in InDeal(q) : x = r
          /\ InReqQ(q) = {} /\ InRespQ(q) = {} /\ InResp(q) = {} /\ InRsp(q) = {}
          /\ InReq(q) = {} /\ InGot(q) = {} /\ InRefused(q) = {}
      BY <1>5, <2>1, SoleSpots DEF Sole, Lone
    <2>3. \A x \in ConnWorkers : InBlocks(q, respQ[x]) = {}
      BY <2>2 DEF InRespQ
    <2>4. InDeal(q)' = {}
      BY <1>1, <1>8, <1>11, <2>2 DEF InDeal, Taken
    <2>5. InRespQ(q)' = {w}
      BY <1>4, <1>9, <1>11, <2>3 DEF InRespQ
    <2>6. NoRepeat(q)'
      BY <1>1, <1>4, <1>5, <1>6, <1>8, <1>9, <1>11, <2>3 DEF NoRepeat, Taken
    <2>7. Lone(Spots(q)')
      BY <1>6, <1>7, <2>2, <2>4, <2>5, SoleSpots DEF Sole, Lone
    <2>8. Spots(q) # {} /\ Spots(q)' # {}
      BY <2>1, <2>5, SoleSpots
    <2>9. QED
      BY <1>1, <1>6, <2>6, <2>7, <2>8, AccountedKept
  <1>12. QED
    BY <1>10, <1>11

\* A refused request is recorded instead.
LEMMA RefuseAccounted ==
  ASSUME TypeOK, NEW r \in RealWorkers, RefuseRequest(r), NEW q \in Request, Accounted(q)
  PROVE  Accounted(q)'
  <1>1. /\ UNCHANGED <<fdConn, conns, cpc, ccur, taken, got, reqQ, cbatch, respQ>>
        /\ rbatch[r] # << >> /\ rbatch[r] \in Seq(OneDataBlock)
        /\ rbatch'[r] = Tail(rbatch[r])
        /\ \A x \in RealWorkers \ {r} : rbatch'[x] = rbatch[x]
        /\ refused' = refused \cup {Head(rbatch[r]).real_data}
    BY DEF RefuseRequest, TypeOK, kernelVars, connVars, loopVars, respVars
  <1>2. PICK b \in OneDataBlock : b = Head(rbatch[r])
    BY <1>1, HeadTailProperties
  <1>3. NoRepeat(q) /\ Lone(Spots(q))
    BY DEF Accounted
  <1>4. /\ InRsp(q)' = InRsp(q) /\ InReq(q)' = InReq(q)
        /\ Open(q[1])' <=> Open(q[1])
        /\ \A e \in LiveEntries' : Lone(At(q, conns'[e[1]][e[2]].rsp_content))
    BY <1>1, <1>3, IdleEntries, IdleKeepsLive
  <1>5. /\ InReqQ(q)' = InReqQ(q) /\ InResp(q)' = InResp(q)
        /\ InGot(q)' = InGot(q) /\ InRespQ(q)' = InRespQ(q)
    BY <1>1 DEF InReqQ, InResp, InGot, InRespQ
  <1>6. Taken(q, rbatch[r], rbatch'[r], b)
    BY <1>1, <1>2, <1>3, TakenHead DEF NoRepeat
  <1>7. NoRepeat(q)'
    BY <1>1, <1>3, <1>4, <1>6 DEF NoRepeat, Taken
  <1>8. CASE b.real_data # q
    <2>1. InDeal(q)' = InDeal(q) /\ InRefused(q)' = InRefused(q)
      BY <1>1, <1>2, <1>6, <1>8 DEF Taken, InDeal, InRefused
    <2>2. QED
      BY <1>1, <1>4, <1>5, <1>7, <2>1, AccountedStays DEF Unmoved
  <1>9. CASE b.real_data = q
    <2>1. r \in InDeal(q)
      BY <1>6, <1>9 DEF InDeal, Taken
    <2>2. /\ \A x \in InDeal(q) : x = r
          /\ InReqQ(q) = {} /\ InRespQ(q) = {} /\ InResp(q) = {} /\ InRsp(q) = {}
          /\ InReq(q) = {} /\ InGot(q) = {} /\ InRefused(q) = {}
      BY <1>3, <2>1, SoleSpots DEF Sole, Lone
    <2>3. InDeal(q)' = {}
      BY <1>1, <1>6, <1>9, <2>2 DEF InDeal, Taken
    <2>4. InRefused(q)' = {q}
      BY <1>1, <1>2, <1>9 DEF InRefused
    <2>5. Lone(Spots(q)')
      BY <1>4, <1>5, <2>2, <2>3, <2>4, SoleSpots DEF Sole, Lone
    <2>6. Spots(q) # {} /\ Spots(q)' # {}
      BY <2>1, <2>4, SoleSpots
    <2>7. QED
      BY <1>1, <1>4, <1>7, <2>5, <2>6, AccountedKept
  <1>10. QED
    BY <1>8, <1>9

\* A handler replaces the live entry of fd by d.
Replaces(w, fd, d) ==
  /\ Live(w, fd) /\ fdConn' = fdConn
  /\ conns' = [conns EXCEPT ![w][fd] = d]
  /\ \A v \in ConnWorkers, f \in Fds : Live(v, f)' <=> Live(v, f)

\* The other live entries stay.
LEMMA ReplacedEntry ==
  ASSUME TypeOK, NEW w \in ConnWorkers, NEW fd \in Fds, NEW d, Replaces(w, fd, d)
  PROVE  /\ LiveEntries' = LiveEntries
         /\ <<w, fd>> \in LiveEntries
         /\ conns'[w][fd] = d
         /\ \A e \in LiveEntries : e # <<w, fd>> => conns'[e[1]][e[2]] = conns[e[1]][e[2]]
         /\ \A c : Open(c)' <=> Open(c)
  <1>1. LiveEntries' = LiveEntries /\ <<w, fd>> \in LiveEntries
    BY DEF LiveEntries, Replaces
  <1>2. /\ conns'[w][fd] = d
        /\ \A v \in ConnWorkers, f \in Fds : v # w \/ f # fd => conns'[v][f] = conns[v][f]
    BY DEF TypeOK, Replaces
  <1>3. \A e \in LiveEntries : e # <<w, fd>> => conns'[e[1]][e[2]] = conns[e[1]][e[2]]
    <2>1. ASSUME NEW e \in LiveEntries, e # <<w, fd>>
          PROVE  conns'[e[1]][e[2]] = conns[e[1]][e[2]]
      <3>1. PICK v \in ConnWorkers, f \in Fds : e = <<v, f>>
        BY DEF LiveEntries
      <3>2. v # w \/ f # fd
        BY <2>1, <3>1
      <3>3. QED
        BY <1>2, <3>1, <3>2
    <2>2. QED
      BY <2>1
  <1>4. \A c : Open(c)' <=> Open(c)
    BY DEF Open, Replaces
  <1>5. QED
    BY <1>1, <1>2, <1>3, <1>4

\* An answer is appended to the entry of its connection; it is dropped only
\* when that connection is no longer open.
LEMMA RespondAccounted ==
  ASSUME TypeOK, AtHome, Addressed, NEW w \in ConnWorkers, DealWithResp(w),
         NEW q \in Request, Accounted(q)
  PROVE  Accounted(q)'
  <1>1. /\ UNCHANGED <<fdConn, taken, got, reqQ, rbatch, respQ, refused>>
        /\ cpc[w] = "respond"
        /\ cbatch[w] # << >> /\ cbatch[w] \in Seq(OneDataBlock)
        /\ cbatch'[w] = Tail(cbatch[w])
        /\ \A x \in ConnWorkers \ {w} : cbatch'[x] = cbatch[x]
    BY DEF DealWithResp, TypeOK, kernelVars, respVars, realVars
  <1>2. PICK b \in OneDataBlock : b = Head(cbatch[w])
    BY RespondEffect
  <1>3. PICK fd \in Fds : fd = b.fd
    BY DEF OneDataBlock
  <1>4. NoRepeat(q) /\ Lone(Spots(q))
    BY DEF Accounted
  <1>5. \A v \in ConnWorkers, f \in Fds : Live(v, f)' <=> Live(v, f)
    BY EntryKeepsLive
  <1>6. /\ InReqQ(q)' = InReqQ(q) /\ InDeal(q)' = InDeal(q) /\ InRespQ(q)' = InRespQ(q)
        /\ InGot(q)' = InGot(q) /\ InRefused(q)' = InRefused(q)
    BY <1>1 DEF InReqQ, InDeal, InRespQ, InGot, InRefused
  <1>7. Taken(q, cbatch[w], cbatch'[w], b)
    BY <1>1, <1>2, <1>4, TakenHead DEF NoRepeat
  <1>8. b.real_data # q => InResp(q)' = InResp(q)
    BY <1>1, <1>7 DEF InResp, Taken
  <1>9. ASSUME b.real_data = q
        PROVE  /\ w \in InResp(q) /\ InResp(q)' = {}
               /\ InReqQ(q) = {} /\ InDeal(q) = {} /\ InRespQ(q) = {} /\ InRsp(q) = {}
               /\ InReq(q) = {} /\ InGot(q) = {} /\ InRefused(q) = {}
    <2>1. w \in InResp(q)
      BY <1>7, <1>9 DEF InResp, Taken
    <2>2. /\ \A x \in InResp(q) : x = w
          /\ InReqQ(q) = {} /\ InDeal(q) = {} /\ InRespQ(q) = {} /\ InRsp(q) = {}
          /\ InReq(q) = {} /\ InGot(q) = {} /\ InRefused(q) = {}
      BY <1>4, <2>1, SoleSpots DEF Sole, Lone
    <2>3. InResp(q)' = {}
      BY <1>1, <1>7, <1>9, <2>2 DEF InResp, Taken
    <2>4. QED
      BY <2>1, <2>2, <2>3
  <1>10. CASE conns' = conns /\ ~ Matches(w, b)
    <2>1. /\ InRsp(q)' = InRsp(q) /\ InReq(q)' = InReq(q)
          /\ Open(q[1])' <=> Open(q[1])
          /\ \A e \in LiveEntries' : Lone(At(q, conns'[e[1]][e[2]].rsp_content))
      BY <1>1, <1>4, <1>5, <1>10, IdleEntries
    <2>2. NoRepeat(q)'
      BY <1>1, <1>4, <1>7, <2>1 DEF NoRepeat, Taken
    <2>3. CASE b.real_data # q
      BY <1>1, <1>6, <1>8, <2>1, <2>2, <2>3, AccountedStays DEF Unmoved
    <2>4. CASE b.real_data = q
      <3>1. ASSUME NEW v \in ConnWorkers, NEW f \in Fds, Live(v, f), fdConn[f] = q[1]
            PROVE  FALSE
        <4>1. In(b, cbatch[w])
          BY <1>1, <1>2, InMoves
        <4>2. InFlight(b) /\ b.worker = w
          BY <4>1 DEF InFlight, AtHome
        <4>3. b.worker = v /\ b.fd = f /\ b.id = conns[v][f].id
          BY <2>4, <3>1, <4>2 DEF Addressed, Findable
        <4>4. QED
          BY <1>10, <3>1, <4>2, <4>3 DEF Matches, Live
      <3>2. ~ Open(q[1])'
        BY <2>1, <3>1 DEF Open
      <3>3. Spots(q)' = {}
        BY <1>6, <1>9, <2>1, <2>4, SoleSpots
      <3>4. Lone(Spots(q)')
        BY <3>3, NoPlaces
      <3>5. QED
        BY <2>2, <3>2, <3>3, <3>4 DEF Accounted
    <2>5. QED
      BY <2>3, <2>4
  <1>11. ASSUME NEW d \in TcpConn, RespondTo(w, b, d), RespondExactly(w, b, d)
         PROVE  Accounted(q)'
    <2>1. Replaces(w, fd, d)
      BY <1>1, <1>3, <1>5, <1>11 DEF Replaces, RespondTo, Matches, Live, Closing
    <2>2. /\ LiveEntries' = LiveEntries
          /\ <<w, fd>> \in LiveEntries
          /\ conns'[w][fd] = d
          /\ \A e \in LiveEntries : e # <<w, fd>> => conns'[e[1]][e[2]] = conns[e[1]][e[2]]
          /\ Open(q[1])' <=> Open(q[1])
      BY <2>1, ReplacedEntry
    <2>3. /\ d.req_content = conns[w][fd].req_content
          /\ d.rsp_content = Append(conns[w][fd].rsp_content, b.real_data)
      BY <1>3, <1>11 DEF RespondTo, RespondExactly
    <2>4. conns[w][fd].rsp_content \in Seq(Request) /\ b.real_data \in Request
      BY <2>1 DEF Replaces, Live, Registered, TypeOK, TcpConn, OneDataBlock
    <2> DEFINE s == conns[w][fd].rsp_content
               u == d.rsp_content
    <2>5. /\ b.real_data # q => At(q, u) = At(q, s)
          /\ b.real_data = q => At(q, u) # {}
          /\ b.real_data = q /\ At(q, s) = {} => Lone(At(q, u))
      BY <2>3, <2>4, AppendAt
    <2>6. InReq(q)' = InReq(q)
      BY <2>2, <2>3 DEF InReq
    <2>7. CASE b.real_data # q
      <3>1. InRsp(q)' = InRsp(q)
        BY <2>2, <2>5, <2>7 DEF InRsp
      <3>2. \A e \in LiveEntries' : Lone(At(q, conns'[e[1]][e[2]].rsp_content))
        BY <1>4, <2>2, <2>5, <2>7 DEF NoRepeat
      <3>3. NoRepeat(q)'
        BY <1>1, <1>4, <1>7, <3>2 DEF NoRepeat, Taken
      <3>4. QED
        BY <1>1, <1>6, <1>8, <2>2, <2>6, <2>7, <3>1, <3>3, AccountedStays DEF Unmoved
    <2>8. CASE b.real_data = q
      <3>1. \A e \in LiveEntries : At(q, conns[e[1]][e[2]].rsp_content) = {}
        BY <1>9, <2>8 DEF InRsp
      <3>2. At(q, s) = {}
        BY <2>2, <3>1
      <3>3. InRsp(q)' = {<<w, fd>>}
        BY <2>2, <2>5, <2>8, <3>1 DEF InRsp
      <3>4. \A e \in LiveEntries' : Lone(At(q, conns'[e[1]][e[2]].rsp_content))
        BY <1>4, <2>2, <2>5, <2>8, <3>2 DEF NoRepeat
      <3>5. NoRepeat(q)'
        BY <1>1, <1>4, <1>7, <3>4 DEF NoRepeat, Taken
      <3>6. Lone(Spots(q)')
        BY <1>6, <1>9, <2>6, <2>8, <3>3, SoleSpots DEF Sole, Lone
      <3>7. Spots(q) # {} /\ Spots(q)' # {}
        BY <1>9, <2>8, <3>3, SoleSpots
      <3>8. QED
        BY <1>1, <2>2, <3>5, <3>6, <3>7, AccountedKept
    <2>9. QED
      BY <2>7, <2>8
  <1>12. QED
    BY <1>2, <1>10, <1>11, RespondEffect

\* A write moves answers from rsp_content to the client.
LEMMA WriteAccounted ==
  ASSUME TypeOK, AllOwn, NEW w \in ConnWorkers, NEW fd \in Fds, ClientEventOut(w, fd),
         NEW q \in Request, Accounted(q)
  PROVE  Accounted(q)'
  <1>1. UNCHANGED <<fdConn, taken, reqQ, rbatch, respQ, cbatch, refused>>
    BY DEF ClientEventOut, respVars, loopVars, realVars
  <1>2. PICK d \in TcpConn, a \in Seq(Request) : WriteTo(w, fd, d, a) /\ WriteExactly(w, fd, d, a)
    BY WriteEffect
  <1>3. PICK c \in Conns : c = fdConn[fd]
    BY WriteEffect
  <1>4. \A v \in ConnWorkers, f \in Fds : Live(v, f)' <=> Live(v, f)
    BY EntryKeepsLive
  <1>5. Replaces(w, fd, d)
    BY <1>1, <1>2, <1>4 DEF Replaces, WriteTo, ClientEventOut, Live, Closing
  <1>6. /\ LiveEntries' = LiveEntries
        /\ <<w, fd>> \in LiveEntries
        /\ conns'[w][fd] = d
        /\ \A e \in LiveEntries : e # <<w, fd>> => conns'[e[1]][e[2]] = conns[e[1]][e[2]]
        /\ Open(q[1])' <=> Open(q[1])
    BY <1>5, ReplacedEntry
  <1>7. NoRepeat(q) /\ Lone(Spots(q))
    BY DEF Accounted
  <1>8. d.req_content = conns[w][fd].req_content
    BY <1>2 DEF WriteTo
  <1> DEFINE s == conns[w][fd].rsp_content
             t == got[c]
             u == got'[c]
             z == d.rsp_content
  <1>9. s \in Seq(Request) /\ t \in Seq(Request)
    BY <1>5 DEF Replaces, Live, Registered, TypeOK, TcpConn
  <1>10. /\ u = t \o a /\ \A x \in Conns \ {c} : got'[x] = got[x]
    BY <1>2, <1>3 DEF WriteTo, TypeOK
  <1>11. PICK k \in 1..Len(s) : a = SubSeq(s, 1, k) /\ z = SubSeq(s, k + 1, Len(s))
    BY <1>2 DEF WriteExactly
  <1>12. Moved(s, k, t, u, z)
    BY <1>10, <1>11 DEF Moved
  <1> HIDE DEF s, t, u, z
  <1>13. /\ At(q, s) = {} => At(q, u) = At(q, t) /\ At(q, z) = {}
         /\ Lone(At(q, s)) /\ At(q, s) # {} /\ At(q, t) = {} =>
              /\ Lone(At(q, u)) /\ Lone(At(q, z))
              /\ At(q, u) = {} <=> At(q, z) # {}
    BY <1>9, <1>12, MovedAt
  <1>14. At(q, s) # {} => q[1] = c
    <2>1. \A i \in 1..Len(s) : s[i][1] = c
      BY <1>3, <1>5 DEF AllOwn, EntryOwn, Replaces, s
    <2>2. QED
      BY <2>1 DEF At
  <1>15. InReq(q)' = InReq(q)
    BY <1>6, <1>8 DEF InReq
  <1>16. /\ InReqQ(q)' = InReqQ(q) /\ InDeal(q)' = InDeal(q) /\ InRespQ(q)' = InRespQ(q)
         /\ InResp(q)' = InResp(q) /\ InRefused(q)' = InRefused(q)
    BY <1>1 DEF InReqQ, InDeal, InRespQ, InResp, InRefused
  <1>17. q[1] \in Conns
    BY DEF Request
  <1>18. CASE At(q, s) = {}
    <2>1. InRsp(q)' = InRsp(q)
      BY <1>6, <1>13, <1>18 DEF InRsp, s, z
    <2>2. At(q, got'[q[1]]) = At(q, got[q[1]])
      BY <1>10, <1>13, <1>17, <1>18 DEF t, u
    <2>3. InGot(q)' = InGot(q)
      BY <2>2 DEF InGot
    <2>4. Lone(At(q, z))
      BY <1>13, <1>18, NoPlaces
    <2>5. \A e \in LiveEntries' : Lone(At(q, conns'[e[1]][e[2]].rsp_content))
      BY <1>6, <1>7, <2>4 DEF NoRepeat, z
    <2>6. NoRepeat(q)'
      BY <1>1, <1>7, <2>2, <2>5 DEF NoRepeat
    <2>7. QED
      BY <1>1, <1>6, <1>15, <1>16, <2>1, <2>3, <2>6, AccountedStays DEF Unmoved
  <1>19. CASE At(q, s) # {}
    <2>1. <<w, fd>> \in InRsp(q) /\ q[1] = c
      BY <1>6, <1>14, <1>19 DEF InRsp, s
    <2>2. /\ \A x \in InRsp(q) : x = <<w, fd>>
          /\ InReqQ(q) = {} /\ InDeal(q) = {} /\ InRespQ(q) = {} /\ InResp(q) = {}
          /\ InReq(q) = {} /\ InGot(q) = {} /\ InRefused(q) = {}
      BY <1>7, <2>1, SoleSpots DEF Sole, Lone
    <2>3. At(q, t) = {} /\ Lone(At(q, s))
      BY <1>6, <1>7, <2>1, <2>2 DEF InGot, NoRepeat, s, t
    <2>4. /\ Lone(At(q, u)) /\ Lone(At(q, z))
          /\ At(q, u) = {} <=> At(q, z) # {}
      BY <1>13, <1>19, <2>3
    <2>5. InRsp(q)' = {x \in {<<w, fd>>} : At(q, z) # {}}
      <3>1. ASSUME NEW e \in LiveEntries, e # <<w, fd>>
            PROVE  At(q, conns'[e[1]][e[2]].rsp_content) = {}
        <4>1. e \notin InRsp(q)
          BY <2>2, <3>1
        <4>2. At(q, conns[e[1]][e[2]].rsp_content) = {}
          BY <3>1, <4>1 DEF InRsp
        <4>3. QED
          BY <1>6, <3>1, <4>2
      <3>2. conns'[<<w, fd>>[1]][<<w, fd>>[2]].rsp_content = z
        BY <1>6 DEF z
      <3>3. \A e : e \in InRsp(q)' <=> e = <<w, fd>> /\ At(q, z) # {}
        BY <1>6, <3>1, <3>2 DEF InRsp
      <3>4. QED
        BY <3>3
    <2>6. InGot(q)' = {x \in {q} : At(q, u) # {}}
      BY <2>1 DEF InGot, u
    <2>7. \A e \in LiveEntries' : Lone(At(q, conns'[e[1]][e[2]].rsp_content))
      BY <1>6, <1>7, <2>4 DEF NoRepeat, z
    <2>8. NoRepeat(q)'
      BY <1>1, <1>7, <2>1, <2>4, <2>7 DEF NoRepeat, u
    <2>9. Lone(Spots(q)')
      BY <1>15, <1>16, <2>2, <2>4, <2>5, <2>6, SoleSpots DEF Sole, Lone
    <2>10. Spots(q) # {} /\ Spots(q)' # {}
      BY <2>1, <2>4, <2>5, <2>6, SoleSpots
    <2>11. QED
      BY <1>1, <1>6, <2>8, <2>9, <2>10, AccountedKept
  <1>20. QED
    BY <1>18, <1>19

\* The first half of a request is read once: it was nowhere before.  The second
\* finds the first.
LEMMA ReadAccounted ==
  ASSUME TypeOK, Streams, NEW w \in ConnWorkers, NEW fd \in Fds, ClientEventIn(w, fd),
         NEW q \in Request, Accounted(q)
  PROVE  Accounted(q)'
  <1>1. UNCHANGED <<fdConn, got, reqQ, rbatch, respQ, cbatch, refused>>
    BY DEF ClientEventIn, respVars, realVars
  <1>2. PICK d \in TcpConn, k \in Nat : ReadTo(w, fd, d, k) /\ ReadExactly(w, fd, d, k)
    BY ReadEffect
  <1>3. PICK c \in Conns : c = fdConn[fd]
    BY ReadEffect
  <1>4. \A v \in ConnWorkers, f \in Fds : Live(v, f)' <=> Live(v, f)
    BY EntryKeepsLive
  <1>5. Replaces(w, fd, d)
    BY <1>1, <1>2, <1>4 DEF Replaces, ReadTo, ClientEventIn, Live, Closing
  <1>6. /\ LiveEntries' = LiveEntries
        /\ <<w, fd>> \in LiveEntries
        /\ conns'[w][fd] = d
        /\ \A e \in LiveEntries : e # <<w, fd>> => conns'[e[1]][e[2]] = conns[e[1]][e[2]]
        /\ Open(q[1])' <=> Open(q[1])
    BY <1>5, ReplacedEntry
  <1>7. NoRepeat(q) /\ Lone(Spots(q))
    BY DEF Accounted
  <1>8. d.rsp_content = conns[w][fd].rsp_content
    BY <1>2 DEF ReadTo
  <1>9. PICK tk \in Nat : /\ tk = taken[c] /\ taken'[c] = tk + k /\ tk + k <= 2 * MaxReq
                          /\ \A x \in Conns \ {c} : taken'[x] = taken[x]
    BY <1>2, <1>3, BoundsAssumption, SMTT(30) DEF ReadTo, TypeOK
  <1>10. PICK s \in Seq(Request), m \in Nat : s = conns[w][fd].req_content /\ m = Len(s)
    <2>1. Live(w, fd)
      BY <1>5 DEF Replaces
    <2>2. conns[w][fd].req_content \in Seq(Request)
      BY <2>1 DEF TypeOK, Live, Registered, TcpConn
    <2>3. Len(conns[w][fd].req_content) \in Nat
      BY <2>2, LenProperties
    <2>4. QED
      BY <2>2, <2>3
  <1>11. PICK n \in Nat : n = tk - m /\ n % 2 = 0 /\ s = Halves(c, n, m)
    BY <1>3, <1>5, <1>9, <1>10 DEF Stream, Streams, Replaces
  <1>12. /\ n + m = tk /\ n + m + k <= 2 * MaxReq /\ m + k \in Nat
         /\ n + m <= 2 * MaxReq /\ n + (m + k) <= 2 * MaxReq /\ n + (m + k) = tk + k
    <2>1. n = tk - m /\ tk + k <= 2 * MaxReq
      BY <1>9, <1>11
    <2>2. QED
      BY <2>1, BoundsAssumption
  <1>13. d.req_content = Halves(c, n, m + k)
    <2>1. d.req_content = Halves(c, n, m) \o Halves(c, n + m, k)
      BY <1>2, <1>3, <1>9, <1>10, <1>11, <1>12 DEF ReadExactly
    <2>2. Halves(c, n, m) \o Halves(c, n + m, k) = Halves(c, n, m + k)
      BY <1>12, HalvesConcat
    <2>3. QED
      BY <2>1, <2>2
  <1>14. At(q, s) # {} <=> q[1] = c /\ n < 2 * q[2] /\ 2 * q[2] - 1 <= n + m
    <2>1. n % 2 = 0 /\ n + m <= 2 * MaxReq /\ s = Halves(c, n, m)
      BY <1>11, <1>12
    <2>2. QED
      BY <2>1, HalvesAt
  <1>15. At(q, d.req_content) # {} <=> q[1] = c /\ n < 2 * q[2] /\ 2 * q[2] - 1 <= n + (m + k)
    BY <1>11, <1>12, <1>13, HalvesAt
  <1>16. q[1] \in Conns /\ q[2] \in Nat
    BY BoundsAssumption DEF Request
  <1>17. InRsp(q)' = InRsp(q)
    BY <1>6, <1>8 DEF InRsp
  <1>18. /\ InReqQ(q)' = InReqQ(q) /\ InDeal(q)' = InDeal(q) /\ InRespQ(q)' = InRespQ(q)
         /\ InResp(q)' = InResp(q) /\ InGot(q)' = InGot(q) /\ InRefused(q)' = InRefused(q)
    BY <1>1 DEF InReqQ, InDeal, InRespQ, InResp, InGot, InRefused
  <1>19. NoRepeat(q)'
    <2>1. \A e \in LiveEntries' : Lone(At(q, conns'[e[1]][e[2]].rsp_content))
      BY <1>6, <1>7, <1>8 DEF NoRepeat
    <2>2. QED
      BY <1>1, <1>7, <2>1 DEF NoRepeat
  <1>20. CASE q[1] # c
    <2>1. At(q, d.req_content) = {} /\ At(q, s) = {}
      BY <1>14, <1>15, <1>20
    <2>2. InReq(q)' = InReq(q)
      BY <1>6, <1>10, <2>1, SMTT(30) DEF InReq
    <2>3. taken'[q[1]] = taken[q[1]]
      BY <1>9, <1>16, <1>20
    <2>4. QED
      BY <1>6, <1>17, <1>18, <1>19, <2>2, <2>3, AccountedStays DEF Unmoved
  <1>21. CASE q[1] = c /\ Begun(q)
    <2>1. 2 * q[2] - 1 <= taken[c] /\ Begun(q)'
      BY <1>9, <1>16, <1>21 DEF Begun
    <2>2. At(q, d.req_content) # {} <=> At(q, s) # {}
      <3>1. PICK p \in Nat : p = q[2]
        BY <1>16
      <3>2. 2 * p - 1 <= n + m /\ 2 * p - 1 <= n + (m + k)
        <4>1. 2 * p - 1 <= tk /\ n + m = tk
          BY <1>9, <1>12, <2>1, <3>1
        <4>2. QED
          BY <4>1
      <3>3. QED
        BY <1>14, <1>15, <3>1, <3>2
    <2>3. InReq(q)' = InReq(q)
      BY <1>6, <1>10, <2>2 DEF InReq
    <2>4. Spots(q)' = Spots(q)
      BY <1>17, <1>18, <2>3 DEF Spots
    <2>5. Lone(Spots(q)')
      BY <1>7, <2>4
    <2>6. QED
      BY <1>6, <1>19, <1>21, <2>1, <2>4, <2>5 DEF Accounted
  <1>22. CASE q[1] = c /\ ~ Begun(q)
    <2>1. Spots(q) = {}
      BY <1>22 DEF Accounted
    <2>2. /\ InReqQ(q) = {} /\ InDeal(q) = {} /\ InRespQ(q) = {} /\ InResp(q) = {}
          /\ InRsp(q) = {} /\ InReq(q) = {} /\ InGot(q) = {} /\ InRefused(q) = {}
      BY <2>1, SoleSpots
    <2>3. ~ (2 * q[2] - 1 <= taken[c])
      BY <1>22 DEF Begun
    <2>4. At(q, d.req_content) # {} <=> Begun(q)'
      <3>1. n < 2 * q[2]
        <4>1. PICK p \in Nat : p = q[2] /\ ~ (2 * p - 1 <= tk) /\ n + m = tk
          BY <1>9, <1>12, <1>16, <2>3
        <4>2. n < 2 * p
          BY <4>1
        <4>3. QED
          BY <4>1, <4>2
      <3>2. n + (m + k) = taken'[c]
        BY <1>9, <1>12
      <3>3. QED
        BY <1>15, <1>22, <3>1, <3>2 DEF Begun
    <2>5. \A e : e \in InReq(q)' <=> e = <<w, fd>> /\ Begun(q)'
      <3>1. \A e \in LiveEntries : At(q, conns[e[1]][e[2]].req_content) = {}
        BY <2>2 DEF InReq
      <3>2. \A e \in LiveEntries : e # <<w, fd>> => At(q, conns'[e[1]][e[2]].req_content) = {}
        BY <1>6, <3>1
      <3>3. conns'[<<w, fd>>[1]][<<w, fd>>[2]].req_content = d.req_content
        BY <1>6
      <3>4. QED
        BY <1>6, <2>4, <3>2, <3>3 DEF InReq
    <2>6. Lone(Spots(q)')
      BY <1>17, <1>18, <2>2, <2>5, SoleSpots DEF Sole, Lone
    <2>7. Spots(q)' # {} <=> Begun(q)'
      BY <1>17, <1>18, <2>2, <2>5, SoleSpots
    <2>8. QED
      BY <1>19, <2>6, <2>7 DEF Accounted
  <1>23. QED
    BY <1>20, <1>21, <1>22

\* A dispatched packet leaves req_content with both halves.
LEMMA DispatchAccounted ==
  ASSUME TypeOK, DescriptorTable, Apart, Streams, NEW w \in ConnWorkers, NEW r \in RealWorkers,
         SendRequestToRealWorker(w, r), NEW q \in Request, Accounted(q)
  PROVE  Accounted(q)'
  <1>1. UNCHANGED <<fdConn, taken, got, rbatch, respQ, cbatch, refused>>
    BY DEF SendRequestToRealWorker, kernelVars, respVars, loopVars
  <1>2. PICK fd \in Fds : fd = ccur[w]
    BY DispatchEffect
  <1>3. PICK d \in TcpConn, b \in OneDataBlock : DispatchTo(w, r, fd, d, b) /\ DispatchExactly(w, fd, d, b)
    BY <1>2, DispatchEffect
  <1>4. \A v \in ConnWorkers, f \in Fds : Live(v, f)' <=> Live(v, f)
    BY EntryKeepsLive
  <1>5. Replaces(w, fd, d)
    <2>1. Live(w, fd)
      BY <1>2 DEF SendRequestToRealWorker, Live, Closing, TypeOK
    <2>2. QED
      BY <1>1, <1>3, <1>4, <2>1 DEF Replaces, DispatchTo
  <1>6. /\ LiveEntries' = LiveEntries
        /\ <<w, fd>> \in LiveEntries
        /\ conns'[w][fd] = d
        /\ \A e \in LiveEntries : e # <<w, fd>> => conns'[e[1]][e[2]] = conns[e[1]][e[2]]
        /\ Open(q[1])' <=> Open(q[1])
    BY <1>5, ReplacedEntry
  <1>7. NoRepeat(q) /\ Lone(Spots(q))
    BY DEF Accounted
  <1>8. /\ d.rsp_content = conns[w][fd].rsp_content
        /\ reqQ'[r] = Append(reqQ[r], b) /\ reqQ[r] \in Seq(OneDataBlock)
        /\ \A x \in RealWorkers \ {r} : reqQ'[x] = reqQ[x]
    BY <1>3 DEF DispatchTo, TypeOK
  <1>9. PICK c \in Conns : c = fdConn[fd]
    BY <1>5, LiveApart DEF Replaces
  <1>10. PICK s \in Seq(Request), m \in Nat : s = conns[w][fd].req_content /\ m = Len(s)
    <2>1. Live(w, fd)
      BY <1>5 DEF Replaces
    <2>2. conns[w][fd].req_content \in Seq(Request)
      BY <2>1 DEF TypeOK, Live, Registered, TcpConn
    <2>3. Len(conns[w][fd].req_content) \in Nat
      BY <2>2, LenProperties
    <2>4. QED
      BY <2>2, <2>3
  <1>11. PICK tk \in Nat, n \in Nat : tk = taken[c] /\ n = tk - m /\ n % 2 = 0 /\ s = Halves(c, n, m)
    <2>1. taken[c] \in Nat
      BY DEF TypeOK
    <2>2. Stream(w, fd)
      BY <1>5 DEF Streams, Replaces
    <2>3. QED
      BY <1>9, <1>10, <2>1, <2>2 DEF Stream
  <1>12. m >= 2 /\ b.real_data = s[1] /\ d.req_content = SubSeq(s, 3, m)
    BY <1>3, <1>10 DEF DispatchExactly
  <1>13. n + m = tk /\ n + m <= 2 * MaxReq
    <2>1. tk <= 2 * MaxReq
      <3>1. sent[c] \in Nat /\ tk <= sent[c] /\ sent[c] <= 2 * MaxReq
        BY <1>11 DEF TypeOK
      <3>2. QED
        BY <3>1, BoundsAssumption
    <2>2. n = tk - m
      BY <1>11
    <2>3. QED
      BY <2>1, <2>2, BoundsAssumption
  <1>14. /\ d.req_content = Halves(c, n + 2, m - 2)
         /\ b.real_data = <<c, (n + 2) \div 2>>
    <2>1. /\ SubSeq(Halves(c, n, m), 3, m) = Halves(c, n + 2, m - 2)
          /\ Halves(c, n, m)[1] = <<c, (n + 2) \div 2>>
      BY <1>12, <1>13, HalvesCut
    <2>2. QED
      BY <1>11, <1>12, <2>1
  <1>15. /\ m - 2 \in Nat /\ n + 2 \in Nat /\ (n + 2) + (m - 2) <= 2 * MaxReq /\ (n + 2) % 2 = 0
         /\ (n + 2) + (m - 2) = n + m /\ 2 * ((n + 2) \div 2) = n + 2
    <2>1. n % 2 = 0 /\ m >= 2 /\ n + m <= 2 * MaxReq
      BY <1>11, <1>12, <1>13
    <2>2. QED
      BY <2>1, BoundsAssumption
  <1>16. At(q, s) # {} <=> q[1] = c /\ n < 2 * q[2] /\ 2 * q[2] - 1 <= n + m
    BY <1>11, <1>13, HalvesAt
  <1>17. At(q, d.req_content) # {} <=> q[1] = c /\ n + 2 < 2 * q[2] /\ 2 * q[2] - 1 <= n + m
    <2>1. PICK n2 \in Nat, m2 \in Nat : n2 = n + 2 /\ m2 = m - 2
      BY <1>15
    <2>2. n2 % 2 = 0 /\ n2 + m2 <= 2 * MaxReq /\ n2 + m2 = n + m
      BY <1>15, <2>1
    <2>3. At(q, Halves(c, n2, m2)) # {} <=> q[1] = c /\ n2 < 2 * q[2] /\ 2 * q[2] - 1 <= n2 + m2
      BY <2>2, HalvesAt
    <2>4. QED
      BY <1>14, <2>1, <2>2, <2>3
  <1>18. q = <<q[1], q[2]>> /\ q[1] \in Conns /\ q[2] \in Nat
    BY BoundsAssumption DEF Request
  <1>19. b.real_data = q <=> q[1] = c /\ 2 * q[2] = n + 2
    <2>1. PICK h \in Nat : h = (n + 2) \div 2 /\ 2 * h = n + 2
      BY <1>15
    <2>2. b.real_data = <<c, h>>
      BY <1>14, <2>1
    <2>3. b.real_data = q <=> q[1] = c /\ q[2] = h
      BY <1>18, <2>2
    <2>4. q[2] = h <=> 2 * q[2] = 2 * h
      BY <1>18
    <2>5. QED
      BY <2>1, <2>3, <2>4
  <1>20. /\ InRsp(q)' = InRsp(q)
         /\ InDeal(q)' = InDeal(q) /\ InRespQ(q)' = InRespQ(q)
         /\ InResp(q)' = InResp(q) /\ InGot(q)' = InGot(q) /\ InRefused(q)' = InRefused(q)
    <2>1. InRsp(q)' = InRsp(q)
      <3>1. \A e \in LiveEntries : conns'[e[1]][e[2]].rsp_content = conns[e[1]][e[2]].rsp_content
        BY <1>6, <1>8
      <3>2. QED
        BY <1>6, <3>1 DEF InRsp
    <2>2. QED
      BY <1>1, <2>1 DEF InDeal, InRespQ, InResp, InGot, InRefused
  <1>21. /\ b.real_data # q => InBlocks(q, reqQ'[r]) = InBlocks(q, reqQ[r])
         /\ b.real_data = q => InBlocks(q, reqQ'[r]) # {}
         /\ b.real_data = q /\ InBlocks(q, reqQ[r]) = {} => Lone(InBlocks(q, reqQ'[r]))
    BY <1>8, AppendBlock
  <1>22. \A e \in LiveEntries' : Lone(At(q, conns'[e[1]][e[2]].rsp_content))
    BY <1>6, <1>7, <1>8 DEF NoRepeat
  <1>23. CASE b.real_data # q
    <2>1. At(q, d.req_content) # {} <=> At(q, s) # {}
      <3>1. q[1] # c \/ 2 * q[2] # n + 2
        BY <1>19, <1>23
      <3>2. n < 2 * q[2] /\ 2 * q[2] # n + 2 => n + 2 < 2 * q[2]
        BY <1>11, <1>18, SMTT(30)
      <3>3. n + 2 < 2 * q[2] => n < 2 * q[2]
        BY <1>11, <1>18
      <3>4. QED
        BY <1>16, <1>17, <3>1, <3>2, <3>3
    <2>2. InReq(q)' = InReq(q)
      BY <1>6, <1>10, <2>1 DEF InReq
    <2>3. InReqQ(q)' = InReqQ(q)
      BY <1>8, <1>21, <1>23 DEF InReqQ
    <2>4. NoRepeat(q)'
      BY <1>1, <1>7, <1>8, <1>21, <1>22, <1>23 DEF NoRepeat
    <2>5. QED
      BY <1>1, <1>6, <1>20, <2>2, <2>3, <2>4, AccountedStays DEF Unmoved
  <1>24. CASE b.real_data = q
    <2>1. q[1] = c /\ 2 * q[2] = n + 2
      BY <1>19, <1>24
    <2>2. At(q, s) # {} /\ At(q, d.req_content) = {}
      <3>1. n < 2 * q[2] /\ 2 * q[2] - 1 <= n + m /\ ~ (n + 2 < 2 * q[2])
        <4>1. PICK p \in Nat : p = q[2] /\ 2 * p = n + 2 /\ m >= 2
          BY <1>12, <1>18, <2>1
        <4>2. n < 2 * p /\ 2 * p - 1 <= n + m /\ ~ (n + 2 < 2 * p)
          BY <4>1
        <4>3. QED
          BY <4>1, <4>2
      <3>2. QED
        BY <1>16, <1>17, <2>1, <3>1
    <2>3. <<w, fd>> \in InReq(q)
      BY <1>6, <1>10, <2>2 DEF InReq
    <2>4. /\ \A e \in InReq(q) : e = <<w, fd>>
          /\ InReqQ(q) = {} /\ InDeal(q) = {} /\ InRespQ(q) = {} /\ InResp(q) = {}
          /\ InRsp(q) = {} /\ InGot(q) = {} /\ InRefused(q) = {}
      BY <1>7, <2>3, SoleSpots DEF Sole, Lone
    <2>5. InReq(q)' = {}
      <3>1. ASSUME NEW e \in InReq(q)'
            PROVE  FALSE
        <4>1. e \in LiveEntries /\ At(q, conns'[e[1]][e[2]].req_content) # {}
          BY <1>6, <3>1 DEF InReq
        <4>2. CASE e = <<w, fd>>
          BY <1>6, <2>2, <4>1, <4>2
        <4>3. CASE e # <<w, fd>>
          BY <1>6, <2>4, <4>1, <4>3 DEF InReq
        <4>4. QED
          BY <4>2, <4>3
      <3>2. QED
        BY <3>1
    <2>6. \A x \in RealWorkers : InBlocks(q, reqQ[x]) = {}
      BY <2>4 DEF InReqQ
    <2>7. InReqQ(q)' = {r}
      BY <1>8, <1>21, <1>24, <2>6 DEF InReqQ
    <2>8. NoRepeat(q)'
      BY <1>1, <1>7, <1>8, <1>21, <1>22, <1>24, <2>6 DEF NoRepeat
    <2>9. Lone(Spots(q)')
      BY <1>20, <2>4, <2>5, <2>7, SoleSpots DEF Sole, Lone
    <2>10. Spots(q) # {} /\ Spots(q)' # {}
      BY <2>3, <2>7, SoleSpots
    <2>11. QED
      BY <1>1, <1>6, <2>8, <2>9, <2>10, AccountedKept
  <1>25. QED
    BY <1>23, <1>24

\* A step that moves no request: it may register empty entries, and close an
\* entry that holds nothing of q or is the last of q's connection.
EntriesStep(q) ==
  /\ UNCHANGED <<taken, got, reqQ, rbatch, respQ, cbatch, refused>>
  /\ \A e \in LiveEntries' :
       \/ e \in LiveEntries /\ conns'[e[1]][e[2]] = conns[e[1]][e[2]]
       \/ At(q, conns'[e[1]][e[2]].rsp_content) = {} /\ At(q, conns'[e[1]][e[2]].req_content) = {}
  /\ \/ ~ Open(q[1])'
     \/ /\ \A e \in LiveEntries :
             \/ e \in LiveEntries' /\ conns'[e[1]][e[2]] = conns[e[1]][e[2]]
             \/ At(q, conns[e[1]][e[2]].rsp_content) = {} /\ At(q, conns[e[1]][e[2]].req_content) = {}
        /\ Open(q[1])' => Open(q[1]) \/ ~ Begun(q)

\* Such a step keeps the account.
LEMMA EntriesAccounted ==
  ASSUME NEW q \in Request, Accounted(q), EntriesStep(q)
  PROVE  Accounted(q)'
  <1>1. UNCHANGED <<taken, got, reqQ, rbatch, respQ, cbatch, refused>>
    BY DEF EntriesStep
  <1>2. /\ InReqQ(q)' = InReqQ(q) /\ InDeal(q)' = InDeal(q) /\ InRespQ(q)' = InRespQ(q)
        /\ InResp(q)' = InResp(q) /\ InGot(q)' = InGot(q) /\ InRefused(q)' = InRefused(q)
    BY <1>1 DEF InReqQ, InDeal, InRespQ, InResp, InGot, InRefused
  <1>3. NoRepeat(q) /\ Lone(Spots(q))
    BY DEF Accounted
  <1>4. InRsp(q)' \subseteq InRsp(q) /\ InReq(q)' \subseteq InReq(q)
    BY DEF InRsp, InReq, EntriesStep
  <1>5. NoRepeat(q)'
    <2>1. \A e \in LiveEntries' : Lone(At(q, conns'[e[1]][e[2]].rsp_content))
      BY <1>3, NoPlaces DEF EntriesStep, NoRepeat
    <2>2. QED
      BY <1>1, <1>3, <2>1 DEF NoRepeat
  <1>6. Lone(Spots(q)')
    BY <1>2, <1>3, <1>4, SoleSpots DEF Sole, Lone
  <1>7. Begun(q)' <=> Begun(q)
    BY <1>1 DEF Begun
  <1>8. Spots(q)' # {} => Spots(q) # {}
    BY <1>2, <1>4, SoleSpots
  <1>9. CASE ~ Open(q[1])'
    BY <1>5, <1>6, <1>7, <1>8, <1>9 DEF Accounted
  <1>10. CASE Open(q[1])'
    <2>1. InRsp(q) \subseteq InRsp(q)' /\ InReq(q) \subseteq InReq(q)'
      BY <1>10 DEF InRsp, InReq, EntriesStep
    <2>2. Spots(q) # {} => Spots(q)' # {}
      BY <1>2, <2>1, SoleSpots
    <2>3. Open(q[1]) \/ ~ Begun(q)
      BY <1>10 DEF EntriesStep
    <2>4. QED
      BY <1>5, <1>6, <1>7, <1>8, <1>10, <2>2, <2>3 DEF Accounted
  <1>11. QED
    BY <1>9, <1>10

\* Steps that keep the live entries as they are.
LEMMA QuietAccounted ==
  ASSUME UNCHANGED <<taken, got, reqQ, rbatch, respQ, cbatch, refused>>,
         \A v \in ConnWorkers, f \in Fds :
           /\ Live(v, f)' <=> Live(v, f)
           /\ Live(v, f) => conns'[v][f] = conns[v][f] /\ fdConn'[f] = fdConn[f],
         NEW q \in Request, Accounted(q)
  PROVE  Accounted(q)'
  <1>1. LiveEntries' = LiveEntries
    BY DEF LiveEntries
  <1>2. \A e \in LiveEntries : conns'[e[1]][e[2]] = conns[e[1]][e[2]]
    BY DEF LiveEntries
  <1>3. Open(q[1])' => Open(q[1])
    BY DEF Open
  <1>4. EntriesStep(q)
    BY <1>1, <1>2, <1>3 DEF EntriesStep
  <1>5. QED
    BY <1>4, EntriesAccounted

\* A new entry is empty, and nothing was read from its connection.
LEMMA RegisterAccounted ==
  ASSUME TypeOK, DescriptorTable, Apart, NEW w \in ConnWorkers, AddClient(w),
         NEW q \in Request, Accounted(q)
  PROVE  Accounted(q)'
  <1>1. PICK fd \in Fds : fd = Head(cliFds[w])
    BY RegisterTable
  <1>2. /\ ~ Registered(w, fd) /\ fdConn[fd] # NoConn
        /\ \A v \in ConnWorkers, f \in Fds : Live(v, f)' <=> Live(v, f) \/ (v = w /\ f = fd)
    BY <1>1, RegisterTable
  <1>3. taken[fdConn[fd]] = 0
    BY <1>1, NewUnread
  <1>4. UNCHANGED <<fdConn, taken, got, reqQ, rbatch, respQ, cbatch, refused>>
    BY DEF AddClient, kernelVars, respVars, loopVars, realVars
  <1> DEFINE d == [id |-> uniqueId[w] + 1, req_content |-> << >>, rsp_content |-> << >>,
                   out |-> FALSE]
  <1>5. conns' = [conns EXCEPT ![w][fd] = d]
    BY <1>1, <1>2 DEF AddClient, Registered
  <1>6. d.req_content = << >> /\ d.rsp_content = << >>
    OBVIOUS
  <1> HIDE DEF d
  <1>7. /\ conns'[w][fd] = d
        /\ \A v \in ConnWorkers, f \in Fds : v # w \/ f # fd => conns'[v][f] = conns[v][f]
    BY <1>5 DEF TypeOK
  <1>8. ~ Live(w, fd)
    BY <1>2 DEF Live
  <1>9. ASSUME NEW e \in LiveEntries'
        PROVE  \/ e \in LiveEntries /\ conns'[e[1]][e[2]] = conns[e[1]][e[2]]
               \/ At(q, conns'[e[1]][e[2]].rsp_content) = {} /\ At(q, conns'[e[1]][e[2]].req_content) = {}
    <2>1. PICK v \in ConnWorkers, f \in Fds : e = <<v, f>> /\ Live(v, f)'
      BY <1>9 DEF LiveEntries
    <2>2. CASE v = w /\ f = fd
      BY <1>6, <1>7, <2>1, <2>2, NoPlaces
    <2>3. CASE v # w \/ f # fd
      BY <1>2, <1>7, <2>1, <2>3 DEF LiveEntries
    <2>4. QED
      BY <2>2, <2>3
  <1>10. ASSUME NEW e \in LiveEntries
         PROVE  e \in LiveEntries' /\ conns'[e[1]][e[2]] = conns[e[1]][e[2]]
    <2>1. PICK v \in ConnWorkers, f \in Fds : e = <<v, f>> /\ Live(v, f)
      BY <1>10 DEF LiveEntries
    <2>2. v # w \/ f # fd
      BY <1>8, <2>1
    <2>3. QED
      BY <1>2, <1>7, <2>1, <2>2 DEF LiveEntries
  <1>11. Open(q[1])' => Open(q[1]) \/ ~ Begun(q)
    <2>1. Open(q[1])' => Open(q[1]) \/ fdConn[fd] = q[1]
      BY <1>2, <1>4 DEF Open
    <2>2. q[2] \in Nat /\ q[2] >= 1
      BY BoundsAssumption DEF Request
    <2>3. ~ (2 * q[2] - 1 <= 0)
      BY <2>2
    <2>4. fdConn[fd] = q[1] => ~ Begun(q)
      BY <1>3, <2>3 DEF Begun
    <2>5. QED
      BY <2>1, <2>4
  <1>12. EntriesStep(q)
    BY <1>4, <1>9, <1>10, <1>11 DEF EntriesStep
  <1>13. QED
    BY <1>12, EntriesAccounted

\* Closing an entry drops the requests of its own connection only.
LEMMA CloseAccounted ==
  ASSUME TypeOK, DescriptorTable, Apart, AllOwn, NEW w \in ConnWorkers, NEW fd \in Fds,
         Registered(w, fd), cpc[w] # "closing", CloseFd(w, fd), NEW q \in Request, Accounted(q)
  PROVE  Accounted(q)'
  <1>1. UNCHANGED <<conns, taken, got, reqQ, rbatch, respQ, cbatch, refused>>
    BY DEF CloseFd, connVars, respVars, realVars
  <1>2. \A v \in ConnWorkers, f \in Fds : Live(v, f)' <=> Live(v, f) /\ f # fd
    BY CloseTable
  <1>3. Live(w, fd)
    BY DEF Live, Closing
  <1>4. PICK c \in Conns : c = fdConn[fd]
    BY <1>3, LiveApart
  <1>5. \A v \in ConnWorkers, f \in Fds : Live(v, f) /\ (f = fd \/ fdConn[f] = c) => v = w /\ f = fd
    BY <1>3, <1>4, LiveApart
  <1>6. \A f \in Fds \ {fd} : fdConn'[f] = fdConn[f]
    BY DEF CloseFd, TypeOK
  <1>7. \A e \in LiveEntries' : e \in LiveEntries /\ conns'[e[1]][e[2]] = conns[e[1]][e[2]]
    BY <1>1, <1>2 DEF LiveEntries
  <1>8. CASE q[1] = c
    <2>1. ~ Open(q[1])'
      BY <1>2, <1>5, <1>6, <1>8 DEF Open
    <2>2. EntriesStep(q)
      BY <1>1, <1>7, <2>1 DEF EntriesStep
    <2>3. QED
      BY <2>2, EntriesAccounted
  <1>9. CASE q[1] # c
    <2>1. At(q, conns[w][fd].rsp_content) = {} /\ At(q, conns[w][fd].req_content) = {}
      BY <1>3, <1>4, <1>9 DEF AllOwn, EntryOwn, At
    <2>2. ASSUME NEW e \in LiveEntries
          PROVE  \/ e \in LiveEntries' /\ conns'[e[1]][e[2]] = conns[e[1]][e[2]]
                 \/ At(q, conns[e[1]][e[2]].rsp_content) = {} /\ At(q, conns[e[1]][e[2]].req_content) = {}
      <3>1. PICK v \in ConnWorkers, f \in Fds : e = <<v, f>> /\ Live(v, f)
        BY <2>2 DEF LiveEntries
      <3>2. CASE f = fd
        <4>1. v = w
          BY <1>5, <3>1, <3>2
        <4>2. QED
          BY <2>1, <3>1, <3>2, <4>1
      <3>3. CASE f # fd
        BY <1>1, <1>2, <3>1, <3>3 DEF LiveEntries
      <3>4. QED
        BY <3>2, <3>3
    <2>3. Open(q[1])' => Open(q[1])
      BY <1>2, <1>6 DEF Open
    <2>4. EntriesStep(q)
      BY <1>1, <1>7, <2>2, <2>3 DEF EntriesStep
    <2>5. QED
      BY <2>4, EntriesAccounted
  <1>10. QED
    BY <1>8, <1>9

AllAccounted == \A q \in Request : Accounted(q)

\* A block in flight is one of the places of its request.
LEMMA FlightSpots ==
  ASSUME NEW b \in OneDataBlock, InFlight(b)
  PROVE  b.real_data \in Request /\ Spots(b.real_data) # {}
  <1>1. b.real_data \in Request
    BY DEF OneDataBlock
  <1>2. \A s : In(b, s) => InBlocks(b.real_data, s) # {}
    BY DEF In, InBlocks
  <1>3. \/ InReqQ(b.real_data) # {} \/ InDeal(b.real_data) # {}
        \/ InRespQ(b.real_data) # {} \/ InResp(b.real_data) # {}
    BY <1>2 DEF InFlight, InReqQ, InDeal, InRespQ, InResp
  <1>4. QED
    BY <1>1, <1>3, SoleSpots

\* A new entry is of a connection with no block in flight.
LEMMA RegisterAddressed ==
  ASSUME TypeOK, DescriptorTable, Apart, Addressed, AllAccounted, NEW w \in ConnWorkers, AddClient(w)
  PROVE  Addressed'
  <1>1. PICK fd \in Fds : fd = Head(cliFds[w])
    BY RegisterTable
  <1>2. /\ ~ Registered(w, fd)
        /\ \A v \in ConnWorkers, f \in Fds : Live(v, f)' <=> Live(v, f) \/ (v = w /\ f = fd)
    BY <1>1, RegisterTable
  <1>3. taken[fdConn[fd]] = 0
    BY <1>1, NewUnread
  <1>4. UNCHANGED <<fdConn, reqQ, rbatch, respQ, cbatch>>
    BY DEF AddClient, kernelVars, respVars, loopVars, realVars
  <1>5. \A v \in ConnWorkers, f \in Fds : v # w \/ f # fd => conns'[v][f] = conns[v][f]
    BY <1>1 DEF AddClient, TypeOK
  <1>6. ASSUME NEW b \in OneDataBlock, InFlight(b)'
        PROVE  Findable(b)'
    <2>1. InFlight(b)
      BY <1>4, <1>6 DEF InFlight
    <2>2. Findable(b)
      BY <2>1 DEF Addressed
    <2>3. Begun(b.real_data) /\ b.real_data \in Request
      BY <2>1, FlightSpots DEF AllAccounted, Accounted
    <2>4. PICK p \in Nat : p = b.real_data[2] /\ p >= 1
      BY <2>3, BoundsAssumption DEF Request
    <2>5. ~ (2 * p - 1 <= 0)
      BY <2>4
    <2>6. fdConn[fd] # b.real_data[1]
      BY <1>3, <2>3, <2>4, <2>5 DEF Begun
    <2>7. QED
      BY <1>2, <1>4, <1>5, <2>2, <2>6 DEF Findable
  <1>7. QED
    BY <1>6 DEF Addressed

\* A dispatched block carries the worker, descriptor and id of the entry it was
\* cut from.
LEMMA DispatchAddressed ==
  ASSUME TypeOK, DescriptorTable, Apart, AllOwn, Addressed, NEW w \in ConnWorkers,
         NEW r \in RealWorkers, SendRequestToRealWorker(w, r)
  PROVE  Addressed'
  <1>1. UNCHANGED <<fdConn, rbatch, respQ, cbatch>>
    BY DEF SendRequestToRealWorker, kernelVars, respVars, loopVars
  <1>2. PICK fd \in Fds : fd = ccur[w]
    BY DispatchEffect
  <1>3. PICK d \in TcpConn, b \in OneDataBlock : DispatchTo(w, r, fd, d, b)
    BY <1>2, DispatchEffect
  <1>4. Live(w, fd)
    BY <1>2 DEF SendRequestToRealWorker, Live, Closing, TypeOK
  <1>5. KeepsEntries
    BY EntryKeepsId
  <1>6. \A v \in ConnWorkers, f \in Fds : Live(v, f)' <=> Live(v, f)
    BY EntryKeepsLive
  <1>7. b.real_data[1] = fdConn[fd]
    BY <1>3, <1>4 DEF DispatchTo, AllOwn, EntryOwn
  <1>8. Findable(b)'
    <2>1. ASSUME NEW v \in ConnWorkers, NEW f \in Fds, Live(v, f)', fdConn'[f] = b.real_data[1]
          PROVE  b.worker = v /\ b.fd = f /\ b.id = conns'[v][f].id
      <3>1. Live(v, f) /\ fdConn[f] = fdConn[fd] /\ conns'[v][f].id = conns[v][f].id
        BY <1>1, <1>5, <1>7, <2>1 DEF KeepsEntries
      <3>2. v = w /\ f = fd
        BY <1>4, <3>1, LiveApart
      <3>3. QED
        BY <1>3, <3>1, <3>2 DEF DispatchTo
    <2>2. QED
      BY <2>1 DEF Findable
  <1>9. \A x \in OneDataBlock : InFlight(x)' => InFlight(x) \/ Findable(x)'
    <2>1. /\ reqQ'[r] = Append(reqQ[r], b) /\ reqQ[r] \in Seq(OneDataBlock)
          /\ \A z \in RealWorkers \ {r} : reqQ'[z] = reqQ[z]
      BY <1>3 DEF DispatchTo, TypeOK
    <2>2. \A x \in OneDataBlock : In(x, reqQ'[r]) => In(x, reqQ[r]) \/ x = b
      BY <2>1, InMoves
    <2>3. \A x \in OneDataBlock : InFlight(x)' => InFlight(x) \/ x = b
      BY <1>1, <2>1, <2>2 DEF InFlight
    <2>4. QED
      BY <1>8, <2>3
  <1>10. QED
    BY <1>5, <1>9, AddressedKept

\* Every step keeps blocks findable.
LEMMA AddressedStep ==
  TypeOK /\ DescriptorTable /\ Apart /\ AllOwn /\ AllAccounted /\ Addressed /\ [Next]_vars => Addressed'
  <1> SUFFICES ASSUME TypeOK, DescriptorTable, Apart, AllOwn, AllAccounted, Addressed, [Next]_vars
               PROVE  Addressed'
    OBVIOUS
  <1>1. ASSUME UNCHANGED <<fdConn, conns, cpc, ccur, respQ, cbatch, reqQ, rbatch>>
        PROVE  Addressed'
    <2>1. KeepsEntries
      BY <1>1, IdleKeepsLive DEF KeepsEntries
    <2>2. QED
      BY <1>1, <2>1, AddressedKept DEF InFlight
  <1>2. ASSUME NEW c \in Conns, ClientSend(c) \/ ClientClose(c)
        PROVE  Addressed'
    BY <1>1, <1>2 DEF ClientSend, ClientClose, connVars, loopVars, respVars, realVars
  <1>3. ASSUME NEW w \in ConnWorkers, AddClientFdAndNotify(w)
        PROVE  Addressed'
    BY <1>1, <1>3 DEF AddClientFdAndNotify, kernelVars, connVars, loopVars, respVars, realVars
  <1>4. ASSUME NEW c \in Conns, NEW fd \in Fds, Accept(c, fd)
        PROVE  Addressed'
    <2>1. /\ UNCHANGED <<conns, cpc, ccur, respQ, cbatch, reqQ, rbatch>>
          /\ \A f \in Fds \ {fd} : fdConn'[f] = fdConn[f]
      BY <1>4 DEF Accept, connVars, loopVars, respVars, realVars, TypeOK
    <2>2. \A v \in ConnWorkers : ~ Live(v, fd)
      BY <1>4 DEF Accept, DescriptorTable
    <2>3. KeepsEntries
      BY <2>1, <2>2, IdleKeepsLive DEF KeepsEntries
    <2>4. QED
      BY <2>1, <2>3, AddressedKept DEF InFlight
  <1>5. ASSUME NEW w \in ConnWorkers,
               \/ ReadCliToken(w) \/ LockCliFds(w) \/ AddClientsDone(w) \/ DataNotEnough(w)
               \/ ReadRespToken(w) \/ TakeResponses(w) \/ ResponsesDone(w)
        PROVE  Addressed'
    <2>1. /\ UNCHANGED <<fdConn, conns>>
          /\ \A b \in OneDataBlock : InFlight(b)' => InFlight(b)
          /\ \A v \in ConnWorkers, f \in Fds : Live(v, f)' <=> Live(v, f)
      BY <1>5, HandlerFlight
    <2>2. KeepsEntries
      BY <2>1 DEF KeepsEntries
    <2>3. QED
      BY <2>1, <2>2, AddressedKept
  <1>6. ASSUME NEW w \in ConnWorkers, EraseConn(w)
        PROVE  Addressed'
    <2>1. UNCHANGED <<fdConn, respQ, cbatch, reqQ, rbatch>>
      BY <1>6 DEF EraseConn, kernelVars, respVars, realVars
    <2>2. \A v \in ConnWorkers, f \in Fds : Live(v, f)' <=> Live(v, f)
      BY <1>6, HandlerKeepsLive
    <2>3. \A v \in ConnWorkers, f \in Fds : Live(v, f) => conns'[v][f] = conns[v][f]
      BY <1>6 DEF EraseConn, Live, Closing, TypeOK
    <2>4. KeepsEntries
      BY <2>1, <2>2, <2>3 DEF KeepsEntries
    <2>5. QED
      BY <2>1, <2>4, AddressedKept DEF InFlight
  <1>7. ASSUME NEW w \in ConnWorkers, AddClient(w)
        PROVE  Addressed'
    BY <1>7, RegisterAddressed
  <1>8. ASSUME NEW w \in ConnWorkers, NEW fd \in Fds, Registered(w, fd), cpc[w] # "closing", CloseFd(w, fd)
        PROVE  Addressed'
    <2>1. /\ UNCHANGED <<conns, respQ, cbatch, reqQ, rbatch>>
          /\ \A f \in Fds \ {fd} : fdConn'[f] = fdConn[f]
      BY <1>8 DEF CloseFd, connVars, respVars, realVars, TypeOK
    <2>2. \A v \in ConnWorkers, f \in Fds : Live(v, f)' => Live(v, f) /\ f # fd
      BY <1>8, CloseTable
    <2>3. KeepsEntries
      BY <2>1, <2>2 DEF KeepsEntries
    <2>4. QED
      BY <2>1, <2>3, AddressedKept DEF InFlight
  <1>9. ASSUME NEW w \in ConnWorkers, NEW fd \in Fds, PeerClosed(w, fd) \/ SocketError(w, fd)
        PROVE  Addressed'
    BY <1>8, <1>9 DEF PeerClosed, SocketError
  <1>10. ASSUME NEW w \in ConnWorkers, BadPacket(w)
         PROVE  Addressed'
    <2>1. ccur[w] \in Fds /\ Registered(w, ccur[w])
      BY <1>10 DEF BadPacket, TypeOK
    <2>2. QED
      BY <1>8, <1>10, <2>1 DEF BadPacket
  <1>11. ASSUME NEW w \in ConnWorkers, DealWithResp(w)
         PROVE  Addressed'
    <2>1. KeepsEntries
      BY <1>11, EntryKeepsId
    <2>2. /\ UNCHANGED <<reqQ, rbatch, respQ>>
          /\ cbatch[w] \in Seq(OneDataBlock) /\ cbatch[w] # << >>
          /\ cbatch'[w] = Tail(cbatch[w])
          /\ \A v \in ConnWorkers \ {w} : cbatch'[v] = cbatch[v]
      BY <1>11 DEF DealWithResp, realVars, respVars, TypeOK
    <2>3. ASSUME NEW b \in OneDataBlock, In(b, Tail(cbatch[w]))
          PROVE  In(b, cbatch[w])
      BY <2>2, <2>3, InMoves
    <2>4. \A b \in OneDataBlock : InFlight(b)' => InFlight(b)
      BY <2>2, <2>3 DEF InFlight
    <2>5. QED
      BY <2>1, <2>4, AddressedKept
  <1>12. ASSUME NEW w \in ConnWorkers, NEW fd \in Fds, ClientEventIn(w, fd) \/ ClientEventOut(w, fd)
         PROVE  Addressed'
    <2>1. KeepsEntries
      BY <1>12, EntryKeepsId
    <2>2. UNCHANGED <<reqQ, rbatch, respQ, cbatch>>
      BY <1>12 DEF ClientEventIn, ClientEventOut, realVars, respVars, loopVars
    <2>3. QED
      BY <2>1, <2>2, AddressedKept DEF InFlight
  <1>13. ASSUME NEW w \in ConnWorkers, NEW r \in RealWorkers, SendRequestToRealWorker(w, r)
         PROVE  Addressed'
    BY <1>13, DispatchAddressed
  <1>14. ASSUME NEW r \in RealWorkers,
                \/ ReadReqToken(r) \/ TakeRequests(r) \/ DealWithRequest(r)
                \/ RefuseRequest(r) \/ RequestsDone(r)
         PROVE  Addressed'
    <2>1. /\ UNCHANGED <<fdConn, conns, cpc, ccur>>
          /\ \A b \in OneDataBlock : InFlight(b)' => InFlight(b)
      BY <1>14, RealFlight
    <2>2. KeepsEntries
      BY <2>1, IdleKeepsLive DEF KeepsEntries
    <2>3. QED
      BY <2>1, <2>2, AddressedKept
  <1>15. CASE UNCHANGED vars
    BY <1>1, <1>15 DEF vars, kernelVars, connVars, loopVars, respVars, realVars
  <1>16. QED
    BY <1>2, <1>3, <1>4, <1>5, <1>6, <1>7, <1>9, <1>10, <1>11, <1>12, <1>13, <1>14, <1>15 DEF Next

\* Every step keeps the account of a request.
LEMMA AccountedStep ==
  TypeOK /\ DescriptorTable /\ AtHome /\ AllOwn /\ Apart /\ Streams /\ Batches /\ Addressed
    /\ AllAccounted /\ [Next]_vars => AllAccounted'
  <1> SUFFICES ASSUME TypeOK, DescriptorTable, AtHome, AllOwn, Apart, Streams, Batches, Addressed,
                      AllAccounted, [Next]_vars, NEW q \in Request
               PROVE  Accounted(q)'
    BY DEF AllAccounted
  <1>0. Accounted(q)
    BY DEF AllAccounted
  <1>1. ASSUME UNCHANGED <<fdConn, conns, cpc, ccur, taken, got, reqQ, rbatch, respQ, cbatch, refused>>
        PROVE  Accounted(q)'
    BY <1>0, <1>1, QuietAccounted, IdleKeepsLive
  <1>2. ASSUME NEW c \in Conns, ClientSend(c) \/ ClientClose(c)
        PROVE  Accounted(q)'
    BY <1>1, <1>2 DEF ClientSend, ClientClose, connVars, loopVars, respVars, realVars
  <1>3. ASSUME NEW w \in ConnWorkers, AddClientFdAndNotify(w)
        PROVE  Accounted(q)'
    BY <1>1, <1>3 DEF AddClientFdAndNotify, kernelVars, connVars, loopVars, respVars, realVars
  <1>4. ASSUME NEW c \in Conns, NEW fd \in Fds, Accept(c, fd)
        PROVE  Accounted(q)'
    <2>1. /\ UNCHANGED <<conns, cpc, ccur, taken, got, respQ, cbatch, reqQ, rbatch, refused>>
          /\ \A f \in Fds \ {fd} : fdConn'[f] = fdConn[f]
      BY <1>4 DEF Accept, connVars, loopVars, respVars, realVars, TypeOK
    <2>2. \A v \in ConnWorkers : ~ Live(v, fd)
      BY <1>4 DEF Accept, DescriptorTable
    <2>3. \A v \in ConnWorkers, f \in Fds : Live(v, f)' <=> Live(v, f)
      BY <2>1, IdleKeepsLive
    <2>4. \A v \in ConnWorkers, f \in Fds :
            /\ Live(v, f)' <=> Live(v, f)
            /\ Live(v, f) => conns'[v][f] = conns[v][f] /\ fdConn'[f] = fdConn[f]
      BY <2>1, <2>2, <2>3
    <2>5. QED
      BY <1>0, <2>1, <2>4, QuietAccounted
  <1>5. ASSUME NEW w \in ConnWorkers,
               \/ ReadCliToken(w) \/ LockCliFds(w) \/ AddClientsDone(w) \/ DataNotEnough(w)
               \/ ReadRespToken(w) \/ ResponsesDone(w)
        PROVE  Accounted(q)'
    <2>1. UNCHANGED <<fdConn, conns, taken, got, reqQ, rbatch, respQ, cbatch, refused>>
      BY <1>5 DEF ReadCliToken, LockCliFds, AddClientsDone, DataNotEnough, ReadRespToken,
                  ResponsesDone, kernelVars, connVars, realVars, respVars
    <2>2. \A v \in ConnWorkers, f \in Fds : Live(v, f)' <=> Live(v, f)
      BY <1>5, HandlerKeepsLive
    <2>3. QED
      BY <1>0, <2>1, <2>2, QuietAccounted
  <1>6. ASSUME NEW w \in ConnWorkers, EraseConn(w)
        PROVE  Accounted(q)'
    <2>1. UNCHANGED <<fdConn, taken, got, reqQ, rbatch, respQ, cbatch, refused>>
      BY <1>6 DEF EraseConn, kernelVars, respVars, realVars
    <2>2. \A v \in ConnWorkers, f \in Fds : Live(v, f)' <=> Live(v, f)
      BY <1>6, HandlerKeepsLive
    <2>3. \A v \in ConnWorkers, f \in Fds : Live(v, f) => conns'[v][f] = conns[v][f]
      BY <1>6 DEF EraseConn, Live, Closing, TypeOK
    <2>4. QED
      BY <1>0, <2>1, <2>2, <2>3, QuietAccounted
  <1>7. ASSUME NEW w \in ConnWorkers, AddClient(w)
        PROVE  Accounted(q)'
    BY <1>0, <1>7, RegisterAccounted
  <1>8. ASSUME NEW w \in ConnWorkers, NEW fd \in Fds, PeerClosed(w, fd) \/ SocketError(w, fd)
        PROVE  Accounted(q)'
    BY <1>0, <1>8, CloseAccounted DEF PeerClosed, SocketError
  <1>9. ASSUME NEW w \in ConnWorkers, BadPacket(w)
        PROVE  Accounted(q)'
    <2>1. ccur[w] \in Fds /\ Registered(w, ccur[w])
      BY <1>9 DEF BadPacket, TypeOK
    <2>2. QED
      BY <1>0, <1>9, <2>1, CloseAccounted DEF BadPacket
  <1>10. ASSUME NEW w \in ConnWorkers, TakeResponses(w) \/ DealWithResp(w)
         PROVE  Accounted(q)'
    BY <1>0, <1>10, TakeResponsesAccounted, RespondAccounted
  <1>11. ASSUME NEW w \in ConnWorkers, NEW fd \in Fds, ClientEventIn(w, fd) \/ ClientEventOut(w, fd)
         PROVE  Accounted(q)'
    BY <1>0, <1>11, ReadAccounted, WriteAccounted
  <1>12. ASSUME NEW w \in ConnWorkers, NEW r \in RealWorkers, SendRequestToRealWorker(w, r)
         PROVE  Accounted(q)'
    BY <1>0, <1>12, DispatchAccounted
  <1>13. ASSUME NEW r \in RealWorkers, ReadReqToken(r) \/ RequestsDone(r)
         PROVE  Accounted(q)'
    BY <1>1, <1>13 DEF ReadReqToken, RequestsDone, kernelVars, connVars, loopVars, respVars
  <1>14. ASSUME NEW r \in RealWorkers, TakeRequests(r) \/ DealWithRequest(r) \/ RefuseRequest(r)
         PROVE  Accounted(q)'
    BY <1>0, <1>14, TakeRequestsAccounted, DealAccounted, RefuseAccounted
  <1>15. CASE UNCHANGED vars
    BY <1>1, <1>15 DEF vars, kernelVars, connVars, loopVars, respVars, realVars
  <1>16. QED
    BY <1>2, <1>3, <1>4, <1>5, <1>6, <1>7, <1>8, <1>9, <1>10, <1>11, <1>12, <1>13, <1>14, <1>15 DEF Next

\* Position i of container a of kind k holds request q.
Holding(q, k, a, i) ==
  /\ k = "request" => a \in RealWorkers /\ i \in InBlocks(q, reqQ[a])
  /\ k = "deal" => a \in RealWorkers /\ i \in InBlocks(q, rbatch[a])
  /\ k = "response" => a \in ConnWorkers /\ i \in InBlocks(q, respQ[a])
  /\ k = "resp" => a \in ConnWorkers /\ i \in InBlocks(q, cbatch[a])
  /\ k = "rsp" => a \in LiveEntries /\ i \in At(q, conns[a[1]][a[2]].rsp_content)
  /\ k = "got" => i \in At(q, got[q[1]])
  /\ k \in {"req", "refused"} => i = 0
  /\ k \in {"request", "deal", "response", "resp", "rsp", "got", "req", "refused"}

\* A place is a container and a position in it.
LEMMA PlaceParts ==
  ASSUME NEW q, NEW x \in Places(q)
  PROVE  \E k, a, i : x = <<k, a, i>> /\ <<k, a>> \in Spots(q) /\ Holding(q, k, a, i)
  <1>1. \/ \E r \in RealWorkers : x \in {"request"} \X {r} \X InBlocks(q, reqQ[r])
        \/ \E r \in RealWorkers : x \in {"deal"} \X {r} \X InBlocks(q, rbatch[r])
        \/ \E w \in ConnWorkers : x \in {"response"} \X {w} \X InBlocks(q, respQ[w])
        \/ \E w \in ConnWorkers : x \in {"resp"} \X {w} \X InBlocks(q, cbatch[w])
        \/ \E p \in LiveEntries : x \in {"rsp"} \X {p} \X At(q, conns[p[1]][p[2]].rsp_content)
        \/ \E p \in {e \in LiveEntries : At(q, conns[e[1]][e[2]].req_content) # {}} :
             x \in {"req"} \X {p} \X {0}
        \/ x \in {"got"} \X {q} \X At(q, got[q[1]])
        \/ x \in {"refused"} \X ({q} \cap refused) \X {0}
    BY DEF Places
  <1>2. CASE \E r \in RealWorkers : x \in {"request"} \X {r} \X InBlocks(q, reqQ[r])
    <2>1. PICK r \in RealWorkers : \E i \in InBlocks(q, reqQ[r]) : x = <<"request", r, i>>
      BY <1>2
    <2>2. r \in InReqQ(q)
      BY <2>1 DEF InReqQ
    <2>3. <<"request", r>> \in Spots(q)
      BY <2>2, SiteMembers DEF Spots
    <2>4. QED
      BY <2>1, <2>3 DEF Holding
  <1>3. CASE \E r \in RealWorkers : x \in {"deal"} \X {r} \X InBlocks(q, rbatch[r])
    <2>1. PICK r \in RealWorkers : \E i \in InBlocks(q, rbatch[r]) : x = <<"deal", r, i>>
      BY <1>3
    <2>2. r \in InDeal(q)
      BY <2>1 DEF InDeal
    <2>3. <<"deal", r>> \in Spots(q)
      BY <2>2, SiteMembers DEF Spots
    <2>4. QED
      BY <2>1, <2>3 DEF Holding
  <1>4. CASE \E w \in ConnWorkers : x \in {"response"} \X {w} \X InBlocks(q, respQ[w])
    <2>1. PICK w \in ConnWorkers : \E i \in InBlocks(q, respQ[w]) : x = <<"response", w, i>>
      BY <1>4
    <2>2. w \in InRespQ(q)
      BY <2>1 DEF InRespQ
    <2>3. <<"response", w>> \in Spots(q)
      BY <2>2, SiteMembers DEF Spots
    <2>4. QED
      BY <2>1, <2>3 DEF Holding
  <1>5. CASE \E w \in ConnWorkers : x \in {"resp"} \X {w} \X InBlocks(q, cbatch[w])
    <2>1. PICK w \in ConnWorkers : \E i \in InBlocks(q, cbatch[w]) : x = <<"resp", w, i>>
      BY <1>5
    <2>2. w \in InResp(q)
      BY <2>1 DEF InResp
    <2>3. <<"resp", w>> \in Spots(q)
      BY <2>2, SiteMembers DEF Spots
    <2>4. QED
      BY <2>1, <2>3 DEF Holding
  <1>6. CASE \E p \in LiveEntries : x \in {"rsp"} \X {p} \X At(q, conns[p[1]][p[2]].rsp_content)
    <2>1. PICK p \in LiveEntries : \E i \in At(q, conns[p[1]][p[2]].rsp_content) : x = <<"rsp", p, i>>
      BY <1>6
    <2>2. p \in InRsp(q)
      BY <2>1 DEF InRsp
    <2>3. <<"rsp", p>> \in Spots(q)
      BY <2>2, SiteMembers DEF Spots
    <2>4. QED
      BY <2>1, <2>3 DEF Holding
  <1>7. CASE \E p \in {e \in LiveEntries : At(q, conns[e[1]][e[2]].req_content) # {}} :
               x \in {"req"} \X {p} \X {0}
    <2>1. PICK p \in InReq(q) : x = <<"req", p, 0>>
      BY <1>7 DEF InReq
    <2>2. <<"req", p>> \in Spots(q)
      BY SiteMembers DEF Spots
    <2>3. QED
      BY <2>1, <2>2 DEF Holding
  <1>8. CASE x \in {"got"} \X {q} \X At(q, got[q[1]])
    <2>1. PICK i \in At(q, got[q[1]]) : x = <<"got", q, i>>
      BY <1>8
    <2>2. q \in InGot(q)
      BY <2>1 DEF InGot
    <2>3. <<"got", q>> \in Spots(q)
      BY <2>2, SiteMembers DEF Spots
    <2>4. QED
      BY <2>1, <2>3 DEF Holding
  <1>9. CASE x \in {"refused"} \X ({q} \cap refused) \X {0}
    <2>1. PICK p \in InRefused(q) : x = <<"refused", p, 0>>
      BY <1>9 DEF InRefused
    <2>2. <<"refused", p>> \in Spots(q)
      BY SiteMembers DEF Spots
    <2>3. QED
      BY <2>1, <2>2 DEF Holding
  <1>10. QED
    BY <1>1, <1>2, <1>3, <1>4, <1>5, <1>6, <1>7, <1>8, <1>9

\* A request that is in one container at most, once at most, has at most one
\* place.
LEMMA LonePlaces ==
  ASSUME NEW q, Lone(Spots(q)), NoRepeat(q)
  PROVE  Lone(Places(q))
  <1>1. ASSUME NEW x \in Places(q), NEW y \in Places(q)
        PROVE  x = y
    <2>1. PICK k, a, i : x = <<k, a, i>> /\ <<k, a>> \in Spots(q) /\ Holding(q, k, a, i)
      BY PlaceParts
    <2>2. PICK l, b, j : y = <<l, b, j>> /\ <<l, b>> \in Spots(q) /\ Holding(q, l, b, j)
      BY PlaceParts
    <2>3. k = l /\ a = b
      <3>1. <<k, a>> = <<l, b>>
        BY <2>1, <2>2 DEF Lone
      <3>2. QED
        BY <3>1
    <2>4. Holding(q, k, a, i) /\ Holding(q, k, a, j)
      BY <2>1, <2>2, <2>3
    <2>5. i = j
      BY <2>4 DEF Holding, NoRepeat, Lone
    <2>6. QED
      BY <2>1, <2>2, <2>3, <2>5
  <1>2. QED
    BY <1>1 DEF Lone

\* A request that is somewhere has a place.
LEMMA SomePlace ==
  ASSUME NEW q, Spots(q) # {}
  PROVE  Places(q) # {}
  <1>1. CASE InReqQ(q) # {}
    <2>1. PICK r \in RealWorkers : \E i : i \in InBlocks(q, reqQ[r])
      BY <1>1 DEF InReqQ
    <2>2. \E i : <<"request", r, i>> \in {"request"} \X {r} \X InBlocks(q, reqQ[r])
      BY <2>1
    <2>3. {"request"} \X {r} \X InBlocks(q, reqQ[r]) \subseteq Places(q)
      BY DEF Places
    <2>4. QED
      BY <2>2, <2>3
  <1>2. CASE InDeal(q) # {}
    <2>1. PICK r \in RealWorkers : \E i : i \in InBlocks(q, rbatch[r])
      BY <1>2 DEF InDeal
    <2>2. \E i : <<"deal", r, i>> \in {"deal"} \X {r} \X InBlocks(q, rbatch[r])
      BY <2>1
    <2>3. {"deal"} \X {r} \X InBlocks(q, rbatch[r]) \subseteq Places(q)
      BY DEF Places
    <2>4. QED
      BY <2>2, <2>3
  <1>3. CASE InRespQ(q) # {}
    <2>1. PICK w \in ConnWorkers : \E i : i \in InBlocks(q, respQ[w])
      BY <1>3 DEF InRespQ
    <2>2. \E i : <<"response", w, i>> \in {"response"} \X {w} \X InBlocks(q, respQ[w])
      BY <2>1
    <2>3. {"response"} \X {w} \X InBlocks(q, respQ[w]) \subseteq Places(q)
      BY DEF Places
    <2>4. QED
      BY <2>2, <2>3
  <1>4. CASE InResp(q) # {}
    <2>1. PICK w \in ConnWorkers : \E i : i \in InBlocks(q, cbatch[w])
      BY <1>4 DEF InResp
    <2>2. \E i : <<"resp", w, i>> \in {"resp"} \X {w} \X InBlocks(q, cbatch[w])
      BY <2>1
    <2>3. {"resp"} \X {w} \X InBlocks(q, cbatch[w]) \subseteq Places(q)
      BY DEF Places
    <2>4. QED
      BY <2>2, <2>3
  <1>5. CASE InRsp(q) # {}
    <2>1. PICK p \in LiveEntries : \E i : i \in At(q, conns[p[1]][p[2]].rsp_content)
      BY <1>5 DEF InRsp
    <2>2. \E i : <<"rsp", p, i>> \in {"rsp"} \X {p} \X At(q, conns[p[1]][p[2]].rsp_content)
      BY <2>1
    <2>3. {"rsp"} \X {p} \X At(q, conns[p[1]][p[2]].rsp_content) \subseteq Places(q)
      BY DEF Places
    <2>4. QED
      BY <2>2, <2>3
  <1>6. CASE InReq(q) # {}
    <2>1. PICK p \in LiveEntries : At(q, conns[p[1]][p[2]].req_content) # {}
      BY <1>6 DEF InReq
    <2>2. <<"req", p, 0>> \in {"req"} \X {p} \X {0}
      OBVIOUS
    <2>3. {"req"} \X {p} \X {0} \subseteq Places(q)
      BY <2>1 DEF Places
    <2>4. QED
      BY <2>2, <2>3
  <1>7. CASE InGot(q) # {}
    <2>1. \E i : i \in At(q, got[q[1]])
      BY <1>7 DEF InGot
    <2>2. \E i : <<"got", q, i>> \in {"got"} \X {q} \X At(q, got[q[1]])
      BY <2>1
    <2>3. {"got"} \X {q} \X At(q, got[q[1]]) \subseteq Places(q)
      BY DEF Places
    <2>4. QED
      BY <2>2, <2>3
  <1>8. CASE InRefused(q) # {}
    <2>1. <<"refused", q, 0>> \in {"refused"} \X ({q} \cap refused) \X {0}
      BY <1>8 DEF InRefused
    <2>2. {"refused"} \X ({q} \cap refused) \X {0} \subseteq Places(q)
      BY DEF Places
    <2>3. QED
      BY <2>1, <2>2
  <1>9. QED
    BY <1>1, <1>2, <1>3, <1>4, <1>5, <1>6, <1>7, <1>8, SoleSpots

\* The account is what ExactlyOnce counts.
LEMMA AccountedCounts ==
  ASSUME TypeOK, AllAccounted
  PROVE  ExactlyOnce
  <1>1. ASSUME NEW q \in Request
        PROVE  /\ Cardinality(Places(q)) <= 1
               /\ Open(q[1]) /\ Begun(q) => Cardinality(Places(q)) = 1
    <2>1. Accounted(q)
      BY DEF AllAccounted
    <2>2. Lone(Places(q))
      BY <2>1, LonePlaces DEF Accounted
    <2>3. CASE Places(q) = {}
      <3>1. Cardinality(Places(q)) = 0
        BY <2>3, FS_EmptySet
      <3>2. ~ (Open(q[1]) /\ Begun(q))
        BY <2>1, <2>3, SomePlace DEF Accounted
      <3>3. QED
        BY <3>1, <3>2
    <2>4. CASE Places(q) # {}
      <3>1. PICK x \in Places(q) : TRUE
        BY <2>4
      <3>2. Places(q) = {x}
        BY <2>2, <3>1 DEF Lone
      <3>3. Cardinality(Places(q)) = 1
        BY <3>2, FS_Singleton
      <3>4. QED
        BY <3>3
    <2>5. QED
      BY <2>3, <2>4
  <1>2. ASSUME NEW q \in Request
        PROVE  taken[q[1]] >= 2 * q[2] - 1 <=> Begun(q)
    <2>1. PICK c \in Conns, p \in Nat : c = q[1] /\ p = q[2]
      BY BoundsAssumption DEF Request
    <2>2. taken[c] \in Nat
      BY DEF TypeOK
    <2>3. taken[c] >= 2 * p - 1 <=> 2 * p - 1 <= taken[c]
      BY <2>2
    <2>4. QED
      BY <2>1, <2>3 DEF Begun
  <1>3. QED
    BY <1>1, <1>2 DEF ExactlyOnce, Open

\* No request is executed or answered twice, and none is lost while its
\* connection stays open, for any number of connections, workers, descriptors
\* and requests, whatever is split, reused, closed or left unwritten.
THEOREM RequestsExactlyOnce == Spec => []ExactlyOnce
  <1>1. Init => AtHome /\ Routing /\ Apart /\ Streams /\ Batches /\ Addressed /\ AllAccounted
    <2> SUFFICES ASSUME Init
                 PROVE  AtHome /\ Routing /\ Apart /\ Streams /\ Batches /\ Addressed /\ AllAccounted
      OBVIOUS
    <2>1. AtHome /\ Routing
      BY RoutingInit
    <2>2. \A w \in ConnWorkers, fd \in Fds : ~ Live(w, fd) /\ ~ Queued(w, fd)
      BY EmptySeq DEF Init, Live, Registered, Queued
    <2>3. Streams
      BY <2>2 DEF Streams
    <2>4. Apart
      BY <2>2, FdsAssumption, NoConnAssumption DEF Init, Apart
    <2>5. Batches
      BY DEF Init, Batches
    <2>6. \A b : ~ In(b, << >>)
      BY EmptySeq DEF In
    <2>7. Addressed
      BY <2>6 DEF Init, Addressed, InFlight
    <2>8. ASSUME NEW q \in Request
          PROVE  Accounted(q)
      <3>1. q[1] \in Conns /\ LiveEntries = {}
        BY <2>2 DEF Request, LiveEntries
      <3>2. /\ InReqQ(q) = {} /\ InDeal(q) = {} /\ InRespQ(q) = {} /\ InResp(q) = {}
            /\ InRsp(q) = {} /\ InReq(q) = {} /\ InGot(q) = {} /\ InRefused(q) = {}
        BY <3>1, NoPlaces DEF Init, InReqQ, InDeal, InRespQ, InResp, InRsp, InReq, InGot, InRefused
      <3>3. Spots(q) = {}
        BY <3>2, SoleSpots
      <3>4. Lone(Spots(q))
        BY <3>3, NoPlaces
      <3>5. NoRepeat(q)
        BY <3>1, NoPlaces DEF Init, NoRepeat
      <3>6. ~ Open(q[1])
        BY <2>2 DEF Open
      <3>7. QED
        BY <3>3, <3>4, <3>5, <3>6 DEF Accounted
    <2>9. QED
      BY <2>1, <2>3, <2>4, <2>5, <2>7, <2>8 DEF AllAccounted
  <1>2. TypeOK /\ AllAccounted => ExactlyOnce
    BY AccountedCounts
  <1>3. Routing => AllOwn
    BY DEF Routing
  <1>4. QED
    BY <1>1, <1>2, <1>3, TypeCorrect, OneHolder, AtHomeStep, RoutingStep, ApartStep, StreamsStep,
       BatchesStep, AddressedStep, AccountedStep, PTL DEF Spec
=============================================================================
