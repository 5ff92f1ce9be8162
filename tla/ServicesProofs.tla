--------------------------- MODULE ServicesProofs ---------------------------
(***************************************************************************)
(* Proofs about the services that keep users' data, the book service with  *)
(* its cache and its database and the agent's sessions and memories; about *)
(* the load balancer, and about the flow control of a server's worker.     *)
(* For any number of workers, books, requests, memories, endpoints and     *)
(* grids.                                                                  *)
(***************************************************************************)
EXTENDS BookControl, AgentSessions, MemoryStore, LoadBalancer, LoadCtrl,
        WellFoundedInduction, SequenceTheorems, FiniteSetTheorems, TLAPS

-----------------------------------------------------------------------------
\* The book service

\* The request a worker starts with is one.
LEMMA BkNoReqType == NoReq \in [op : Ops, book : BkBooks, val : 0..BkMaxWrites]
  BY BkAssumption DEF NoReq, Ops

\* A call leaves the two stores and the calls under way well typed.
LEMMA BkCallType ==
  ASSUME BkTypeOK, NEW outcome \in Outcomes, NEW to \in {"db", "cache"},
         NEW b \in BkBooks, NEW v \in 0..BkMaxWrites, CallBackend(outcome, to, b, v)
  PROVE  /\ bkDb' \in [BkBooks -> 0..BkMaxWrites]
         /\ bkCache' \in [BkBooks -> 0..BkMaxWrites]
         /\ bkLate' \subseteq Effects
  BY DEF BkTypeOK, CallBackend, Effects

\* The reasons a step may give.
BkReasons == {"fresh", "writeback", "create", "unknown_write", "lost_invalidation", "late"}
LEMMA BkBlameType ==
  ASSUME BkTypeOK, NEW b \in BkBooks, NEW why \in BkReasons, Blame(b, why)
  PROVE  bkWhy' \in [BkBooks -> BkReasons]
  BY DEF BkTypeOK, Blame, BkReasons

\* The service starts well typed.
LEMMA BkTypeInit == BkInit => BkTypeOK
  BY BkAssumption, BkNoReqType DEF BkInit, BkTypeOK

\* Every step keeps the types.
LEMMA BkTypeStep == BkTypeOK /\ [BkNext]_bkVars => BkTypeOK'
  <1> SUFFICES ASSUME BkTypeOK, [BkNext]_bkVars PROVE BkTypeOK'
    OBVIOUS
  <1> USE BkAssumption
  <1>1. ASSUME NEW w \in BkWorkers, BkRequest(w) PROVE BkTypeOK'
    BY <1>1 DEF BkTypeOK, BkRequest, Goto, Ops
  <1>2. ASSUME NEW w \in BkWorkers, GetCache(w) PROVE BkTypeOK'
    BY <1>2 DEF BkTypeOK, GetCache, Goto
  <1>3. ASSUME NEW w \in BkWorkers, GetDb(w) PROVE BkTypeOK'
    BY <1>3 DEF BkTypeOK, GetDb, Goto
  <1>4. ASSUME NEW w \in BkWorkers, WriteBack(w) \/ CreateDb(w) \/ UpdateDb(w) \/ Invalidate(w)
        PROVE  BkTypeOK'
    <2> DEFINE r == bkReq[w]
    <2>1. r.book \in BkBooks /\ r.val \in 0..BkMaxWrites /\ 0 \in 0..BkMaxWrites
      BY DEF BkTypeOK
    <2>2. CASE WriteBack(w)
      BY <2>1, <2>2, BkCallType, BkBlameType DEF WriteBack, Goto, BkTypeOK, BkReasons
    <2>3. CASE CreateDb(w)
      BY <2>1, <2>3, BkCallType, BkBlameType DEF CreateDb, Goto, BkTypeOK, BkReasons
    <2>4. CASE UpdateDb(w)
      BY <2>1, <2>4, BkCallType, BkBlameType DEF UpdateDb, Goto, BkTypeOK, BkReasons
    <2>5. CASE Invalidate(w)
      BY <2>1, <2>5, BkCallType, BkBlameType DEF Invalidate, Goto, BkTypeOK, BkReasons
    <2>6. QED
      BY <1>4, <2>2, <2>3, <2>4, <2>5
  <1>5. ASSUME NEW e \in bkLate, LateCall(e) PROVE BkTypeOK'
    BY <1>5, BkBlameType DEF LateCall, BkTypeOK, Effects, BkReasons
  <1>6. ASSUME NEW b \in BkBooks, Evict(b) PROVE BkTypeOK'
    BY <1>6 DEF Evict, BkTypeOK
  <1>7. CASE UNCHANGED bkVars
    BY <1>7 DEF bkVars, BkTypeOK
  <1>8. QED
    BY <1>1, <1>2, <1>3, <1>4, <1>5, <1>6, <1>7 DEF BkNext

\* The part of StaleOnlyForAReason that is not about types.
BkExplained == \A b \in BkBooks : StaleBook(b) => Invalidating(b) \/ bkWhy[b] # "fresh"

\* A call on one book touches no other one.
LEMMA BkOtherBooks ==
  ASSUME BkTypeOK, NEW outcome \in Outcomes, NEW to \in {"db", "cache"},
         NEW b \in BkBooks, NEW v, CallBackend(outcome, to, b, v), NEW c \in BkBooks, c # b
  PROVE  StaleBook(c)' = StaleBook(c)
  BY DEF BkTypeOK, CallBackend, StaleBook

\* After Blame the book is stale only with a reason, whatever was the case before,
\* and the other books keep theirs.
LEMMA BkBlamed ==
  ASSUME BkTypeOK, NEW b \in BkBooks, NEW why, why # "fresh", Blame(b, why)
  PROVE  /\ StaleBook(b)' => bkWhy'[b] # "fresh"
         /\ \A c \in BkBooks : c # b => bkWhy'[c] = bkWhy[c]
  BY DEF BkTypeOK, Blame, StaleBook

\* A worker that is not invalidating may go anywhere: the books that others are
\* invalidating are still being invalidated.
LEMMA BkInvalidating ==
  ASSUME BkTypeOK, NEW w \in BkWorkers, NEW pc, Goto(w, pc), NEW c \in BkBooks,
         bkReq' = bkReq \/ (bkPc[w] # "invalidate" /\ \E r : bkReq' = [bkReq EXCEPT ![w] = r]),
         bkPc[w] # "invalidate" \/ bkReq[w].book # c,
         Invalidating(c)
  PROVE  Invalidating(c)'
  <1>1. PICK x \in BkWorkers : bkPc[x] = "invalidate" /\ bkReq[x].book = c
    BY DEF Invalidating
  <1>2. x # w
    BY <1>1
  <1>3. bkPc'[x] = bkPc[x] /\ bkReq'[x] = bkReq[x]
    BY <1>2 DEF Goto, BkTypeOK
  <1>4. QED
    BY <1>1, <1>3 DEF Invalidating

\* A call that ends in Blame keeps every book explained.
LEMMA BkBlamedStep ==
  ASSUME BkTypeOK, BkExplained, NEW w \in BkWorkers, NEW pc, Goto(w, pc), bkReq' = bkReq,
         NEW outcome \in Outcomes, NEW to \in {"db", "cache"}, NEW v,
         CallBackend(outcome, to, bkReq[w].book, v),
         NEW why, why # "fresh", Blame(bkReq[w].book, why)
  PROVE  BkExplained'
  <1> DEFINE b == bkReq[w].book
  <1>1. b \in BkBooks
    BY DEF BkTypeOK
  <1>2. ASSUME NEW c \in BkBooks, StaleBook(c)'
        PROVE  Invalidating(c)' \/ bkWhy'[c] # "fresh"
    <2>1. CASE c = b
      BY <1>1, <1>2, <2>1, BkBlamed
    <2>2. CASE c # b
      <3>1. StaleBook(c) /\ bkWhy'[c] = bkWhy[c]
        BY <1>1, <1>2, <2>2, BkOtherBooks, BkBlamed
      <3>2. Invalidating(c) => Invalidating(c)'
        BY <2>2, BkInvalidating
      <3>3. QED
        BY <3>1, <3>2 DEF BkExplained
    <2>3. QED
      BY <2>1, <2>2
  <1>3. QED
    BY <1>2 DEF BkExplained

\* Every step keeps every stale book explained.
LEMMA BkExplainedStep == BkTypeOK /\ BkExplained /\ [BkNext]_bkVars => BkExplained'
  <1> SUFFICES ASSUME BkTypeOK, BkExplained, [BkNext]_bkVars PROVE BkExplained'
    OBVIOUS
  <1>1. ASSUME NEW w \in BkWorkers, BkRequest(w) \/ GetCache(w) \/ GetDb(w) PROVE BkExplained'
    <2>1. /\ bkPc[w] # "invalidate" /\ \E pc : Goto(w, pc)
          /\ bkReq' = bkReq \/ \E r : bkReq' = [bkReq EXCEPT ![w] = r]
          /\ UNCHANGED <<bkDb, bkCache, bkWhy>>
      BY <1>1, Zenon DEF BkRequest, GetCache, GetDb, Goto, BkTypeOK
    <2>2. ASSUME NEW c \in BkBooks, Invalidating(c) PROVE Invalidating(c)'
      BY <2>1, <2>2, BkInvalidating
    <2>3. QED
      BY <2>1, <2>2 DEF BkExplained, StaleBook
  <1>2. ASSUME NEW w \in BkWorkers, WriteBack(w) PROVE BkExplained'
    BY <1>2, BkBlamedStep DEF WriteBack
  <1>3. ASSUME NEW w \in BkWorkers, CreateDb(w) PROVE BkExplained'
    BY <1>3, BkBlamedStep DEF CreateDb
  <1>4. ASSUME NEW w \in BkWorkers, UpdateDb(w) PROVE BkExplained'
    <2>1. PICK outcome \in Outcomes :
             /\ CallBackend(outcome, "db", bkReq[w].book, bkReq[w].val)
             /\ IF outcome = "ok" THEN UNCHANGED bkWhy ELSE Blame(bkReq[w].book, "unknown_write")
             /\ Goto(w, IF outcome = "ok" THEN "invalidate" ELSE "idle")
             /\ bkReq' = bkReq /\ bkPc[w] = "db"
      BY <1>4 DEF UpdateDb
    <2>2. CASE outcome = "ok"
      <3>1. bkReq[w].book \in BkBooks
        BY DEF BkTypeOK
      <3>2. Invalidating(bkReq[w].book)'
        BY <2>1, <2>2 DEF Goto, BkTypeOK, Invalidating
      <3>3. ASSUME NEW c \in BkBooks, c # bkReq[w].book
            PROVE  /\ StaleBook(c)' = StaleBook(c)
                   /\ Invalidating(c) => Invalidating(c)'
        BY <2>1, <3>1, <3>3, BkOtherBooks, BkInvalidating
      <3>4. QED
        BY <2>1, <2>2, <3>2, <3>3 DEF BkExplained
    <2>3. CASE outcome # "ok"
      BY <2>1, <2>3, BkBlamedStep
    <2>4. QED
      BY <2>2, <2>3
  <1>5. ASSUME NEW w \in BkWorkers, Invalidate(w) PROVE BkExplained'
    BY <1>5, BkBlamedStep DEF Invalidate
  <1>6. ASSUME NEW e \in bkLate, LateCall(e) PROVE BkExplained'
    <2>1. e.book \in BkBooks /\ e.to \in {"db", "cache"}
      BY DEF BkTypeOK, Effects
    <2>2. ASSUME NEW c \in BkBooks, c # e.book PROVE StaleBook(c)' = StaleBook(c)
      BY <1>6, <2>1, <2>2 DEF LateCall, StaleBook, BkTypeOK
    <2>3. QED
      BY <1>6, <2>1, <2>2, BkBlamed DEF BkExplained, LateCall, Invalidating
  <1>7. ASSUME NEW b \in BkBooks, Evict(b) PROVE BkExplained'
    BY <1>7 DEF Evict, BkExplained, StaleBook, Invalidating, BkTypeOK
  <1>8. CASE UNCHANGED bkVars
    BY <1>8 DEF bkVars, BkExplained, StaleBook, Invalidating
  <1>9. QED
    BY <1>1, <1>2, <1>3, <1>4, <1>5, <1>6, <1>7, <1>8 DEF BkNext

\* In the book service, for any workers and books, a cached value that differs from
\* the database is one that an update or a delete is about to invalidate, or one that
\* a named race or a failed call left (HandleRead, HandleCreate, HandleUpdateOrDelete).
THEOREM BookStaleExplained == BkSpec => []StaleOnlyForAReason
  <1>1. BkInit => BkTypeOK /\ BkExplained
    BY BkTypeInit DEF BkInit, BkExplained, StaleBook
  <1>2. BkTypeOK /\ BkExplained /\ [BkNext]_bkVars => (BkTypeOK /\ BkExplained)'
    BY BkTypeStep, BkExplainedStep
  <1>3. BkTypeOK /\ BkExplained => StaleOnlyForAReason
    BY DEF StaleOnlyForAReason, BkExplained
  <1>4. QED
    BY <1>1, <1>2, <1>3, PTL DEF BkSpec

-----------------------------------------------------------------------------
\* The memories

\* The store of memories is well typed and consistent at the start.
LEMMA MmInitOK == MmInit => MemoriesConsistent
  BY MmAssumption DEF MmInit, MmTypeOK, MemoriesConsistent

\* A text is not the absence of one.
LEMMA MmTextStored == \A text \in Texts : text # NoItem
  BY MmAssumption DEF Texts, NoItem

\* Every operation, cut by a crash or not, keeps that.
LEMMA MmStep == MemoriesConsistent /\ [MmNext]_mmVars => MemoriesConsistent'
  <1> SUFFICES ASSUME MemoriesConsistent, [MmNext]_mmVars
               PROVE  MemoriesConsistent'
    OBVIOUS
  <1> USE MmAssumption DEF MmIds
  <1>0. MmTypeOK
    BY DEF MemoriesConsistent
  <1> USE <1>0
  <1>1. ASSUME NEW text \in Texts, MemoryCreate(text) PROVE MemoriesConsistent'
    <2> DEFINE id == mmMade + 1
    <2>1. MmTypeOK'
      BY <1>1 DEF MmTypeOK, MemoryCreate
    <2>2. /\ id \in MmIds /\ mmItems' = [mmItems EXCEPT ![id] = text]
          /\ mmIdx' \in {mmIdx, mmIdx \cup {id}} /\ mmPatched' = mmPatched
          /\ \A e \in mmIdx : mmItems[e].norm # text.norm
      BY <1>1 DEF MemoryCreate, MemoriesConsistent
    <2>3. mmItems'[id] = text /\ \A e \in MmIds : e # id => mmItems'[e] = mmItems[e]
      BY <2>2 DEF MmTypeOK
    <2>4. MemoriesConsistent'
      BY <2>1, <2>2, <2>3, MmTextStored DEF MemoriesConsistent, Stored, MmTypeOK
    <2>5. QED
      BY <2>1, <2>4
  <1>2. ASSUME NEW id \in MmIds, MemoryDelete(id) PROVE MemoriesConsistent'
    BY <1>2 DEF MmTypeOK, MemoriesConsistent, MemoryDelete, Stored
  <1>3. ASSUME NEW id \in MmIds, NEW text \in Texts, MemoryPatch(id, text)
        PROVE  MemoriesConsistent'
    BY <1>3, MmTextStored DEF MmTypeOK, MemoriesConsistent, MemoryPatch, Stored
  <1>4. CASE UNCHANGED mmVars
    BY <1>4 DEF mmVars, MmTypeOK, MemoriesConsistent, Stored
  <1>5. QED
    BY <1>1, <1>2, <1>3, <1>4 DEF MmNext

\* In MemoryStore, wherever a crash cuts Create or Delete, every index entry has its
\* item and no two listed memories that were not patched have the same text.
THEOREM MemoriesStayConsistent == MmSpec => []MemoriesConsistent
  BY MmInitOK, MmStep, PTL DEF MmSpec

-----------------------------------------------------------------------------
\* The sessions

AgWorker == [pc : AgPcs, req : 0..AgMaxReqs, chat : BOOLEAN, first : BOOLEAN, answered : BOOLEAN,
             count : 0..(2 * AgMaxReqs), sum : Summaries, msgs : SUBSET Messages]

\* AgTypeOK with the whole record of a worker; one that was accepted has a number.
AgTypes == /\ AgTypeOK
           /\ agW \in [AgWorkers -> AgWorker]
           /\ \A w \in AgWorkers : agW[w].pc # "idle" => agW[w].req > 0

\* The workers that will still append a question, an answer, and those whose
\* answer will follow on what is stored now.
AgAsking == {w \in AgWorkers : agW[w].pc \in {"patch", "user"}}
AgPending == {w \in AgWorkers : agW[w].pc \in {"summary", "history", "reply"}}
AgAnswering == {w \in AgWorkers : agW[w].pc \in {"patch", "user", "regenerate"}} \cup AgPending

\* A request appends two messages at most, so there is room for all of them.
AgRoom == Exists => agMeta.count + Cardinality(AgAsking) + Cardinality(AgAnswering) <= 2 * agReqs

\* Before the session is created there is nothing.
AgNothingYet == ~agCreated => /\ ~Exists /\ agSum = NoSummary
                              /\ \A i \in Seqs : agMsgs[i] = NoMsg
                              /\ \A w \in AgWorkers : agW[w] = AgIdle

\* Maintenance starts only with more messages than are kept verbatim.
AgMaintaining == {"covered", "window", "put"}
AgEnough == \A w \in AgWorkers : agW[w].pc \in AgMaintaining => agW[w].count >= AgKeep

\* What a worker holds of the session agrees with the messages below b.
AgAgrees(x, b) ==
    /\ x.pc \in AgMaintaining => x.count - AgKeep <= b
    /\ x.pc \in {"history", "window", "put"} =>
          x.sum.covered <= b /\ x.sum.ids = StoredIn({i \in Seqs : i < x.sum.covered})
    /\ x.pc \in {"window", "put"} => x.sum.covered < x.count - AgKeep
    /\ x.pc = "put" =>
          x.msgs = StoredIn({i \in Seqs : x.sum.covered <= i /\ i < x.count - AgKeep})
AgHolds(w, b) == AgAgrees(agW[w], b)

\* The messages below b are final: only answers follow, which regenerations may delete,
\* no more of them than there are workers, and the message before is no answer.
AgFinal(b) ==
    /\ b \in 0..agMeta.count
    /\ \A i \in Seqs : b <= i /\ i < agMeta.count => agMsgs[i][2] = "assistant"
    /\ b > 0 => agMsgs[b - 1][2] # "assistant"
    /\ agMeta.count - b + Cardinality(AgPending) <= Cardinality(AgWorkers)
AgBase(b) == /\ AgFinal(b)
             /\ agSum.covered <= b
             /\ agSum.ids = StoredIn({i \in Seqs : i < agSum.covered})
             /\ \A w \in AgWorkers : AgHolds(w, b)

\* The inductive invariant of the sessions.
AgInv == /\ AgTypes /\ AgRoom /\ AgNothingYet /\ AgEnough
         /\ Exists => \E b \in 0..(2 * AgMaxReqs) : AgBase(b)

\* The constants and the values of an idle worker have their types.
LEMMA AgConstants ==
  /\ AgMaxReqs \in Nat /\ AgKeep \in Nat /\ AgTrigger \in Nat /\ IsFiniteSet(AgWorkers)
  /\ Cardinality(AgWorkers) \in Nat /\ Cardinality(AgWorkers) <= AgKeep /\ AgKeep <= AgTrigger
  /\ NoSummary \in Summaries /\ AgIdle \in AgWorker
  <1>1. Cardinality(AgWorkers) \in Nat
    BY AgAssumption, FS_CardinalityType
  <1>2. NoSummary \in Summaries
    BY AgAssumption DEF NoSummary, Summaries
  <1>3. AgIdle \in AgWorker
    BY <1>2, AgAssumption DEF AgIdle, AgWorker, AgPcs
  <1>4. QED
    BY <1>1, <1>2, <1>3, AgAssumption

\* A set of workers is finite.
LEMMA AgSubset ==
  ASSUME NEW S \in SUBSET AgWorkers
  PROVE  IsFiniteSet(S) /\ Cardinality(S) \in Nat /\ Cardinality(S) <= Cardinality(AgWorkers)
  BY AgConstants, FS_Subset, FS_CardinalityType

\* One worker more, one worker less.
LEMMA AgPlusOne ==
  ASSUME NEW S \in SUBSET AgWorkers, NEW w \in AgWorkers
  PROVE  /\ Cardinality(S \cup {w}) = IF w \in S THEN Cardinality(S) ELSE Cardinality(S) + 1
         /\ Cardinality(S \ {w}) = IF w \in S THEN Cardinality(S) - 1 ELSE Cardinality(S)
  BY AgSubset, FS_AddElement, FS_RemoveElement

\* The operation leaves its worker with next, or every worker idle.
LEMMA AgContinueType ==
  ASSUME AgTypes, NEW w \in AgWorkers, NEW next \in AgWorker, next.pc # "idle" => next.req > 0,
         NEW n \in Nat, NEW all \in Nat, Continue(w, next, n, all)
  PROVE  /\ agW' \in [AgWorkers -> AgWorker] /\ agCrashed' \in BOOLEAN
         /\ \A x \in AgWorkers : agW'[x].pc # "idle" => agW'[x].req > 0
  <1>1. CASE n < all
    BY <1>1, AgConstants DEF Continue, AgTypes, AgTypeOK, AgIdle
  <1>2. CASE ~(n < all)
    BY <1>2 DEF Continue, AgTypes, AgTypeOK
  <1>3. QED
    BY <1>1, <1>2

\* The metadata of a session.
AgMetas == [count : 0..(2 * AgMaxReqs), updated : AgTimes]
LEMMA AgPutType ==
  ASSUME AgTypes, NEW meta \in AgMetas, NEW n \in Int, PutSessionLocked(meta, n)
  PROVE  agMeta' \in AgMetas \cup {NoMeta} /\ agIdx' \subseteq AgTimes
  BY DEF AgTypes, AgTypeOK, PutSessionLocked, AgMetas

LEMMA AgMetaRecord ==
  ASSUME NEW c \in 0..(2 * AgMaxReqs), NEW t \in AgTimes
  PROVE  \E meta \in AgMetas : meta = [count |-> c, updated |-> t] /\ meta.count = c
  <1>1. [count |-> c, updated |-> t] \in AgMetas /\ [count |-> c, updated |-> t].count = c
    BY DEF AgMetas
  <1>2. QED
    BY <1>1, Zenon

\* There is metadata exactly when it is not NoMeta.
LEMMA AgExists == AgTypes => (Exists <=> agMeta \in AgMetas)
  BY DEF AgTypes, AgTypeOK, AgMetas, Exists, NoMeta

\* A worker that has still to append finds room.
LEMMA AgHasRoom ==
  ASSUME AgTypes, AgRoom, Exists, NEW w \in AgWorkers, w \in AgAnswering
  PROVE  agMeta.count \in Seqs /\ agMeta.count + 1 \in 0..(2 * AgMaxReqs)
  <1>1. AgAsking \subseteq AgWorkers /\ AgAnswering \subseteq AgWorkers
    BY DEF AgAsking, AgAnswering, AgPending
  <1>2. Cardinality(AgAsking) \in Nat /\ Cardinality(AgAnswering) \in Nat
    BY <1>1, AgSubset
  <1>3. Cardinality(AgAnswering \ {w}) = Cardinality(AgAnswering) - 1
    BY <1>1, AgPlusOne
  <1>4. Cardinality(AgAnswering \ {w}) \in Nat
    BY <1>1, AgSubset
  <1>5. agMeta.count \in Nat /\ agReqs \in Nat /\ agReqs <= AgMaxReqs /\ AgMaxReqs \in Nat
    BY AgExists, AgConstants DEF AgMetas, AgTypes, AgTypeOK
  <1>6. agMeta.count + Cardinality(AgAsking) + Cardinality(AgAnswering) <= 2 * agReqs
    BY DEF AgRoom
  <1>7. agMeta.count + 1 <= 2 * agReqs
    BY <1>2, <1>3, <1>4, <1>5, <1>6
  <1>8. QED
    BY <1>5, <1>7 DEF Seqs

\* What AppendMessage leaves is well typed.
LEMMA AgAppendType ==
  ASSUME AgTypes, AgRoom, NEW w \in AgWorkers, w \in AgAnswering, NEW role \in {"user", "assistant"},
         NEW next \in AgWorker, next.pc # "idle" => next.req > 0, AppendMessage(w, role, next),
         UNCHANGED <<agSum, agReqs, agCreated>>
  PROVE  AgTypes'
  <1>0. agW[w].req \in 1..AgMaxReqs
    BY DEF AgTypes, AgAnswering, AgPending, AgWorker
  <1>1. CASE NotFound(w, next)
    BY <1>1, AgContinueType DEF NotFound, AgTypes, AgTypeOK, AgWorker
  <1>2. CASE ~NotFound(w, next)
    <2>1. PICK now \in AgTimes, n \in 0..4 :
             /\ agMsgs' = IF n >= 1 THEN [agMsgs EXCEPT ![agMeta.count] = <<agW[w].req, role>>] ELSE agMsgs
             /\ PutSessionLocked([count |-> agMeta.count + 1, updated |-> now], n - 1)
             /\ Continue(w, next, n, 4) /\ Exists
      BY <1>2 DEF AppendMessage
    <2>2. [count |-> agMeta.count + 1, updated |-> now] \in AgMetas
      BY <2>1, AgHasRoom DEF AgMetas
    <2>3. agMeta' \in AgMetas \cup {NoMeta} /\ agIdx' \subseteq AgTimes
      BY <2>1, <2>2, AgPutType
    <2>4. agMsgs' \in [Seqs -> Messages \cup {NoMsg}]
      BY <1>0, <2>1 DEF AgTypes, AgTypeOK, Messages
    <2>5. /\ agW' \in [AgWorkers -> AgWorker] /\ agCrashed' \in BOOLEAN
          /\ \A x \in AgWorkers : agW'[x].pc # "idle" => agW'[x].req > 0
      BY <2>1, AgContinueType
    <2>6. QED
      BY <2>3, <2>4, <2>5 DEF AgTypes, AgTypeOK, AgWorker, AgMetas
  <1>3. QED
    BY <1>1, <1>2

\* What PatchSession leaves is well typed.
LEMMA AgPatchType ==
  ASSUME AgTypes, NEW w \in AgWorkers, NEW next \in AgWorker, next.pc # "idle" => next.req > 0,
         PatchSession(w, next), UNCHANGED <<agSum, agReqs, agCreated>>
  PROVE  AgTypes'
  <1>1. CASE NotFound(w, next)
    BY <1>1, AgContinueType DEF NotFound, AgTypes, AgTypeOK, AgWorker
  <1>2. CASE ~NotFound(w, next)
    <2>1. PICK now \in AgTimes, n \in 0..3 :
             /\ PutSessionLocked([agMeta EXCEPT !.updated = now], n)
             /\ Continue(w, next, n, 3) /\ Exists /\ agMsgs' = agMsgs
      BY <1>2 DEF PatchSession
    <2>2. [agMeta EXCEPT !.updated = now] \in AgMetas
      BY <2>1, AgExists DEF AgMetas
    <2>3. agMeta' \in AgMetas \cup {NoMeta} /\ agIdx' \subseteq AgTimes
      BY <2>1, <2>2, AgPutType
    <2>4. /\ agW' \in [AgWorkers -> AgWorker] /\ agCrashed' \in BOOLEAN
          /\ \A x \in AgWorkers : agW'[x].pc # "idle" => agW'[x].req > 0
      BY <2>1, AgContinueType
    <2>5. QED
      BY <2>1, <2>3, <2>4 DEF AgTypes, AgTypeOK, AgWorker, AgMetas
  <1>3. QED
    BY <1>1, <1>2

\* What DeleteLastAssistant leaves is well typed.
LEMMA AgDeleteLastType ==
  ASSUME AgTypes, NEW w \in AgWorkers, NEW next \in AgWorker, next.pc # "idle" => next.req > 0,
         DeleteLastAssistant(w, next), UNCHANGED <<agSum, agReqs, agCreated>>
  PROVE  AgTypes'
  <1> DEFINE last == agMeta.count - 1
             found == Exists /\ last >= 0 /\ agMsgs[last][2] = "assistant"
  <1>1. CASE NotFound(w, next) \/ (Exists /\ ~found /\ Continue(w, next, 0, 0)
                                    /\ UNCHANGED <<agMeta, agIdx, agMsgs>>)
    BY <1>1, AgContinueType DEF NotFound, AgTypes, AgTypeOK, AgWorker
  <1>2. CASE found /\ \E now \in AgTimes, n \in 0..4 :
                         /\ agMsgs' = IF n >= 1 THEN [agMsgs EXCEPT ![last] = NoMsg] ELSE agMsgs
                         /\ PutSessionLocked([count |-> last, updated |-> now], n - 1)
                         /\ Continue(w, next, n, 4)
    <2>1. PICK now \in AgTimes, n \in 0..4 :
             /\ agMsgs' = IF n >= 1 THEN [agMsgs EXCEPT ![last] = NoMsg] ELSE agMsgs
             /\ PutSessionLocked([count |-> last, updated |-> now], n - 1)
             /\ Continue(w, next, n, 4)
      BY <1>2
    <2>2. [count |-> last, updated |-> now] \in AgMetas
      BY <1>2, AgExists, AgConstants DEF AgMetas
    <2>3. agMeta' \in AgMetas \cup {NoMeta} /\ agIdx' \subseteq AgTimes
      BY <2>1, <2>2, AgPutType
    <2>4. agMsgs' \in [Seqs -> Messages \cup {NoMsg}]
      BY <2>1 DEF AgTypes, AgTypeOK
    <2>5. /\ agW' \in [AgWorkers -> AgWorker] /\ agCrashed' \in BOOLEAN
          /\ \A x \in AgWorkers : agW'[x].pc # "idle" => agW'[x].req > 0
      BY <2>1, AgContinueType
    <2>6. QED
      BY <2>3, <2>4, <2>5 DEF AgTypes, AgTypeOK, AgWorker, AgMetas
  <1>3. QED
    BY <1>1, <1>2, Zenon DEF DeleteLastAssistant

\* A worker's next record.
LEMMA AgThenType ==
  ASSUME AgTypes, NEW w \in AgWorkers, agW[w].pc # "idle", NEW pc \in AgPcs
  PROVE  /\ Then(w, pc) \in AgWorker /\ Then(w, pc).pc = pc /\ Then(w, pc).req > 0
         /\ Then(w, pc).count = agW[w].count /\ Then(w, pc).sum = agW[w].sum
  BY DEF AgTypes, AgWorker, Then

\* A worker after its answer.
LEMMA AgAfterReplyType ==
  ASSUME AgTypes, NEW w \in AgWorkers, agW[w].pc # "idle", NEW answered \in BOOLEAN
  PROVE  /\ AfterReply(w, answered) \in AgWorker
         /\ AfterReply(w, answered).pc \in {"idle", "title", "maintain"}
         /\ AfterReply(w, answered).pc # "idle" => AfterReply(w, answered).req > 0
  <1>1. {} \in SUBSET Messages /\ "title" \in AgPcs /\ "maintain" \in AgPcs
    BY DEF AgPcs
  <1>2. CASE ~(agW[w].first \/ answered)
    BY <1>2, AgConstants DEF AfterReply, AgIdle
  <1>3. CASE agW[w].first \/ answered
    <2>1. PICK pc \in {"title", "maintain"} : pc = IF agW[w].first THEN "title" ELSE "maintain"
      OBVIOUS
    <2>2. AfterReply(w, answered) = [Then(w, pc) EXCEPT !.msgs = {}, !.answered = answered]
      BY <1>3, <2>1 DEF AfterReply
    <2>3. Then(w, pc) \in AgWorker /\ Then(w, pc).pc = pc /\ Then(w, pc).req > 0
      BY <1>1, <2>1, AgThenType
    <2>4. QED
      BY <1>1, <2>2, <2>3 DEF AgWorker
  <1>4. QED
    BY <1>2, <1>3

\* A step that changes one worker's record keeps the types if the record has its type.
LEMMA AgOneWorkerType ==
  ASSUME AgTypes, NEW w \in AgWorkers, NEW next \in AgWorker, next.pc # "idle" => next.req > 0,
         agW' = [agW EXCEPT ![w] = next], UNCHANGED <<agMeta, agIdx, agMsgs, agSum, agReqs, agCreated, agCrashed>>
  PROVE  AgTypes'
  <1>1. agW' \in [AgWorkers -> AgWorker] /\ \A x \in AgWorkers : agW'[x].pc # "idle" => agW'[x].req > 0
    BY DEF AgTypes
  <1>2. QED
    BY <1>1 DEF AgTypes, AgTypeOK, AgWorker

\* The messages of a set of positions.
LEMMA AgStoredType ==
  ASSUME AgTypes, NEW S \in SUBSET Seqs
  PROVE  StoredIn(S) \subseteq Messages
  BY DEF AgTypes, AgTypeOK, StoredIn

\* The messages a worker at pc has still to append.
AgOwed(pc) == IF pc \in {"patch", "user"} THEN 2
              ELSE IF pc \in {"regenerate", "summary", "history", "reply"} THEN 1 ELSE 0
AgAwaited(pc) == IF pc \in {"summary", "history", "reply"} THEN 1 ELSE 0

\* What a step that only reads the store may make of its worker.
AgGoesOn(w, next) ==
    /\ next \in AgWorker /\ (next.pc # "idle" => next.req > 0)
    /\ AgOwed(next.pc) <= AgOwed(agW[w].pc) /\ AgAwaited(next.pc) <= AgAwaited(agW[w].pc)
    /\ next.pc \in AgMaintaining => next.count >= AgKeep
    /\ \A b \in Nat : AgBase(b) /\ Exists => AgAgrees(next, b)

\* An idle worker holds nothing.
LEMMA AgGoesIdle == \A w \in AgWorkers : AgGoesOn(w, AgIdle)
  <1>1. AgIdle.pc = "idle"
    BY DEF AgIdle
  <1>2. QED
    BY <1>1, AgConstants DEF AgGoesOn, AgOwed, AgAwaited, AgMaintaining, AgAgrees

LEMMA AgReadShape ==
  ASSUME AgTypes, AgEnough, NEW w \in AgWorkers, ReadSteps(w)
  PROVE  \E next : agW' = [agW EXCEPT ![w] = next] /\ AgGoesOn(w, next)
  <1> USE AgConstants
  <1>0. agW[w] \in AgWorker /\ agSum \in Summaries /\ AgGoesOn(w, AgIdle)
    BY AgGoesIdle DEF AgTypes, AgTypeOK
  <1>1. CASE GetSummary(w)
    <2>1. Then(w, "history") \in AgWorker /\ Then(w, "history").req > 0 /\ Then(w, "history").pc = "history"
      BY <1>1, AgThenType DEF GetSummary, At, AgPcs
    <2>2. PICK next : next = [Then(w, "history") EXCEPT !.sum = agSum]
      OBVIOUS
    <2>3. next \in AgWorker /\ next.req > 0 /\ next.pc = "history" /\ next.sum = agSum
      BY <1>0, <2>1, <2>2 DEF AgWorker
    <2>4. \A b \in Nat : AgBase(b) => AgAgrees(next, b)
      BY <2>3 DEF AgBase, AgAgrees, AgMaintaining
    <2>5. AgGoesOn(w, next)
      BY <1>1, <2>3, <2>4 DEF AgGoesOn, GetSummary, At, AgOwed, AgAwaited, AgMaintaining
    <2>6. QED
      BY <1>1, <2>2, <2>5 DEF GetSummary
  <1>2. CASE GetMessages(w)
    <2>1. Then(w, "reply") \in AgWorker /\ Then(w, "reply").req > 0 /\ Then(w, "reply").pc = "reply"
      BY <1>2, AgThenType DEF GetMessages, At, AgPcs
    <2>2. History(w) \in SUBSET Messages
      BY <1>0, AgStoredType DEF History, AgWorker, Summaries
    <2>3. PICK next : next = [Then(w, "reply") EXCEPT !.sum = NoSummary, !.msgs = History(w)]
      OBVIOUS
    <2>4. next \in AgWorker /\ next.req > 0 /\ next.pc = "reply"
      BY <2>1, <2>2, <2>3 DEF AgWorker
    <2>5. AgGoesOn(w, next)
      BY <1>2, <2>4 DEF AgGoesOn, GetMessages, At, AgOwed, AgAwaited, AgMaintaining, AgAgrees
    <2>6. QED
      BY <1>0, <1>2, <2>3, <2>5 DEF GetMessages
  <1>3. CASE Unanswered(w)
    <2>1. PICK next : next = AfterReply(w, FALSE)
      OBVIOUS
    <2>2. /\ next \in AgWorker /\ (next.pc # "idle" => next.req > 0)
          /\ next.pc \in {"idle", "title", "maintain"}
      BY <1>3, <2>1, AgAfterReplyType DEF Unanswered, At
    <2>3. AgGoesOn(w, next)
      BY <1>3, <2>2 DEF AgGoesOn, Unanswered, At, AgOwed, AgAwaited, AgMaintaining, AgAgrees
    <2>4. QED
      BY <1>3, <2>1, <2>3 DEF Unanswered
  <1>4. CASE MaintainSession(w)
    <2>1. Then(w, "covered") \in AgWorker /\ Then(w, "covered").req > 0 /\ Then(w, "covered").pc = "covered"
      BY <1>4, AgThenType DEF MaintainSession, At, AgPcs
    <2>2. Exists => agMeta.count \in 0..(2 * AgMaxReqs)
      BY AgExists DEF AgMetas
    <2>3. PICK next : next = [Then(w, "covered") EXCEPT !.count = agMeta.count]
      OBVIOUS
    <2>4. Exists => next \in AgWorker /\ next.req > 0 /\ next.pc = "covered" /\ next.count = agMeta.count
      BY <2>1, <2>2, <2>3 DEF AgWorker
    <2>5. ASSUME NEW b \in Nat, AgBase(b), Exists PROVE agMeta.count - AgKeep <= b
      <3>1. agMeta.count - b + Cardinality(AgPending) <= Cardinality(AgWorkers)
        BY <2>5 DEF AgBase, AgFinal
      <3>2. Cardinality(AgPending) \in Nat /\ agMeta.count \in Nat
        <4>1. AgPending \subseteq AgWorkers
          BY DEF AgPending
        <4>2. QED
          BY <2>2, <2>5, <4>1, AgSubset
      <3>3. QED
        BY <3>1, <3>2
    <2>6. Exists /\ agMeta.count > AgTrigger => AgGoesOn(w, next)
      BY <2>2, <2>4, <2>5 DEF AgGoesOn, AgOwed, AgAwaited, AgMaintaining, AgAgrees
    <2>7. QED
      BY <1>0, <1>4, <2>3, <2>6 DEF MaintainSession
  <1>5. CASE MaintainSummary(w)
    <2>1. Then(w, "window") \in AgWorker /\ Then(w, "window").req > 0 /\ Then(w, "window").pc = "window"
          /\ Then(w, "window").count = agW[w].count
      BY <1>5, AgThenType DEF MaintainSummary, At, AgPcs
    <2>2. PICK next : next = [Then(w, "window") EXCEPT !.sum = agSum]
      OBVIOUS
    <2>3. /\ next \in AgWorker /\ next.req > 0 /\ next.pc = "window" /\ next.sum = agSum
          /\ next.count = agW[w].count
      BY <1>0, <2>1, <2>2 DEF AgWorker
    <2>4. agW[w].pc = "covered" /\ agW[w].count >= AgKeep
      BY <1>5 DEF MaintainSummary, At, AgEnough, AgMaintaining
    <2>5. ASSUME NEW b \in Nat, AgBase(b), NewCovered(w) > agSum.covered PROVE AgAgrees(next, b)
      <3>1. agW[w].count - AgKeep <= b
        BY <2>4, <2>5 DEF AgBase, AgHolds, AgAgrees, AgMaintaining
      <3>2. agSum.covered \in Int /\ agW[w].count \in Int
        BY <1>0 DEF Summaries, AgWorker
      <3>3. agSum.covered < next.count - AgKeep /\ next.count - AgKeep <= b
        BY <2>3, <2>5, <3>1, <3>2 DEF NewCovered
      <3>4. next.sum.covered <= b /\ next.sum.ids = StoredIn({i \in Seqs : i < next.sum.covered})
        BY <2>3, <2>5 DEF AgBase
      <3>5. QED
        BY <2>3, <3>3, <3>4 DEF AgAgrees
    <2>6. NewCovered(w) > agSum.covered => AgGoesOn(w, next)
      BY <2>3, <2>4, <2>5 DEF AgGoesOn, AgOwed, AgAwaited
    <2>7. QED
      BY <1>0, <1>5, <2>2, <2>6 DEF MaintainSummary
  <1>6. CASE MaintainWindow(w)
    <2> DEFINE window == StoredIn({i \in Seqs : agW[w].sum.covered <= i /\ i < NewCovered(w)})
    <2>1. Then(w, "put") \in AgWorker /\ Then(w, "put").req > 0 /\ Then(w, "put").pc = "put"
          /\ Then(w, "put").count = agW[w].count /\ Then(w, "put").sum = agW[w].sum
      BY <1>6, AgThenType DEF MaintainWindow, At, AgPcs
    <2>2. window \in SUBSET Messages
      BY AgStoredType
    <2>3. PICK next : next = [Then(w, "put") EXCEPT !.msgs = window]
      OBVIOUS
    <2>4. /\ next \in AgWorker /\ next.req > 0 /\ next.pc = "put" /\ next.msgs = window
          /\ next.count = agW[w].count /\ next.sum = agW[w].sum
      BY <2>1, <2>2, <2>3 DEF AgWorker
    <2>5. agW[w].pc = "window" /\ agW[w].count >= AgKeep
      BY <1>6 DEF MaintainWindow, At, AgEnough, AgMaintaining
    <2>6. \A b \in Nat : AgBase(b) => AgAgrees(next, b)
      BY <2>4, <2>5 DEF AgBase, AgHolds, AgAgrees, AgMaintaining, NewCovered
    <2>7. AgGoesOn(w, next)
      BY <2>4, <2>5, <2>6 DEF AgGoesOn, AgOwed, AgAwaited
    <2>8. QED
      BY <1>0, <1>6, <2>3, <2>7 DEF MaintainWindow
  <1>7. CASE SummarizeFails(w)
    BY <1>0, <1>7 DEF SummarizeFails
  <1>8. QED
    BY <1>1, <1>2, <1>3, <1>4, <1>5, <1>6, <1>7 DEF ReadSteps

\* Deleting a session keeps the types.
LEMMA AgDeleteType ==
  ASSUME AgTypes, NEW w \in AgWorkers, DeleteSession(w)
  PROVE  AgTypes'
  <1> DEFINE seqs == {i \in Seqs : agMsgs[i] # NoMsg}
             head == IF Exists THEN 3 ELSE 0
             all == head + Cardinality(seqs)
             before(i) == head + Cardinality({j \in seqs : j < i})
  <1>1. all \in Nat
    <2>1. IsFiniteSet(Seqs)
      BY FS_Interval, AgConstants DEF Seqs
    <2>2. Cardinality(seqs) \in Nat
      BY <2>1, FS_Subset, FS_CardinalityType
    <2>3. QED
      BY <2>2
  <1>2. PICK n \in 0..all :
             /\ agIdx' = IF Exists /\ n >= 1 THEN agIdx \ {agMeta.updated} ELSE agIdx
             /\ agMeta' = IF Exists /\ n >= 2 THEN NoMeta ELSE agMeta
             /\ agSum' = IF Exists /\ n >= 3 THEN NoSummary ELSE agSum
             /\ agMsgs' = [i \in Seqs |-> IF before(i) < n THEN NoMsg ELSE agMsgs[i]]
             /\ Continue(w, AgIdle, n, all)
    BY DEF DeleteSession
  <1>3. /\ agW' \in [AgWorkers -> AgWorker] /\ agCrashed' \in BOOLEAN
        /\ \A x \in AgWorkers : agW'[x].pc # "idle" => agW'[x].req > 0
    <2>1. AgIdle \in AgWorker /\ AgIdle.pc = "idle"
      BY AgConstants DEF AgIdle
    <2>2. n \in Nat
      BY <1>1, <1>2
    <2>3. QED
      BY <1>1, <1>2, <2>1, <2>2, AgContinueType
  <1>4. UNCHANGED <<agReqs, agCreated>>
    BY DEF DeleteSession
  <1>5. agMsgs' \in [Seqs -> Messages \cup {NoMsg}]
    BY <1>2, Zenon DEF AgTypes, AgTypeOK
  <1>6. /\ agMeta' \in AgMetas \cup {NoMeta} /\ agIdx' \subseteq AgTimes
        /\ agSum' \in Summaries
    BY <1>2, AgConstants DEF AgTypes, AgTypeOK, AgMetas
  <1>7. QED
    BY <1>3, <1>4, <1>5, <1>6 DEF AgTypes, AgTypeOK, AgWorker, AgMetas

\* What Accept does to its worker.
LEMMA AgAcceptShape ==
  ASSUME AgTypes, NEW w \in AgWorkers, NEW chat \in BOOLEAN, Accept(w, chat)
  PROVE  /\ \E next \in AgWorker : /\ agW' = [agW EXCEPT ![w] = next] /\ next.req > 0
                                   /\ next.pc = IF chat THEN "patch" ELSE "regenerate"
         /\ agReqs \in Nat /\ agReqs' = agReqs + 1 /\ agReqs' \in 0..AgMaxReqs
         /\ UNCHANGED <<agMeta, agIdx, agMsgs, agSum, agCreated, agCrashed>>
         /\ agW[w].pc = "idle" /\ Exists
  <1>1. PICK first \in BOOLEAN : first = (chat /\ agMeta.count = 0)
    OBVIOUS
  <1>2. PICK pc \in {"patch", "regenerate"} : pc = IF chat THEN "patch" ELSE "regenerate"
    OBVIOUS
  <1>3. PICK next : next = [pc |-> pc, req |-> agReqs + 1, chat |-> chat, first |-> first,
                            answered |-> FALSE, count |-> 0, sum |-> NoSummary, msgs |-> {}]
    OBVIOUS
  <1>4. agW' = [agW EXCEPT ![w] = next]
    BY <1>1, <1>2, <1>3, Zenon DEF Accept
  <1>5. agReqs \in Nat /\ agReqs' = agReqs + 1 /\ agReqs + 1 \in 1..AgMaxReqs
    BY AgConstants DEF Accept, AgTypes, AgTypeOK
  <1>6. next \in AgWorker
    BY <1>3, <1>5, AgConstants DEF AgWorker, AgPcs
  <1>7. next.req > 0 /\ next.pc = pc
    BY <1>3, <1>5
  <1>8. QED
    <2>1. \E y \in AgWorker : /\ agW' = [agW EXCEPT ![w] = y] /\ y.req > 0
                              /\ y.pc = IF chat THEN "patch" ELSE "regenerate"
      BY <1>2, <1>4, <1>6, <1>7, Zenon
    <2>2. /\ UNCHANGED <<agMeta, agIdx, agMsgs, agSum, agCreated, agCrashed>>
          /\ agW[w].pc = "idle" /\ Exists
      BY DEF Accept
    <2>3. agReqs' \in 0..AgMaxReqs
      BY <1>5, AgConstants
    <2>4. QED
      BY <1>5, <2>1, <2>2, <2>3, Zenon

\* Every step keeps the types.
LEMMA AgTypeStep ==
  ASSUME AgInv, [AgNext]_agVars
  PROVE  AgTypes'
  <1> USE AgConstants
  <1>0. AgTypes /\ AgRoom /\ AgEnough
    BY DEF AgInv
  <1>1. AgIdle \in AgWorker /\ AgIdle.pc = "idle"
    BY DEF AgIdle
  <1>2. ASSUME NEW w \in AgWorkers, CreateSession(w) PROVE AgTypes'
    <2>1. PICK now \in AgTimes, n \in 1..3 :
             /\ PutSessionLocked([count |-> 0, updated |-> now], n)
             /\ Continue(w, AgIdle, n, 3)
      BY <1>2 DEF CreateSession
    <2>2. [count |-> 0, updated |-> now] \in AgMetas
      BY DEF AgMetas
    <2>3. agMeta' \in AgMetas \cup {NoMeta} /\ agIdx' \subseteq AgTimes
      BY <1>0, <2>1, <2>2, AgPutType
    <2>4. /\ agW' \in [AgWorkers -> AgWorker] /\ agCrashed' \in BOOLEAN
          /\ \A x \in AgWorkers : agW'[x].pc # "idle" => agW'[x].req > 0
      BY <1>0, <1>1, <2>1, AgContinueType
    <2>5. agCreated' = TRUE /\ UNCHANGED <<agMsgs, agSum, agReqs>>
      BY <1>2 DEF CreateSession
    <2>6. QED
      BY <1>0, <2>3, <2>4, <2>5 DEF AgTypes, AgTypeOK, AgWorker, AgMetas
  <1>3. ASSUME NEW w \in AgWorkers, DeleteSession(w) PROVE AgTypes'
    BY <1>0, <1>3, AgDeleteType
  <1>4. ASSUME NEW w \in AgWorkers, HandleSessionPatch(w) PROVE AgTypes'
    BY <1>0, <1>1, <1>4, AgPatchType DEF HandleSessionPatch
  <1>5. ASSUME NEW w \in AgWorkers, NEW chat \in BOOLEAN, Accept(w, chat) PROVE AgTypes'
    <2>1. PICK next \in AgWorker : agW' = [agW EXCEPT ![w] = next] /\ next.req > 0
      BY <1>0, <1>5, AgAcceptShape
    <2>2. /\ agW' \in [AgWorkers -> AgWorker]
          /\ \A x \in AgWorkers : agW'[x].pc # "idle" => agW'[x].req > 0
      BY <1>0, <2>1 DEF AgTypes
    <2>3. agReqs' \in 0..AgMaxReqs /\ UNCHANGED <<agMeta, agIdx, agMsgs, agSum, agCreated, agCrashed>>
      BY <1>0, <1>5, AgAcceptShape
    <2>4. QED
      BY <1>0, <2>2, <2>3 DEF AgTypes, AgTypeOK, AgWorker
  <1>6. ASSUME NEW w \in AgWorkers, StoreSteps(w), UNCHANGED <<agSum, agReqs, agCreated>> PROVE AgTypes'
    <2> DEFINE goes(pc) == Then(w, pc) \in AgWorker /\ Then(w, pc).req > 0
    <2>1. agW[w].pc # "idle" => goes("user") /\ goes("summary") /\ goes("maintain")
      BY <1>0, AgThenType DEF AgPcs
    <2>2. CASE RememberModel(w)
      BY <1>0, <1>6, <2>1, <2>2, AgPatchType DEF RememberModel, At
    <2>3. CASE AppendUser(w)
      BY <1>0, <1>6, <2>1, <2>3, AgAppendType DEF AppendUser, At, AgAnswering
    <2>4. CASE Regenerate(w)
      BY <1>0, <1>6, <2>1, <2>4, AgDeleteLastType DEF Regenerate, At
    <2>5. CASE Answered(w)
      <3>1. agW[w].pc # "idle" /\ w \in AgAnswering
        BY <2>5 DEF Answered, At, AgAnswering, AgPending
      <3>2. /\ AfterReply(w, TRUE) \in AgWorker
            /\ AfterReply(w, TRUE).pc # "idle" => AfterReply(w, TRUE).req > 0
        BY <1>0, <3>1, AgAfterReplyType
      <3>3. QED
        BY <1>0, <1>6, <2>5, <3>1, <3>2, AgAppendType DEF Answered
    <2>6. CASE SetTitle(w)
      <3>1. PICK next : next = IF agW[w].answered THEN Then(w, "maintain") ELSE AgIdle
        OBVIOUS
      <3>2. next \in AgWorker /\ (next.pc # "idle" => next.req > 0)
        BY <1>1, <2>1, <2>6, <3>1 DEF SetTitle, At
      <3>3. QED
        BY <1>0, <1>6, <2>6, <3>1, <3>2, AgPatchType DEF SetTitle
    <2>7. QED
      BY <1>6, <2>2, <2>3, <2>4, <2>5, <2>6 DEF StoreSteps
  <1>7. ASSUME NEW w \in AgWorkers, ReadSteps(w),
               UNCHANGED <<agMeta, agIdx, agMsgs, agSum, agReqs, agCreated, agCrashed>>
        PROVE  AgTypes'
    <2>1. PICK next : agW' = [agW EXCEPT ![w] = next] /\ AgGoesOn(w, next)
      BY <1>0, <1>7, AgReadShape
    <2>2. QED
      BY <1>0, <1>7, <2>1, AgOneWorkerType DEF AgGoesOn
  <1>8. ASSUME NEW w \in AgWorkers, PutSummary(w),
               UNCHANGED <<agMeta, agIdx, agMsgs, agReqs, agCreated, agCrashed>>
        PROVE  AgTypes'
    <2>1. agW[w] \in AgWorker /\ agW[w].count >= AgKeep
      BY <1>0, <1>8 DEF AgTypes, AgEnough, AgMaintaining, PutSummary, At
    <2>2. NewCovered(w) \in 0..(2 * AgMaxReqs) /\ agW[w].sum.ids \cup agW[w].msgs \subseteq Messages
      BY <2>1 DEF NewCovered, AgWorker, Summaries
    <2>3. agSum' \in Summaries
      BY <1>8, <2>2 DEF PutSummary, Summaries
    <2>4. /\ agW' \in [AgWorkers -> AgWorker]
          /\ \A x \in AgWorkers : agW'[x].pc # "idle" => agW'[x].req > 0
      BY <1>0, <1>1, <1>8 DEF AgTypes, PutSummary
    <2>5. QED
      BY <1>0, <1>8, <2>3, <2>4 DEF AgTypes, AgTypeOK, AgWorker
  <1>9. CASE UNCHANGED agVars
    BY <1>0, <1>9 DEF agVars, AgTypes, AgTypeOK
  <1>10. QED
    BY <1>2, <1>3, <1>4, <1>5, <1>6, <1>7, <1>8, <1>9 DEF AgNext

-----------------------------------------------------------------------------
\* Counting the answers that are under way

\* A worker that is in a set afterwards or not, whether or not it was in it before.
LEMMA AgToggle ==
  ASSUME NEW S \in SUBSET AgWorkers, NEW w \in AgWorkers, NEW T \in SUBSET AgWorkers,
         \A x \in AgWorkers : x # w => (x \in T <=> x \in S)
  PROVE  Cardinality(T) = Cardinality(S) + (IF w \in T THEN 1 ELSE 0) - (IF w \in S THEN 1 ELSE 0)
  <1>1. Cardinality(S) \in Nat
    BY AgSubset
  <1>2. CASE w \in T
    <2>1. T = S \cup {w}
      BY <1>2
    <2>2. Cardinality(S \cup {w}) = IF w \in S THEN Cardinality(S) ELSE Cardinality(S) + 1
      BY AgPlusOne
    <2>3. QED
      BY <1>1, <1>2, <2>1, <2>2
  <1>3. CASE w \notin T
    <2>1. T = S \ {w}
      BY <1>3
    <2>2. QED
      BY <1>1, <1>3, <2>1, AgPlusOne
  <1>4. QED
    BY <1>2, <1>3

\* When one worker goes on, the counts change by what that worker owes.
LEMMA AgCounts ==
  ASSUME AgTypes, NEW w \in AgWorkers, NEW next \in AgWorker, agW' = [agW EXCEPT ![w] = next]
  PROVE  /\ Cardinality(AgAsking') + Cardinality(AgAnswering')
              = Cardinality(AgAsking) + Cardinality(AgAnswering) + AgOwed(next.pc) - AgOwed(agW[w].pc)
         /\ Cardinality(AgPending') = Cardinality(AgPending) + AgAwaited(next.pc) - AgAwaited(agW[w].pc)
         /\ Cardinality(AgAsking) \in Nat /\ Cardinality(AgAnswering) \in Nat
         /\ Cardinality(AgPending) \in Nat /\ Cardinality(AgPending') \in Nat
  <1> DEFINE A == AgAsking  P == AgPending  R == AgAnswering
  <1>1. A \subseteq AgWorkers /\ P \subseteq AgWorkers /\ R \subseteq AgWorkers
        /\ P' \subseteq AgWorkers
    BY DEF AgAsking, AgPending, AgAnswering
  <1>2. Cardinality(A) \in Nat /\ Cardinality(P) \in Nat /\ Cardinality(R) \in Nat /\ Cardinality(P') \in Nat
    BY <1>1, AgSubset
  <1>3. agW'[w] = next /\ \A x \in AgWorkers : x # w => agW'[x] = agW[x]
    BY DEF AgTypes
  <1>4. /\ A' \subseteq AgWorkers /\ P' \subseteq AgWorkers /\ R' \subseteq AgWorkers
        /\ \A x \in AgWorkers : x # w => /\ x \in A' <=> x \in A
                                         /\ x \in P' <=> x \in P
                                         /\ x \in R' <=> x \in R
    BY <1>3 DEF AgAsking, AgPending, AgAnswering
  <1>5. /\ Cardinality(A') = Cardinality(A) + (IF w \in A' THEN 1 ELSE 0) - (IF w \in A THEN 1 ELSE 0)
        /\ Cardinality(P') = Cardinality(P) + (IF w \in P' THEN 1 ELSE 0) - (IF w \in P THEN 1 ELSE 0)
        /\ Cardinality(R') = Cardinality(R) + (IF w \in R' THEN 1 ELSE 0) - (IF w \in R THEN 1 ELSE 0)
    <2> HIDE DEF A, P, R
    <2>1. QED
      BY <1>1, <1>4, AgToggle
  <1>6. /\ AgAwaited(next.pc) = (IF w \in P' THEN 1 ELSE 0)
        /\ AgAwaited(agW[w].pc) = (IF w \in P THEN 1 ELSE 0)
    BY <1>3 DEF AgPending, AgAwaited
  <1>7. /\ AgOwed(next.pc) = (IF w \in A' THEN 1 ELSE 0) + (IF w \in R' THEN 1 ELSE 0)
        /\ AgOwed(agW[w].pc) = (IF w \in A THEN 1 ELSE 0) + (IF w \in R THEN 1 ELSE 0)
    BY <1>3 DEF AgAsking, AgAnswering, AgPending, AgOwed
  <1> HIDE DEF A, P, R
  <1>8. /\ Cardinality(A') + Cardinality(R')
              = Cardinality(A) + Cardinality(R) + AgOwed(next.pc) - AgOwed(agW[w].pc)
        /\ Cardinality(P') = Cardinality(P) + AgAwaited(next.pc) - AgAwaited(agW[w].pc)
    BY <1>2, <1>5, <1>6, <1>7
  <1>9. QED
    BY <1>2, <1>8 DEF A, P, R

\* After a crash nobody owes anything.
LEMMA AgCountsIdle ==
  ASSUME agW' = [x \in AgWorkers |-> AgIdle]
  PROVE  Cardinality(AgAsking') = 0 /\ Cardinality(AgAnswering') = 0 /\ Cardinality(AgPending') = 0
  <1>1. AgAsking' = {} /\ AgAnswering' = {} /\ AgPending' = {}
    BY DEF AgAsking, AgAnswering, AgPending, AgIdle
  <1>2. QED
    BY <1>1, FS_EmptySet

\* There is room after a step of one worker that appends no more than it owed.
LEMMA AgRoomOne ==
  ASSUME AgTypes, AgTypes', AgRoom, NEW w \in AgWorkers, NEW next \in AgWorker,
         agW' = [agW EXCEPT ![w] = next],
         Exists' => /\ Exists
                    /\ agMeta'.count + AgOwed(next.pc) - 2 * agReqs'
                         <= agMeta.count + AgOwed(agW[w].pc) - 2 * agReqs
  PROVE  AgRoom'
  <1> SUFFICES ASSUME Exists'
               PROVE  agMeta'.count + Cardinality(AgAsking') + Cardinality(AgAnswering') <= 2 * agReqs'
    BY DEF AgRoom
  <1>1. agMeta.count \in Nat /\ agMeta'.count \in Nat /\ agReqs \in Nat /\ agReqs' \in Nat
    <2>1. agMeta \in AgMetas /\ agMeta' \in AgMetas
      BY DEF AgTypes, AgTypeOK, AgMetas, Exists, NoMeta
    <2>2. QED
      BY <2>1, AgConstants DEF AgMetas, AgTypes, AgTypeOK
  <1>2. AgOwed(next.pc) \in Nat /\ AgOwed(agW[w].pc) \in Nat
    BY DEF AgOwed
  <1>3. agMeta.count + Cardinality(AgAsking) + Cardinality(AgAnswering) <= 2 * agReqs
    BY DEF AgRoom
  <1>4. /\ Cardinality(AgAsking') + Cardinality(AgAnswering')
              = Cardinality(AgAsking) + Cardinality(AgAnswering) + AgOwed(next.pc) - AgOwed(agW[w].pc)
        /\ Cardinality(AgAsking) \in Nat /\ Cardinality(AgAnswering) \in Nat
    BY AgCounts
  <1>5. Cardinality(AgAsking') \in Nat /\ Cardinality(AgAnswering') \in Nat
    <2>1. AgAsking' \subseteq AgWorkers /\ AgAnswering' \subseteq AgWorkers
      BY DEF AgAsking, AgAnswering, AgPending
    <2>2. QED
      BY <2>1, AgSubset
  <1>6. QED
    BY <1>1, <1>2, <1>3, <1>4, <1>5

\* And after a crash of a step that appended what its worker owed.
LEMMA AgRoomIdle ==
  ASSUME AgTypes, AgTypes', AgRoom, agW' = [x \in AgWorkers |-> AgIdle], agReqs' = agReqs,
         NEW w \in AgWorkers,
         Exists' => Exists /\ agMeta'.count <= agMeta.count + (IF w \in AgAnswering THEN 1 ELSE 0)
  PROVE  AgRoom'
  <1> SUFFICES ASSUME Exists'
               PROVE  agMeta'.count + Cardinality(AgAsking') + Cardinality(AgAnswering') <= 2 * agReqs'
    BY DEF AgRoom
  <1>1. agMeta.count \in Nat /\ agMeta'.count \in Nat /\ agReqs \in Nat
    <2>1. agMeta \in AgMetas /\ agMeta' \in AgMetas
      BY DEF AgTypes, AgTypeOK, AgMetas, Exists, NoMeta
    <2>2. QED
      BY <2>1, AgConstants DEF AgMetas, AgTypes, AgTypeOK
  <1>2. agMeta.count + Cardinality(AgAsking) + Cardinality(AgAnswering) <= 2 * agReqs
    BY DEF AgRoom
  <1>3. /\ Cardinality(AgAsking) \in Nat /\ Cardinality(AgAnswering) \in Nat
        /\ w \in AgAnswering => Cardinality(AgAnswering) >= 1
    <2>1. AgAsking \subseteq AgWorkers /\ AgAnswering \subseteq AgWorkers
      BY DEF AgAsking, AgAnswering, AgPending
    <2>2. Cardinality(AgAnswering \ {w}) \in Nat
      BY <2>1, AgSubset
    <2>3. QED
      BY <2>1, <2>2, AgSubset, AgPlusOne
  <1>4. QED
    BY <1>1, <1>2, <1>3, AgCountsIdle

-----------------------------------------------------------------------------
\* The messages that are final

\* Messages that have not changed.
LEMMA AgStoredSame ==
  ASSUME NEW S \in SUBSET Seqs, \A i \in S : agMsgs'[i] = agMsgs[i]
  PROVE  StoredIn(S)' = StoredIn(S)
  BY DEF StoredIn

\* What a worker holds stays right as long as the final messages stay.
LEMMA AgHoldsKept ==
  ASSUME AgTypes, NEW b \in Nat, NEW b2 \in Nat, b <= b2, NEW w \in AgWorkers, AgHolds(w, b),
         \A i \in Seqs : i < b => agMsgs'[i] = agMsgs[i], agW'[w] = agW[w]
  PROVE  AgHolds(w, b2)'
  <1>1. PICK x \in AgWorker : x = agW[w] /\ x = agW'[w]
    BY DEF AgTypes
  <1>2. x.sum.covered \in Int /\ x.count \in Int /\ AgKeep \in Int
    BY AgConstants DEF AgWorker, Summaries
  <1> DEFINE S == {i \in Seqs : i < x.sum.covered}
             W == {i \in Seqs : x.sum.covered <= i /\ i < x.count - AgKeep}
  <1>3. x.sum.covered <= b => StoredIn(S)' = StoredIn(S)
    <2>1. S \in SUBSET Seqs /\ \A i \in Seqs : i \in Int
      BY AgConstants DEF Seqs
    <2>2. x.sum.covered <= b => \A i \in S : agMsgs'[i] = agMsgs[i]
      BY <1>2, <2>1
    <2>3. QED
      BY <2>1, <2>2, AgStoredSame
  <1>4. x.count - AgKeep <= b => StoredIn(W)' = StoredIn(W)
    <2>1. W \in SUBSET Seqs /\ \A i \in Seqs : i \in Int
      BY AgConstants DEF Seqs
    <2>2. x.count - AgKeep <= b => \A i \in W : agMsgs'[i] = agMsgs[i]
      BY <1>2, <2>1
    <2>3. QED
      BY <2>1, <2>2, AgStoredSame
  <1>5. /\ x.pc \in AgMaintaining => x.count - AgKeep <= b
        /\ x.pc \in {"history", "window", "put"} => x.sum.covered <= b /\ x.sum.ids = StoredIn(S)
        /\ x.pc \in {"window", "put"} => x.sum.covered < x.count - AgKeep
        /\ x.pc = "put" => x.msgs = StoredIn(W)
    BY <1>1 DEF AgHolds, AgAgrees
  <1>6. /\ x.pc \in AgMaintaining => x.count - AgKeep <= b2
        /\ x.pc \in {"history", "window", "put"} => x.sum.covered <= b2 /\ x.sum.ids = StoredIn(S)'
        /\ x.pc \in {"window", "put"} => x.sum.covered < x.count - AgKeep
        /\ x.pc = "put" => x.msgs = StoredIn(W)'
    BY <1>2, <1>3, <1>4, <1>5 DEF AgMaintaining
  <1>7. QED
    BY <1>1, <1>6 DEF AgHolds, AgAgrees

\* A step that leaves the final messages, the summary and the workers that hold
\* something alone.
LEMMA AgBaseKept ==
  ASSUME AgTypes, AgTypes', NEW b \in Nat, AgBase(b), NEW b2 \in Nat, b <= b2, AgFinal(b2)',
         \A i \in Seqs : i < b => agMsgs'[i] = agMsgs[i], agSum' = agSum,
         \A x \in AgWorkers : agW'[x] = agW[x] \/ agW'[x].pc \notin AgMaintaining \cup {"history"}
  PROVE  AgBase(b2)'
  <1>1. agSum.covered \in Int /\ \A i \in Seqs : i \in Int
    BY AgConstants DEF AgTypes, AgTypeOK, Summaries, Seqs
  <1>2. PICK c \in Int : c = agSum.covered /\ c = agSum'.covered
    BY <1>1
  <1>3. c <= b /\ agSum.ids = StoredIn({i \in Seqs : i < c})
    BY <1>2 DEF AgBase
  <1>4. StoredIn({i \in Seqs : i < c})' = StoredIn({i \in Seqs : i < c})
    BY <1>1, <1>3, AgStoredSame
  <1>5. (agSum.covered <= b2 /\ agSum.ids = StoredIn({i \in Seqs : i < agSum.covered}))'
    <2>1. (agSum.covered <= b2)' /\ agSum'.ids = StoredIn({i \in Seqs : i < c})'
      BY <1>2, <1>3, <1>4
    <2>2. {i \in Seqs : i < c} = {i \in Seqs : i < agSum'.covered}
      BY <1>2
    <2>3. QED
      BY <2>1, <2>2, Zenon DEF StoredIn
  <1>6. ASSUME NEW x \in AgWorkers PROVE AgHolds(x, b2)'
    <2>1. CASE agW'[x] = agW[x]
      BY <2>1, AgHoldsKept DEF AgBase
    <2>2. CASE agW'[x].pc \notin AgMaintaining \cup {"history"}
      BY <2>2 DEF AgHolds, AgAgrees, AgMaintaining
    <2>3. QED
      BY <2>1, <2>2
  <1>7. QED
    BY <1>5, <1>6 DEF AgBase

\* The final messages are the same when no message below the count and not the count
\* itself change.
LEMMA AgSameCount ==
  ASSUME AgTypes, AgTypes', NEW b \in Nat, AgBase(b), Exists, agMeta'.count = agMeta.count,
         \A i \in Seqs : i < agMeta.count => agMsgs'[i] = agMsgs[i], agSum' = agSum,
         agMeta.count - b + Cardinality(AgPending') <= Cardinality(AgWorkers),
         \A x \in AgWorkers : agW'[x] = agW[x] \/ agW'[x].pc \notin AgMaintaining \cup {"history"}
  PROVE  AgBase(b)'
  <1>1. agMeta.count \in 0..(2 * AgMaxReqs) /\ AgMaxReqs \in Nat
    BY AgExists, AgConstants DEF AgMetas
  <1>2. b <= agMeta.count /\ \A i \in Seqs : i \in Int
    BY <1>1 DEF AgBase, AgFinal, Seqs
  <1>3. \A i \in Seqs : i < b => agMsgs'[i] = agMsgs[i]
    BY <1>1, <1>2
  <1>4. b > 0 => b - 1 \in Seqs /\ b - 1 < b
    BY <1>1, <1>2 DEF Seqs
  <1>5. AgFinal(b)'
    <2>1. /\ b \in 0..agMeta.count
          /\ \A i \in Seqs : b <= i /\ i < agMeta.count => agMsgs[i][2] = "assistant"
          /\ b > 0 => agMsgs[b - 1][2] # "assistant"
      BY DEF AgBase, AgFinal
    <2>2. /\ b \in 0..agMeta'.count
          /\ \A i \in Seqs : b <= i /\ i < agMeta'.count => agMsgs'[i][2] = "assistant"
          /\ b > 0 => agMsgs'[b - 1][2] # "assistant"
      BY <1>3, <1>4, <2>1
    <2>3. QED
      BY <2>2 DEF AgFinal
  <1>6. QED
    BY <1>3, <1>5, AgBaseKept

\* The workers after an operation: those whose answer is awaited, and those that hold
\* what they have read.
LEMMA AgContinueCount ==
  ASSUME AgTypes, NEW w \in AgWorkers, NEW next \in AgWorker, NEW n \in Nat, NEW all \in Nat,
         Continue(w, next, n, all)
  PROVE  /\ Cardinality(AgPending) \in Nat /\ Cardinality(AgPending') \in Nat
         /\ Cardinality(AgPending') <= Cardinality(AgWorkers)
         /\ n < all => Cardinality(AgPending') = 0 /\ agW' = [x \in AgWorkers |-> AgIdle]
         /\ ~(n < all) => /\ Cardinality(AgPending') =
                                Cardinality(AgPending) + AgAwaited(next.pc) - AgAwaited(agW[w].pc)
                          /\ agW' = [agW EXCEPT ![w] = next]
  <1>1. AgPending \subseteq AgWorkers /\ AgPending' \subseteq AgWorkers
    BY DEF AgPending
  <1>2. /\ Cardinality(AgPending) \in Nat /\ Cardinality(AgPending') \in Nat
        /\ Cardinality(AgPending') <= Cardinality(AgWorkers)
    BY <1>1, AgSubset
  <1>3. n < all => agW' = [x \in AgWorkers |-> AgIdle]
    BY DEF Continue
  <1>4. ~(n < all) => agW' = [agW EXCEPT ![w] = next]
    BY DEF Continue
  <1>5. QED
    BY <1>2, <1>3, <1>4, AgCountsIdle, AgCounts
LEMMA AgContinueHolds ==
  ASSUME AgTypes, NEW w \in AgWorkers, NEW next \in AgWorker, NEW n \in Nat, NEW all \in Nat,
         Continue(w, next, n, all), next.pc \notin AgMaintaining \cup {"history"}
  PROVE  \A x \in AgWorkers : agW'[x] = agW[x] \/ agW'[x].pc \notin AgMaintaining \cup {"history"}
  BY DEF AgTypes, Continue, AgIdle, AgMaintaining

\* PatchSession moves no message.
LEMMA AgPatchBase ==
  ASSUME AgTypes, AgTypes', NEW b \in Nat, AgBase(b), NEW w \in AgWorkers, NEW next \in AgWorker,
         PatchSession(w, next), agSum' = agSum, Exists',
         next.pc \notin AgMaintaining \cup {"history"}, AgAwaited(next.pc) <= AgAwaited(agW[w].pc)
  PROVE  Exists /\ AgBase(b)'
  <1>1. PICK now \in AgTimes, n \in 0..3 :
             /\ PutSessionLocked([agMeta EXCEPT !.updated = now], n)
             /\ Continue(w, next, n, 3) /\ Exists /\ agMsgs' = agMsgs
    BY DEF PatchSession, NotFound, Exists
  <1>2. agMeta \in AgMetas /\ agMeta'.count = agMeta.count
    BY <1>1, AgExists DEF PutSessionLocked, AgMetas
  <1>3. /\ Cardinality(AgPending) \in Nat /\ Cardinality(AgPending') \in Nat
        /\ Cardinality(AgPending') <= Cardinality(AgPending)
    <2>1. AgAwaited(next.pc) \in Int /\ AgAwaited(agW[w].pc) \in Int
      BY DEF AgAwaited
    <2>2. /\ Cardinality(AgPending) \in Nat /\ Cardinality(AgPending') \in Nat
          /\ n < 3 => Cardinality(AgPending') = 0
          /\ n = 3 => Cardinality(AgPending') =
                         Cardinality(AgPending) + AgAwaited(next.pc) - AgAwaited(agW[w].pc)
      <3>1. Continue(w, next, n, 3) /\ n \in Nat /\ 3 \in Nat /\ (n = 3 => ~(n < 3))
        BY <1>1
      <3>2. QED
        BY <3>1, AgContinueCount
    <2>3. QED
      BY <2>1, <2>2
  <1>4. agMeta.count - b + Cardinality(AgPending') <= Cardinality(AgWorkers)
    <2>1. agMeta.count - b + Cardinality(AgPending) <= Cardinality(AgWorkers)
      BY DEF AgBase, AgFinal
    <2>2. agMeta.count \in Int /\ Cardinality(AgWorkers) \in Int
      BY <1>2, AgConstants DEF AgMetas
    <2>3. QED
      BY <1>3, <2>1, <2>2
  <1>5. \A x \in AgWorkers : agW'[x] = agW[x] \/ agW'[x].pc \notin AgMaintaining \cup {"history"}
    BY <1>1, AgContinueHolds
  <1>6. QED
    BY <1>1, <1>2, <1>4, <1>5, AgSameCount

\* A question makes everything before it and itself final; an answer is counted as one
\* that was awaited before.
LEMMA AgAppendBase ==
  ASSUME AgTypes, AgTypes', AgRoom, NEW b \in Nat, AgBase(b), NEW w \in AgWorkers, NEW next \in AgWorker,
         NEW role \in {"user", "assistant"}, AppendMessage(w, role, next), agSum' = agSum, Exists',
         w \in AgAnswering, next.pc \notin AgMaintaining \cup {"history"},
         role = "assistant" => w \in AgPending /\ AgAwaited(next.pc) = 0
  PROVE  Exists /\ \E b2 \in Nat : AgBase(b2)'
  <1>1. PICK now \in AgTimes, n \in 0..4 :
             /\ agMsgs' = IF n >= 1 THEN [agMsgs EXCEPT ![agMeta.count] = <<agW[w].req, role>>] ELSE agMsgs
             /\ PutSessionLocked([count |-> agMeta.count + 1, updated |-> now], n - 1)
             /\ Continue(w, next, n, 4) /\ Exists
    BY DEF AppendMessage, NotFound, Exists
  <1>2. /\ agMeta.count \in Seqs /\ agMeta.count \in Nat /\ agMsgs \in [Seqs -> Messages \cup {NoMsg}]
        /\ \A i \in Seqs : i \in Nat
    <2>1. agMeta.count \in Seqs
      BY <1>1, AgHasRoom
    <2>2. QED
      BY <2>1, AgConstants DEF Seqs, AgTypes, AgTypeOK
  <1>3. agMeta'.count = IF n >= 3 THEN agMeta.count + 1 ELSE agMeta.count
    BY <1>1 DEF PutSessionLocked
  <1>4. \A i \in Seqs : i # agMeta.count => agMsgs'[i] = agMsgs[i]
    BY <1>1, <1>2
  <1>5. /\ Cardinality(AgPending) \in Nat /\ Cardinality(AgPending') \in Nat
        /\ Cardinality(AgPending') <= Cardinality(AgWorkers) /\ Cardinality(AgWorkers) \in Nat
        /\ n < 4 => Cardinality(AgPending') = 0
        /\ n = 4 => Cardinality(AgPending') =
                                Cardinality(AgPending) + AgAwaited(next.pc) - AgAwaited(agW[w].pc)
    BY <1>1, AgContinueCount, AgConstants
  <1>6. \A x \in AgWorkers : agW'[x] = agW[x] \/ agW'[x].pc \notin AgMaintaining \cup {"history"}
    BY <1>1, AgContinueHolds
  <1>7. /\ b \in 0..agMeta.count
        /\ \A i \in Seqs : b <= i /\ i < agMeta.count => agMsgs[i][2] = "assistant"
        /\ b > 0 => agMsgs[b - 1][2] # "assistant"
        /\ agMeta.count - b + Cardinality(AgPending) <= Cardinality(AgWorkers)
    BY DEF AgBase, AgFinal
  <1>8. CASE n < 3
    <2>1. agMeta.count - b + Cardinality(AgPending') <= Cardinality(AgWorkers)
      BY <1>2, <1>5, <1>7, <1>8
    <2>2. AgBase(b)'
      BY <1>1, <1>2, <1>3, <1>4, <1>6, <1>8, <2>1, AgSameCount
    <2>3. QED
      BY <1>1, <2>2
  <1>9. CASE n >= 3 /\ role = "user"
    <2>1. PICK b2 \in Nat : b2 = agMeta.count + 1
      BY <1>2
    <2>2. agMsgs'[agMeta.count][2] = "user" /\ b2 - 1 = agMeta.count
      BY <1>1, <1>2, <1>9, <2>1
    <2>3. agMeta'.count = b2 /\ b <= b2
      BY <1>2, <1>3, <1>7, <1>9, <2>1
    <2>4. AgFinal(b2)'
      <3>1. /\ b2 \in 0..agMeta'.count
            /\ \A i \in Seqs : b2 <= i /\ i < agMeta'.count => agMsgs'[i][2] = "assistant"
            /\ b2 > 0 => agMsgs'[b2 - 1][2] # "assistant"
            /\ agMeta'.count - b2 + Cardinality(AgPending') <= Cardinality(AgWorkers)
        BY <1>2, <1>5, <2>2, <2>3
      <3>2. QED
        BY <3>1 DEF AgFinal
    <2>5. \A i \in Seqs : i < b => agMsgs'[i] = agMsgs[i]
      BY <1>2, <1>4, <1>7
    <2>6. AgBase(b2)'
      BY <1>6, <2>3, <2>4, <2>5, AgBaseKept
    <2>7. QED
      BY <1>1, <2>6
  <1>10. CASE n >= 3 /\ role = "assistant"
    <2>1. agMsgs'[agMeta.count][2] = "assistant"
      BY <1>1, <1>2, <1>10
    <2>2. Cardinality(AgPending') <= Cardinality(AgPending) - 1
      <3>1. agW[w].pc \in {"summary", "history", "reply"}
        BY <1>10 DEF AgPending
      <3>2. AgAwaited(next.pc) = 0 /\ AgAwaited(agW[w].pc) = 1
        BY <1>10, <3>1 DEF AgAwaited
      <3>3. Cardinality(AgPending) >= 1
        <4>1. AgPending \subseteq AgWorkers /\ w \in AgPending
          BY <1>10 DEF AgPending
        <4>2. /\ Cardinality(AgPending \ {w}) = Cardinality(AgPending) - 1
              /\ Cardinality(AgPending \ {w}) \in Nat
          BY <4>1, AgPlusOne, AgSubset
        <4>3. QED
          BY <1>5, <4>2
      <3>4. QED
        BY <1>1, <1>5, <3>2, <3>3
    <2>3. agMeta'.count = agMeta.count + 1
      BY <1>3, <1>10
    <2>4. b > 0 => b - 1 \in Seqs /\ b - 1 # agMeta.count
      BY <1>2, <1>7, AgConstants DEF Seqs
    <2>5. /\ b \in 0..agMeta'.count
          /\ b > 0 => agMsgs'[b - 1][2] # "assistant"
          /\ agMeta'.count - b + Cardinality(AgPending') <= Cardinality(AgWorkers)
      BY <1>2, <1>4, <1>5, <1>7, <2>2, <2>3, <2>4
    <2>6. \A i \in Seqs : b <= i /\ i < agMeta'.count => agMsgs'[i][2] = "assistant"
      BY <1>2, <1>4, <1>7, <2>1, <2>3
    <2>7. AgFinal(b)'
      BY <2>5, <2>6 DEF AgFinal
    <2>8. \A i \in Seqs : i < b => agMsgs'[i] = agMsgs[i]
      BY <1>2, <1>4, <1>7
    <2>9. AgBase(b)'
      BY <1>6, <2>7, <2>8, AgBaseKept
    <2>10. QED
      BY <1>1, <2>9
  <1>11. QED
    BY <1>8, <1>9, <1>10

\* What a regeneration deletes is not final; when it finds no answer, nothing follows on
\* what is final.
LEMMA AgDeleteLastBase ==
  ASSUME AgTypes, AgTypes', NEW b \in Nat, AgBase(b), NEW w \in AgWorkers, NEW next \in AgWorker,
         DeleteLastAssistant(w, next), agSum' = agSum, Exists', next.pc = "summary",
         agW[w].pc = "regenerate"
  PROVE  Exists /\ \E b2 \in Nat : AgBase(b2)'
  <1> DEFINE last == agMeta.count - 1
             found == Exists /\ last >= 0 /\ agMsgs[last][2] = "assistant"
  <1>0. /\ next.pc \notin AgMaintaining \cup {"history"}
        /\ AgAwaited(next.pc) = 1 /\ AgAwaited(agW[w].pc) = 0
    BY DEF AgMaintaining, AgAwaited
  <1>1. Exists => /\ agMeta.count \in Nat /\ (last >= 0 => last \in Seqs)
                  /\ agMsgs \in [Seqs -> Messages \cup {NoMsg}]
    BY AgExists, AgConstants DEF AgMetas, Seqs, AgTypes, AgTypeOK
  <1>2. /\ b \in 0..agMeta.count
        /\ \A i \in Seqs : b <= i /\ i < agMeta.count => agMsgs[i][2] = "assistant"
        /\ b > 0 => agMsgs[b - 1][2] # "assistant"
        /\ agMeta.count - b + Cardinality(AgPending) <= Cardinality(AgWorkers)
    BY DEF AgBase, AgFinal
  <1>3. \A i \in Seqs : i \in Nat
    BY AgConstants DEF Seqs
  <1>4. CASE Exists /\ ~found /\ Continue(w, next, 0, 0) /\ UNCHANGED <<agMeta, agIdx, agMsgs>>
    <2>1. b = agMeta.count
      BY <1>1, <1>2, <1>4
    <2>2. Cardinality(AgPending') <= Cardinality(AgWorkers) /\ Cardinality(AgPending') \in Nat
      BY <1>4, AgContinueCount
    <2>3. agMeta.count - b + Cardinality(AgPending') <= Cardinality(AgWorkers)
      BY <1>1, <1>4, <2>1, <2>2
    <2>4. \A x \in AgWorkers : agW'[x] = agW[x] \/ agW'[x].pc \notin AgMaintaining \cup {"history"}
      BY <1>0, <1>4, AgContinueHolds
    <2>5. AgBase(b)'
      BY <1>4, <2>3, <2>4, AgSameCount
    <2>6. QED
      BY <1>4, <2>5
  <1>5. CASE found /\ \E now \in AgTimes, n \in 0..4 :
                         /\ agMsgs' = IF n >= 1 THEN [agMsgs EXCEPT ![last] = NoMsg] ELSE agMsgs
                         /\ PutSessionLocked([count |-> last, updated |-> now], n - 1)
                         /\ Continue(w, next, n, 4)
    <2>1. PICK now \in AgTimes, n \in 0..4 :
             /\ agMsgs' = IF n >= 1 THEN [agMsgs EXCEPT ![last] = NoMsg] ELSE agMsgs
             /\ PutSessionLocked([count |-> last, updated |-> now], n - 1)
             /\ Continue(w, next, n, 4)
      BY <1>5
    <2>2. last \in Seqs /\ last \in Nat /\ b <= last /\ agMeta.count \in Nat
      BY <1>1, <1>2, <1>3, <1>5
    <2>3. \A i \in Seqs : i # last => agMsgs'[i] = agMsgs[i]
      BY <1>1, <1>5, <2>1
    <2>4. agMeta'.count = IF n >= 3 THEN last ELSE agMeta.count
      BY <2>1 DEF PutSessionLocked
    <2>5. /\ Cardinality(AgPending) \in Nat /\ Cardinality(AgPending') \in Nat
          /\ Cardinality(AgWorkers) \in Nat /\ Cardinality(AgPending') <= Cardinality(AgWorkers)
          /\ n < 4 => Cardinality(AgPending') = 0
          /\ Cardinality(AgPending') <= Cardinality(AgPending) + 1
      <3>1. Continue(w, next, n, 4) /\ n \in Nat /\ 4 \in Nat
        BY <2>1
      <3>2. QED
        BY <1>0, <3>1, AgContinueCount, AgConstants
    <2>6. \A x \in AgWorkers : agW'[x] = agW[x] \/ agW'[x].pc \notin AgMaintaining \cup {"history"}
      BY <1>0, <2>1, AgContinueHolds
    <2>7. \A i \in Seqs : i < b => agMsgs'[i] = agMsgs[i]
      BY <1>3, <2>2, <2>3
    <2>8. CASE n = 0
      <3>1. agMeta.count - b + Cardinality(AgPending') <= Cardinality(AgWorkers)
        BY <1>2, <2>2, <2>5, <2>8
      <3>2. AgBase(b)'
        BY <1>5, <2>1, <2>4, <2>6, <2>8, <3>1, AgSameCount
      <3>3. QED
        BY <1>5, <3>2
    <2>9. CASE n \in 1..2
      <3>1. PICK b2 \in Nat : b2 = agMeta.count
        BY <2>2
      <3>2. agMeta'.count = b2 /\ b <= b2 /\ b2 - 1 = last /\ agMsgs'[last] = NoMsg
        BY <1>1, <1>5, <2>1, <2>2, <2>4, <2>9, <3>1
      <3>3. /\ b2 \in 0..agMeta'.count
            /\ \A i \in Seqs : b2 <= i /\ i < agMeta'.count => agMsgs'[i][2] = "assistant"
            /\ b2 > 0 => agMsgs'[b2 - 1][2] # "assistant"
            /\ agMeta'.count - b2 + Cardinality(AgPending') <= Cardinality(AgWorkers)
        BY <1>3, <2>5, <2>9, <3>2 DEF NoMsg
      <3>4. AgFinal(b2)'
        BY <3>3 DEF AgFinal
      <3>5. AgBase(b2)'
        BY <2>6, <2>7, <3>2, <3>4, AgBaseKept
      <3>6. QED
        BY <1>5, <3>5
    <2>10. CASE n >= 3
      <3>1. agMeta'.count = last /\ (b > 0 => b - 1 \in Seqs /\ b - 1 < b)
        BY <2>2, <2>4, <2>10, AgConstants DEF Seqs
      <3>2. /\ b \in 0..agMeta'.count
            /\ b > 0 => agMsgs'[b - 1][2] # "assistant"
        BY <1>2, <2>2, <2>7, <3>1
      <3>3. \A i \in Seqs : b <= i /\ i < agMeta'.count => agMsgs'[i][2] = "assistant"
        BY <1>2, <1>3, <2>2, <2>3, <3>1
      <3>4. agMeta'.count - b + Cardinality(AgPending') <= Cardinality(AgWorkers)
        BY <1>2, <2>2, <2>5, <3>1
      <3>5. AgFinal(b)'
        BY <3>2, <3>3, <3>4 DEF AgFinal
      <3>6. AgBase(b)'
        BY <2>6, <2>7, <3>5, AgBaseKept
      <3>7. QED
        BY <1>5, <3>6
    <2>11. QED
      BY <2>1, <2>8, <2>9, <2>10
  <1>6. ~NotFound(w, next)
    BY DEF NotFound, Exists
  <1>7. QED
    BY <1>4, <1>5, <1>6, Zenon DEF DeleteLastAssistant

\* A step that only reads, after which its worker holds what is right.
LEMMA AgReadBase ==
  ASSUME AgTypes, AgTypes', NEW b \in Nat, AgBase(b), NEW w \in AgWorkers, NEW next \in AgWorker, Exists,
         agW' = [agW EXCEPT ![w] = next], UNCHANGED <<agMeta, agMsgs, agSum>>,
         AgAwaited(next.pc) <= AgAwaited(agW[w].pc), AgAgrees(next, b)
  PROVE  AgBase(b)'
  <1>1. agW'[w] = next /\ \A x \in AgWorkers : x # w => agW'[x] = agW[x]
    BY DEF AgTypes
  <1>2. AgHolds(w, b)'
    BY <1>1 DEF AgHolds, AgAgrees, StoredIn
  <1>3. \A x \in AgWorkers : AgHolds(x, b)'
    <2>1. ASSUME NEW x \in AgWorkers, x # w PROVE AgHolds(x, b)'
      BY <1>1, <2>1, AgHoldsKept DEF AgBase
    <2>2. QED
      BY <1>2, <2>1
  <1>4. AgFinal(b)'
    <2>1. /\ AgAwaited(next.pc) \in Int /\ AgAwaited(agW[w].pc) \in Int
          /\ agMeta.count \in Nat /\ Cardinality(AgWorkers) \in Nat
      BY AgExists, AgConstants DEF AgAwaited, AgMetas
    <2>2. /\ Cardinality(AgPending') = Cardinality(AgPending) + AgAwaited(next.pc) - AgAwaited(agW[w].pc)
          /\ Cardinality(AgPending) \in Nat /\ Cardinality(AgPending') \in Nat
      BY AgCounts
    <2>3. agMeta.count - b + Cardinality(AgPending) <= Cardinality(AgWorkers)
      BY DEF AgBase, AgFinal
    <2>4. agMeta.count - b + Cardinality(AgPending') <= Cardinality(AgWorkers)
      BY <2>1, <2>2, <2>3
    <2>5. QED
      BY <2>4 DEF AgBase, AgFinal
  <1>5. QED
    BY <1>3, <1>4 DEF AgBase, StoredIn

\* A summary put by a worker that holds the final messages tells of them and no others.
LEMMA AgPutBase ==
  ASSUME AgTypes, AgTypes', NEW b \in Nat, AgBase(b), NEW w \in AgWorkers, Exists, PutSummary(w),
         UNCHANGED <<agMeta, agMsgs>>
  PROVE  AgBase(b)'
  <1>1. PICK x \in AgWorker : x = agW[w]
    BY DEF AgTypes
  <1>2. x.sum.covered \in Int /\ x.count \in Int /\ AgKeep \in Int /\ \A i \in Seqs : i \in Int
    BY AgConstants DEF AgWorker, Summaries, Seqs
  <1> DEFINE new == x.count - AgKeep
  <1>3. /\ new <= b /\ x.sum.covered < new
        /\ x.sum.ids = StoredIn({i \in Seqs : i < x.sum.covered})
        /\ x.msgs = StoredIn({i \in Seqs : x.sum.covered <= i /\ i < new})
    BY <1>1 DEF AgBase, AgHolds, AgAgrees, AgMaintaining, PutSummary, At
  <1>4. x.sum.ids \cup x.msgs = StoredIn({i \in Seqs : i < new})
    <2>1. \A i \in Seqs : i < new <=> i < x.sum.covered \/ (x.sum.covered <= i /\ i < new)
      BY <1>2, <1>3
    <2>2. QED
      BY <1>3, <2>1 DEF StoredIn
  <1>5. agSum' = [covered |-> new, ids |-> x.sum.ids \cup x.msgs]
    BY <1>1 DEF PutSummary, NewCovered
  <1>6. (agSum.covered <= b /\ agSum.ids = StoredIn({i \in Seqs : i < agSum.covered}))'
    <2>1. agSum'.covered = new /\ agSum'.ids = StoredIn({i \in Seqs : i < new})
      BY <1>4, <1>5
    <2>2. {i \in Seqs : i < new} = {i \in Seqs : i < agSum'.covered}
      BY <2>1
    <2>3. (agSum.covered <= b)'
      BY <1>3, <2>1
    <2>4. QED
      BY <2>1, <2>2, <2>3, Zenon DEF StoredIn
  <1>7. agW'[w] = AgIdle /\ \A y \in AgWorkers : y # w => agW'[y] = agW[y]
    BY DEF PutSummary, AgTypes
  <1>8. \A y \in AgWorkers : AgHolds(y, b)'
    <2>1. ASSUME NEW y \in AgWorkers, y # w PROVE AgHolds(y, b)'
      BY <1>7, <2>1, AgHoldsKept DEF AgBase
    <2>2. AgHolds(w, b)'
      BY <1>7 DEF AgHolds, AgAgrees, AgIdle, AgMaintaining
    <2>3. QED
      BY <2>1, <2>2
  <1>9. AgFinal(b)'
    <2>1. AgPending' = AgPending
      BY <1>7 DEF AgPending, AgIdle, PutSummary, At
    <2>2. QED
      BY <2>1 DEF AgBase, AgFinal
  <1>10. QED
    BY <1>6, <1>8, <1>9 DEF AgBase

\* There is room after an operation that appends no more than its worker owed, and
\* maintenance has not started.
LEMMA AgContinueRest ==
  ASSUME AgTypes, AgTypes', AgRoom, AgEnough, NEW w \in AgWorkers, NEW next \in AgWorker,
         NEW n \in Nat, NEW all \in Nat, Continue(w, next, n, all), agReqs' = agReqs, NEW d \in 0..1,
         Exists' => Exists /\ agMeta'.count <= agMeta.count + d,
         AgOwed(next.pc) + d <= AgOwed(agW[w].pc), next.pc \notin AgMaintaining \cup {"history"}
  PROVE  AgRoom' /\ AgEnough'
  <1>1. AgOwed(next.pc) \in Nat /\ AgOwed(agW[w].pc) \in Nat
    BY DEF AgOwed
  <1>2. CASE n < all
    <2>1. agW' = [x \in AgWorkers |-> AgIdle]
      BY <1>2 DEF Continue
    <2>2. d = 1 => w \in AgAnswering
      BY <1>1 DEF AgOwed, AgAnswering, AgPending
    <2>3. Exists' => Exists /\ agMeta'.count <= agMeta.count + (IF w \in AgAnswering THEN 1 ELSE 0)
      <3>1. SUFFICES ASSUME Exists'
                     PROVE  Exists /\ agMeta'.count <= agMeta.count + (IF w \in AgAnswering THEN 1 ELSE 0)
        OBVIOUS
      <3>2. Exists /\ agMeta.count \in Nat /\ agMeta'.count \in Nat
        <4>1. agMeta \in AgMetas /\ agMeta' \in AgMetas
          BY <3>1 DEF AgTypes, AgTypeOK, AgMetas, Exists, NoMeta
        <4>2. QED
          BY <3>1, <4>1, AgConstants DEF AgMetas
      <3>3. QED
        BY <2>2, <3>1, <3>2
    <2>4. AgRoom'
      BY <2>1, <2>3, AgRoomIdle
    <2>5. AgEnough'
      BY <2>1 DEF AgEnough, AgIdle, AgMaintaining
    <2>6. QED
      BY <2>4, <2>5
  <1>3. CASE ~(n < all)
    <2>1. agW' = [agW EXCEPT ![w] = next]
      BY <1>3 DEF Continue
    <2>2. Exists' => /\ Exists
                     /\ agMeta'.count + AgOwed(next.pc) - 2 * agReqs'
                         <= agMeta.count + AgOwed(agW[w].pc) - 2 * agReqs
      <3>1. SUFFICES ASSUME Exists'
                     PROVE  /\ Exists
                            /\ agMeta'.count + AgOwed(next.pc) - 2 * agReqs
                                 <= agMeta.count + AgOwed(agW[w].pc) - 2 * agReqs
        OBVIOUS
      <3>2. Exists /\ agMeta.count \in Nat /\ agMeta'.count \in Nat /\ agReqs \in Nat
        <4>1. agMeta \in AgMetas /\ agMeta' \in AgMetas
          BY <3>1 DEF AgTypes, AgTypeOK, AgMetas, Exists, NoMeta
        <4>2. QED
          BY <3>1, <4>1, AgConstants DEF AgMetas, AgTypes, AgTypeOK
      <3>3. QED
        BY <1>1, <3>1, <3>2
    <2>3. AgRoom'
      BY <2>1, <2>2, AgRoomOne
    <2>4. AgEnough'
      <3>1. agW'[w] = next /\ \A x \in AgWorkers : x # w => agW'[x] = agW[x]
        BY <2>1 DEF AgTypes
      <3>2. QED
        BY <3>1 DEF AgEnough
    <2>5. QED
      BY <2>3, <2>4
  <1>4. QED
    BY <1>2, <1>3

LEMMA AgPatchRest ==
  ASSUME AgTypes, AgTypes', AgRoom, AgEnough, NEW w \in AgWorkers, NEW next \in AgWorker,
         PatchSession(w, next), agReqs' = agReqs, AgOwed(next.pc) <= AgOwed(agW[w].pc),
         next.pc \notin AgMaintaining \cup {"history"}
  PROVE  AgRoom' /\ AgEnough'
  <1>1. AgOwed(next.pc) + 0 <= AgOwed(agW[w].pc) /\ 0 \in 0..1
    BY DEF AgOwed
  <1>2. CASE NotFound(w, next)
    <2>1. Continue(w, next, 0, 0) /\ ~Exists' /\ 0 \in Nat
      BY <1>2 DEF NotFound, Exists
    <2>2. QED
      BY <1>1, <2>1, AgContinueRest
  <1>3. CASE ~NotFound(w, next)
    <2>1. PICK now \in AgTimes, n \in 0..3 :
             /\ PutSessionLocked([agMeta EXCEPT !.updated = now], n)
             /\ Continue(w, next, n, 3) /\ Exists
      BY <1>3 DEF PatchSession
    <2>2. agMeta \in AgMetas /\ agMeta'.count = agMeta.count /\ agMeta.count \in Nat
      BY <2>1, AgExists DEF PutSessionLocked, AgMetas
    <2>3. Exists /\ agMeta'.count <= agMeta.count + 0
      BY <2>1, <2>2
    <2>4. Continue(w, next, n, 3) /\ n \in Nat /\ 3 \in Nat
      BY <2>1
    <2>5. QED
      BY <1>1, <2>3, <2>4, AgContinueRest
  <1>4. QED
    BY <1>2, <1>3
LEMMA AgAppendRest ==
  ASSUME AgTypes, AgTypes', AgRoom, AgEnough, NEW w \in AgWorkers, NEW next \in AgWorker,
         NEW role \in {"user", "assistant"}, AppendMessage(w, role, next), agReqs' = agReqs,
         AgOwed(next.pc) + 1 <= AgOwed(agW[w].pc), next.pc \notin AgMaintaining \cup {"history"}
  PROVE  AgRoom' /\ AgEnough'
  <1>1. 1 \in 0..1
    OBVIOUS
  <1>2. CASE NotFound(w, next)
    <2>1. Continue(w, next, 0, 0) /\ ~Exists' /\ 0 \in Nat
      BY <1>2 DEF NotFound, Exists
    <2>2. QED
      BY <1>1, <2>1, AgContinueRest
  <1>3. CASE ~NotFound(w, next)
    <2>1. PICK now \in AgTimes, n \in 0..4 :
             /\ PutSessionLocked([count |-> agMeta.count + 1, updated |-> now], n - 1)
             /\ Continue(w, next, n, 4) /\ Exists
      BY <1>3 DEF AppendMessage
    <2>2. agMeta.count \in Nat
      BY <2>1, AgExists DEF AgMetas
    <2>3. Exists /\ agMeta'.count <= agMeta.count + 1
      BY <2>1, <2>2 DEF PutSessionLocked
    <2>4. Continue(w, next, n, 4) /\ n \in Nat /\ 4 \in Nat
      BY <2>1
    <2>5. QED
      BY <1>1, <2>3, <2>4, AgContinueRest
  <1>4. QED
    BY <1>2, <1>3
LEMMA AgDeleteLastRest ==
  ASSUME AgTypes, AgTypes', AgRoom, AgEnough, NEW w \in AgWorkers, NEW next \in AgWorker,
         DeleteLastAssistant(w, next), agReqs' = agReqs, AgOwed(next.pc) <= AgOwed(agW[w].pc),
         next.pc \notin AgMaintaining \cup {"history"}
  PROVE  AgRoom' /\ AgEnough'
  <1> DEFINE last == agMeta.count - 1
             found == Exists /\ last >= 0 /\ agMsgs[last][2] = "assistant"
  <1>1. AgOwed(next.pc) + 0 <= AgOwed(agW[w].pc) /\ 0 \in 0..1
    BY DEF AgOwed
  <1>2. Exists => agMeta.count \in Nat
    BY AgExists DEF AgMetas
  <1>3. CASE NotFound(w, next) \/ (Exists /\ ~found /\ Continue(w, next, 0, 0)
                                    /\ UNCHANGED <<agMeta, agIdx, agMsgs>>)
    <2>1. Continue(w, next, 0, 0) /\ (Exists' => Exists /\ agMeta'.count <= agMeta.count + 0) /\ 0 \in Nat
      BY <1>2, <1>3 DEF NotFound, Exists
    <2>2. QED
      BY <1>1, <2>1, AgContinueRest
  <1>4. CASE found /\ \E now \in AgTimes, n \in 0..4 :
                         /\ agMsgs' = IF n >= 1 THEN [agMsgs EXCEPT ![last] = NoMsg] ELSE agMsgs
                         /\ PutSessionLocked([count |-> last, updated |-> now], n - 1)
                         /\ Continue(w, next, n, 4)
    <2>1. PICK now \in AgTimes, n \in 0..4 :
             /\ PutSessionLocked([count |-> last, updated |-> now], n - 1)
             /\ Continue(w, next, n, 4)
      BY <1>4
    <2>2. Exists /\ agMeta'.count <= agMeta.count + 0
      BY <1>2, <1>4, <2>1 DEF PutSessionLocked
    <2>3. Continue(w, next, n, 4) /\ n \in Nat /\ 4 \in Nat
      BY <2>1
    <2>4. QED
      BY <1>1, <2>2, <2>3, AgContinueRest
  <1>5. QED
    BY <1>3, <1>4, Zenon DEF DeleteLastAssistant

\* A new session is empty and nobody works on it.
LEMMA AgCreateStep ==
  ASSUME AgInv, AgTypes', NEW w \in AgWorkers, CreateSession(w)
  PROVE  AgRoom' /\ AgEnough' /\ (Exists' => \E b \in Nat : AgBase(b)')
  <1>1. /\ AgTypes /\ ~Exists /\ agSum = NoSummary /\ agW = [x \in AgWorkers |-> AgIdle]
    BY DEF AgInv, AgNothingYet, AgTypes, CreateSession
  <1>2. PICK now \in AgTimes, n \in 1..3 :
           /\ PutSessionLocked([count |-> 0, updated |-> now], n)
           /\ Continue(w, AgIdle, n, 3)
    BY DEF CreateSession
  <1>3. agW' = [x \in AgWorkers |-> AgIdle]
    BY <1>1, <1>2 DEF Continue
  <1>4. Exists' => agMeta'.count = 0
    BY <1>1, <1>2 DEF PutSessionLocked, Exists
  <1>5. Cardinality(AgAsking') = 0 /\ Cardinality(AgAnswering') = 0 /\ Cardinality(AgPending') = 0
    BY <1>3, AgCountsIdle
  <1>6. AgRoom'
    <2>1. agReqs' \in Nat
      BY DEF AgTypes, AgTypeOK
    <2>2. Exists' => agMeta'.count + Cardinality(AgAsking') + Cardinality(AgAnswering') <= 2 * agReqs'
      BY <1>4, <1>5, <2>1
    <2>3. QED
      BY <2>2 DEF AgRoom
  <1>7. AgEnough'
    BY <1>3 DEF AgEnough, AgIdle, AgMaintaining
  <1>8. ASSUME Exists' PROVE AgBase(0)'
    <2>1. \A i \in Seqs : i \in Nat
      BY AgConstants DEF Seqs
    <2>2. /\ 0 \in 0..agMeta'.count
          /\ \A i \in Seqs : 0 <= i /\ i < agMeta'.count => agMsgs'[i][2] = "assistant"
          /\ agMeta'.count - 0 + Cardinality(AgPending') <= Cardinality(AgWorkers)
      BY <1>4, <1>5, <1>8, <2>1, AgConstants
    <2>3. AgFinal(0)'
      BY <2>2 DEF AgFinal
    <2>4. agSum'.covered = 0 /\ agSum'.ids = {} /\ {i \in Seqs : i < 0} = {}
      BY <1>1, <2>1 DEF CreateSession, NoSummary
    <2>5. (agSum.covered <= 0 /\ agSum.ids = StoredIn({i \in Seqs : i < agSum.covered}))'
      BY <2>4 DEF StoredIn
    <2>6. \A x \in AgWorkers : AgHolds(x, 0)'
      BY <1>3 DEF AgHolds, AgAgrees, AgIdle, AgMaintaining
    <2>7. QED
      BY <2>3, <2>5, <2>6 DEF AgBase
  <1>9. QED
    BY <1>6, <1>7, <1>8

\* A session that is still there after DeleteSession has lost its index entry at most.
LEMMA AgDeleteStep ==
  ASSUME AgInv, AgTypes', NEW w \in AgWorkers, DeleteSession(w)
  PROVE  /\ AgRoom' /\ AgEnough' /\ agCreated' /\ agCreated = agCreated'
         /\ Exists' => \E b \in Nat : AgBase(b)'
  <1> DEFINE seqs == {i \in Seqs : agMsgs[i] # NoMsg}
             head == IF Exists THEN 3 ELSE 0
             all == head + Cardinality(seqs)
             before(i) == head + Cardinality({j \in seqs : j < i})
  <1>0. /\ AgTypes /\ AgRoom /\ AgEnough /\ UNCHANGED <<agReqs, agCreated>> /\ all > 0
        /\ agW[w].pc = "idle"
    BY DEF AgInv, DeleteSession
  <1>1. IsFiniteSet(seqs) /\ Cardinality(seqs) \in Nat /\ \A S \in SUBSET seqs : Cardinality(S) \in Nat
    <2>1. IsFiniteSet(Seqs)
      BY FS_Interval, AgConstants DEF Seqs
    <2>2. IsFiniteSet(seqs) /\ \A S \in SUBSET seqs : IsFiniteSet(S)
      BY <2>1, FS_Subset
    <2>3. QED
      BY <2>2, FS_CardinalityType
  <1>2. PICK n \in 0..all :
             /\ agMeta' = IF Exists /\ n >= 2 THEN NoMeta ELSE agMeta
             /\ agSum' = IF Exists /\ n >= 3 THEN NoSummary ELSE agSum
             /\ agMsgs' = [i \in Seqs |-> IF before(i) < n THEN NoMsg ELSE agMsgs[i]]
             /\ Continue(w, AgIdle, n, all)
    BY DEF DeleteSession
  <1>3. agCreated
    <2>1. CASE ~agCreated
      <3>1. ~Exists /\ seqs = {}
        BY <2>1 DEF AgInv, AgNothingYet
      <3>2. QED
        BY <1>0, <3>1, FS_EmptySet
    <2>2. agCreated \in BOOLEAN
      BY <1>0 DEF AgTypes, AgTypeOK
    <2>3. QED
      BY <2>1, <2>2
  <1>4. all \in Nat /\ n \in Nat /\ AgIdle.pc = "idle"
    BY <1>1, <1>2 DEF AgIdle
  <1>5. Exists' => Exists /\ agMeta' = agMeta /\ n < 2
    BY <1>2, <1>4 DEF Exists
  <1>6. AgRoom' /\ AgEnough'
    <2>1. AgOwed(AgIdle.pc) + 0 <= AgOwed(agW[w].pc) /\ 0 \in 0..1
      BY <1>0, <1>4 DEF AgOwed
    <2>2. Exists' => Exists /\ agMeta'.count <= agMeta.count + 0
      <3>1. Exists => agMeta.count \in Nat
        BY <1>0, AgExists DEF AgMetas
      <3>2. QED
        BY <1>5, <3>1
    <2>3. AgIdle.pc \notin AgMaintaining \cup {"history"}
      BY <1>4 DEF AgMaintaining
    <2>4. Continue(w, AgIdle, n, all) /\ AgIdle \in AgWorker
      BY <1>2, AgConstants
    <2> HIDE DEF all
    <2>5. QED
      BY <1>0, <1>4, <2>1, <2>2, <2>3, <2>4, AgContinueRest
  <1>7. ASSUME Exists' PROVE \E b \in Nat : AgBase(b)'
    <2>1. PICK b \in Nat : AgBase(b)
      BY <1>5, <1>7, AgConstants DEF AgInv
    <2>2. n < 2 /\ n < all /\ head = 3 /\ Exists /\ agMeta' = agMeta
      BY <1>1, <1>4, <1>5, <1>7
    <2>3. \A i \in Seqs : before(i) \in Nat /\ before(i) >= 3
      BY <1>1, <2>2
    <2>4. agSum' = agSum /\ \A i \in Seqs : agMsgs'[i] = agMsgs[i]
      <3> HIDE DEF before
      <3>1. QED
        BY <1>2, <1>4, <2>2, <2>3
    <2>5. agW' = [x \in AgWorkers |-> AgIdle]
      BY <1>2, <2>2 DEF Continue
    <2>6. Cardinality(AgPending') = 0
      BY <2>5, AgCountsIdle
    <2>7. agMeta.count - b + Cardinality(AgPending') <= Cardinality(AgWorkers)
      <3>1. agMeta.count - b + Cardinality(AgPending) <= Cardinality(AgWorkers)
        BY <2>1 DEF AgBase, AgFinal
      <3>2. AgPending \subseteq AgWorkers
        BY DEF AgPending
      <3>3. Cardinality(AgPending) \in Nat /\ agMeta.count \in Nat
        BY <1>0, <2>2, <3>2, AgSubset, AgExists DEF AgMetas
      <3>4. QED
        BY <2>6, <3>1, <3>3, AgConstants
    <2>8. \A x \in AgWorkers : agW'[x] = agW[x] \/ agW'[x].pc \notin AgMaintaining \cup {"history"}
      BY <2>5 DEF AgIdle, AgMaintaining
    <2>9. AgBase(b)'
      BY <1>0, <2>1, <2>2, <2>4, <2>7, <2>8, AgSameCount
    <2>10. QED
      BY <2>9
  <1>8. QED
    BY <1>0, <1>3, <1>6, <1>7

\* Every step keeps the room, the bound on maintenance and the final messages.
LEMMA AgRestStep ==
  ASSUME AgInv, AgTypes', [AgNext]_agVars
  PROVE  AgRoom' /\ AgEnough' /\ (Exists' => \E b \in Nat : AgBase(b)')
  <1> DEFINE Rest == AgRoom' /\ AgEnough' /\ (Exists' => \E b \in Nat : AgBase(b)')
             busy(pc) == pc \in AgMaintaining \cup {"history"}
  <1>0. AgTypes /\ AgRoom /\ AgEnough /\ (Exists => \E b \in Nat : AgBase(b))
    BY AgConstants DEF AgInv
  <1>1. AgIdle \in AgWorker /\ AgIdle.pc = "idle" /\ ~busy("idle")
    BY AgConstants DEF AgIdle, AgMaintaining
  <1>2. ASSUME NEW w \in AgWorkers, CreateSession(w) PROVE Rest
    BY <1>2, AgCreateStep
  <1>3. ASSUME NEW w \in AgWorkers, DeleteSession(w) PROVE Rest
    BY <1>3, AgDeleteStep
  <1>4. ASSUME NEW w \in AgWorkers, NEW next \in AgWorker, PatchSession(w, next), ~busy(next.pc),
               AgOwed(next.pc) <= AgOwed(agW[w].pc), AgAwaited(next.pc) <= AgAwaited(agW[w].pc),
               UNCHANGED <<agSum, agReqs>>
        PROVE  Rest
    <2>1. AgRoom' /\ AgEnough'
      BY <1>0, <1>4, AgPatchRest
    <2>2. ASSUME Exists' PROVE \E b \in Nat : AgBase(b)'
      <3>1. Exists
        BY <1>4, <2>2 DEF PatchSession, NotFound, Exists
      <3>2. PICK b \in Nat : AgBase(b)
        BY <1>0, <3>1
      <3>3. QED
        BY <1>0, <1>4, <2>2, <3>2, AgPatchBase
    <2>3. QED
      BY <2>1, <2>2
  <1>5. ASSUME NEW w \in AgWorkers, HandleSessionPatch(w) PROVE Rest
    BY <1>1, <1>4, <1>5 DEF HandleSessionPatch, AgOwed, AgAwaited
  <1>6. ASSUME NEW w \in AgWorkers, NEW next, agW' = [agW EXCEPT ![w] = next], AgGoesOn(w, next),
               UNCHANGED <<agMeta, agMsgs, agSum, agReqs>>
        PROVE  Rest
    <2>1. AgRoom'
      <3>1. AgOwed(next.pc) \in Nat /\ AgOwed(agW[w].pc) \in Nat /\ AgOwed(next.pc) <= AgOwed(agW[w].pc)
        BY <1>6 DEF AgOwed, AgGoesOn
      <3>2. Exists' => /\ Exists
                       /\ agMeta'.count + AgOwed(next.pc) - 2 * agReqs'
                            <= agMeta.count + AgOwed(agW[w].pc) - 2 * agReqs
        BY <1>0, <1>6, <3>1, AgExists, AgConstants DEF Exists, AgMetas, AgTypes, AgTypeOK
      <3>3. QED
        BY <1>0, <1>6, <3>2, AgRoomOne DEF AgGoesOn
    <2>2. AgEnough'
      <3>1. agW'[w] = next /\ \A x \in AgWorkers : x # w => agW'[x] = agW[x]
        BY <1>0, <1>6 DEF AgTypes
      <3>2. QED
        BY <1>0, <1>6, <3>1 DEF AgEnough, AgGoesOn
    <2>3. ASSUME Exists' PROVE \E b \in Nat : AgBase(b)'
      <3>1. Exists
        BY <1>6, <2>3 DEF Exists
      <3>2. PICK b \in Nat : AgBase(b)
        BY <1>0, <3>1
      <3>3. AgBase(b)'
        BY <1>0, <1>6, <3>1, <3>2, AgReadBase DEF AgGoesOn
      <3>4. QED
        BY <3>3
    <2>4. QED
      BY <2>1, <2>2, <2>3
  <1>7. ASSUME NEW w \in AgWorkers, NEW chat \in BOOLEAN, Accept(w, chat) PROVE Rest
    <2>1. PICK next \in AgWorker : /\ agW' = [agW EXCEPT ![w] = next]
                                   /\ next.pc = IF chat THEN "patch" ELSE "regenerate"
      BY <1>0, <1>7, AgAcceptShape
    <2>2. /\ agReqs \in Nat /\ agReqs' = agReqs + 1 /\ UNCHANGED <<agMeta, agMsgs, agSum>>
          /\ agW[w].pc = "idle" /\ Exists
      BY <1>0, <1>7, AgAcceptShape
    <2>3. /\ AgOwed(next.pc) \in 1..2 /\ AgOwed(agW[w].pc) = 0 /\ ~busy(next.pc)
          /\ AgAwaited(next.pc) = 0 /\ AgAwaited(agW[w].pc) = 0
      BY <2>1, <2>2 DEF AgOwed, AgAwaited, AgMaintaining
    <2>4. AgRoom'
      <3>1. agMeta'.count + AgOwed(next.pc) - 2 * agReqs' <= agMeta.count + AgOwed(agW[w].pc) - 2 * agReqs
        BY <1>0, <2>2, <2>3, AgExists DEF AgMetas
      <3>2. QED
        BY <1>0, <2>1, <2>2, <3>1, AgRoomOne
    <2>5. AgEnough'
      <3>1. agW'[w] = next /\ \A x \in AgWorkers : x # w => agW'[x] = agW[x]
        BY <1>0, <2>1 DEF AgTypes
      <3>2. QED
        BY <1>0, <2>3, <3>1 DEF AgEnough
    <2>6. PICK b \in Nat : AgBase(b)
      BY <1>0, <2>2
    <2>7. AgAwaited(next.pc) <= AgAwaited(agW[w].pc) /\ AgAgrees(next, b)
      BY <2>3 DEF AgAgrees, AgMaintaining
    <2>8. AgBase(b)'
      BY <1>0, <2>1, <2>2, <2>6, <2>7, AgReadBase
    <2>9. QED
      BY <2>4, <2>5, <2>8
  <1>8. ASSUME NEW w \in AgWorkers, NEW next \in AgWorker, NEW role \in {"user", "assistant"},
               AppendMessage(w, role, next), ~busy(next.pc),
               AgOwed(next.pc) + 1 <= AgOwed(agW[w].pc), w \in AgAnswering,
               role = "assistant" => w \in AgPending /\ AgAwaited(next.pc) = 0,
               UNCHANGED <<agSum, agReqs>>
        PROVE  Rest
    <2>1. AgRoom' /\ AgEnough'
      BY <1>0, <1>8, AgAppendRest
    <2>2. ASSUME Exists' PROVE \E b \in Nat : AgBase(b)'
      <3>1. Exists
        BY <1>8, <2>2 DEF AppendMessage, NotFound, Exists
      <3>2. PICK b \in Nat : AgBase(b)
        BY <1>0, <3>1
      <3>3. QED
        BY <1>0, <1>8, <2>2, <3>2, AgAppendBase
    <2>3. QED
      BY <2>1, <2>2
  <1>9. ASSUME NEW w \in AgWorkers, StoreSteps(w), UNCHANGED <<agSum, agReqs, agCreated>> PROVE Rest
    <2> DEFINE goes(pc) == Then(w, pc) \in AgWorker /\ Then(w, pc).pc = pc
    <2>1. agW[w].pc # "idle" => goes("user") /\ goes("summary") /\ goes("maintain")
      BY <1>0, AgThenType DEF AgPcs
    <2>2. CASE RememberModel(w)
      <3>1. goes("user") /\ agW[w].pc = "patch" /\ PatchSession(w, Then(w, "user"))
        BY <2>1, <2>2 DEF RememberModel, At
      <3>2. PICK next \in AgWorker : next = Then(w, "user") /\ next.pc = "user"
        BY <3>1
      <3>3. QED
        BY <1>4, <1>9, <3>1, <3>2 DEF AgOwed, AgAwaited, AgMaintaining
    <2>3. CASE AppendUser(w)
      <3>1. goes("summary") /\ agW[w].pc = "user" /\ AppendMessage(w, "user", Then(w, "summary"))
        BY <2>1, <2>3 DEF AppendUser, At
      <3>2. PICK next \in AgWorker : next = Then(w, "summary") /\ next.pc = "summary"
        BY <3>1
      <3>3. /\ AppendMessage(w, "user", next) /\ "user" \in {"user", "assistant"} /\ ~busy(next.pc)
            /\ AgOwed(next.pc) + 1 <= AgOwed(agW[w].pc) /\ w \in AgAnswering
        BY <3>1, <3>2 DEF AgOwed, AgAwaited, AgMaintaining, AgAnswering
      <3>4. QED
        BY <1>8, <1>9, <3>3
    <2>4. CASE Regenerate(w)
      <3>1. goes("summary") /\ agW[w].pc = "regenerate" /\ DeleteLastAssistant(w, Then(w, "summary"))
        BY <2>1, <2>4 DEF Regenerate, At
      <3>2. PICK next \in AgWorker : next = Then(w, "summary") /\ next.pc = "summary"
        BY <3>1
      <3>3. DeleteLastAssistant(w, next) /\ AgOwed(next.pc) <= AgOwed(agW[w].pc) /\ ~busy(next.pc)
        BY <3>1, <3>2 DEF AgOwed, AgMaintaining
      <3>4. AgRoom' /\ AgEnough'
        BY <1>0, <1>9, <3>3, AgDeleteLastRest
      <3>5. ASSUME Exists' PROVE \E b \in Nat : AgBase(b)'
        <4>1. Exists
          BY <3>3, <3>5, Zenon DEF DeleteLastAssistant, NotFound, Exists
        <4>2. PICK b \in Nat : AgBase(b)
          BY <1>0, <4>1
        <4>3. QED
          BY <1>0, <1>9, <3>1, <3>2, <3>3, <3>5, <4>2, AgDeleteLastBase
      <3>6. QED
        BY <3>4, <3>5
    <2>5. CASE Answered(w)
      <3>1. agW[w].pc = "reply" /\ AppendMessage(w, "assistant", AfterReply(w, TRUE))
        BY <2>5 DEF Answered, At
      <3>2. PICK next \in AgWorker : next = AfterReply(w, TRUE) /\ next.pc \in {"idle", "title", "maintain"}
        BY <1>0, <3>1, AgAfterReplyType
      <3>3. /\ AppendMessage(w, "assistant", next) /\ "assistant" \in {"user", "assistant"} /\ ~busy(next.pc)
            /\ AgOwed(next.pc) + 1 <= AgOwed(agW[w].pc) /\ w \in AgAnswering
            /\ w \in AgPending /\ AgAwaited(next.pc) = 0
        <4>1. AppendMessage(w, "assistant", next)
          BY <3>1, <3>2
        <4>2. ~busy(next.pc) /\ AgOwed(next.pc) = 0 /\ AgOwed(agW[w].pc) = 1 /\ AgAwaited(next.pc) = 0
          BY <3>1, <3>2 DEF AgOwed, AgAwaited, AgMaintaining
        <4>3. w \in AgAnswering /\ w \in AgPending
          BY <3>1 DEF AgAnswering, AgPending
        <4>4. QED
          BY <4>1, <4>2, <4>3
      <3>4. QED
        BY <1>8, <1>9, <3>3
    <2>6. CASE SetTitle(w)
      <3>1. PICK next : next = IF agW[w].answered THEN Then(w, "maintain") ELSE AgIdle
        OBVIOUS
      <3>2. agW[w].pc = "title" /\ PatchSession(w, next)
        BY <2>6, <3>1 DEF SetTitle, At
      <3>3. next \in AgWorker /\ next.pc \in {"idle", "maintain"}
        BY <1>1, <2>1, <3>1, <3>2
      <3>4. QED
        BY <1>4, <1>9, <3>2, <3>3 DEF AgOwed, AgAwaited, AgMaintaining
    <2>7. QED
      BY <1>9, <2>2, <2>3, <2>4, <2>5, <2>6 DEF StoreSteps
  <1>10. ASSUME NEW w \in AgWorkers, ReadSteps(w),
                UNCHANGED <<agMeta, agIdx, agMsgs, agSum, agReqs, agCreated, agCrashed>>
         PROVE  Rest
    <2>1. PICK next : agW' = [agW EXCEPT ![w] = next] /\ AgGoesOn(w, next)
      BY <1>0, <1>10, AgReadShape
    <2>2. QED
      BY <1>6, <1>10, <2>1
  <1>11. ASSUME NEW w \in AgWorkers, PutSummary(w),
                UNCHANGED <<agMeta, agIdx, agMsgs, agReqs, agCreated, agCrashed>>
         PROVE  Rest
    <2>1. agW' = [agW EXCEPT ![w] = AgIdle] /\ agW[w].pc = "put"
      BY <1>11 DEF PutSummary, At
    <2>2. AgRoom'
      <3>1. AgOwed(AgIdle.pc) = 0 /\ AgOwed(agW[w].pc) = 0
        BY <1>1, <2>1 DEF AgOwed
      <3>2. Exists' => /\ Exists
                       /\ agMeta'.count + AgOwed(AgIdle.pc) - 2 * agReqs'
                            <= agMeta.count + AgOwed(agW[w].pc) - 2 * agReqs
        BY <1>0, <1>11, <3>1, AgExists, AgConstants DEF Exists, AgMetas, AgTypes, AgTypeOK
      <3>3. QED
        BY <1>0, <1>1, <2>1, <3>2, AgRoomOne
    <2>3. AgEnough'
      <3>1. agW'[w] = AgIdle /\ \A x \in AgWorkers : x # w => agW'[x] = agW[x]
        BY <1>0, <2>1 DEF AgTypes
      <3>2. QED
        BY <1>0, <1>1, <3>1 DEF AgEnough, AgMaintaining
    <2>4. ASSUME Exists' PROVE \E b \in Nat : AgBase(b)'
      <3>1. Exists
        BY <1>11, <2>4 DEF Exists
      <3>2. PICK b \in Nat : AgBase(b)
        BY <1>0, <3>1
      <3>3. AgBase(b)'
        BY <1>0, <1>11, <3>1, <3>2, AgPutBase
      <3>4. QED
        BY <3>3
    <2>5. QED
      BY <2>2, <2>3, <2>4
  <1>12. CASE UNCHANGED agVars
    BY <1>0, <1>12 DEF agVars, AgRoom, AgEnough, AgBase, AgFinal, AgHolds, AgAgrees, StoredIn, Exists,
                       AgAsking, AgAnswering, AgPending
  <1>13. QED
    BY <1>2, <1>3, <1>5, <1>7, <1>9, <1>10, <1>11, <1>12 DEF AgNext

\* Before the session is created only CreateSession can happen.
LEMMA AgNothingStep ==
  ASSUME AgInv, [AgNext]_agVars
  PROVE  AgNothingYet'
  <1>0. AgNothingYet /\ AgTypes
    BY DEF AgInv
  <1>1. ASSUME NEW w \in AgWorkers, CreateSession(w) PROVE AgNothingYet'
    BY <1>1 DEF CreateSession, AgNothingYet
  <1>2. ASSUME NEW w \in AgWorkers, DeleteSession(w), AgTypes' PROVE AgNothingYet'
    <2>1. agCreated'
      BY <1>2, AgDeleteStep
    <2>2. QED
      BY <2>1 DEF AgNothingYet
  <1>3. ASSUME NEW w \in AgWorkers, agW[w].pc # "idle", agCreated' = agCreated PROVE AgNothingYet'
    <2>1. agCreated
      BY <1>0, <1>3 DEF AgNothingYet, AgIdle
    <2>2. QED
      BY <1>3, <2>1 DEF AgNothingYet
  <1>4. ASSUME Exists, agCreated' = agCreated PROVE AgNothingYet'
    BY <1>0, <1>4 DEF AgNothingYet
  <1>5. ASSUME NEW w \in AgWorkers, HandleSessionPatch(w) PROVE AgNothingYet'
    BY <1>4, <1>5 DEF HandleSessionPatch
  <1>6. ASSUME NEW w \in AgWorkers, NEW chat \in BOOLEAN, Accept(w, chat) PROVE AgNothingYet'
    BY <1>4, <1>6 DEF Accept
  <1>7. ASSUME NEW w \in AgWorkers, StoreSteps(w), UNCHANGED <<agSum, agReqs, agCreated>>
        PROVE  AgNothingYet'
    <2>1. agW[w].pc # "idle"
      BY <1>7 DEF StoreSteps, RememberModel, AppendUser, Regenerate, Answered, SetTitle, At
    <2>2. QED
      BY <1>3, <1>7, <2>1
  <1>8. ASSUME NEW w \in AgWorkers, ReadSteps(w),
               UNCHANGED <<agMeta, agIdx, agMsgs, agSum, agReqs, agCreated, agCrashed>>
        PROVE  AgNothingYet'
    <2>1. agW[w].pc # "idle"
      BY <1>8 DEF ReadSteps, GetSummary, GetMessages, Unanswered, MaintainSession, MaintainSummary,
                  MaintainWindow, SummarizeFails, At
    <2>2. QED
      BY <1>3, <1>8, <2>1
  <1>9. ASSUME NEW w \in AgWorkers, PutSummary(w),
               UNCHANGED <<agMeta, agIdx, agMsgs, agReqs, agCreated, agCrashed>>
        PROVE  AgNothingYet'
    BY <1>3, <1>9 DEF PutSummary, At
  <1>10. CASE UNCHANGED agVars
    BY <1>0, <1>10 DEF agVars, AgNothingYet, Exists
  <1>11. AgTypes'
    BY AgTypeStep
  <1>12. QED
    BY <1>1, <1>2, <1>5, <1>6, <1>7, <1>8, <1>9, <1>10, <1>11 DEF AgNext

\* AgInv is inductive.
LEMMA AgInitInv == AgInit => AgInv
  <1> SUFFICES ASSUME AgInit PROVE AgInv
    OBVIOUS
  <1>1. ~Exists /\ AgIdle.pc = "idle"
    BY DEF AgInit, Exists, AgIdle
  <1>2. AgTypeOK
    <2>1. /\ AgIdle.pc \in AgPcs /\ AgIdle.req \in 0..AgMaxReqs
          /\ AgIdle.sum \in Summaries /\ AgIdle.msgs \subseteq Messages
      BY AgConstants DEF AgWorker
    <2>2. \A w \in AgWorkers : agW[w] = AgIdle
      BY DEF AgInit
    <2>3. agReqs \in 0..AgMaxReqs
      BY AgConstants DEF AgInit
    <2>4. agMsgs \in [Seqs -> Messages \cup {NoMsg}]
      BY DEF AgInit
    <2>5. agCreated \in BOOLEAN /\ agCrashed \in BOOLEAN
      BY Zenon DEF AgInit
    <2>6. agMeta \in [count : 0..(2 * AgMaxReqs), updated : AgTimes] \cup {NoMeta}
          /\ agIdx \subseteq AgTimes /\ agSum \in Summaries
      BY AgConstants DEF AgInit
    <2>7. QED
      BY <2>1, <2>2, <2>3, <2>4, <2>5, <2>6, Zenon DEF AgTypeOK
  <1>3. AgTypes
    BY <1>1, <1>2, AgConstants DEF AgInit, AgTypes
  <1>4. AgNothingYet
    BY <1>1 DEF AgInit, AgNothingYet
  <1>5. QED
    BY <1>1, <1>3, <1>4 DEF AgInit, AgInv, AgRoom, AgEnough, AgMaintaining
LEMMA AgInvStep == AgInv /\ [AgNext]_agVars => AgInv'
  <1> SUFFICES ASSUME AgInv, [AgNext]_agVars PROVE AgInv'
    OBVIOUS
  <1>1. AgTypes' /\ AgNothingYet'
    BY AgTypeStep, AgNothingStep
  <1>2. AgRoom' /\ AgEnough' /\ (Exists' => \E b \in Nat : AgBase(b)')
    BY <1>1, AgRestStep
  <1>3. ASSUME Exists' PROVE \E b \in 0..(2 * AgMaxReqs) : AgBase(b)'
    <2>1. PICK b \in Nat : AgBase(b)'
      BY <1>2, <1>3
    <2>2. b \in 0..agMeta'.count
      BY <2>1 DEF AgBase, AgFinal
    <2>3. agMeta'.count \in 0..(2 * AgMaxReqs) /\ AgMaxReqs \in Nat
      BY <1>1, <1>3, AgConstants DEF AgTypes, AgTypeOK, Exists, NoMeta
    <2>4. b \in 0..(2 * AgMaxReqs)
      BY <2>2, <2>3
    <2>5. QED
      BY <2>1, <2>4
  <1>4. QED
    BY <1>1, <1>2, <1>3 DEF AgInv

\* The rolling summary of a session tells of exactly the stored messages below
\* covered_seq, whatever the number of workers that chat, regenerate and summarise at
\* once, as long as kKeepRecentMsgs is not less than that number.
THEOREM SummaryStaysExact == AgSpec => []SummaryExact
  <1>1. AgInv => SummaryExact
    BY DEF AgInv, AgBase, SummaryExact
  <1>2. QED
    BY <1>1, AgInitInv, AgInvStep, PTL DEF AgSpec

\* What the model is given with a question is the whole of the stored conversation,
\* although GetSummary and GetMessages take the lock one after the other.
THEOREM ContextStaysComplete == AgSpec => ContextComplete
  <1> DEFINE Complete == \A w \in AgWorkers :
               (At(w, "history") /\ agW'[w].pc = "reply" /\ Exists) => agW'[w].msgs = StoredIn(Seqs)
  <1>1. ASSUME AgInv, [AgNext]_agVars PROVE [Complete]_agVars
    <2> SUFFICES ASSUME NEW w \in AgWorkers, At(w, "history"), agW'[w].pc = "reply", Exists, AgNext
                 PROVE  agW'[w].msgs = StoredIn(Seqs)
      BY <1>1
    <2>1. AgTypes /\ agW[w] \in AgWorker
      BY <1>1 DEF AgInv, AgTypes
    <2>2. PICK b \in Nat : AgBase(b)
      BY <1>1, AgConstants DEF AgInv
    <2>3. GetMessages(w)
      <3>1. ASSUME NEW v \in AgWorkers, v # w, agW' = [x \in AgWorkers |-> AgIdle]
                                               \/ \E next : agW' = [agW EXCEPT ![v] = next]
            PROVE  FALSE
        BY <2>1, <3>1 DEF At, AgIdle, AgTypes
      <3>2. ASSUME NEW v \in AgWorkers, NEW next, NEW n, NEW all, Continue(v, next, n, all)
            PROVE  v = w /\ agW' = [agW EXCEPT ![v] = next]
        <4>1. agW' # [x \in AgWorkers |-> AgIdle]
          BY DEF AgIdle
        <4>2. QED
          BY <3>1, <3>2, <4>1 DEF Continue
      <3>3. ASSUME NEW v \in AgWorkers,
                   CreateSession(v) \/ DeleteSession(v) \/ HandleSessionPatch(v) \/ StoreSteps(v)
            PROVE  FALSE
        <4>1. \E next, n, all : Continue(v, next, n, all)
          <5>1. \A next : PatchSession(v, next) => \E n, all : Continue(v, next, n, all)
            BY DEF PatchSession, NotFound
          <5>2. \A role, next : AppendMessage(v, role, next) => \E n, all : Continue(v, next, n, all)
            BY DEF AppendMessage, NotFound
          <5>3. \A next : DeleteLastAssistant(v, next) => \E n, all : Continue(v, next, n, all)
            BY Zenon DEF DeleteLastAssistant, NotFound
          <5>4. CreateSession(v) => \E next, n, all : Continue(v, next, n, all)
            BY Zenon DEF CreateSession
          <5>5. DeleteSession(v) => \E next, n, all : Continue(v, next, n, all)
            BY Zenon DEF DeleteSession
          <5>6. QED
            BY <3>3, <5>1, <5>2, <5>3, <5>4, <5>5, Zenon
               DEF HandleSessionPatch, StoreSteps, RememberModel, AppendUser, Regenerate, Answered, SetTitle
        <4>2. v = w
          BY <3>2, <4>1
        <4>3. QED
          BY <3>3, <4>2 DEF CreateSession, DeleteSession, HandleSessionPatch, StoreSteps, At,
                            RememberModel, AppendUser, Regenerate, Answered, SetTitle
      <3>4. ASSUME NEW v \in AgWorkers, ReadSteps(v) PROVE GetMessages(w)
        <4>1. v = w
          BY <3>1, <3>4 DEF ReadSteps, GetSummary, GetMessages, Unanswered, MaintainSession,
                            MaintainSummary, MaintainWindow, SummarizeFails
        <4>2. QED
          BY <3>4, <4>1 DEF ReadSteps, GetSummary, Unanswered, MaintainSession,
                            MaintainSummary, MaintainWindow, SummarizeFails, At
      <3>5. ASSUME NEW v \in AgWorkers, (\E chat \in BOOLEAN : Accept(v, chat)) \/ PutSummary(v) PROVE FALSE
        <4>1. v = w
          BY <3>1, <3>5 DEF Accept, PutSummary
        <4>2. QED
          BY <3>5, <4>1 DEF Accept, PutSummary, At
      <3>6. QED
        BY <3>3, <3>4, <3>5 DEF AgNext
    <2>4. agW[w].sum.ids = StoredIn({i \in Seqs : i < agW[w].sum.covered})
      BY <2>2 DEF AgBase, AgHolds, AgAgrees, At
    <2>5. \A i \in Seqs : i < agW[w].sum.covered \/ i >= agW[w].sum.covered
      BY <2>1, AgConstants DEF AgWorker, Summaries, Seqs
    <2>6. History(w) = StoredIn(Seqs)
      BY <2>4, <2>5 DEF History, StoredIn
    <2>7. agW'[w].msgs = History(w)
      <3>1. Then(w, "reply") \in AgWorker
        BY <2>1, AgThenType DEF At, AgPcs
      <3>2. agW'[w] = [Then(w, "reply") EXCEPT !.sum = NoSummary, !.msgs = History(w)]
        BY <2>1, <2>3 DEF GetMessages, AgTypes, AgIdle
      <3>3. QED
        BY <3>1, <3>2 DEF AgWorker
    <2>8. QED
      BY <2>6, <2>7
  <1>2. QED
    BY <1>1, AgInitInv, AgInvStep, PTL DEF AgSpec, ContextComplete

\* The first n writes of PutSessionLocked leave at most the index entry of the session.
AgIndexed == agIdx \subseteq (IF Exists THEN {agMeta.updated} ELSE {})
LEMMA AgPutIndex ==
  ASSUME AgTypes, AgIndexed, NEW meta \in AgMetas, NEW n \in Int, PutSessionLocked(meta, n)
  PROVE  AgIndexed' /\ (n >= 3 => agMeta' = meta /\ agIdx' = {agMeta'.updated})
  <1>1. meta # NoMeta
    BY DEF AgMetas, NoMeta
  <1>2. QED
    BY <1>1 DEF AgIndexed, PutSessionLocked, Exists

\* An operation whose writes are all done leaves the store as it should be; one that a
\* crash has cut leaves no index entry that is wrong.
AgFull == \A i \in Seqs : (agMsgs[i] # NoMsg) <=> i < agMeta.count
AgListed == AgIndexed /\ (Exists /\ ~agCrashed => agIdx = {agMeta.updated} /\ AgFull)
LEMMA AgListedStep ==
  ASSUME AgInv, AgListed, [AgNext]_agVars
  PROVE  AgListed'
  <1>0. /\ AgTypes /\ AgRoom /\ AgIndexed /\ (Exists /\ ~agCrashed => agIdx = {agMeta.updated} /\ AgFull)
        /\ AgIdle \in AgWorker
    BY AgConstants DEF AgInv, AgListed
  <1> DEFINE Good == AgIndexed' /\ (Exists' /\ ~agCrashed' => agIdx' = {agMeta'.updated} /\ AgFull')
  <1>1. SUFFICES Good
    BY DEF AgListed
  <1>2. ASSUME UNCHANGED <<agMeta, agIdx, agMsgs>>, agCrashed => agCrashed' PROVE Good
    BY <1>0, <1>2 DEF AgIndexed, AgFull, Exists
  <1>3. ASSUME NEW meta \in AgMetas, NEW n \in Int, PutSessionLocked(meta, n),
               n < 3 => agCrashed', n >= 3 => \A i \in Seqs : (agMsgs'[i] # NoMsg) <=> i < meta.count
        PROVE  Good
    <2>1. AgIndexed' /\ (n >= 3 => agMeta' = meta /\ agIdx' = {agMeta'.updated})
      BY <1>0, <1>3, AgPutIndex
    <2>2. n >= 3 => AgFull'
      BY <1>3, <2>1 DEF AgFull
    <2>3. QED
      BY <1>3, <2>1, <2>2
  <1>4. ASSUME NEW w \in AgWorkers, CreateSession(w) PROVE Good
    <2>1. PICK now \in AgTimes, n \in 1..3 :
             /\ PutSessionLocked([count |-> 0, updated |-> now], n)
             /\ Continue(w, AgIdle, n, 3)
      BY <1>4 DEF CreateSession
    <2>2. PICK meta \in AgMetas : meta = [count |-> 0, updated |-> now] /\ meta.count = 0
      <3>1. 0 \in 0..(2 * AgMaxReqs)
        BY AgConstants
      <3>2. QED
        BY <3>1, AgMetaRecord
    <2>3. \A i \in Seqs : agMsgs'[i] = NoMsg /\ ~(i < 0)
      BY <1>4, AgConstants DEF AgInv, AgNothingYet, CreateSession, Seqs
    <2>4. n < 3 => agCrashed'
      BY <2>1 DEF Continue
    <2>5. PutSessionLocked(meta, n) /\ n \in Int
      BY <2>1, <2>2
    <2>6. QED
      BY <1>3, <2>2, <2>3, <2>4, <2>5
  <1>5. ASSUME NEW w \in AgWorkers, NEW next, NotFound(w, next) PROVE Good
    BY <1>2, <1>5 DEF NotFound, Continue
  <1>6. ASSUME NEW w \in AgWorkers, NEW next, PatchSession(w, next) PROVE Good
    <2>1. CASE ~NotFound(w, next)
      <3>1. PICK now \in AgTimes, n \in 0..3 :
               /\ PutSessionLocked([agMeta EXCEPT !.updated = now], n)
               /\ Continue(w, next, n, 3) /\ Exists /\ agMsgs' = agMsgs
        BY <1>6, <2>1 DEF PatchSession
      <3>2. PICK meta \in AgMetas : meta = [agMeta EXCEPT !.updated = now] /\ meta.count = agMeta.count
        BY <1>0, <3>1, AgExists DEF AgMetas
      <3>3. ~agCrashed' => ~agCrashed /\ ~(n < 3)
        BY <3>1 DEF Continue
      <3>4. PutSessionLocked(meta, n) /\ n \in Int
        BY <3>1, <3>2
      <3>5. CASE agCrashed'
        BY <1>0, <3>2, <3>4, <3>5, AgPutIndex
      <3>6. CASE ~agCrashed'
        BY <1>0, <1>3, <3>1, <3>2, <3>3, <3>4, <3>6 DEF AgFull
      <3>7. QED
        BY <3>5, <3>6
    <2>2. QED
      BY <1>5, <2>1
  <1>7. ASSUME NEW w \in AgWorkers, NEW role \in {"user", "assistant"}, NEW next,
               AppendMessage(w, role, next), w \in AgAnswering
        PROVE  Good
    <2>1. CASE ~NotFound(w, next)
      <3>1. PICK now \in AgTimes, n \in 0..4 :
             /\ agMsgs' = IF n >= 1 THEN [agMsgs EXCEPT ![agMeta.count] = <<agW[w].req, role>>] ELSE agMsgs
             /\ PutSessionLocked([count |-> agMeta.count + 1, updated |-> now], n - 1)
             /\ Continue(w, next, n, 4) /\ Exists
        BY <1>7, <2>1 DEF AppendMessage
      <3>2. agMeta.count \in Seqs /\ agMeta.count + 1 \in 0..(2 * AgMaxReqs) /\ \A i \in Seqs : i \in Int
        BY <1>0, <1>7, <3>1, AgHasRoom, AgConstants DEF Seqs
      <3>3. PICK meta \in AgMetas : /\ meta = [count |-> agMeta.count + 1, updated |-> now]
                                    /\ meta.count = agMeta.count + 1
        BY <3>2, AgMetaRecord
      <3>4. ~agCrashed' => ~agCrashed /\ ~(n < 4)
        BY <3>1 DEF Continue
      <3>5. PutSessionLocked(meta, n - 1) /\ n - 1 \in Int
        BY <3>1, <3>3
      <3>6. CASE agCrashed'
        BY <1>0, <3>3, <3>5, <3>6, AgPutIndex
      <3>7. CASE ~agCrashed'
        <4>1. ~agCrashed /\ n = 4
          BY <3>1, <3>4, <3>7
        <4>2. agMsgs' = [agMsgs EXCEPT ![agMeta.count] = <<agW[w].req, role>>]
          BY <3>1, <4>1
        <4>3. <<agW[w].req, role>> # NoMsg
          BY DEF NoMsg
        <4>4. \A i \in Seqs : (agMsgs'[i] # NoMsg) <=> i < meta.count
          BY <1>0, <3>1, <3>2, <3>3, <4>1, <4>2, <4>3 DEF AgFull, AgTypes, AgTypeOK
        <4>5. n - 1 >= 3
          BY <4>1
        <4>6. QED
          BY <1>3, <3>5, <4>4, <4>5
      <3>8. QED
        BY <3>6, <3>7
    <2>2. QED
      BY <1>5, <2>1
  <1>8. ASSUME NEW w \in AgWorkers, NEW next, DeleteLastAssistant(w, next) PROVE Good
    <2> DEFINE last == agMeta.count - 1
               found == Exists /\ last >= 0 /\ agMsgs[last][2] = "assistant"
    <2>1. CASE Exists /\ ~found /\ Continue(w, next, 0, 0) /\ UNCHANGED <<agMeta, agIdx, agMsgs>>
      BY <1>2, <2>1 DEF Continue
    <2>2. CASE found /\ \E now \in AgTimes, n \in 0..4 :
                         /\ agMsgs' = IF n >= 1 THEN [agMsgs EXCEPT ![last] = NoMsg] ELSE agMsgs
                         /\ PutSessionLocked([count |-> last, updated |-> now], n - 1)
                         /\ Continue(w, next, n, 4)
      <3>1. PICK now \in AgTimes, n \in 0..4 :
               /\ agMsgs' = IF n >= 1 THEN [agMsgs EXCEPT ![last] = NoMsg] ELSE agMsgs
               /\ PutSessionLocked([count |-> last, updated |-> now], n - 1)
               /\ Continue(w, next, n, 4)
        BY <2>2
      <3>2. agMeta.count \in 0..(2 * AgMaxReqs) /\ last \in Seqs /\ \A i \in Seqs : i \in Int
        BY <1>0, <2>2, AgExists, AgConstants DEF Seqs, AgMetas
      <3>3. PICK meta \in AgMetas : meta = [count |-> last, updated |-> now] /\ meta.count = last
        <4>1. last \in 0..(2 * AgMaxReqs)
          BY <2>2, <3>2, AgConstants
        <4>2. QED
          BY <4>1, AgMetaRecord
      <3>4. ~agCrashed' => ~agCrashed /\ ~(n < 4)
        BY <3>1 DEF Continue
      <3>5. PutSessionLocked(meta, n - 1) /\ n - 1 \in Int
        BY <3>1, <3>3
      <3>6. CASE agCrashed'
        BY <1>0, <3>3, <3>5, <3>6, AgPutIndex
      <3>7. CASE ~agCrashed'
        <4>1. ~agCrashed /\ n = 4
          BY <3>1, <3>4, <3>7
        <4>2. agMsgs' = [agMsgs EXCEPT ![last] = NoMsg] /\ Exists
          <5>1. n >= 1
            BY <4>1
          <5>2. QED
            BY <2>2, <3>1, <5>1
        <4>3. \A i \in Seqs : (agMsgs'[i] # NoMsg) <=> i < meta.count
          BY <1>0, <3>2, <3>3, <4>1, <4>2 DEF AgFull, AgTypes, AgTypeOK
        <4>4. n - 1 >= 3
          BY <4>1
        <4>5. QED
          BY <1>3, <3>5, <4>3, <4>4
      <3>8. QED
        BY <3>6, <3>7
    <2>3. QED
      BY <1>5, <1>8, <2>1, <2>2, Zenon DEF DeleteLastAssistant
  <1>9. ASSUME NEW w \in AgWorkers, DeleteSession(w) PROVE Good
    <2> DEFINE seqs == {i \in Seqs : agMsgs[i] # NoMsg}
               all == (IF Exists THEN 3 ELSE 0) + Cardinality(seqs)
    <2>1. PICK n \in 0..all :
               /\ agIdx' = IF Exists /\ n >= 1 THEN agIdx \ {agMeta.updated} ELSE agIdx
               /\ agMeta' = IF Exists /\ n >= 2 THEN NoMeta ELSE agMeta
               /\ Continue(w, AgIdle, n, all)
      BY <1>9 DEF DeleteSession
    <2>2. Cardinality(seqs) \in Nat
      <3>1. IsFiniteSet(Seqs)
        BY FS_Interval, AgConstants DEF Seqs
      <3>2. QED
        BY <3>1, FS_Subset, FS_CardinalityType
    <2>3. n \in Nat /\ all \in Nat
      BY <2>1, <2>2
    <2>4. AgIndexed'
      BY <1>0, <2>1, <2>3 DEF AgIndexed, Exists
    <2>5. Exists' => n < all
      <3>1. Exists' => Exists /\ n < 2
        BY <2>1, <2>3 DEF Exists
      <3>2. QED
        BY <2>2, <2>3, <3>1
    <2>6. n < all => agCrashed'
      BY <2>1 DEF Continue
    <2>7. QED
      BY <2>4, <2>5, <2>6
  <1>10. ASSUME NEW w \in AgWorkers, HandleSessionPatch(w) PROVE Good
    BY <1>6, <1>10 DEF HandleSessionPatch
  <1>11. ASSUME NEW w \in AgWorkers, StoreSteps(w) PROVE Good
    BY <1>6, <1>7, <1>8, <1>11 DEF StoreSteps, RememberModel, AppendUser, Regenerate, Answered, SetTitle, At,
                                   AgAnswering, AgPending
  <1>12. ASSUME NEW w \in AgWorkers, NEW chat \in BOOLEAN, Accept(w, chat) PROVE Good
    BY <1>2, <1>12 DEF Accept
  <1>13. QED
    BY <1>2, <1>4, <1>9, <1>10, <1>11, <1>12 DEF AgNext, agVars

\* Wherever a crash cuts an operation, no index entry refers to a session that is gone
\* nor to a time that is not its updated_ms; and a server that has not crashed lists
\* every session and stores exactly msg_count messages.
THEOREM StoreStaysConsistent == AgSpec => []StoreConsistent
  <1>1. AgInit => AgListed
    BY DEF AgInit, AgListed, AgIndexed, Exists
  <1>2. AgInv /\ AgListed /\ [AgNext]_agVars => AgListed'
    BY AgListedStep
  <1>3. AgInv /\ AgListed => StoreConsistent
    BY DEF AgInv, AgTypes, AgListed, AgIndexed, AgFull, StoreConsistent
  <1>4. QED
    BY <1>1, <1>2, <1>3, AgInitInv, AgInvStep, PTL DEF AgSpec

-----------------------------------------------------------------------------
\* LoadBalancer: least elements and remainders

\* A set of natural numbers that is not empty has a least element.
LEMMA LeastElement ==
  ASSUME NEW S \in SUBSET Nat, S # {}
  PROVE  \E x \in S : \A y \in S : x <= y
  <1>1. PICK x \in S : \A y \in S : ~ (<<y, x>> \in OpToRel(<, Nat))
    BY WFMin, NatLessThanWellFounded
  <1>2. ASSUME NEW y \in S
        PROVE  x <= y
    <2>1. x \in Nat /\ y \in Nat
      OBVIOUS
    <2>2. y < x => <<y, x>> \in OpToRel(<, Nat)
      BY <2>1, Zenon DEF OpToRel
    <2>3. ~ (y < x)
      BY <1>1, <2>2, Zenon
    <2>4. QED
      BY <2>1, <2>3
  <1>3. QED
    BY <1>2

\* What a remainder and a quotient are.
LEMMA DivModFacts ==
    ASSUME NEW c \in Nat, NEW T \in Nat, T >= 1
    PROVE  c % T \in 0..(T - 1) /\ c \div T \in Int /\ c = T * (c \div T) + (c % T)
    <1>1. c % T \in 0..(T - 1)
      OBVIOUS
    <1>2. c \div T \in Int
      OBVIOUS
    <1>3. c = T * (c \div T) + (c % T)
      OBVIOUS
    <1>4. QED
      BY <1>1, <1>2, <1>3

\* They are the only ones.
LEMMA ModUnique ==
    ASSUME NEW T \in Nat, T >= 1, NEW q \in Int, NEW p \in Int, NEW r \in 0..(T - 1), NEW s \in 0..(T - 1),
           T * q + r = T * p + s
    PROVE  q = p /\ r = s
    <1>1. T * (q - p) = s - r
      OBVIOUS
    <1>2. ~ (q - p >= 1)
      <2> SUFFICES ASSUME q - p >= 1
                   PROVE  FALSE
        OBVIOUS
      <2>1. T * (q - p) >= T
        OBVIOUS
      <2>2. QED
        BY <1>1, <2>1
    <1>3. ~ (q - p <= -1)
      <2> SUFFICES ASSUME q - p <= -1
                   PROVE  FALSE
        OBVIOUS
      <2>1. T * (q - p) <= - T
        OBVIOUS
      <2>2. QED
        BY <1>1, <2>1
    <1>4. q = p
      BY <1>2, <1>3
    <1>5. QED
      BY <1>4

\* The remainder of the next number is the next one, or 0 at the end of a turn.
LEMMA ModSucc ==
    ASSUME NEW c \in Nat, NEW T \in Nat, T >= 1
    PROVE  (c + 1) % T = IF c % T = T - 1 THEN 0 ELSE (c % T) + 1
    <1>1. PICK q \in Int, r \in 0..(T - 1) : r = c % T /\ c = T * q + r
      BY DivModFacts
    <1>2. PICK p \in Int, s \in 0..(T - 1) : s = (c + 1) % T /\ c + 1 = T * p + s
      <2>1. PICK d \in Nat : d = c + 1
        OBVIOUS
      <2>2. d % T \in 0..(T - 1) /\ d \div T \in Int /\ d = T * (d \div T) + (d % T)
        BY DivModFacts
      <2>3. QED
        BY <2>1, <2>2
    <1>3. CASE r = T - 1
      <2>1. T * (q + 1) + 0 = T * p + s
        <3>1. T * (q + 1) = T * q + T
          OBVIOUS
        <3>2. QED
          BY <1>1, <1>2, <1>3, <3>1
      <2>2. s = 0
        BY <2>1, ModUnique
      <2>3. QED
        BY <1>1, <1>2, <1>3, <2>2
    <1>4. CASE r # T - 1
      <2>1. r + 1 \in 0..(T - 1)
        BY <1>4
      <2>2. T * q \in Int /\ T * p \in Int
        OBVIOUS
      <2>3. T * q + (r + 1) = T * p + s
        <3>1. PICK a \in Int, b \in Int : a = T * q /\ b = T * p
          BY <2>2
        <3>2. a + (r + 1) = b + s
          BY <1>1, <1>2, <3>1
        <3>3. QED
          BY <3>1, <3>2
      <2>4. s = r + 1
        <3>1. PICK u \in 0..(T - 1) : u = r + 1
          BY <2>1
        <3>2. T * q + u = T * p + s
          BY <2>3, <3>1
        <3>3. u = s
          BY <3>2, ModUnique
        <3>4. QED
          BY <3>1, <3>3
      <2>5. QED
        BY <1>1, <1>2, <1>4, <2>4
    <1>5. QED
      BY <1>3, <1>4

\* A number less than the divisor is its own remainder.
LEMMA ModSmall ==
    ASSUME NEW c \in Nat, NEW T \in Nat, T >= 1, c < T
    PROVE  c % T = c
    OBVIOUS

-----------------------------------------------------------------------------
\* LoadBalancer: the ranges of the weights

\* WeightOf and Acc, for any strategy and list.
WeightIn(st, e) == IF st = "kLbWeight" /\ LbWeight[e] > 0 THEN LbWeight[e] ELSE 1
AccLoop(st, s, i) ==
    CHOOSE g : g = [j \in 0..i |-> IF j = 0 THEN 0 ELSE g[j - 1] + WeightIn(st, s[j])]
AccIn(st, s, i) == AccLoop(st, s, i)[i]
IsAcc(g, st, s, n) == g[0] = 0 /\ \A j \in 1..n : g[j] = g[j - 1] + WeightIn(st, s[j])

\* Acc and WeightOf are these, now and in the next state.
LEMMA AccIs ==
    /\ \A e : WeightOf(e) = WeightIn(lbStrategy, e) /\ WeightOf(e)' = WeightIn(lbStrategy', e)
    /\ \A i : Acc(i) = AccIn(lbStrategy, lbCandidates, i)
    /\ \A i : Acc(i)' = AccIn(lbStrategy', lbCandidates', i)
    <1>1. \A e : WeightOf(e) = WeightIn(lbStrategy, e) /\ WeightOf(e)' = WeightIn(lbStrategy', e)
      BY Zenon DEF WeightOf, WeightIn
    <1>2. \A i : Acc(i) = AccIn(lbStrategy, lbCandidates, i) /\ Acc(i)' = AccIn(lbStrategy', lbCandidates', i)
      BY Zenon DEF Acc, AccIn, AccLoop, WeightOf, WeightIn
    <1>3. QED
      BY <1>1, <1>2

\* The equation of the sums has a solution.
LEMMA AccExists ==
    ASSUME NEW st, NEW s, NEW n \in Nat
    PROVE  \E g : IsAcc(g, st, s, n)
    <1> DEFINE Bad == {m \in Nat : ~ \E g : IsAcc(g, st, s, m)}
    <1>1. ASSUME Bad # {}
          PROVE  FALSE
      <2>1. PICK m \in Bad : \A y \in Bad : m <= y
        BY <1>1, LeastElement
      <2>2. m \in Nat /\ ~ \E g : IsAcc(g, st, s, m)
        BY <2>1
      <2>3. CASE m = 0
        <3>1. IsAcc([j \in {0} |-> 0], st, s, 0)
          BY DEF IsAcc
        <3>2. QED
          BY <2>2, <2>3, <3>1
      <2>4. CASE m # 0
        <3>1. m - 1 \in Nat /\ m - 1 < m
          BY <2>2, <2>4
        <3>2. m - 1 \notin Bad
          BY <2>1, <3>1
        <3>3. PICK g : IsAcc(g, st, s, m - 1)
          BY <3>1, <3>2
        <3> DEFINE h == [j \in 0..m |-> IF j = m THEN g[m - 1] + WeightIn(st, s[m]) ELSE g[j]]
        <3>4. h[0] = 0
          BY <2>2, <2>4, <3>3 DEF IsAcc
        <3>5. ASSUME NEW j \in 1..m
              PROVE  h[j] = h[j - 1] + WeightIn(st, s[j])
          <4>1. j \in Nat /\ j - 1 \in 0..m /\ j - 1 # m /\ j \in 0..m
            BY <2>2
          <4>2. h[j - 1] = g[j - 1]
            BY <4>1
          <4>3. CASE j = m
            BY <4>1, <4>2, <4>3
          <4>4. CASE j # m
            <5>1. j \in 1..(m - 1)
              BY <2>2, <4>1, <4>4
            <5>2. g[j] = g[j - 1] + WeightIn(st, s[j])
              BY <3>3, <5>1 DEF IsAcc
            <5>3. QED
              BY <4>1, <4>2, <4>4, <5>2
          <4>5. QED
            BY <4>3, <4>4
        <3>6. IsAcc(h, st, s, m)
          BY <3>4, <3>5 DEF IsAcc
        <3>7. QED
          BY <2>2, <3>6
      <2>5. QED
        BY <2>3, <2>4
    <1>2. QED
      BY <1>1

\* The recursive function solves its equation.
LEMMA AccUnfolds ==
    ASSUME NEW st, NEW s, NEW i \in Nat
    PROVE  IsAcc(AccLoop(st, s, i), st, s, i)
    <1>1. PICK h : IsAcc(h, st, s, i)
      BY AccExists
    <1> DEFINE u == [j \in 0..i |-> h[j]]
    <1>2. \E v : v = [j \in 0..i |-> IF j = 0 THEN 0 ELSE v[j - 1] + WeightIn(st, s[j])]
      <2>1. PICK v : v = u
        OBVIOUS
      <2>2. ASSUME NEW j \in 0..i
            PROVE  v[j] = IF j = 0 THEN 0 ELSE v[j - 1] + WeightIn(st, s[j])
        <3>1. v[j] = h[j]
          BY <2>1
        <3>2. CASE j = 0
          BY <1>1, <3>1, <3>2 DEF IsAcc
        <3>3. CASE j # 0
          <4>1. j \in 1..i /\ j - 1 \in 0..i
            BY <3>3
          <4>2. v[j - 1] = h[j - 1]
            BY <2>1, <4>1
          <4>3. QED
            BY <1>1, <3>1, <3>3, <4>1, <4>2 DEF IsAcc
        <3>4. QED
          BY <3>2, <3>3
      <2>3. v = [j \in 0..i |-> h[j]]
        BY <2>1
      <2>4. v = [j \in 0..i |-> IF j = 0 THEN 0 ELSE v[j - 1] + WeightIn(st, s[j])]
        BY <2>2, <2>3, Zenon
      <2>5. QED
        BY <2>4, Zenon
    <1>3. PICK f : f = AccLoop(st, s, i)
      OBVIOUS
    <1>4. f = [j \in 0..i |-> IF j = 0 THEN 0 ELSE f[j - 1] + WeightIn(st, s[j])]
      BY <1>2, <1>3, Zenon DEF AccLoop
    <1>5. \A j \in 0..i : f[j] = IF j = 0 THEN 0 ELSE f[j - 1] + WeightIn(st, s[j])
      BY <1>4, Zenon
    <1>6. f[0] = 0
      BY <1>5
    <1>7. ASSUME NEW j \in 1..i
          PROVE  f[j] = f[j - 1] + WeightIn(st, s[j])
      <2>1. j \in 0..i /\ j # 0
        OBVIOUS
      <2>2. QED
        BY <1>5, <2>1
    <1>8. QED
      BY <1>3, <1>6, <1>7 DEF IsAcc

\* The sums of a list, as one function.
LEMMA AccAgree ==
    ASSUME NEW st, NEW s, NEW n \in Nat, NEW g, IsAcc(g, st, s, n), NEW i \in 0..n
    PROVE  AccIn(st, s, i) = g[i]
    <1>1. PICK f : f = AccLoop(st, s, i)
      OBVIOUS
    <1>2. IsAcc(f, st, s, i)
      BY <1>1, AccUnfolds
    <1> DEFINE Bad == {j \in Nat : j \in 0..i /\ f[j] # g[j]}
    <1>3. ASSUME Bad # {}
          PROVE  FALSE
      <2>1. PICK j \in Bad : \A y \in Bad : j <= y
        BY <1>3, LeastElement
      <2>2. j \in Nat /\ j \in 0..i /\ f[j] # g[j]
        BY <2>1
      <2>3. j # 0
        BY <1>2, <2>2 DEF IsAcc
      <2>4. j - 1 \in Nat /\ j - 1 \in 0..i /\ j - 1 < j /\ j \in 1..i /\ j \in 1..n
        BY <2>2, <2>3
      <2>5. j - 1 \notin Bad
        BY <2>1, <2>4
      <2>6. f[j - 1] = g[j - 1]
        BY <2>4, <2>5
      <2>7. f[j] = f[j - 1] + WeightIn(st, s[j]) /\ g[j] = g[j - 1] + WeightIn(st, s[j])
        BY <1>2, <2>4 DEF IsAcc
      <2>8. QED
        BY <2>2, <2>6, <2>7
    <1>4. i \in Nat /\ i \in 0..i
      OBVIOUS
    <1>5. f[i] = g[i]
      BY <1>3, <1>4
    <1>6. QED
      BY <1>1, <1>5 DEF AccIn

\* Every candidate weighs at least 1.
LEMMA WeightTypes ==
    ASSUME NEW st, NEW s \in Seq(LbInstances), NEW j \in 1..Len(s)
    PROVE  s[j] \in LbInstances /\ WeightIn(st, s[j]) \in Nat /\ WeightIn(st, s[j]) >= 1
    <1>1. s[j] \in LbInstances
      OBVIOUS
    <1>2. LbWeight[s[j]] \in Nat
      BY <1>1, LbAssumption
    <1>3. QED
      BY <1>1, <1>2 DEF WeightIn

\* They grow from each candidate to the next.
Sums(g, n) == /\ \A j \in 0..n : g[j] \in Nat
              /\ \A i, j \in 0..n : i <= j => g[i] <= g[j]

\* The sums of the weights grow from 0 up.
LEMMA AccGrows ==
    ASSUME NEW st, NEW s \in Seq(LbInstances), NEW n, n = Len(s), NEW g, IsAcc(g, st, s, n)
    PROVE  n \in Nat /\ Sums(g, n)
    <1>1. n \in Nat
      OBVIOUS
    <1>2. \A j \in 1..n : WeightIn(st, s[j]) \in Nat /\ WeightIn(st, s[j]) >= 1
      BY WeightTypes
    <1>3. g[0] = 0 /\ \A j \in 1..n : g[j] = g[j - 1] + WeightIn(st, s[j])
      BY DEF IsAcc
    <1> DEFINE Good(j) == g[j] \in Nat /\ \A i \in 0..j : g[i] <= g[j]
               Bad == {j \in Nat : j \in 0..n /\ ~ Good(j)}
    <1>4. ASSUME Bad # {}
          PROVE  FALSE
      <2>1. PICK j \in Bad : \A y \in Bad : j <= y
        BY <1>4, LeastElement
      <2>2. j \in Nat /\ j \in 0..n /\ ~ Good(j)
        BY <2>1
      <2>3. j # 0
        <3>1. Good(0)
          <4>1. 0..0 = {0}
            OBVIOUS
          <4>2. QED
            BY <1>3, <4>1
        <3>2. QED
          BY <2>2, <3>1
      <2>4. j - 1 \in Nat /\ j - 1 \in 0..n /\ j - 1 < j /\ j \in 1..n
        BY <1>1, <2>2, <2>3
      <2>5. j - 1 \notin Bad
        BY <2>1, <2>4
      <2>6. Good(j - 1)
        BY <2>4, <2>5
      <2>7. PICK a \in Nat, w \in Nat : a = g[j - 1] /\ w = WeightIn(st, s[j])
        BY <1>2, <2>4, <2>6
      <2>8. g[j] = a + w
        BY <1>3, <2>4, <2>7
      <2>9. g[j] \in Nat
        BY <2>7, <2>8
      <2>10. ASSUME NEW i \in 0..j
             PROVE  g[i] <= g[j]
        <3>1. CASE i = j
          BY <2>9, <3>1
        <3>2. CASE i # j
          <4>1. i \in 0..(j - 1) /\ i \in 0..n /\ i \in Nat /\ i < j
            BY <1>1, <2>2, <2>4, <3>2
          <4>2. i \notin Bad
            BY <2>1, <2>2, <4>1
          <4>3. g[i] \in Nat /\ g[i] <= a
            BY <2>6, <2>7, <4>1, <4>2
          <4>4. QED
            BY <2>7, <2>8, <4>3
        <3>3. QED
          BY <3>1, <3>2
      <2>11. QED
        BY <2>2, <2>9, <2>10
    <1>5. ASSUME NEW j \in 0..n
          PROVE  Good(j)
      BY <1>1, <1>4
    <1>6. \A j \in 0..n : g[j] \in Nat
      BY <1>5
    <1>7. ASSUME NEW i \in 0..n, NEW j \in 0..n, i <= j
          PROVE  g[i] <= g[j]
      <2>1. i \in 0..j
        BY <1>1, <1>7
      <2>2. QED
        BY <1>5, <2>1
    <1>8. QED
      BY <1>1, <1>6, <1>7 DEF Sums

\* The candidate that a position falls to, and no other.
IsIndex(g, n, pos, i) == i \in 1..n /\ pos < g[i] /\ \A j \in 1..(i - 1) : g[j] <= pos

\* Some range of weights holds a position below the total.
LEMMA IndexExists ==
    ASSUME NEW n \in Nat, NEW g, NEW pos, g[0] <= pos, pos < g[n], \A j \in 0..n : g[j] \in Nat, pos \in Nat
    PROVE  \E i : IsIndex(g, n, pos, i)
    <1> DEFINE S == {i \in Nat : i \in 0..n /\ pos < g[i]}
    <1>1. n \in S
      OBVIOUS
    <1>2. PICK i \in S : \A y \in S : i <= y
      BY <1>1, LeastElement
    <1>3. i # 0
      <2>1. g[0] \in Nat
        OBVIOUS
      <2>2. ~ (pos < g[0])
        BY <2>1
      <2>3. QED
        BY <1>2, <2>2
    <1>4. i \in 1..n /\ pos < g[i] /\ i \in Nat
      BY <1>2, <1>3
    <1>5. ASSUME NEW j \in 1..(i - 1)
          PROVE  g[j] <= pos
      <2>1. j \in Nat /\ j \in 0..n /\ j < i
        BY <1>4
      <2>2. j \notin S
        BY <1>2, <1>4, <2>1
      <2>3. ~ (pos < g[j]) /\ g[j] \in Nat
        BY <2>1, <2>2
      <2>4. QED
        BY <2>3
    <1>6. QED
      BY <1>4, <1>5 DEF IsIndex

\* It is the only one that does.
LEMMA IndexUnique ==
    ASSUME NEW n \in Nat, NEW g, Sums(g, n), NEW pos \in Nat, NEW i, IsIndex(g, n, pos, i),
           NEW j \in 1..n, g[j - 1] <= pos, pos < g[j]
    PROVE  i = j
    <1>1. i \in 1..n /\ i \in Nat /\ j \in Nat /\ pos < g[i] /\ j - 1 \in 0..n /\ i \in 0..n /\ j \in 0..n
      BY DEF IsIndex
    <1>2. g[i] \in Nat /\ g[j] \in Nat /\ g[j - 1] \in Nat
      BY <1>1 DEF Sums
    <1>3. ~ (i < j)
      <2> SUFFICES ASSUME i < j
                   PROVE  FALSE
        OBVIOUS
      <2>1. i <= j - 1
        BY <1>1
      <2>2. g[i] <= g[j - 1]
        BY <1>1, <2>1 DEF Sums
      <2>3. QED
        BY <1>1, <1>2, <2>2
    <1>4. ~ (j < i)
      <2> SUFFICES ASSUME j < i
                   PROVE  FALSE
        OBVIOUS
      <2>1. j \in 1..(i - 1)
        BY <1>1
      <2>2. g[j] <= pos
        BY <2>1 DEF IsIndex
      <2>3. QED
        BY <1>2, <2>2
    <1>5. QED
      BY <1>1, <1>3, <1>4

-----------------------------------------------------------------------------
\* LoadBalancer: how long an instance waits

\* s picks have left out a candidate whose range is a..(a + w - 1) of the t
\* positions.  The cursor c is that far behind the end of the range and has not
\* wrapped since; or it has wrapped, and is still before the range.
SinceEnd(a, w, t, c) == IF c % t >= a + w THEN (c % t) - (a + w) ELSE (c % t) + t - (a + w)
Waits(a, w, t, c, s) == \/ s <= t - w /\ s <= SinceEnd(a, w, t, c)
                        \/ c <= a /\ s <= c + (t - w)
Range1(a, w, t) == a \in Nat /\ w \in Nat /\ t \in Nat /\ w >= 1 /\ a + w <= t

\* A count that begins anew satisfies the bound, wherever the cursor is.
LEMMA WaitsFresh ==
    ASSUME NEW a, NEW w, NEW t, Range1(a, w, t), NEW c \in Nat
    PROVE  Waits(a, w, t, c, 0)
    <1>1. a \in Nat /\ w \in Nat /\ t \in Nat /\ w >= 1 /\ a + w <= t /\ t >= 1
      BY DEF Range1
    <1>2. PICK r \in 0..(t - 1) : r = c % t
      BY <1>1, DivModFacts
    <1>3. 0 <= t - w /\ 0 <= IF r >= a + w THEN r - (a + w) ELSE r + t - (a + w)
      BY <1>1
    <1>4. QED
      BY <1>2, <1>3 DEF Waits, SinceEnd

\* The bound by the cursor is below that of NoStarvation.
LEMMA WaitsBounded ==
    ASSUME NEW a, NEW w, NEW t, Range1(a, w, t), NEW c \in Nat, NEW s \in Nat, Waits(a, w, t, c, s)
    PROVE  s <= 2 * (t - w)
    BY DEF Range1, Waits

\* One more pick of another candidate.
LEMMA WaitsOneMore ==
    ASSUME NEW a, NEW w, NEW t, Range1(a, w, t), NEW c \in Nat, NEW s \in Nat, Waits(a, w, t, c, s),
           ~ (a <= c % t /\ c % t < a + w), NEW wrap \in Nat, t <= wrap, c < wrap,
           NEW c2, c2 = (c + 1) % wrap
    PROVE  c2 \in 0..(wrap - 1) /\ Waits(a, w, t, c2, s + 1)
    <1>1. a \in Nat /\ w \in Nat /\ t \in Nat /\ w >= 1 /\ a + w <= t /\ t >= 1 /\ wrap >= 1
      BY DEF Range1
    <1>2. PICK r \in 0..(t - 1) : r = c % t
      BY <1>1, DivModFacts
    <1>3. c2 = IF c = wrap - 1 THEN 0 ELSE c + 1
      <2>1. c % wrap = c
        BY <1>1, ModSmall
      <2>2. (c + 1) % wrap = IF c % wrap = wrap - 1 THEN 0 ELSE (c % wrap) + 1
        BY <1>1, ModSucc
      <2>3. QED
        BY <2>1, <2>2
    <1>4. c2 \in 0..(wrap - 1)
      BY <1>1, <1>3
    <1>5. ~ (a <= r /\ r < a + w)
      BY <1>2
    <1>6. PICK d : d = SinceEnd(a, w, t, c)
      OBVIOUS
    <1>7. d = IF r >= a + w THEN r - (a + w) ELSE r + t - (a + w)
      BY <1>2, <1>6 DEF SinceEnd
    <1>8. d \in Nat /\ d + 1 <= t - w
      BY <1>1, <1>5, <1>7
    <1>9. CASE s <= t - w /\ s <= d
      <2>1. CASE c = wrap - 1
        <3>1. c2 = 0
          BY <1>3, <2>1
        <3>2. c2 <= a /\ s + 1 <= c2 + (t - w)
          BY <1>1, <1>8, <1>9, <3>1
        <3>3. QED
          BY <1>4, <3>2 DEF Waits
      <2>2. CASE c # wrap - 1
        <3>1. c2 = c + 1
          BY <1>3, <2>2
        <3>2. PICK r2 : r2 = c2 % t
          OBVIOUS
        <3>3. r2 = IF r = t - 1 THEN 0 ELSE r + 1
          BY <1>1, <1>2, <3>1, <3>2, ModSucc
        <3>4. (IF r2 >= a + w THEN r2 - (a + w) ELSE r2 + t - (a + w)) = d + 1
          BY <1>1, <1>5, <1>7, <3>3
        <3>5. SinceEnd(a, w, t, c2) = d + 1
          BY <3>2, <3>4 DEF SinceEnd
        <3>6. s + 1 <= t - w /\ s + 1 <= d + 1
          BY <1>1, <1>8, <1>9
        <3>7. QED
          BY <1>4, <3>5, <3>6 DEF Waits
      <2>3. QED
        BY <2>1, <2>2
    <1>10. CASE c <= a /\ s <= c + (t - w)
      <2>1. c < t
        BY <1>1, <1>10
      <2>2. r = c
        BY <1>1, <1>2, <2>1, ModSmall
      <2>3. c < a
        BY <1>1, <1>5, <1>10, <2>2
      <2>4. c2 = c + 1
        BY <1>1, <1>3, <2>3
      <2>5. c2 <= a /\ s + 1 <= c2 + (t - w)
        BY <1>1, <1>10, <2>3, <2>4
      <2>6. QED
        BY <1>4, <2>5 DEF Waits
    <1>11. QED
      BY <1>6, <1>9, <1>10 DEF Waits

-----------------------------------------------------------------------------
\* LoadBalancer: the inductive invariant

AllWait(st, s, c, since) ==
    \A i \in 1..Len(s) :
       Waits(AccIn(st, s, i - 1), WeightIn(st, s[i]), AccIn(st, s, Len(s)), c, since[s[i]])
ByCursor(st) == st \in {"kLbRoundRobin", "kLbWeight"}
LbInv == LbTypeOK /\ (ByCursor(lbStrategy) => AllWait(lbStrategy, lbCandidates, lbCursor, lbSince))

\* The ranges of a list.
LEMMA RangesOf ==
    ASSUME NEW st, NEW s \in Seq(LbInstances), NEW i \in 1..Len(s)
    PROVE  Range1(AccIn(st, s, i - 1), WeightIn(st, s[i]), AccIn(st, s, Len(s)))
    <1>1. PICK n \in Nat : n = Len(s)
      OBVIOUS
    <1>2. PICK g : IsAcc(g, st, s, n)
      BY AccExists
    <1>3. Sums(g, n)
      BY <1>1, <1>2, AccGrows
    <1>4. i \in 1..n /\ i - 1 \in 0..n /\ i \in 0..n /\ n \in 0..n /\ i <= n
      BY <1>1
    <1>5. AccIn(st, s, i - 1) = g[i - 1] /\ AccIn(st, s, n) = g[n]
      BY <1>2, <1>4, AccAgree
    <1>6. g[i] = g[i - 1] + WeightIn(st, s[i])
      BY <1>2, <1>4 DEF IsAcc
    <1>7. g[i - 1] \in Nat /\ g[i] \in Nat /\ g[n] \in Nat /\ g[i] <= g[n]
      BY <1>3, <1>4 DEF Sums
    <1>8. WeightIn(st, s[i]) \in Nat /\ WeightIn(st, s[i]) >= 1
      BY WeightTypes
    <1>9. QED
      BY <1>1, <1>5, <1>6, <1>7, <1>8 DEF Range1

\* So do the counts of all candidates when they are reset.
LEMMA AllWaitFresh ==
    ASSUME NEW st, NEW s \in Seq(LbInstances), NEW c \in Nat, NEW since, since = [e \in LbInstances |-> 0]
    PROVE  AllWait(st, s, c, since)
    <1> SUFFICES ASSUME NEW i \in 1..Len(s)
                 PROVE  Waits(AccIn(st, s, i - 1), WeightIn(st, s[i]), AccIn(st, s, Len(s)), c, since[s[i]])
      BY DEF AllWait
    <1>1. since[s[i]] = 0
      BY WeightTypes
    <1>2. Range1(AccIn(st, s, i - 1), WeightIn(st, s[i]), AccIn(st, s, Len(s)))
      BY RangesOf
    <1>3. QED
      BY <1>1, <1>2, WaitsFresh

\* WeightedIndex is the candidate whose range holds the position.
LEMMA PickedRange ==
    ASSUME NEW s \in Seq(LbInstances), s = lbCandidates, NEW st, st = lbStrategy,
           NEW pos \in Nat, pos < AccIn(st, s, Len(s))
    PROVE  /\ WeightedIndex(pos) \in 1..Len(s)
           /\ \A j \in 1..Len(s) : /\ AccIn(st, s, j - 1) <= pos
                                   /\ pos < AccIn(st, s, j - 1) + WeightIn(st, s[j])
                                   => WeightedIndex(pos) = j
    <1>1. PICK n \in Nat : n = Len(s)
      OBVIOUS
    <1>2. PICK g : IsAcc(g, st, s, n)
      BY AccExists
    <1>3. Sums(g, n)
      BY <1>1, <1>2, AccGrows
    <1>4. \A i \in 0..n : AccIn(st, s, i) = g[i] /\ Acc(i) = g[i]
      BY <1>2, AccAgree, AccIs
    <1>5. DOMAIN lbCandidates = 1..n /\ n \in 0..n
      BY <1>1
    <1>6. PICK x : IsIndex(g, n, pos, x)
      <2>1. g[0] <= pos /\ pos < g[n] /\ \A j \in 0..n : g[j] \in Nat
        BY <1>1, <1>2, <1>3, <1>4, <1>5 DEF IsAcc, Sums
      <2>2. QED
        BY <2>1, IndexExists
    <1>7. \A i \in 1..n : IsIndex(g, n, pos, i) <=> pos < Acc(i) /\ \A j \in 1..(i - 1) : Acc(j) <= pos
      <2>1. \A i \in 1..n : i \in 0..n /\ \A j \in 1..(i - 1) : j \in 0..n
        OBVIOUS
      <2>2. QED
        BY <1>4, <2>1 DEF IsIndex
    <1>8. IsIndex(g, n, pos, WeightedIndex(pos))
      <2>1. \E i \in 1..n : pos < Acc(i) /\ \A j \in 1..(i - 1) : Acc(j) <= pos
        BY <1>6, <1>7 DEF IsIndex
      <2>2. /\ WeightedIndex(pos) \in 1..n /\ pos < Acc(WeightedIndex(pos))
            /\ \A j \in 1..(WeightedIndex(pos) - 1) : Acc(j) <= pos
        BY <1>5, <2>1, Zenon DEF WeightedIndex
      <2>3. QED
        BY <1>7, <2>2
    <1>9. PICK y : y = WeightedIndex(pos)
      OBVIOUS
    <1>10. ASSUME NEW j \in 1..n, AccIn(st, s, j - 1) <= pos, pos < AccIn(st, s, j - 1) + WeightIn(st, s[j])
           PROVE  y = j
      <2>1. j - 1 \in 0..n /\ g[j] = g[j - 1] + WeightIn(st, s[j])
        BY <1>2 DEF IsAcc
      <2>2. g[j - 1] <= pos /\ pos < g[j]
        BY <1>4, <1>10, <2>1
      <2>3. QED
        BY <1>3, <1>8, <1>9, <2>2, IndexUnique
    <1>11. y \in 1..n
      BY <1>8, <1>9 DEF IsIndex
    <1>12. QED
      BY <1>1, <1>9, <1>10, <1>11

\* The types, as the proofs use them.
LEMMA LbTyped ==
    ASSUME LbTypeOK
    PROVE  /\ lbCandidates \in Seq(LbInstances) /\ lbCursor \in Nat /\ lbCursor < LbWrap
           /\ LbWrap \in Nat /\ LbWrap >= 1 /\ lbSince \in [LbInstances -> Nat]
           /\ DOMAIN lbCandidates = 1..Len(lbCandidates) /\ Len(lbCandidates) \in Nat
    <1>1. lbCandidates \in Seq(LbInstances) /\ lbSince \in [LbInstances -> Nat]
      BY LbAssumption DEF LbTypeOK
    <1>2. LbWrap \in Nat /\ LbWrap >= 1 /\ lbCursor \in 0..(LbWrap - 1)
      BY LbAssumption DEF LbTypeOK
    <1>3. QED
      BY <1>1, <1>2

\* The invariant holds when the balancer is created.
LEMMA LbInitially == LbInit => LbInv
    <1> SUFFICES ASSUME LbInit
                 PROVE  LbInv
      OBVIOUS
    <1>1. LbTypeOK
      BY LbAssumption DEF LbInit, LbTypeOK
    <1>2. AllWait(lbStrategy, lbCandidates, lbCursor, lbSince)
      BY <1>1, LbTyped, AllWaitFresh DEF LbInit
    <1>3. QED
      BY <1>1, <1>2 DEF LbInv

\* The cursor has a value for each position of the weights: cursor_ has 32 bits.
CursorCovers == UsesCursor => TotalWeight <= LbWrap

\* A Pick keeps it.
LEMMA LbPickKeeps ==
    ASSUME LbInv, CursorCovers, LbPick
    PROVE  LbInv'
    <1>1. LbTypeOK
      BY DEF LbInv
    <1>2. /\ lbCandidates \in Seq(LbInstances) /\ lbCursor \in Nat /\ lbCursor < LbWrap
          /\ LbWrap \in Nat /\ LbWrap >= 1 /\ lbSince \in [LbInstances -> Nat]
          /\ DOMAIN lbCandidates = 1..Len(lbCandidates) /\ Len(lbCandidates) \in Nat
      BY <1>1, LbTyped
    <1>3. lbStrategy' = lbStrategy /\ lbCandidates' = lbCandidates
      BY DEF LbPick
    <1>4. (lbCursor + 1) % LbWrap \in 0..(LbWrap - 1)
      BY <1>2
    <1>5. CASE ~ UsesCursor
      <2>1. lbSince' = lbSince /\ lbCursor' = lbCursor
        BY <1>5 DEF LbPick
      <2>2. QED
        BY <1>1, <1>3, <1>5, <2>1 DEF LbInv, LbTypeOK, ByCursor, UsesCursor
    <1>6. CASE UsesCursor
      <2>1. PICK s, st, c, since : s = lbCandidates /\ st = lbStrategy /\ c = lbCursor /\ since = lbSince
        OBVIOUS
      <2>2. s \in Seq(LbInstances) /\ c \in Nat /\ c < LbWrap /\ since \in [LbInstances -> Nat]
            /\ DOMAIN s = 1..Len(s) /\ Len(s) \in Nat /\ s # <<>>
        BY <1>2, <2>1 DEF LbPick
      <2>3. PICK t : t = AccIn(st, s, Len(s))
        OBVIOUS
      <2>4. t \in Nat /\ t >= 1 /\ t <= LbWrap
        <3>1. 1 \in 1..Len(s)
          BY <2>2
        <3>2. Range1(AccIn(st, s, 1 - 1), WeightIn(st, s[1]), t)
          BY <2>2, <2>3, <3>1, RangesOf
        <3>3. TotalWeight = t
          BY <2>1, <2>3, AccIs DEF TotalWeight
        <3>4. QED
          BY <1>6, <3>2, <3>3 DEF Range1, CursorCovers
      <2>5. PICK pos \in 0..(t - 1) : pos = c % t
        BY <2>2, <2>4, DivModFacts
      <2>6. PICK i : i = WeightedIndex(pos)
        OBVIOUS
      <2>7. /\ i \in 1..Len(s)
            /\ \A j \in 1..Len(s) : AccIn(st, s, j - 1) <= pos /\ pos < AccIn(st, s, j - 1) + WeightIn(st, s[j])
                                    => i = j
        <3>1. pos \in Nat /\ pos < AccIn(st, s, Len(s))
          BY <2>3, <2>4
        <3>2. QED
          BY <2>1, <2>2, <2>6, <3>1, PickedRange
      <2>8. Indices = {i}
        <3>1. TotalWeight = t
          BY <2>1, <2>3, AccIs DEF TotalWeight
        <3>2. Indices = {WeightedIndex(lbCursor % TotalWeight)}
          <4>1. lbStrategy # "kLbRandom" /\ lbStrategy # "kLbHash"
            BY <1>6 DEF UsesCursor
          <4>2. QED
            BY <1>6, <4>1 DEF Indices
        <3>3. QED
          BY <2>1, <2>5, <2>6, <3>1, <3>2
      <2>9. lbSince' = [e \in LbInstances |-> IF s[i] # e /\ \E j \in DOMAIN s : s[j] = e THEN since[e] + 1 ELSE 0]
        <3>1. PICK k \in Indices :
                 lbSince' = [e \in LbInstances |->
                               IF lbCandidates[k] # e /\ \E j \in DOMAIN lbCandidates : lbCandidates[j] = e
                               THEN lbSince[e] + 1 ELSE 0]
          BY <1>6 DEF LbPick
        <3>2. k = i
          BY <2>8
        <3>3. QED
          BY <2>1, <3>1, <3>2
      <2>10. lbCursor' = (c + 1) % LbWrap
        BY <1>6, <2>1 DEF LbPick
      <2>11. lbSince' \in [LbInstances -> Nat]
        BY <2>2, <2>9
      <2>12. PICK c2, since2 : c2 = lbCursor' /\ since2 = lbSince'
        OBVIOUS
      <2>13. ASSUME NEW j \in 1..Len(s)
             PROVE  Waits(AccIn(st, s, j - 1), WeightIn(st, s[j]), t, c2, since2[s[j]])
        <3>1. s[j] \in LbInstances
          BY <2>2
        <3>2. PICK a, w : a = AccIn(st, s, j - 1) /\ w = WeightIn(st, s[j])
          OBVIOUS
        <3>3. Range1(a, w, t)
          BY <2>2, <2>3, <3>2, RangesOf
        <3>4. CASE s[i] = s[j]
          <4>1. since2[s[j]] = 0
            BY <2>9, <2>12, <3>1, <3>4
          <4>2. c2 \in Nat
            BY <1>4, <2>1, <2>10, <2>12
          <4>3. QED
            BY <3>2, <3>3, <4>1, <4>2, WaitsFresh
        <3>5. CASE s[i] # s[j]
          <4>1. since2[s[j]] = since[s[j]] + 1
            BY <2>2, <2>9, <2>12, <3>1, <3>5
          <4>2. Waits(a, w, t, c, since[s[j]])
            BY <1>6, <2>1, <2>3, <3>2 DEF LbInv, ByCursor, UsesCursor, AllWait
          <4>3. ~ (a <= c % t /\ c % t < a + w)
            BY <2>5, <2>7, <3>2, <3>5
          <4>4. since[s[j]] \in Nat
            BY <2>2, <3>1
          <4>5. Waits(a, w, t, c2, since[s[j]] + 1)
            BY <1>2, <2>2, <2>4, <2>10, <2>12, <3>3, <4>2, <4>3, <4>4, WaitsOneMore
          <4>6. QED
            BY <3>2, <4>1, <4>5
        <3>6. QED
          BY <3>4, <3>5
      <2>14. AllWait(st, s, c2, since2)
        BY <2>3, <2>13 DEF AllWait
      <2>15. AllWait(lbStrategy, lbCandidates, lbCursor, lbSince)'
        BY <1>3, <2>1, <2>12, <2>14
      <2>16. LbTypeOK'
        BY <1>1, <1>3, <1>4, <2>1, <2>10, <2>11 DEF LbTypeOK
      <2>17. QED
        BY <2>15, <2>16 DEF LbInv
    <1>7. QED
      BY <1>5, <1>6

\* So does every step.
LEMMA LbStep ==
    ASSUME LbInv, CursorCovers, [LbNext]_lbVars
    PROVE  LbInv'
    <1>1. CASE LbPick
      BY <1>1, LbPickKeeps
    <1>2. CASE LbChange
      <2>1. LbTypeOK'
        BY <1>2 DEF LbInv, LbTypeOK, LbChange
      <2>2. lbCandidates' \in Seq(LbInstances)
        BY <1>2, LbAssumption DEF LbChange
      <2>3. lbCursor' \in Nat /\ lbSince' = [e \in LbInstances |-> 0]
        BY <1>2, LbTyped DEF LbChange, LbInv
      <2>4. PICK st, s, c, since : st = lbStrategy' /\ s = lbCandidates' /\ c = lbCursor' /\ since = lbSince'
        OBVIOUS
      <2>5. AllWait(st, s, c, since)
        BY <2>2, <2>3, <2>4, AllWaitFresh
      <2>6. QED
        BY <2>1, <2>4, <2>5 DEF LbInv
    <1>3. CASE UNCHANGED lbVars
      BY <1>3 DEF LbInv, LbTypeOK, lbVars
    <1>4. QED
      BY <1>1, <1>2, <1>3 DEF LbNext

\* The invariant implies what the run checks.
LEMMA LbInvImplies == LbInv => NoStarvation
    <1> SUFFICES ASSUME LbInv
                 PROVE  NoStarvation
      OBVIOUS
    <1>1. LbTypeOK
      BY DEF LbInv
    <1>2. ASSUME UsesCursor, NEW i \in DOMAIN lbCandidates
          PROVE  lbSince[lbCandidates[i]] <= 2 * (TotalWeight - WeightOf(lbCandidates[i]))
      <2>1. PICK s, st, c, since : s = lbCandidates /\ st = lbStrategy /\ c = lbCursor /\ since = lbSince
        OBVIOUS
      <2>2. s \in Seq(LbInstances) /\ c \in Nat /\ since \in [LbInstances -> Nat] /\ i \in 1..Len(s)
        BY <1>1, <2>1, LbTyped
      <2>3. PICK a, w, t : a = AccIn(st, s, i - 1) /\ w = WeightIn(st, s[i]) /\ t = AccIn(st, s, Len(s))
        OBVIOUS
      <2>4. Waits(a, w, t, c, since[s[i]])
        BY <1>2, <2>1, <2>2, <2>3 DEF LbInv, ByCursor, UsesCursor, AllWait
      <2>5. Range1(a, w, t)
        BY <2>2, <2>3, RangesOf
      <2>6. since[s[i]] \in Nat
        BY <2>2
      <2>7. since[s[i]] <= 2 * (t - w)
        BY <2>2, <2>4, <2>5, <2>6, WaitsBounded
      <2>8. TotalWeight = t /\ WeightOf(lbCandidates[i]) = w
        BY <2>1, <2>3, AccIs DEF TotalWeight
      <2>9. QED
        BY <2>1, <2>7, <2>8
    <1>3. QED
      BY <1>1, <1>2 DEF NoStarvation

\* For any instances, weights and lists, however the candidates change between
\* two picks: round robin and the weighted strategy come back to each candidate
\* within two turns, as long as cursor_ has a value for every position of the
\* weights (RoundRobinLoadBalancer::Pick, WeightedLoadBalancer::Pick).
THEOREM BalancerComesBack == LbSpec /\ []CursorCovers => []NoStarvation
    <1>1. LbInit => LbInv
      BY LbInitially
    <1>2. LbInv /\ CursorCovers /\ [LbNext]_lbVars => LbInv'
      BY LbStep
    <1>3. LbInv => NoStarvation
      BY LbInvImplies
    <1>4. QED
      BY <1>1, <1>2, <1>3, PTL DEF LbSpec

-----------------------------------------------------------------------------
\* LoadCtrl: the ring of grids

\* The grid that is k behind the current one.
Back(at, k) == IF at >= k THEN at - k ELSE at - k + LcNum

\* R[k] is the sum of the current grid and the k - 1 grids behind it, S[k] that of
\* the first k grids of the array.
RingIs(R, grid, at, sum) ==
    /\ R \in [0..LcNum -> Nat] /\ R[0] = 0 /\ R[LcNum] = sum
    /\ \A k \in 1..LcNum : R[k] = R[k - 1] + grid[Back(at, k - 1)]
SumIs(S, grid, sum) ==
    /\ S \in [0..LcNum -> Int] /\ S[0] = 0 /\ S[LcNum] = sum
    /\ \A k \in 1..LcNum : S[k] = S[k - 1] + grid[k - 1]

\* The last R[k] readings of the log are those of the k latest grids: the ones before
\* them were taken when those grids began at the latest, or, before the whole ring, a
\* span ago; they themselves not before that, but for the first after a restart.
Older(R, start, log) ==
    \A k \in 0..(LcNum - 1) : \A i \in 1..Len(log) :
        i <= Len(log) - R[k] => log[i] + k * LcUnit <= start + LcUnit
Gone(R, start, log) ==
    \A i \in 1..Len(log) : i <= Len(log) - R[LcNum] => log[i] + LcTotal <= start + LcUnit
Newer(R, start, log) ==
    \A k \in 1..LcNum : \A i \in 1..Len(log) :
        i > Len(log) - R[k] /\ i > Len(log) - R[LcNum] + 1 => log[i] + k * LcUnit >= start + LcUnit

RingOf(R, grid, at, sum, start, log) ==
    RingIs(R, grid, at, sum) /\ Older(R, start, log) /\ Gone(R, start, log) /\ Newer(R, start, log)

GoodRing(grid, at, sum, start, log) ==
    /\ grid \in [LcGrids -> Nat] /\ at \in LcGrids /\ start \in Nat /\ log \in Seq(LcTimes)
    /\ sum \in Nat /\ sum <= Len(log)
    /\ \E R : RingOf(R, grid, at, sum, start, log)
    /\ \E S : SumIs(S, grid, sum)

\* The ring spans the whole time, and without one of its grids it does not.
LEMMA RingSpans ==
    /\ LcNum \in Nat /\ LcNum >= 1 /\ LcUnit \in Nat /\ LcUnit >= 1 /\ LcTotal \in Nat /\ LcTotal >= 1
    /\ LcNum * LcUnit \in Nat /\ LcNum * LcUnit >= LcTotal /\ LcNum * LcUnit < LcTotal + LcUnit
    <1>1. LcUnit \in Nat /\ LcUnit >= 1 /\ LcTotal \in Nat /\ LcTotal >= 1
      BY LcAssumption
    <1>2. PICK c \in Nat : c = LcTotal + LcUnit - 1
      BY <1>1
    <1>3. c % LcUnit \in 0..(LcUnit - 1) /\ c \div LcUnit \in Int /\ c = LcUnit * (c \div LcUnit) + (c % LcUnit)
      BY <1>1, DivModFacts
    <1>4. PICK q \in Int, r \in 0..(LcUnit - 1) : q = c \div LcUnit /\ c = LcUnit * q + r
      BY <1>3
    <1>5. LcNum = q
      BY <1>2, <1>4 DEF LcNum
    <1>6. LcUnit * q >= LcTotal /\ LcUnit * q < LcTotal + LcUnit /\ LcUnit * q \in Int
      BY <1>1, <1>2, <1>4
    <1>7. q >= 1
      <2>1. ~ (q <= 0)
        BY <1>1, <1>4, <1>6
      <2>2. QED
        BY <1>4, <2>1
    <1>8. q * LcUnit = LcUnit * q
      BY <1>1, <1>4
    <1>9. QED
      BY <1>1, <1>4, <1>5, <1>6, <1>7, <1>8

\* Multiples of the unit.
LEMMA NextMultiple ==
    ASSUME NEW k \in Nat
    PROVE  k * LcUnit \in Nat /\ (k + 1) * LcUnit = k * LcUnit + LcUnit
    BY RingSpans

\* The places of the ring.
LEMMA BackPlaces ==
    ASSUME NEW at \in LcGrids, NEW k \in 0..(LcNum - 1)
    PROVE  Back(at, k) \in LcGrids /\ (Back(at, k) = at => k = 0)
    BY RingSpans DEF Back, LcGrids

\* The next grid is the one that is furthest behind.
LEMMA NextPlace ==
    ASSUME NEW at \in LcGrids, NEW b, b = (at + 1) % LcNum
    PROVE  /\ b \in LcGrids /\ b = (IF at = LcNum - 1 THEN 0 ELSE at + 1)
           /\ b = Back(at, LcNum - 1)
           /\ \A k \in 1..(LcNum - 1) : Back(b, k) = Back(at, k - 1) /\ Back(b, k) # b
    <1>1. LcNum \in Nat /\ LcNum >= 1 /\ at \in Nat /\ at < LcNum
      BY RingSpans DEF LcGrids
    <1>2. b = IF at = LcNum - 1 THEN 0 ELSE at + 1
      <2>1. CASE at = LcNum - 1
        <3>1. at + 1 = LcNum
          BY <1>1, <2>1
        <3>2. LcNum % LcNum = 0
          <4>1. (LcNum - 1) % LcNum = LcNum - 1
            BY <1>1, ModSmall
          <4>2. PICK c \in Nat : c = LcNum - 1
            BY <1>1
          <4>3. (c + 1) % LcNum = IF c % LcNum = LcNum - 1 THEN 0 ELSE (c % LcNum) + 1
            BY <1>1, ModSucc
          <4>4. c + 1 = LcNum
            BY <1>1, <4>2
          <4>5. QED
            BY <4>1, <4>2, <4>3, <4>4
        <3>3. QED
          BY <2>1, <3>1, <3>2
      <2>2. CASE at # LcNum - 1
        <3>1. PICK c \in Nat : c = at + 1
          BY <1>1
        <3>2. c < LcNum
          BY <1>1, <2>2, <3>1
        <3>3. c % LcNum = c
          BY <1>1, <3>2, ModSmall
        <3>4. QED
          BY <2>2, <3>1, <3>3
      <2>3. QED
        BY <2>1, <2>2
    <1>3. b \in LcGrids /\ b = Back(at, LcNum - 1)
      BY <1>1, <1>2 DEF LcGrids, Back
    <1>4. ASSUME NEW k \in 1..(LcNum - 1)
          PROVE  Back(b, k) = Back(at, k - 1) /\ Back(b, k) # b
      BY <1>1, <1>2 DEF Back
    <1>5. QED
      BY <1>2, <1>3, <1>4

\* The readings of the ring before and after the next grid is taken.
NextReadings(R) == [k \in 0..LcNum |-> IF k = 0 THEN 0 ELSE R[k - 1]]

\* One step along the readings.
LEMMA RingStep ==
    ASSUME NEW R, NEW grid \in [LcGrids -> Nat], NEW at \in LcGrids, NEW sum, RingIs(R, grid, at, sum),
           NEW k \in 1..LcNum
    PROVE  /\ k - 1 \in 0..LcNum /\ k \in 0..LcNum /\ R[k] \in Nat /\ R[k - 1] \in Nat
           /\ R[k] = R[k - 1] + grid[Back(at, k - 1)] /\ grid[Back(at, k - 1)] \in Nat
    <1>1. k - 1 \in 0..(LcNum - 1) /\ k - 1 \in 0..LcNum /\ k \in 0..LcNum
      BY RingSpans
    <1>2. PICK j \in 0..(LcNum - 1) : j = k - 1
      BY <1>1
    <1>3. Back(at, j) \in LcGrids
      BY BackPlaces
    <1>4. grid[Back(at, k - 1)] \in Nat
      BY <1>2, <1>3
    <1>5. QED
      BY <1>1, <1>4 DEF RingIs

\* What one round of the loop does to the ring.
RoundOf(R, grid, at, sum, Q, new, b, left) ==
    /\ grid \in [LcGrids -> Nat] /\ at \in LcGrids /\ RingIs(R, grid, at, sum)
    /\ b = (at + 1) % LcNum /\ new = [grid EXCEPT ![b] = 0] /\ Q = NextReadings(R) /\ left = sum - grid[b]

\* The next grid takes the place of the one that is furthest behind.
LEMMA RoundReadings ==
    ASSUME NEW R, NEW grid, NEW at, NEW sum, NEW Q, NEW new, NEW b, NEW left,
           RoundOf(R, grid, at, sum, Q, new, b, left)
    PROVE  RingIs(Q, new, b, left) /\ R[LcNum - 1] = left /\ left \in Nat /\ left <= sum
    <1> /\ grid \in [LcGrids -> Nat] /\ at \in LcGrids /\ RingIs(R, grid, at, sum)
        /\ b = (at + 1) % LcNum /\ new = [grid EXCEPT ![b] = 0] /\ Q = NextReadings(R) /\ left = sum - grid[b]
      BY DEF RoundOf
    <1>1. LcNum \in Nat /\ LcNum >= 1
      BY RingSpans
    <1>2. /\ b \in LcGrids /\ b = Back(at, LcNum - 1)
          /\ \A k \in 1..(LcNum - 1) : Back(b, k) = Back(at, k - 1) /\ Back(b, k) # b
      BY NextPlace
    <1>3. PICK n \in 1..LcNum : n = LcNum
      BY <1>1
    <1>4. R[n] = R[n - 1] + grid[Back(at, n - 1)] /\ R[n] \in Nat /\ R[n - 1] \in Nat /\ grid[Back(at, n - 1)] \in Nat
      BY RingStep
    <1>5. R[LcNum - 1] = sum - grid[b] /\ R[LcNum - 1] \in Nat /\ R[LcNum - 1] <= sum
      <2>1. R[n] = sum
        BY <1>3 DEF RingIs
      <2>2. QED
        BY <1>2, <1>3, <1>4, <2>1
    <1>7. \A k \in 0..LcNum : Q[k] = IF k = 0 THEN 0 ELSE R[k - 1]
      BY DEF NextReadings
    <1>8. Q \in [0..LcNum -> Nat]
      <2>1. ASSUME NEW k \in 0..LcNum
            PROVE  (IF k = 0 THEN 0 ELSE R[k - 1]) \in Nat
        <3>1. CASE k = 0
          BY <3>1
        <3>2. CASE k # 0
          <4>1. k \in 1..LcNum
            BY <1>1, <3>2
          <4>2. R[k - 1] \in Nat
            BY <4>1, RingStep
          <4>3. QED
            BY <3>2, <4>2
        <3>3. QED
          BY <3>1, <3>2
      <2>2. QED
        BY <2>1 DEF NextReadings
    <1>9. Q[0] = 0
      BY <1>1, <1>7
    <1>10. Q[LcNum] = sum - grid[b]
      BY <1>1, <1>5, <1>7
    <1>12. new[b] = 0 /\ \A g \in LcGrids : g # b => new[g] = grid[g]
      BY <1>2
    <1>13. ASSUME NEW k \in 1..LcNum
           PROVE  Q[k] = Q[k - 1] + new[Back(b, k - 1)]
      <2>1. k \in Nat /\ k >= 1 /\ k <= LcNum /\ k \in 0..LcNum /\ k - 1 \in 0..LcNum
        BY <1>1
      <2>2. Q[k] = R[k - 1]
        BY <1>7, <2>1
      <2>3. CASE k = 1
        <3>1. b \in Nat /\ Back(b, 0) = b
          BY <1>1, <1>2 DEF LcGrids, Back
        <3>2. R[0] = 0
          BY DEF RingIs
        <3>3. QED
          BY <1>9, <1>12, <2>2, <2>3, <3>1, <3>2
      <2>4. CASE k # 1
        <3>1. k - 1 \in 1..(LcNum - 1) /\ k - 1 \in 1..LcNum
          BY <1>1, <2>1, <2>4
        <3>2. PICK j \in 1..(LcNum - 1) : j = k - 1
          BY <3>1
        <3>3. j \in 1..LcNum
          BY <3>1, <3>2
        <3>4. R[j] = R[j - 1] + grid[Back(at, j - 1)]
          BY <3>3, RingStep
        <3>5. Back(b, j) = Back(at, j - 1) /\ Back(b, j) # b
          BY <1>2
        <3>6. Back(b, j) \in LcGrids
          <4>1. j \in 0..(LcNum - 1)
            BY <1>1
          <4>2. QED
            BY <1>2, <4>1, BackPlaces
        <3>7. new[Back(b, j)] = grid[Back(at, j - 1)]
          BY <1>12, <3>5, <3>6
        <3>8. Q[j] = R[j - 1]
          <4>1. j \in 0..LcNum /\ j # 0
            BY <1>1
          <4>2. QED
            BY <1>7, <4>1
        <3>9. QED
          BY <2>2, <3>2, <3>4, <3>7, <3>8
      <2>5. QED
        BY <2>3, <2>4
    <1>14. RingIs(Q, new, b, sum - grid[b])
      BY <1>8, <1>9, <1>10, <1>13 DEF RingIs
    <1>15. QED
      BY <1>5, <1>14

\* The sum of the array loses what the emptied grid held.
LEMMA RoundSum ==
    ASSUME NEW S, NEW grid \in [LcGrids -> Nat], NEW sum, SumIs(S, grid, sum), NEW b \in LcGrids
    PROVE  \E T : SumIs(T, [grid EXCEPT ![b] = 0], sum - grid[b])
    <1>1. LcNum \in Nat /\ LcNum >= 1 /\ b \in Nat /\ b < LcNum /\ grid[b] \in Nat
      BY RingSpans DEF LcGrids
    <1>2. PICK x \in Nat : x = grid[b]
      BY <1>1
    <1>3. PICK T : T = [k \in 0..LcNum |-> IF k <= b THEN S[k] ELSE S[k] - x]
      OBVIOUS
    <1>4. \A k \in 0..LcNum : S[k] \in Int
      BY DEF SumIs
    <1>5. \A k \in 0..LcNum : T[k] = IF k <= b THEN S[k] ELSE S[k] - x
      BY <1>3
    <1>6. T \in [0..LcNum -> Int]
      BY <1>3, <1>4
    <1>7. T[0] = 0
      <2>1. 0 \in 0..LcNum /\ 0 <= b
        BY <1>1
      <2>2. QED
        BY <1>5, <2>1 DEF SumIs
    <1>8. T[LcNum] = sum - x
      <2>1. LcNum \in 0..LcNum /\ ~ (LcNum <= b)
        BY <1>1
      <2>2. QED
        BY <1>5, <2>1 DEF SumIs
    <1>9. PICK new : new = [grid EXCEPT ![b] = 0]
      OBVIOUS
    <1>10. new[b] = 0 /\ \A g \in LcGrids : g # b => new[g] = grid[g]
      BY <1>9
    <1>11. ASSUME NEW k \in 1..LcNum
           PROVE  T[k] = T[k - 1] + new[k - 1]
      <2>1. k \in 0..LcNum /\ k - 1 \in 0..LcNum /\ k - 1 \in LcGrids
        BY <1>1 DEF LcGrids
      <2>2. S[k] = S[k - 1] + grid[k - 1] /\ S[k] \in Int /\ S[k - 1] \in Int
        BY <1>4, <2>1 DEF SumIs
      <2>3. grid[k - 1] \in Nat
        BY <2>1
      <2>4. CASE k - 1 = b
        <3>1. T[k - 1] = S[k - 1] /\ T[k] = S[k] - x
          BY <1>1, <1>5, <2>1, <2>4
        <3>2. QED
          BY <1>2, <1>10, <2>2, <2>3, <2>4, <3>1
      <2>5. CASE k - 1 < b
        <3>1. T[k - 1] = S[k - 1] /\ T[k] = S[k] /\ k - 1 # b
          BY <1>1, <1>5, <2>1, <2>5
        <3>2. QED
          BY <1>10, <2>1, <2>2, <2>3, <3>1
      <2>6. CASE k - 1 > b
        <3>1. T[k - 1] = S[k - 1] - x /\ T[k] = S[k] - x /\ k - 1 # b
          BY <1>1, <1>5, <2>1, <2>6
        <3>2. QED
          BY <1>10, <2>1, <2>2, <2>3, <3>1
      <2>7. QED
        BY <1>1, <2>1, <2>4, <2>5, <2>6
    <1>12. SumIs(T, new, sum - x)
      BY <1>6, <1>7, <1>8, <1>11 DEF SumIs
    <1>13. QED
      BY <1>2, <1>9, <1>12

\* The readings of the log are numbers.
LEMMA LogReadings ==
    ASSUME NEW log \in Seq(LcTimes)
    PROVE  Len(log) \in Nat /\ \A i \in 1..Len(log) : log[i] \in LcTimes /\ log[i] \in Nat
    <1>1. Len(log) \in Nat
      OBVIOUS
    <1>2. ASSUME NEW i \in 1..Len(log)
          PROVE  log[i] \in LcTimes /\ log[i] \in Nat
      <2>1. log[i] \in LcTimes
        BY ElementOfSeq
      <2>2. \A t \in LcTimes : t \in Nat
        BY DEF LcTimes
      <2>3. QED
        BY <2>1, <2>2
    <1>3. QED
      BY <1>1, <1>2

\* A unit later the readings of the log are as much older.
LEMMA RoundLog ==
    ASSUME NEW R, NEW grid \in [LcGrids -> Nat], NEW at \in LcGrids, NEW sum \in Nat, NEW start \in Nat,
           NEW log \in Seq(LcTimes), RingOf(R, grid, at, sum, start, log), R[LcNum - 1] <= sum,
           NEW Q, Q = NextReadings(R), NEW later \in Nat, later = start + LcUnit
    PROVE  Older(Q, later, log) /\ Gone(Q, later, log) /\ Newer(Q, later, log)
    <1>1. /\ LcNum \in Nat /\ LcNum >= 1 /\ LcUnit \in Nat /\ LcUnit >= 1 /\ LcTotal \in Nat
          /\ LcNum * LcUnit \in Nat /\ LcNum * LcUnit >= LcTotal
      BY RingSpans
    <1>2. \A k \in 0..LcNum : Q[k] = (IF k = 0 THEN 0 ELSE R[k - 1]) /\ R[k] \in Nat
      BY DEF NextReadings, RingOf, RingIs
    <1>3. R[0] = 0 /\ R[LcNum] = sum
      BY DEF RingOf, RingIs
    <1>4. Len(log) \in Nat /\ \A i \in 1..Len(log) : log[i] \in Nat
      BY LogReadings
    <1>5. Older(R, start, log) /\ Gone(R, start, log) /\ Newer(R, start, log)
      BY DEF RingOf
    <1>6. ASSUME NEW k \in 0..(LcNum - 1), NEW i \in 1..Len(log), i <= Len(log) - Q[k]
          PROVE  log[i] + k * LcUnit <= later + LcUnit
      <2>1. CASE k = 0
        <3>1. 0 \in 0..(LcNum - 1) /\ 0 * LcUnit = 0 /\ i <= Len(log) - R[0]
          BY <1>1, <1>3, <1>4
        <3>2. log[i] + 0 * LcUnit <= start + LcUnit
          BY <1>5, <3>1 DEF Older
        <3>3. QED
          BY <1>1, <1>4, <2>1, <3>1, <3>2
      <2>2. CASE k # 0
        <3>1. PICK j \in 0..(LcNum - 1) : j = k - 1
          BY <1>1, <2>2
        <3>2. j \in Nat /\ k \in 0..LcNum
          BY <1>1
        <3>3. j * LcUnit \in Nat /\ (j + 1) * LcUnit = j * LcUnit + LcUnit
          BY <3>2, NextMultiple
        <3>4. Q[k] = R[j]
          BY <1>2, <2>2, <3>1, <3>2
        <3>5. log[i] + j * LcUnit <= start + LcUnit
          BY <1>5, <1>6, <3>4 DEF Older
        <3>6. k * LcUnit = j * LcUnit + LcUnit
          <4>1. k = j + 1
            BY <3>1
          <4>2. QED
            BY <3>3, <4>1
        <3>7. PICK x \in Nat, m \in Nat : x = log[i] /\ m = j * LcUnit
          BY <1>4, <3>3
        <3>8. x + (m + LcUnit) <= later + LcUnit
          BY <1>1, <3>5, <3>7
        <3>9. QED
          BY <3>6, <3>7, <3>8
      <2>3. QED
        BY <2>1, <2>2
    <1>7. ASSUME NEW i \in 1..Len(log), i <= Len(log) - Q[LcNum]
          PROVE  log[i] + LcTotal <= later + LcUnit
      <2>1. PICK j \in 0..(LcNum - 1) : j = LcNum - 1
        BY <1>1
      <2>2. j * LcUnit \in Nat /\ (j + 1) * LcUnit = j * LcUnit + LcUnit
        BY <1>1, NextMultiple
      <2>3. Q[LcNum] = R[j]
        BY <1>1, <1>2, <2>1
      <2>4. log[i] + j * LcUnit <= start + LcUnit
        BY <1>5, <1>7, <2>3 DEF Older
      <2>5. LcNum * LcUnit = j * LcUnit + LcUnit
        <3>1. LcNum = j + 1
          BY <1>1, <2>1
        <3>2. QED
          BY <2>2, <3>1
      <2>6. PICK x \in Nat, m \in Nat, w \in Nat : x = log[i] /\ m = j * LcUnit /\ w = LcNum * LcUnit
        BY <1>1, <1>4, <2>2
      <2>7. x + m <= start + LcUnit /\ w = m + LcUnit /\ w >= LcTotal
        BY <1>1, <2>4, <2>5, <2>6
      <2>8. x + LcTotal <= later + LcUnit
        BY <1>1, <2>7
      <2>9. QED
        BY <2>6, <2>8
    <1>8. ASSUME NEW k \in 1..LcNum, NEW i \in 1..Len(log), i > Len(log) - Q[k], i > Len(log) - Q[LcNum] + 1
          PROVE  log[i] + k * LcUnit >= later + LcUnit
      <2>1. k \in 0..LcNum /\ k \in Nat /\ k # 0
        BY <1>1
      <2>2. Q[k] = R[k - 1]
        BY <1>2, <2>1
      <2>3. k # 1
        <3>1. ASSUME k = 1
              PROVE  FALSE
          <4>1. Q[k] = 0
            BY <1>3, <2>2, <3>1
          <4>2. QED
            BY <1>4, <1>8, <4>1
        <3>2. QED
          BY <3>1
      <2>4. PICK j \in 1..LcNum : j = k - 1
        BY <1>1, <2>1, <2>3
      <2>5. j * LcUnit \in Nat /\ (j + 1) * LcUnit = j * LcUnit + LcUnit
        <3>1. j \in Nat
          BY <1>1
        <3>2. QED
          BY <3>1, NextMultiple
      <2>6. Q[LcNum] = R[LcNum - 1] /\ R[LcNum - 1] \in Nat
        <3>1. LcNum \in 0..LcNum /\ LcNum # 0 /\ LcNum - 1 \in 0..LcNum
          BY <1>1
        <3>2. QED
          BY <1>2, <3>1
      <2>7. i > Len(log) - R[LcNum] + 1
        BY <1>3, <1>4, <1>8, <2>6
      <2>8. i > Len(log) - R[j]
        BY <1>8, <2>2, <2>4
      <2>9. log[i] + j * LcUnit >= start + LcUnit
        BY <1>5, <2>7, <2>8 DEF Newer
      <2>10. k * LcUnit = j * LcUnit + LcUnit
        <3>1. k = j + 1
          BY <2>1, <2>4
        <3>2. QED
          BY <2>5, <3>1
      <2>11. PICK x \in Nat, m \in Nat : x = log[i] /\ m = j * LcUnit
        BY <1>4, <2>5
      <2>12. x + (m + LcUnit) >= later + LcUnit
        BY <1>1, <2>9, <2>11
      <2>13. QED
        BY <2>10, <2>11, <2>12
    <1>9. Older(Q, later, log)
      BY <1>6 DEF Older
    <1>10. Gone(Q, later, log)
      BY <1>7 DEF Gone
    <1>11. Newer(Q, later, log)
      BY <1>8 DEF Newer
    <1>12. QED
      BY <1>9, <1>10, <1>11

\* One round of the loop in UpdateGrids.
LEMMA RoundKeepsRing ==
    ASSUME NEW old, NEW start, NEW log, GoodRing(old.grid, old.at, old.sum, start, log),
           NEW new, new = NextGrid(old), NEW later, later = start + LcUnit
    PROVE  GoodRing(new.grid, new.at, new.sum, later, log) /\ new.sum <= old.sum
    <1>1. PICK grid, at, sum : grid = old.grid /\ at = old.at /\ sum = old.sum
      OBVIOUS
    <1>2. /\ grid \in [LcGrids -> Nat] /\ at \in LcGrids /\ start \in Nat /\ log \in Seq(LcTimes)
          /\ sum \in Nat /\ sum <= Len(log)
      BY <1>1 DEF GoodRing
    <1>3. PICK b : b = (at + 1) % LcNum
      OBVIOUS
    <1>4. b \in LcGrids
      BY <1>2, <1>3, NextPlace
    <1>5. new.grid = [grid EXCEPT ![b] = 0] /\ new.at = b /\ new.sum = sum - grid[b]
      BY <1>1, <1>3 DEF NextGrid
    <1>6. PICK R : RingOf(R, grid, at, sum, start, log)
      BY <1>1 DEF GoodRing
    <1>7. PICK S : SumIs(S, grid, sum)
      BY <1>1 DEF GoodRing
    <1>8. RingIs(R, grid, at, sum)
      BY <1>6 DEF RingOf
    <1>9. PICK Q : Q = NextReadings(R)
      OBVIOUS
    <1>10. /\ RingIs(Q, new.grid, new.at, new.sum)
           /\ R[LcNum - 1] = new.sum /\ R[LcNum - 1] \in Nat /\ R[LcNum - 1] <= sum
      <2>1. PICK empty, left : empty = [grid EXCEPT ![b] = 0] /\ left = sum - grid[b]
        OBVIOUS
      <2>2. RingIs(Q, empty, b, left) /\ R[LcNum - 1] = left /\ left \in Nat /\ left <= sum
        <3>1. RoundOf(R, grid, at, sum, Q, empty, b, left)
          BY <1>2, <1>3, <1>8, <1>9, <2>1, Zenon DEF RoundOf
        <3>2. QED
          BY <3>1, RoundReadings, Zenon
      <2>3. QED
        BY <1>5, <2>1, <2>2, Zenon
    <1>11. later \in Nat
      BY <1>2, RingSpans
    <1>12. Older(Q, later, log) /\ Gone(Q, later, log) /\ Newer(Q, later, log)
      BY <1>2, <1>6, <1>9, <1>10, <1>11, RoundLog
    <1>13. RingOf(Q, new.grid, new.at, new.sum, later, log)
      BY <1>10, <1>12 DEF RingOf
    <1>14. \E T : SumIs(T, new.grid, new.sum)
      <2>1. \E T : SumIs(T, [grid EXCEPT ![b] = 0], sum - grid[b])
        BY <1>2, <1>4, <1>7, RoundSum, Zenon
      <2>2. QED
        BY <1>5, <2>1, Zenon
    <1>15. new.grid \in [LcGrids -> Nat] /\ new.at \in LcGrids
      BY <1>2, <1>4, <1>5
    <1>16. new.sum \in Nat /\ new.sum <= sum /\ new.sum <= Len(log)
      <2>1. Len(log) \in Nat
        BY <1>2
      <2>2. QED
        BY <1>2, <1>10, <2>1
    <1>17. QED
      BY <1>1, <1>2, <1>11, <1>13, <1>14, <1>15, <1>16 DEF GoodRing

\* The loop of UpdateGrids, and what its rounds are.
ShiftLoop(A, u) == CHOOSE g : g = [n \in 0..u |-> IF n = 0 THEN A ELSE NextGrid(g[n - 1])]
IsShiftLoop(g, A, n) == g[0] = A /\ \A j \in 1..n : g[j] = NextGrid(g[j - 1])

\* The equation of the loop has a solution.
LEMMA ShiftLoopExists ==
    ASSUME NEW A, NEW n \in Nat
    PROVE  \E g : IsShiftLoop(g, A, n)
    <1> DEFINE Bad == {m \in Nat : ~ \E g : IsShiftLoop(g, A, m)}
    <1>1. ASSUME Bad # {}
          PROVE  FALSE
      <2>1. PICK m \in Bad : \A y \in Bad : m <= y
        BY <1>1, LeastElement
      <2>2. m \in Nat /\ ~ \E g : IsShiftLoop(g, A, m)
        BY <2>1
      <2>3. CASE m = 0
        <3>1. IsShiftLoop([j \in {0} |-> A], A, 0)
          BY DEF IsShiftLoop
        <3>2. QED
          BY <2>2, <2>3, <3>1
      <2>4. CASE m # 0
        <3>1. m - 1 \in Nat /\ m - 1 < m
          BY <2>2, <2>4
        <3>2. m - 1 \notin Bad
          BY <2>1, <3>1
        <3>3. PICK g : IsShiftLoop(g, A, m - 1)
          BY <3>1, <3>2
        <3> DEFINE h == [j \in 0..m |-> IF j = m THEN NextGrid(g[m - 1]) ELSE g[j]]
        <3>4. h[0] = A
          BY <2>2, <2>4, <3>3 DEF IsShiftLoop
        <3>5. ASSUME NEW j \in 1..m
              PROVE  h[j] = NextGrid(h[j - 1])
          <4>1. j \in Nat /\ j - 1 \in 0..m /\ j - 1 # m /\ j \in 0..m
            BY <2>2
          <4>2. h[j - 1] = g[j - 1]
            BY <4>1
          <4>3. CASE j = m
            BY <4>1, <4>2, <4>3
          <4>4. CASE j # m
            <5>1. j \in 1..(m - 1)
              BY <2>2, <4>1, <4>4
            <5>2. g[j] = NextGrid(g[j - 1])
              BY <3>3, <5>1 DEF IsShiftLoop
            <5>3. QED
              BY <4>1, <4>2, <4>4, <5>2
          <4>5. QED
            BY <4>3, <4>4
        <3>6. IsShiftLoop(h, A, m)
          BY <3>4, <3>5 DEF IsShiftLoop
        <3>7. QED
          BY <2>2, <3>6
      <2>5. QED
        BY <2>3, <2>4
    <1>2. QED
      BY <1>1

\* The recursive function solves it.
LEMMA ShiftLoopUnfolds ==
    ASSUME NEW A, NEW u \in Nat
    PROVE  IsShiftLoop(ShiftLoop(A, u), A, u)
    <1>1. PICK h : IsShiftLoop(h, A, u)
      BY ShiftLoopExists
    <1>2. \E v : v = [j \in 0..u |-> IF j = 0 THEN A ELSE NextGrid(v[j - 1])]
      <2>1. PICK v : v = [j \in 0..u |-> h[j]]
        OBVIOUS
      <2>2. ASSUME NEW j \in 0..u
            PROVE  h[j] = IF j = 0 THEN A ELSE NextGrid(v[j - 1])
        <3>2. CASE j = 0
          BY <1>1, <3>2 DEF IsShiftLoop
        <3>3. CASE j # 0
          <4>1. j \in 1..u /\ j - 1 \in 0..u
            BY <3>3
          <4>2. v[j - 1] = h[j - 1]
            BY <2>1, <4>1
          <4>3. QED
            BY <1>1, <3>3, <4>1, <4>2 DEF IsShiftLoop
        <3>4. QED
          BY <3>2, <3>3
      <2>4. v = [j \in 0..u |-> IF j = 0 THEN A ELSE NextGrid(v[j - 1])]
        BY <2>1, <2>2, Zenon
      <2>5. QED
        BY <2>4, Zenon
    <1>3. PICK f : f = ShiftLoop(A, u)
      OBVIOUS
    <1>4. f = [j \in 0..u |-> IF j = 0 THEN A ELSE NextGrid(f[j - 1])]
      BY <1>2, <1>3, Zenon DEF ShiftLoop
    <1>5. \A j \in 0..u : f[j] = IF j = 0 THEN A ELSE NextGrid(f[j - 1])
      BY <1>4, Zenon
    <1>6. f[0] = A
      BY <1>5
    <1>7. ASSUME NEW j \in 1..u
          PROVE  f[j] = NextGrid(f[j - 1])
      <2>1. j \in 0..u /\ j # 0
        OBVIOUS
      <2>2. QED
        BY <1>5, <2>1
    <1>8. QED
      BY <1>3, <1>6, <1>7 DEF IsShiftLoop


\* Each round leaves a good ring, a unit later.
LEMMA ShiftKeepsRing ==
    ASSUME NEW n \in Nat, GoodRing(lcGrid, lcAt, lcSum, lcStart, lcAdmitted), NEW r, r = Shifted(n)
    PROVE  GoodRing(r.grid, r.at, r.sum, lcStart + n * LcUnit, lcAdmitted) /\ r.sum <= lcSum
    <1>1. PICK A : A = [grid |-> lcGrid, at |-> lcAt, sum |-> lcSum]
      OBVIOUS
    <1>2. PICK g : g = ShiftLoop(A, n)
      OBVIOUS
    <1>3. IsShiftLoop(g, A, n)
      BY <1>2, ShiftLoopUnfolds
    <1>4. r = g[n]
      BY <1>1, <1>2, Zenon DEF Shifted, ShiftLoop
    <1>5. lcStart \in Nat /\ lcSum \in Nat
      BY DEF GoodRing
    <1> DEFINE Fine(i) == GoodRing(g[i].grid, g[i].at, g[i].sum, lcStart + i * LcUnit, lcAdmitted) /\ g[i].sum <= lcSum
               Bad == {i \in Nat : i \in 0..n /\ ~ Fine(i)}
    <1>6. ASSUME Bad # {}
          PROVE  FALSE
      <2>1. PICK i \in Bad : \A y \in Bad : i <= y
        BY <1>6, LeastElement
      <2>2. i \in Nat /\ i \in 0..n /\ ~ Fine(i)
        BY <2>1
      <2>3. CASE i = 0
        <3>1. g[i].grid = lcGrid /\ g[i].at = lcAt /\ g[i].sum = lcSum
          BY <1>1, <1>3, <2>3 DEF IsShiftLoop
        <3>2. i * LcUnit = 0 /\ lcStart + i * LcUnit = lcStart
          BY <1>5, <2>3, RingSpans
        <3>3. GoodRing(g[i].grid, g[i].at, g[i].sum, lcStart + i * LcUnit, lcAdmitted)
          BY <3>1, <3>2, Zenon
        <3>4. g[i].sum <= lcSum
          BY <1>5, <3>1
        <3>5. QED
          BY <2>2, <3>3, <3>4
      <2>4. CASE i # 0
        <3>1. i - 1 \in Nat /\ i - 1 \in 0..n /\ i - 1 < i /\ i \in 1..n
          BY <2>2, <2>4
        <3>2. PICK j \in Nat : j = i - 1
          BY <3>1
        <3>3. j \notin Bad
          BY <2>1, <3>1, <3>2
        <3>4. Fine(j)
          BY <3>1, <3>2, <3>3
        <3>5. g[i] = NextGrid(g[j])
          BY <1>3, <3>1, <3>2 DEF IsShiftLoop
        <3>6. PICK old, new, start, later : /\ old = g[j] /\ new = g[i]
                                            /\ start = lcStart + j * LcUnit /\ later = start + LcUnit
          OBVIOUS
        <3>7. GoodRing(old.grid, old.at, old.sum, start, lcAdmitted) /\ old.sum <= lcSum /\ new = NextGrid(old)
          BY <3>4, <3>5, <3>6
        <3>8. GoodRing(new.grid, new.at, new.sum, later, lcAdmitted) /\ new.sum <= old.sum
          BY <3>6, <3>7, RoundKeepsRing, Zenon
        <3>9. later = lcStart + i * LcUnit
          <4>1. j * LcUnit \in Nat /\ (j + 1) * LcUnit = j * LcUnit + LcUnit
            BY NextMultiple
          <4>2. i = j + 1
            BY <2>2, <3>2
          <4>3. PICK m \in Nat, k \in Nat : m = j * LcUnit /\ k = i * LcUnit /\ k = m + LcUnit
            BY <4>1, <4>2, RingSpans
          <4>4. later = lcStart + k
            BY <1>5, <3>6, <4>3, RingSpans
          <4>5. QED
            BY <4>3, <4>4
        <3>10. new.sum <= lcSum
          <4>1. new.sum \in Nat /\ old.sum \in Nat
            BY <3>7, <3>8 DEF GoodRing
          <4>2. QED
            BY <1>5, <3>7, <3>8, <4>1
        <3>11. Fine(i)
          BY <3>6, <3>8, <3>9, <3>10
        <3>12. QED
          BY <2>2, <3>11
      <2>5. QED
        BY <2>3, <2>4
    <1>7. n \notin Bad
      BY <1>6
    <1>8. Fine(n)
      BY <1>7
    <1>9. QED
      BY <1>4, <1>8, Zenon

\* The sums after a request is counted in the current grid.
MoreReadings(R) == [k \in 0..LcNum |-> IF k = 0 THEN 0 ELSE R[k] + 1]
CountOf(R, grid, at, sum, Q, new) ==
    /\ grid \in [LcGrids -> Nat] /\ at \in LcGrids /\ sum \in Nat /\ RingIs(R, grid, at, sum)
    /\ new = [grid EXCEPT ![at] = @ + 1] /\ Q = MoreReadings(R)

\* Counting a request adds one to all the sums that contain the current grid.
LEMMA CountReadings ==
    ASSUME NEW R, NEW grid, NEW at, NEW sum, NEW Q, NEW new, CountOf(R, grid, at, sum, Q, new)
    PROVE  RingIs(Q, new, at, sum + 1)
    <1> /\ grid \in [LcGrids -> Nat] /\ at \in LcGrids /\ sum \in Nat /\ RingIs(R, grid, at, sum)
        /\ new = [grid EXCEPT ![at] = @ + 1] /\ Q = MoreReadings(R)
      BY DEF CountOf
    <1>1. LcNum \in Nat /\ LcNum >= 1 /\ at \in Nat
      BY RingSpans DEF LcGrids
    <1>2. R \in [0..LcNum -> Nat] /\ R[0] = 0 /\ R[LcNum] = sum
      BY DEF RingIs
    <1>3. \A k \in 0..LcNum : Q[k] = IF k = 0 THEN 0 ELSE R[k] + 1
      BY DEF MoreReadings
    <1>4. Q \in [0..LcNum -> Nat]
      BY <1>2 DEF MoreReadings
    <1>5. Q[0] = 0 /\ Q[LcNum] = sum + 1
      BY <1>1, <1>2, <1>3
    <1>6. new[at] = grid[at] + 1 /\ grid[at] \in Nat /\ \A g \in LcGrids : g # at => new[g] = grid[g]
      OBVIOUS
    <1>7. ASSUME NEW k \in 1..LcNum
          PROVE  Q[k] = Q[k - 1] + new[Back(at, k - 1)]
      <2>1. /\ k - 1 \in 0..LcNum /\ k \in 0..LcNum /\ R[k] \in Nat /\ R[k - 1] \in Nat
            /\ R[k] = R[k - 1] + grid[Back(at, k - 1)] /\ grid[Back(at, k - 1)] \in Nat
        BY RingStep
      <2>2. Q[k] = R[k] + 1
        BY <1>3, <2>1
      <2>3. CASE k = 1
        <3>1. Back(at, 0) = at
          BY <1>1 DEF Back
        <3>2. k - 1 = 0 /\ Q[k - 1] = 0 /\ R[k - 1] = 0
          BY <1>2, <1>5, <2>3
        <3>3. R[k] = grid[at]
          BY <2>1, <3>1, <3>2
        <3>4. QED
          BY <1>6, <2>2, <3>1, <3>2, <3>3
      <2>4. CASE k # 1
        <3>1. k - 1 \in 0..(LcNum - 1) /\ k - 1 # 0
          BY <1>1, <2>4
        <3>2. PICK j \in 0..(LcNum - 1) : j = k - 1
          BY <3>1
        <3>3. Back(at, j) \in LcGrids /\ (Back(at, j) = at => j = 0)
          BY BackPlaces
        <3>4. new[Back(at, k - 1)] = grid[Back(at, k - 1)]
          BY <1>6, <3>1, <3>2, <3>3
        <3>5. Q[k - 1] = R[k - 1] + 1
          BY <1>3, <2>1, <3>1
        <3>6. QED
          BY <2>1, <2>2, <3>4, <3>5
      <2>5. QED
        BY <2>3, <2>4
    <1>8. QED
      BY <1>4, <1>5, <1>7 DEF RingIs

\* So does the sum of the array.
LEMMA CountSum ==
    ASSUME NEW S, NEW grid \in [LcGrids -> Nat], NEW sum, SumIs(S, grid, sum), NEW b \in LcGrids
    PROVE  \E T : SumIs(T, [grid EXCEPT ![b] = @ + 1], sum + 1)
    <1>1. LcNum \in Nat /\ LcNum >= 1 /\ b \in Nat /\ b < LcNum /\ grid[b] \in Nat
      BY RingSpans DEF LcGrids
    <1>3. PICK T : T = [k \in 0..LcNum |-> IF k <= b THEN S[k] ELSE S[k] + 1]
      OBVIOUS
    <1>4. \A k \in 0..LcNum : S[k] \in Int
      BY DEF SumIs
    <1>5. \A k \in 0..LcNum : T[k] = IF k <= b THEN S[k] ELSE S[k] + 1
      BY <1>3
    <1>6. T \in [0..LcNum -> Int]
      BY <1>3, <1>4
    <1>7. T[0] = 0
      <2>1. 0 \in 0..LcNum /\ 0 <= b
        BY <1>1
      <2>2. QED
        BY <1>5, <2>1 DEF SumIs
    <1>8. T[LcNum] = sum + 1
      <2>1. LcNum \in 0..LcNum /\ ~ (LcNum <= b)
        BY <1>1
      <2>2. QED
        BY <1>5, <2>1 DEF SumIs
    <1>9. PICK new : new = [grid EXCEPT ![b] = @ + 1]
      OBVIOUS
    <1>10. new[b] = grid[b] + 1 /\ \A g \in LcGrids : g # b => new[g] = grid[g]
      BY <1>9
    <1>11. ASSUME NEW k \in 1..LcNum
           PROVE  T[k] = T[k - 1] + new[k - 1]
      <2>1. k \in 0..LcNum /\ k - 1 \in 0..LcNum /\ k - 1 \in LcGrids
        BY <1>1 DEF LcGrids
      <2>2. S[k] = S[k - 1] + grid[k - 1] /\ S[k] \in Int /\ S[k - 1] \in Int
        BY <1>4, <2>1 DEF SumIs
      <2>3. grid[k - 1] \in Nat
        BY <2>1
      <2>4. CASE k - 1 = b
        <3>1. T[k - 1] = S[k - 1] /\ T[k] = S[k] + 1
          BY <1>1, <1>5, <2>1, <2>4
        <3>2. QED
          BY <1>10, <2>2, <2>3, <2>4, <3>1
      <2>5. CASE k - 1 < b
        <3>1. T[k - 1] = S[k - 1] /\ T[k] = S[k] /\ k - 1 # b
          BY <1>1, <1>5, <2>1, <2>5
        <3>2. QED
          BY <1>10, <2>1, <2>2, <2>3, <3>1
      <2>6. CASE k - 1 > b
        <3>1. T[k - 1] = S[k - 1] + 1 /\ T[k] = S[k] + 1 /\ k - 1 # b
          BY <1>1, <1>5, <2>1, <2>6
        <3>2. QED
          BY <1>10, <2>1, <2>2, <2>3, <3>1
      <2>7. QED
        BY <1>1, <2>1, <2>4, <2>5, <2>6
    <1>12. SumIs(T, new, sum + 1)
      BY <1>6, <1>7, <1>8, <1>11 DEF SumIs
    <1>13. QED
      BY <1>9, <1>12

\* A reading that is appended belongs to the current grid.
LEMMA CountLog ==
    ASSUME NEW R, NEW grid \in [LcGrids -> Nat], NEW at \in LcGrids, NEW sum \in Nat, NEW start \in Nat,
           NEW log \in Seq(LcTimes), RingOf(R, grid, at, sum, start, log),
           NEW now \in LcTimes, now <= start + LcUnit, now >= start \/ sum = 0,
           NEW Q, Q = MoreReadings(R), NEW longer, longer = Append(log, now)
    PROVE  Older(Q, start, longer) /\ Gone(Q, start, longer) /\ Newer(Q, start, longer)
    <1>1. /\ LcNum \in Nat /\ LcNum >= 1 /\ LcUnit \in Nat /\ LcUnit >= 1 /\ LcTotal \in Nat
      BY RingSpans
    <1>2. \A k \in 0..LcNum : Q[k] = (IF k = 0 THEN 0 ELSE R[k] + 1) /\ R[k] \in Nat
      BY DEF MoreReadings, RingOf, RingIs
    <1>3. R[0] = 0 /\ R[LcNum] = sum
      BY DEF RingOf, RingIs
    <1>4. Len(log) \in Nat /\ \A i \in 1..Len(log) : log[i] \in Nat
      BY LogReadings
    <1>5. Older(R, start, log) /\ Gone(R, start, log) /\ Newer(R, start, log)
      BY DEF RingOf
    <1>6. PICK N \in Nat : N = Len(log)
      BY <1>4
    <1>7. Len(longer) = N + 1 /\ longer[N + 1] = now /\ \A i \in 1..N : longer[i] = log[i]
      BY <1>6
    <1>8. now \in Nat
      BY DEF LcTimes
    <1>19. \A k \in 0..LcNum : Q[k] \in Nat
      BY <1>2
    <1>18. PICK M \in Nat : M = Len(longer) /\ M = N + 1
      BY <1>7
    <1>9. \A k \in 1..LcNum : Q[k] = R[k] + 1 /\ R[k] \in Nat
      BY <1>1, <1>2
    <1>10. ASSUME NEW k \in 0..(LcNum - 1), NEW i \in 1..Len(longer), i <= Len(longer) - Q[k]
           PROVE  longer[i] + k * LcUnit <= start + LcUnit
      <2>0. i \in 1..(N + 1) /\ i <= N + 1 - Q[k]
        <3>1. i \in 1..M
          BY <1>18, Zenon
        <3>2. i <= M - Q[k]
          BY <1>18, <1>10, Zenon
        <3>3. PICK q \in Nat : q = Q[k]
          <4>1. k \in 0..LcNum
            BY <1>1
          <4>2. QED
            BY <1>19, <4>1
        <3>4. i <= M - q
          BY <3>2, <3>3
        <3>5. i <= N + 1 - q /\ i \in 1..(N + 1)
          BY <1>18, <3>1, <3>4
        <3>6. QED
          BY <3>3, <3>5
      <2>1. CASE k = 0
        <3>1. 0 \in 0..(LcNum - 1) /\ 0 * LcUnit = 0
          BY <1>1
        <3>2. CASE i = N + 1
          <4>1. longer[i] = now
            BY <1>7, <3>2
          <4>2. now + 0 <= start + LcUnit
            BY <1>1, <1>8
          <4>3. QED
            BY <2>1, <3>1, <4>1, <4>2
        <3>3. CASE i # N + 1
          <4>1. i \in 1..N /\ i <= N - R[0]
            BY <1>3, <2>0, <3>3
          <4>2. log[i] + 0 * LcUnit <= start + LcUnit
            BY <1>5, <1>6, <3>1, <4>1 DEF Older
          <4>3. QED
            BY <1>7, <2>1, <4>1, <4>2
        <3>4. QED
          BY <3>2, <3>3
      <2>2. CASE k # 0
        <3>1. k \in 1..LcNum
          BY <1>1, <2>2
        <3>2. Q[k] = R[k] + 1 /\ R[k] \in Nat
          BY <1>9, <3>1
        <3>3. i \in 1..N /\ i <= N - R[k]
          BY <2>0, <3>2
        <3>4. log[i] + k * LcUnit <= start + LcUnit
          BY <1>5, <1>6, <3>3 DEF Older
        <3>5. QED
          BY <1>7, <3>3, <3>4
      <2>3. QED
        BY <2>1, <2>2
    <1>11. LcNum \in 1..LcNum /\ Q[LcNum] = R[LcNum] + 1 /\ R[LcNum] \in Nat
      BY <1>1, <1>9
    <1>12. ASSUME NEW i \in 1..Len(longer), i <= Len(longer) - Q[LcNum]
           PROVE  longer[i] + LcTotal <= start + LcUnit
      <2>0. i \in 1..(N + 1) /\ i <= N + 1 - Q[LcNum]
        <3>1. i \in 1..M
          BY <1>18, Zenon
        <3>2. i <= M - Q[LcNum]
          BY <1>18, <1>12, Zenon
        <3>3. PICK q \in Nat : q = Q[LcNum]
          <4>1. LcNum \in 0..LcNum
            BY <1>1
          <4>2. QED
            BY <1>19, <4>1
        <3>4. i <= M - q
          BY <3>2, <3>3
        <3>5. i <= N + 1 - q /\ i \in 1..(N + 1)
          BY <1>18, <3>1, <3>4
        <3>6. QED
          BY <3>3, <3>5
      <2>1. i \in 1..N /\ i <= N - R[LcNum]
        BY <1>11, <2>0
      <2>2. log[i] + LcTotal <= start + LcUnit
        BY <1>5, <1>6, <2>1 DEF Gone
      <2>3. QED
        BY <1>7, <2>1, <2>2
    <1>13. ASSUME NEW k \in 1..LcNum, NEW i \in 1..Len(longer),
                  i > Len(longer) - Q[k], i > Len(longer) - Q[LcNum] + 1
           PROVE  longer[i] + k * LcUnit >= start + LcUnit
      <2>0. i \in 1..(N + 1) /\ i > N + 1 - Q[k] /\ i > N + 1 - Q[LcNum] + 1
        <3>1. i \in 1..M
          BY <1>18, Zenon
        <3>2. i > M - Q[k] /\ i > M - Q[LcNum] + 1
          BY <1>18, <1>13, Zenon
        <3>3. PICK q \in Nat, p \in Nat : q = Q[k] /\ p = Q[LcNum]
          <4>1. k \in 0..LcNum /\ LcNum \in 0..LcNum
            BY <1>1
          <4>2. QED
            BY <1>19, <4>1
        <3>4. i > M - q /\ i > M - p + 1
          BY <3>2, <3>3
        <3>5. i > N + 1 - q /\ i > N + 1 - p + 1 /\ i \in 1..(N + 1)
          BY <1>18, <3>1, <3>4
        <3>6. QED
          BY <3>3, <3>5
      <2>1. Q[k] = R[k] + 1 /\ R[k] \in Nat
        BY <1>9
      <2>2. i > N - R[k] /\ i > N - R[LcNum] + 1
        <3>1. PICK a \in Nat, b \in Nat : a = R[k] /\ b = R[LcNum]
          BY <1>11, <2>1
        <3>2. Q[k] = a + 1 /\ Q[LcNum] = b + 1
          BY <1>11, <2>1, <3>1
        <3>3. i > N + 1 - (a + 1) /\ i > N + 1 - (b + 1) + 1
          BY <2>0, <3>2
        <3>4. i > N - a /\ i > N - b + 1
          BY <2>0, <3>3
        <3>5. QED
          BY <3>1, <3>4
      <2>3. CASE i = N + 1
        <3>1. sum # 0
          <4>1. ASSUME sum = 0
                PROVE  FALSE
            <5>1. i > N - 0 + 1
              BY <1>3, <2>2, <4>1
            <5>2. QED
              BY <2>3, <5>1
          <4>2. QED
            BY <4>1
        <3>2. now >= start
          BY <3>1
        <3>3. PICK j \in Nat : j = k - 1
          BY <1>1
        <3>4. j * LcUnit \in Nat /\ (j + 1) * LcUnit = j * LcUnit + LcUnit
          BY NextMultiple
        <3>5. k = j + 1
          BY <1>1, <3>3
        <3>6. PICK m \in Nat : m = j * LcUnit
          BY <3>4
        <3>7. k * LcUnit = m + LcUnit
          BY <3>4, <3>5, <3>6
        <3>8. now + (m + LcUnit) >= start + LcUnit
          BY <1>1, <1>8, <3>2
        <3>9. longer[i] = now
          BY <1>7, <2>3
        <3>10. QED
          BY <3>7, <3>8, <3>9
      <2>4. CASE i # N + 1
        <3>1. i \in 1..N
          BY <2>0, <2>4
        <3>2. log[i] + k * LcUnit >= start + LcUnit
          BY <1>5, <1>6, <2>2, <3>1 DEF Newer
        <3>3. QED
          BY <1>7, <3>1, <3>2
      <2>5. QED
        BY <2>3, <2>4
    <1>14. Older(Q, start, longer)
      BY <1>10, Zenon DEF Older
    <1>15. Gone(Q, start, longer)
      BY <1>12, Zenon DEF Gone
    <1>16. Newer(Q, start, longer)
      BY <1>13, Zenon DEF Newer
    <1>17. QED
      BY <1>14, <1>15, <1>16

\* What CheckFlow does with a request that it admits.
CountedAt(grid, at, sum, start, log, now, new, longer) ==
    /\ GoodRing(grid, at, sum, start, log)
    /\ now \in LcTimes /\ now <= start + LcUnit /\ (now >= start \/ sum = 0)
    /\ new = [grid EXCEPT ![at] = @ + 1] /\ longer = Append(log, now)

\* A request that is admitted leaves a good ring.
LEMMA CountKeepsRing ==
    ASSUME NEW grid, NEW at, NEW sum, NEW start, NEW log, NEW now, NEW new, NEW longer,
           CountedAt(grid, at, sum, start, log, now, new, longer)
    PROVE  GoodRing(new, at, sum + 1, start, longer)
    <1>1. /\ GoodRing(grid, at, sum, start, log)
          /\ now \in LcTimes /\ now <= start + LcUnit /\ (now >= start \/ sum = 0)
          /\ new = [grid EXCEPT ![at] = @ + 1] /\ longer = Append(log, now)
      BY DEF CountedAt
    <1>2. /\ grid \in [LcGrids -> Nat] /\ at \in LcGrids /\ start \in Nat /\ log \in Seq(LcTimes)
          /\ sum \in Nat /\ sum <= Len(log)
      BY <1>1 DEF GoodRing
    <1>3. PICK R : RingOf(R, grid, at, sum, start, log)
      BY <1>1 DEF GoodRing
    <1>4. PICK S : SumIs(S, grid, sum)
      BY <1>1 DEF GoodRing
    <1>5. RingIs(R, grid, at, sum)
      BY <1>3 DEF RingOf
    <1>6. PICK Q : Q = MoreReadings(R)
      OBVIOUS
    <1>7. RingIs(Q, new, at, sum + 1)
      <2>1. CountOf(R, grid, at, sum, Q, new)
        BY <1>1, <1>2, <1>5, <1>6, Zenon DEF CountOf
      <2>2. QED
        BY <2>1, CountReadings, Zenon
    <1>8. Older(Q, start, longer) /\ Gone(Q, start, longer) /\ Newer(Q, start, longer)
      BY <1>1, <1>2, <1>3, <1>6, CountLog, Zenon
    <1>9. RingOf(Q, new, at, sum + 1, start, longer)
      BY <1>7, <1>8 DEF RingOf
    <1>10. \E T : SumIs(T, new, sum + 1)
      <2>1. \E T : SumIs(T, [grid EXCEPT ![at] = @ + 1], sum + 1)
        BY <1>2, <1>4, CountSum, Zenon
      <2>2. QED
        BY <1>1, <2>1, Zenon
    <1>11. new \in [LcGrids -> Nat] /\ sum + 1 \in Nat
      BY <1>1, <1>2
    <1>12. longer \in Seq(LcTimes) /\ Len(longer) = Len(log) + 1
      BY <1>1, <1>2
    <1>13. sum + 1 <= Len(longer)
      <2>1. Len(log) \in Nat
        BY <1>2
      <2>2. QED
        BY <1>2, <1>12, <2>1
    <1>14. QED
      BY <1>2, <1>9, <1>10, <1>11, <1>12, <1>13 DEF GoodRing

\* An empty ring is good when all readings are a span old.
LEMMA EmptyRing ==
    ASSUME NEW log \in Seq(LcTimes), NEW start \in Nat,
           \A i \in 1..Len(log) : log[i] + LcTotal <= start + LcUnit,
           NEW grid, grid = [g \in LcGrids |-> 0]
    PROVE  GoodRing(grid, 0, 0, start, log)
    <1>1. /\ LcNum \in Nat /\ LcNum >= 1 /\ LcUnit \in Nat /\ LcUnit >= 1 /\ LcTotal \in Nat
          /\ LcNum * LcUnit \in Nat /\ LcNum * LcUnit < LcTotal + LcUnit
      BY RingSpans
    <1>2. 0 \in LcGrids /\ grid \in [LcGrids -> Nat] /\ \A g \in LcGrids : grid[g] = 0
      BY <1>1 DEF LcGrids
    <1>3. PICK R : R = [k \in 0..LcNum |-> 0]
      OBVIOUS
    <1>4. R \in [0..LcNum -> Nat] /\ R \in [0..LcNum -> Int] /\ \A k \in 0..LcNum : R[k] = 0
      BY <1>3
    <1>5. R[0] = 0 /\ R[LcNum] = 0
      BY <1>1, <1>4
    <1>6. ASSUME NEW k \in 1..LcNum
          PROVE  R[k] = R[k - 1] + grid[Back(0, k - 1)] /\ R[k] = R[k - 1] + grid[k - 1]
      <2>1. k \in 0..LcNum /\ k - 1 \in 0..LcNum /\ k - 1 \in 0..(LcNum - 1) /\ k - 1 \in LcGrids
        BY <1>1 DEF LcGrids
      <2>2. PICK j \in 0..(LcNum - 1) : j = k - 1
        BY <2>1
      <2>3. Back(0, j) \in LcGrids
        BY <1>2, BackPlaces
      <2>4. grid[Back(0, k - 1)] = 0 /\ grid[k - 1] = 0 /\ R[k] = 0 /\ R[k - 1] = 0
        BY <1>2, <1>4, <2>1, <2>2, <2>3
      <2>5. QED
        BY <2>4
    <1>7. RingIs(R, grid, 0, 0)
      BY <1>4, <1>5, <1>6 DEF RingIs
    <1>8. SumIs(R, grid, 0)
      BY <1>4, <1>5, <1>6 DEF SumIs
    <1>9. Len(log) \in Nat /\ \A i \in 1..Len(log) : log[i] \in Nat
      BY LogReadings
    <1>10. ASSUME NEW k \in 0..(LcNum - 1), NEW i \in 1..Len(log)
           PROVE  log[i] + k * LcUnit <= start + LcUnit
      <2>1. k \in Nat /\ k + 1 <= LcNum
        BY <1>1
      <2>2. k * LcUnit \in Nat /\ (k + 1) * LcUnit = k * LcUnit + LcUnit
        BY <2>1, NextMultiple
      <2>3. (k + 1) * LcUnit <= LcNum * LcUnit
        BY <1>1, <2>1
      <2>4. PICK m \in Nat, w \in Nat, x \in Nat : m = k * LcUnit /\ w = LcNum * LcUnit /\ x = log[i]
        BY <1>1, <1>9, <2>2
      <2>5. m + LcUnit <= w /\ w < LcTotal + LcUnit /\ x + LcTotal <= start + LcUnit
        BY <1>1, <2>2, <2>3, <2>4
      <2>6. x + m <= start + LcUnit
        BY <1>1, <2>5
      <2>7. QED
        BY <2>4, <2>6
    <1>11. Older(R, start, log)
      BY <1>10, Zenon DEF Older
    <1>12. Gone(R, start, log)
      BY DEF Gone
    <1>13. Newer(R, start, log)
      <2>1. ASSUME NEW k \in 1..LcNum, NEW i \in 1..Len(log), i > Len(log) - R[k]
            PROVE  FALSE
        <3>1. R[k] = 0
          BY <1>1, <1>4
        <3>2. QED
          BY <1>9, <2>1, <3>1
      <2>2. QED
        BY <2>1 DEF Newer
    <1>14. RingOf(R, grid, 0, 0, start, log)
      BY <1>7, <1>11, <1>12, <1>13 DEF RingOf
    <1>15. 0 <= Len(log)
      BY <1>9
    <1>16. QED
      BY <1>2, <1>8, <1>14, <1>15 DEF GoodRing

\* The time that has passed, while it fits an int.
LEMMA MovedIs ==
    ASSUME NEW now \in Nat, lcStart \in Nat, lcStart <= now, now - lcStart < LcWrap \div 2
    PROVE  Moved(now) = now - lcStart
    <1>1. LcWrap \in Nat /\ LcWrap >= 1
      BY LcAssumption
    <1>2. LcWrap % 2 \in 0..1 /\ LcWrap \div 2 \in Int /\ LcWrap = 2 * (LcWrap \div 2) + (LcWrap % 2)
      BY <1>1
    <1>3. PICK h \in Int, r \in 0..1 : h = LcWrap \div 2 /\ LcWrap = 2 * h + r
      BY <1>2
    <1>4. PICK d \in Nat : d = now - lcStart
      OBVIOUS
    <1>5. PICK e \in Nat : e = d + h
      BY <1>1, <1>3, <1>4
    <1>6. d < h
      BY <1>3, <1>4
    <1>7. e < LcWrap
      BY <1>1, <1>3, <1>5, <1>6
    <1>8. e % LcWrap = e
      BY <1>1, <1>7, ModSmall
    <1>9. Moved(now) = ((d + h) % LcWrap) - h
      BY <1>3, <1>4 DEF Moved
    <1>10. QED
      BY <1>3, <1>4, <1>5, <1>8, <1>9

\* The readings that are no longer counted are a span before now.
FreshBut(sum, now, log) ==
    \A i \in 1..Len(log) : i <= Len(log) - sum => log[i] + LcTotal <= now + LcUnit

\* When CheckFlow asks with a reading, and what UpdateGrids leaves it.
AskedAt(now) ==
    /\ GoodRing(lcGrid, lcAt, lcSum, lcStart, lcAdmitted)
    /\ now \in LcTimes /\ lcClock \in LcTimes /\ now <= lcClock /\ lcStart <= now
    /\ now - lcStart < LcWrap \div 2
UpdatedAt(now, r, start) ==
    /\ GoodRing(r.grid, r.at, r.sum, start, lcAdmitted) /\ r.sum <= lcSum
    /\ start \in LcTimes /\ start <= lcClock
    /\ now <= start + LcUnit /\ (now >= start \/ r.sum = 0)
    /\ FreshBut(r.sum, now, lcAdmitted)

\* The whole span has passed.
LEMMA RestartKeeps ==
    ASSUME NEW now, AskedAt(now), Restarts(now)
    PROVE  UpdatedAt(now, UpdateGrids(now), StartAfter(now))
    <1>1. PICK r, start : r = UpdateGrids(now) /\ start = StartAfter(now)
      OBVIOUS
    <1>2. r = [grid |-> [g \in LcGrids |-> 0], at |-> 0, sum |-> 0] /\ start = lcClock
      BY <1>1 DEF UpdateGrids, StartAfter
    <1>3. /\ now \in LcTimes /\ now \in Nat /\ lcClock \in LcTimes /\ lcClock \in Nat /\ now <= lcClock
          /\ lcStart \in Nat /\ lcStart <= now /\ lcAdmitted \in Seq(LcTimes) /\ now - lcStart < LcWrap \div 2
          /\ lcSum \in Nat
      BY DEF AskedAt, LcTimes, GoodRing
    <1>4. LcUnit \in Nat /\ LcTotal \in Nat
      BY RingSpans
    <1>5. now - lcStart >= LcTotal
      <2>1. Moved(now) = now - lcStart
        BY <1>3, MovedIs
      <2>2. QED
        BY <1>3, <1>4, <2>1 DEF Restarts
    <1>6. Len(lcAdmitted) \in Nat /\ \A i \in 1..Len(lcAdmitted) : lcAdmitted[i] \in Nat
      BY <1>3, LogReadings
    <1>7. ASSUME NEW i \in 1..Len(lcAdmitted)
          PROVE  lcAdmitted[i] + LcTotal <= now + LcUnit /\ lcAdmitted[i] + LcTotal <= start + LcUnit
      <2>1. PICK R : RingOf(R, lcGrid, lcAt, lcSum, lcStart, lcAdmitted)
        BY DEF AskedAt, GoodRing
      <2>2. R[0] = 0 /\ Older(R, lcStart, lcAdmitted)
        BY <2>1 DEF RingOf, RingIs
      <2>3. 0 \in 0..(LcNum - 1) /\ i <= Len(lcAdmitted) - R[0] /\ 0 * LcUnit = 0
        BY <1>4, <1>6, <2>2, RingSpans
      <2>4. lcAdmitted[i] + 0 * LcUnit <= lcStart + LcUnit
        BY <2>2, <2>3 DEF Older
      <2>5. PICK x \in Nat : x = lcAdmitted[i]
        BY <1>6
      <2>6. x + 0 <= lcStart + LcUnit
        BY <2>3, <2>4, <2>5
      <2>7. x + LcTotal <= now + LcUnit /\ x + LcTotal <= start + LcUnit
        BY <1>2, <1>3, <1>4, <1>5, <2>6
      <2>8. QED
        BY <2>5, <2>7
    <1>8. GoodRing(r.grid, r.at, r.sum, start, lcAdmitted)
      <2>1. PICK grid : grid = [g \in LcGrids |-> 0]
        OBVIOUS
      <2>2. GoodRing(grid, 0, 0, start, lcAdmitted)
        BY <1>2, <1>3, <1>7, <2>1, EmptyRing
      <2>3. QED
        BY <1>2, <2>1, <2>2
    <1>9. r.sum = 0 /\ r.sum <= lcSum
      BY <1>2, <1>3
    <1>10. start \in LcTimes /\ start <= lcClock /\ now <= start + LcUnit
      BY <1>2, <1>3, <1>4
    <1>11. FreshBut(r.sum, now, lcAdmitted)
      BY <1>7 DEF FreshBut
    <1>12. QED
      BY <1>1, <1>8, <1>9, <1>10, <1>11, Zenon DEF UpdatedAt

\* Some grids have passed.
LEMMA MovesKeep ==
    ASSUME NEW now, AskedAt(now), ~ Restarts(now)
    PROVE  UpdatedAt(now, UpdateGrids(now), StartAfter(now))
    <1>1. PICK r, start, n : r = UpdateGrids(now) /\ start = StartAfter(now) /\ n = Moves(Moved(now))
      OBVIOUS
    <1>2. r = Shifted(n) /\ start = lcStart + n * LcUnit
      BY <1>1, Zenon DEF UpdateGrids, StartAfter
    <1>3. /\ now \in LcTimes /\ now \in Nat /\ lcClock \in LcTimes /\ lcClock \in Nat /\ now <= lcClock
          /\ lcStart \in Nat /\ lcStart <= now /\ lcAdmitted \in Seq(LcTimes) /\ now - lcStart < LcWrap \div 2
          /\ lcSum \in Nat
      BY DEF AskedAt, LcTimes, GoodRing
    <1>4. LcUnit \in Nat /\ LcUnit >= 1 /\ LcTotal \in Nat
      BY RingSpans
    <1>5. PICK d \in Nat : d = now - lcStart
      BY <1>3
    <1>6. Moved(now) = d
      BY <1>3, <1>5, MovedIs
    <1>7. n \in Nat /\ n * LcUnit \in Nat /\ n * LcUnit <= d /\ d <= n * LcUnit + LcUnit
      <2>1. CASE d > LcUnit
        <3>1. n = d \div LcUnit
          BY <1>1, <1>6, <2>1 DEF Moves
        <3>2. d % LcUnit \in 0..(LcUnit - 1) /\ d \div LcUnit \in Int /\ d = LcUnit * (d \div LcUnit) + (d % LcUnit)
          BY <1>4, DivModFacts
        <3>3. PICK q \in Int, m \in 0..(LcUnit - 1) : q = d \div LcUnit /\ d = LcUnit * q + m
          BY <3>2
        <3>4. ~ (q < 0)
          BY <1>4, <3>3
        <3>5. q \in Nat /\ q * LcUnit = LcUnit * q /\ q * LcUnit \in Nat
          BY <1>4, <3>3, <3>4
        <3>6. PICK w \in Nat : w = q * LcUnit
          BY <3>5
        <3>7. d = w + m
          BY <3>3, <3>5, <3>6
        <3>8. w <= d /\ d <= w + LcUnit
          BY <1>4, <3>7
        <3>9. n = q
          BY <3>1, <3>3
        <3>10. QED
          BY <3>5, <3>6, <3>8, <3>9
      <2>2. CASE ~ (d > LcUnit)
        <3>1. n = 0
          BY <1>1, <1>6, <2>2 DEF Moves
        <3>2. n * LcUnit = 0
          BY <1>4, <3>1
        <3>3. QED
          BY <1>4, <2>2, <3>1, <3>2
      <2>3. QED
        BY <2>1, <2>2
    <1>8. PICK w \in Nat : w = n * LcUnit
      BY <1>7
    <1>9. start = lcStart + w /\ start \in Nat /\ start <= now /\ now <= start + LcUnit
      BY <1>2, <1>3, <1>4, <1>5, <1>7, <1>8
    <1>10. GoodRing(r.grid, r.at, r.sum, lcStart + n * LcUnit, lcAdmitted) /\ r.sum <= lcSum
      <2>1. GoodRing(lcGrid, lcAt, lcSum, lcStart, lcAdmitted)
        BY DEF AskedAt
      <2>2. QED
        BY <1>2, <1>7, <2>1, ShiftKeepsRing, Zenon
    <1>11. GoodRing(r.grid, r.at, r.sum, start, lcAdmitted) /\ r.sum <= lcSum
      BY <1>2, <1>10, Zenon
    <1>12. start \in LcTimes /\ start <= lcClock
      BY <1>3, <1>9, LcAssumption DEF LcTimes
    <1>13. FreshBut(r.sum, now, lcAdmitted)
      <2>1. PICK R : RingOf(R, r.grid, r.at, r.sum, start, lcAdmitted)
        BY <1>11 DEF GoodRing
      <2>2. R[LcNum] = r.sum /\ Gone(R, start, lcAdmitted)
        BY <2>1 DEF RingOf, RingIs
      <2>3. ASSUME NEW i \in 1..Len(lcAdmitted), i <= Len(lcAdmitted) - r.sum
            PROVE  lcAdmitted[i] + LcTotal <= now + LcUnit
        <3>1. lcAdmitted[i] + LcTotal <= start + LcUnit
          BY <2>2, <2>3 DEF Gone
        <3>2. PICK x \in Nat : x = lcAdmitted[i]
          BY <1>3, LogReadings
        <3>3. x + LcTotal <= now + LcUnit
          BY <1>3, <1>4, <1>9, <3>1, <3>2
        <3>4. QED
          BY <3>2, <3>3
      <2>4. QED
        BY <2>3, Zenon DEF FreshBut
    <1>14. QED
      BY <1>1, <1>9, <1>11, <1>12, <1>13, <1>3, Zenon DEF UpdatedAt

\* No grid holds more than the sum.
LEMMA GridInSum ==
    ASSUME NEW S, NEW grid \in [LcGrids -> Nat], NEW sum, SumIs(S, grid, sum), NEW g \in LcGrids
    PROVE  grid[g] <= sum
    <1>1. LcNum \in Nat /\ LcNum >= 1 /\ g \in Nat /\ g < LcNum /\ grid[g] \in Nat
      BY RingSpans DEF LcGrids
    <1>2. PICK x \in Nat : x = grid[g]
      BY <1>1
    <1>3. S[0] = 0 /\ S[LcNum] = sum /\ \A k \in 0..LcNum : S[k] \in Int
      BY DEF SumIs
    <1> DEFINE Fine(k) == S[k] >= 0 /\ (k > g => S[k] >= x)
               Bad == {k \in Nat : k \in 0..LcNum /\ ~ Fine(k)}
    <1>4. ASSUME Bad # {}
          PROVE  FALSE
      <2>1. PICK k \in Bad : \A y \in Bad : k <= y
        BY <1>4, LeastElement
      <2>2. k \in Nat /\ k \in 0..LcNum /\ ~ Fine(k)
        BY <2>1
      <2>3. k # 0
        BY <1>1, <1>3, <2>2
      <2>4. k - 1 \in Nat /\ k - 1 \in 0..LcNum /\ k - 1 < k /\ k \in 1..LcNum /\ k - 1 \in LcGrids
        BY <1>1, <2>2, <2>3 DEF LcGrids
      <2>5. k - 1 \notin Bad
        BY <2>1, <2>4
      <2>6. Fine(k - 1)
        BY <2>4, <2>5
      <2>7. S[k] = S[k - 1] + grid[k - 1] /\ S[k - 1] \in Int /\ grid[k - 1] \in Nat
        BY <1>3, <2>4 DEF SumIs
      <2>8. PICK a \in Int, b \in Nat : a = S[k - 1] /\ b = grid[k - 1] /\ S[k] = a + b
        BY <2>7
      <2>9. a >= 0 /\ (k - 1 > g => a >= x)
        BY <2>6, <2>8
      <2>10. k - 1 = g => b = x
        BY <1>2, <2>8
      <2>11. a + b >= 0 /\ (k > g => a + b >= x)
        BY <1>1, <2>2, <2>9, <2>10
      <2>12. QED
        BY <2>2, <2>8, <2>11
    <1>5. LcNum \notin Bad
      BY <1>4
    <1>6. LcNum \in 0..LcNum /\ LcNum > g
      BY <1>1
    <1>7. Fine(LcNum)
      BY <1>1, <1>5, <1>6
    <1>8. QED
      BY <1>2, <1>3, <1>6, <1>7

\* The sum of the grids is computed by the only solution of its equation.
LEMMA SumOfIs ==
    ASSUME NEW S, NEW grid \in [LcGrids -> Nat], NEW sum, SumIs(S, grid, sum)
    PROVE  SumOf(grid) = sum
    <1>1. LcNum \in Nat /\ LcNum >= 1
      BY RingSpans
    <1>2. \E f : f = [n \in 0..LcNum |-> IF n = 0 THEN 0 ELSE f[n - 1] + grid[n - 1]]
      <2>1. S = [n \in 0..LcNum |-> S[n]]
        BY DEF SumIs
      <2>2. ASSUME NEW n \in 0..LcNum
            PROVE  S[n] = IF n = 0 THEN 0 ELSE S[n - 1] + grid[n - 1]
        <3>1. CASE n = 0
          BY <3>1 DEF SumIs
        <3>2. CASE n # 0
          <4>1. n \in 1..LcNum
            BY <1>1, <3>2
          <4>2. QED
            BY <3>2, <4>1 DEF SumIs
        <3>3. QED
          BY <3>1, <3>2
      <2>3. S = [n \in 0..LcNum |-> IF n = 0 THEN 0 ELSE S[n - 1] + grid[n - 1]]
        BY <2>1, <2>2, Zenon
      <2>4. QED
        BY <2>3, Zenon
    <1>3. PICK f : f = CHOOSE h : h = [n \in 0..LcNum |-> IF n = 0 THEN 0 ELSE h[n - 1] + grid[n - 1]]
      OBVIOUS
    <1>4. f = [n \in 0..LcNum |-> IF n = 0 THEN 0 ELSE f[n - 1] + grid[n - 1]]
      BY <1>2, <1>3, Zenon
    <1>5. SumOf(grid) = f[LcNum]
      BY <1>3, Zenon DEF SumOf
    <1>6. \A n \in 0..LcNum : f[n] = IF n = 0 THEN 0 ELSE f[n - 1] + grid[n - 1]
      BY <1>4, Zenon
    <1> DEFINE Bad == {k \in Nat : k \in 0..LcNum /\ f[k] # S[k]}
    <1>7. ASSUME Bad # {}
          PROVE  FALSE
      <2>1. PICK k \in Bad : \A y \in Bad : k <= y
        BY <1>7, LeastElement
      <2>2. k \in Nat /\ k \in 0..LcNum /\ f[k] # S[k]
        BY <2>1
      <2>3. k # 0
        <3>1. f[0] = 0
          BY <1>1, <1>6
        <3>2. S[0] = 0
          BY DEF SumIs
        <3>3. QED
          BY <2>2, <3>1, <3>2
      <2>4. k - 1 \in Nat /\ k - 1 \in 0..LcNum /\ k - 1 < k /\ k \in 1..LcNum
        BY <1>1, <2>2, <2>3
      <2>5. f[k - 1] = S[k - 1]
        <3>1. k - 1 \notin Bad
          BY <2>1, <2>4
        <3>2. QED
          BY <2>4, <3>1
      <2>6. f[k] = f[k - 1] + grid[k - 1]
        BY <1>6, <2>2, <2>3
      <2>7. S[k] = S[k - 1] + grid[k - 1]
        BY <2>4 DEF SumIs
      <2>8. QED
        BY <2>2, <2>5, <2>6, <2>7
    <1>8. f[LcNum] = S[LcNum]
      <2>1. LcNum \notin Bad /\ LcNum \in 0..LcNum
        BY <1>1, <1>7
      <2>2. QED
        BY <1>1, <2>1
    <1>9. QED
      BY <1>5, <1>8 DEF SumIs

-----------------------------------------------------------------------------
\* The requests of a log that were admitted with readings from one time to another.
WindowOf(log, from, to) == {i \in DOMAIN log : from <= log[i] /\ log[i] <= to}
LimitIn(log) == \A t \in LcTimes : Cardinality(WindowOf(log, t, t + LcTotal - LcUnit - 1)) <= LcMax + 1
RefusedIn(log, now) == now # NoCall => Cardinality(WindowOf(log, now - LcNum * LcUnit, now)) >= LcMax

\* A window is a finite set of places in the log.
LEMMA WindowFinite ==
    ASSUME NEW log \in Seq(LcTimes), NEW from, NEW to
    PROVE  /\ IsFiniteSet(WindowOf(log, from, to)) /\ WindowOf(log, from, to) \subseteq 1..Len(log)
           /\ Cardinality(WindowOf(log, from, to)) \in Nat
    <1>1. WindowOf(log, from, to) \subseteq 1..Len(log)
      BY DEF WindowOf
    <1>2. Len(log) \in Nat
      OBVIOUS
    <1>3. IsFiniteSet(1..Len(log))
      BY <1>2, FS_Interval
    <1>4. IsFiniteSet(WindowOf(log, from, to))
      BY <1>1, <1>3, FS_Subset
    <1>5. QED
      BY <1>1, <1>4, FS_CardinalityType

\* A request is admitted.
LEMMA LimitStays ==
    ASSUME NEW log \in Seq(LcTimes), NEW sum \in Nat, sum <= Len(log), sum <= LcMax, NEW now \in LcTimes,
           FreshBut(sum, now, log), LimitIn(log), NEW longer, longer = Append(log, now)
    PROVE  LimitIn(longer)
    <1>1. LcMax \in Nat /\ LcTotal \in Nat /\ LcUnit \in Nat /\ now \in Nat
      BY LcAssumption DEF LcTimes
    <1>2. PICK N \in Nat : N = Len(log)
      OBVIOUS
    <1>3. Len(longer) = N + 1 /\ longer[N + 1] = now /\ DOMAIN longer = 1..(N + 1) /\ \A i \in 1..N : longer[i] = log[i]
      BY <1>2
    <1>4. ASSUME NEW t \in LcTimes
          PROVE  Cardinality(WindowOf(longer, t, t + LcTotal - LcUnit - 1)) <= LcMax + 1
      <2>1. PICK to \in Int : to = t + LcTotal - LcUnit - 1
        BY <1>1 DEF LcTimes
      <2>2. t \in Nat
        BY DEF LcTimes
      <2>3. CASE t <= now /\ now <= to
        <3>1. ASSUME NEW i \in WindowOf(longer, t, to)
              PROVE  i \in (N - sum + 1)..(N + 1)
          <4>1. i \in 1..(N + 1) /\ t <= longer[i] /\ longer[i] <= to
            BY <1>3 DEF WindowOf
          <4>2. CASE i = N + 1
            BY <4>2
          <4>3. CASE i # N + 1
            <5>1. i \in 1..N /\ longer[i] = log[i]
              BY <1>3, <4>1, <4>3
            <5>2. PICK x \in Nat : x = log[i]
              BY <1>2, <5>1, LogReadings
            <5>3. ~ (i <= N - sum)
              <6>1. ASSUME i <= N - sum
                    PROVE  FALSE
                <7>1. log[i] + LcTotal <= now + LcUnit
                  BY <1>2, <5>1, <6>1 DEF FreshBut
                <7>2. x + LcTotal <= now + LcUnit /\ t <= x
                  BY <4>1, <5>1, <5>2, <7>1
                <7>3. QED
                  BY <1>1, <2>1, <2>2, <2>3, <7>2
              <6>2. QED
                BY <6>1
            <5>4. QED
              BY <5>1, <5>3
          <4>4. QED
            BY <4>2, <4>3
        <3>2. PICK a \in Int, b \in Int : a = N - sum + 1 /\ b = N + 1
          OBVIOUS
        <3>3. IsFiniteSet(a..b) /\ Cardinality(a..b) = IF a > b THEN 0 ELSE b - a + 1
          BY FS_Interval
        <3>4. WindowOf(longer, t, to) \subseteq a..b
          BY <3>1, <3>2
        <3>5. Cardinality(WindowOf(longer, t, to)) <= Cardinality(a..b)
          BY <3>3, <3>4, FS_Subset
        <3>6. Cardinality(a..b) = sum + 1
          BY <3>2, <3>3
        <3>7. longer \in Seq(LcTimes)
          OBVIOUS
        <3>8. PICK n \in Nat : n = Cardinality(WindowOf(longer, t, to))
          BY <3>7, WindowFinite
        <3>9. n <= LcMax + 1
          BY <1>1, <3>5, <3>6, <3>8
        <3>10. QED
          BY <2>1, <3>8, <3>9
      <2>4. CASE ~ (t <= now /\ now <= to)
        <3>1. WindowOf(longer, t, to) = WindowOf(log, t, to)
          <4>1. ASSUME NEW i \in WindowOf(longer, t, to)
                PROVE  i \in WindowOf(log, t, to)
            <5>1. i \in 1..(N + 1) /\ t <= longer[i] /\ longer[i] <= to
              BY <1>3 DEF WindowOf
            <5>2. i # N + 1
              BY <1>3, <2>4, <5>1
            <5>3. i \in 1..N /\ i \in DOMAIN log
              BY <1>2, <5>1, <5>2
            <5>4. QED
              BY <1>3, <5>1, <5>3 DEF WindowOf
          <4>2. ASSUME NEW i \in WindowOf(log, t, to)
                PROVE  i \in WindowOf(longer, t, to)
            <5>1. i \in 1..N /\ t <= log[i] /\ log[i] <= to
              BY <1>2 DEF WindowOf
            <5>2. i \in 1..(N + 1)
              BY <5>1
            <5>3. QED
              BY <1>3, <5>1, <5>2 DEF WindowOf
          <4>3. QED
            BY <4>1, <4>2
        <3>2. Cardinality(WindowOf(log, t, to)) <= LcMax + 1
          BY <2>1 DEF LimitIn
        <3>3. QED
          BY <2>1, <3>1, <3>2
      <2>5. QED
        BY <2>3, <2>4
    <1>5. QED
      BY <1>4, Zenon DEF LimitIn

\* A request is refused.
LEMMA RefusalStays ==
    ASSUME NEW grid, NEW at, NEW sum, NEW start, NEW log, GoodRing(grid, at, sum, start, log), sum > LcMax,
           NEW now \in LcTimes, now <= start + LcUnit, \A i \in 1..Len(log) : log[i] <= now
    PROVE  RefusedIn(log, now)
    <1>1. LcMax \in Nat /\ LcMax >= 1 /\ LcTotal \in Nat /\ LcUnit \in Nat /\ now \in Nat /\ LcNum \in Nat /\ LcNum >= 1
      BY LcAssumption, RingSpans DEF LcTimes
    <1>2. start \in Nat /\ log \in Seq(LcTimes) /\ sum \in Nat /\ sum <= Len(log)
      BY DEF GoodRing
    <1>3. PICK R : RingOf(R, grid, at, sum, start, log)
      BY DEF GoodRing
    <1>4. R[LcNum] = sum /\ Newer(R, start, log)
      BY <1>3 DEF RingOf, RingIs
    <1>5. PICK N \in Nat : N = Len(log)
      BY <1>2
    <1>6. PICK w \in Nat, from \in Int : w = LcNum * LcUnit /\ from = now - w
      BY <1>1, RingSpans
    <1>7. ASSUME NEW i \in (N - sum + 2)..N
          PROVE  i \in WindowOf(log, from, now)
      <2>1. i \in 1..N /\ i > N - sum /\ i > N - sum + 1
        BY <1>2, <1>5
      <2>2. LcNum \in 1..LcNum /\ i \in 1..Len(log) /\ i > Len(log) - R[LcNum] /\ i > Len(log) - R[LcNum] + 1
        BY <1>1, <1>4, <1>5, <2>1
      <2>3. log[i] + LcNum * LcUnit >= start + LcUnit
        BY <1>4, <2>2 DEF Newer
      <2>4. PICK x \in Nat : x = log[i]
        BY <1>2, <2>2, LogReadings
      <2>5. x + w >= start + LcUnit
        BY <1>6, <2>3, <2>4
      <2>6. from <= x
        BY <1>1, <1>2, <1>6, <2>5
      <2>7. x <= now
        BY <2>2, <2>4
      <2>8. i \in DOMAIN log
        BY <1>2, <2>2
      <2>9. QED
        BY <2>4, <2>6, <2>7, <2>8 DEF WindowOf
    <1>8. PICK a \in Int, b \in Int : a = N - sum + 2 /\ b = N
      BY <1>2
    <1>9. Cardinality(a..b) = IF a > b THEN 0 ELSE b - a + 1
      BY FS_Interval
    <1>10. a..b \subseteq WindowOf(log, from, now)
      BY <1>7, <1>8
    <1>11. IsFiniteSet(WindowOf(log, from, now)) /\ Cardinality(WindowOf(log, from, now)) \in Nat
      BY <1>2, WindowFinite
    <1>12. Cardinality(a..b) <= Cardinality(WindowOf(log, from, now))
      BY <1>10, <1>11, FS_Subset
    <1>13. Cardinality(a..b) = sum - 1
      BY <1>1, <1>2, <1>8, <1>9
    <1>14. PICK n \in Nat : n = Cardinality(WindowOf(log, from, now))
      BY <1>11
    <1>15. n >= LcMax
      BY <1>1, <1>2, <1>12, <1>13, <1>14
    <1>16. QED
      BY <1>6, <1>14, <1>15 DEF RefusedIn

\* The conditions: one caller, and no request comes so late that the time since
\* start_time_ does not fit an int.
OneCaller == \A c, d \in LcCallers : c = d
NoWrap == \A c \in LcCallers : lcNow[c] # NoCall => lcNow[c] - lcStart < LcWrap \div 2

\* The inductive invariant: the ring is good, and a caller that is about to ask has
\* read the clock after start_time_ and after every request that was admitted.
InTime(log, time) == \A i \in 1..Len(log) : log[i] <= time
ClocksAgree == /\ lcClock \in LcTimes /\ lcStart \in LcTimes /\ lcStart <= lcClock
               /\ InTime(lcAdmitted, lcClock)
AskersAgree == /\ lcNow \in [LcCallers -> LcTimes \cup {NoCall}]
               /\ \A c \in LcCallers : lcNow[c] # NoCall =>
                      lcStart <= lcNow[c] /\ lcNow[c] <= lcClock /\ InTime(lcAdmitted, lcNow[c])
LcInv == /\ ClocksAgree /\ AskersAgree
         /\ GoodRing(lcGrid, lcAt, lcSum, lcStart, lcAdmitted) /\ lcSum <= LcMax + 1
         /\ lcRefused \in LcTimes \cup {NoCall}
         /\ LimitIn(lcAdmitted) /\ RefusedIn(lcAdmitted, lcRefused)

\* The constants of the invariant.
LEMMA LcNumbers ==
    /\ LcMax \in Nat /\ LcMax >= 1 /\ LcMaxTime \in Nat /\ 0 \in LcTimes /\ NoCall \notin LcTimes
    /\ \A t \in LcTimes : t \in Nat
    BY LcAssumption DEF LcTimes, NoCall

\* It holds in the beginning.
LEMMA LcInvInit ==
    ASSUME LcInit
    PROVE  LcInv
    <1>1. /\ lcClock = 0 /\ lcStart = 0 /\ lcGrid = [g \in LcGrids |-> 0] /\ lcAt = 0 /\ lcSum = 0
          /\ lcNow = [c \in LcCallers |-> NoCall] /\ lcAdmitted = <<>> /\ lcRefused = NoCall
      BY DEF LcInit
    <1>2. lcAdmitted \in Seq(LcTimes) /\ Len(lcAdmitted) = 0 /\ DOMAIN lcAdmitted = {}
      BY <1>1
    <1>3. GoodRing(lcGrid, lcAt, lcSum, lcStart, lcAdmitted)
      <2>1. PICK grid, log, start : grid = [g \in LcGrids |-> 0] /\ log = lcAdmitted /\ start = 0
        OBVIOUS
      <2>2. start \in Nat /\ log \in Seq(LcTimes) /\ \A i \in 1..Len(log) : log[i] + LcTotal <= start + LcUnit
        BY <1>2, <2>1
      <2>3. GoodRing(grid, 0, 0, start, log)
        BY <2>1, <2>2, EmptyRing
      <2>4. QED
        BY <1>1, <2>1, <2>3, Zenon
    <1>4. ClocksAgree
      BY <1>1, <1>2, LcNumbers DEF ClocksAgree, InTime
    <1>5. AskersAgree
      BY <1>1 DEF AskersAgree
    <1>6. LimitIn(lcAdmitted)
      <2>1. ASSUME NEW t \in LcTimes
            PROVE  Cardinality(WindowOf(lcAdmitted, t, t + LcTotal - LcUnit - 1)) <= LcMax + 1
        <3>1. WindowOf(lcAdmitted, t, t + LcTotal - LcUnit - 1) = {}
          BY <1>2 DEF WindowOf
        <3>2. Cardinality({}) = 0
          BY FS_EmptySet
        <3>3. QED
          BY <3>1, <3>2, LcNumbers
      <2>2. QED
        BY <2>1, Zenon DEF LimitIn
    <1>7. RefusedIn(lcAdmitted, lcRefused)
      BY <1>1 DEF RefusedIn
    <1>8. lcSum <= LcMax + 1 /\ lcRefused \in LcTimes \cup {NoCall}
      BY <1>1, LcNumbers
    <1>9. QED
      BY <1>3, <1>4, <1>5, <1>6, <1>7, <1>8 DEF LcInv

\* The clock moves.
LEMMA LcTickKeeps ==
    ASSUME LcInv, LcTick
    PROVE  LcInv'
    <1>1. /\ lcClock < LcMaxTime /\ lcClock' = lcClock + 1 /\ lcStart' = lcStart /\ lcGrid' = lcGrid /\ lcAt' = lcAt
          /\ lcSum' = lcSum /\ lcNow' = lcNow /\ lcAdmitted' = lcAdmitted /\ lcRefused' = lcRefused
      BY DEF LcTick
    <1>2. lcClock' \in LcTimes /\ lcClock \in Nat /\ lcStart \in Nat
      BY <1>1, LcNumbers DEF LcInv, ClocksAgree, LcTimes
    <1>3. lcAdmitted \in Seq(LcTimes)
      BY DEF LcInv, GoodRing
    <1>4. ClocksAgree'
      <2>1. ASSUME NEW i \in 1..Len(lcAdmitted)
            PROVE  lcAdmitted[i] <= lcClock + 1
        <3>1. lcAdmitted[i] <= lcClock
          BY DEF LcInv, ClocksAgree, InTime
        <3>2. PICK x \in Nat : x = lcAdmitted[i]
          BY <1>3, LogReadings
        <3>3. QED
          BY <1>2, <3>1, <3>2
      <2>2. InTime(lcAdmitted', lcClock')
        BY <1>1, <2>1 DEF InTime
      <2>3. lcStart' \in LcTimes /\ lcStart' <= lcClock'
        BY <1>1, <1>2 DEF LcInv, ClocksAgree
      <2>4. QED
        BY <1>2, <2>2, <2>3 DEF ClocksAgree
    <1>5. AskersAgree'
      <2>1. ASSUME NEW c \in LcCallers, lcNow[c] # NoCall
            PROVE  lcStart <= lcNow[c] /\ lcNow[c] <= lcClock + 1 /\ InTime(lcAdmitted, lcNow[c])
        <3>1. lcStart <= lcNow[c] /\ lcNow[c] <= lcClock /\ InTime(lcAdmitted, lcNow[c]) /\ lcNow[c] \in LcTimes
          BY <2>1 DEF LcInv, AskersAgree
        <3>2. QED
          BY <1>2, <3>1, LcNumbers
      <2>2. lcNow \in [LcCallers -> LcTimes \cup {NoCall}]
        BY DEF LcInv, AskersAgree
      <2>3. QED
        BY <1>1, <2>1, <2>2 DEF AskersAgree
    <1>6. GoodRing(lcGrid, lcAt, lcSum, lcStart, lcAdmitted)' /\ lcSum' <= LcMax + 1
      BY <1>1 DEF LcInv
    <1>7. lcRefused' \in LcTimes \cup {NoCall} /\ LimitIn(lcAdmitted') /\ RefusedIn(lcAdmitted', lcRefused')
      BY <1>1 DEF LcInv
    <1>8. QED
      BY <1>4, <1>5, <1>6, <1>7 DEF LcInv

\* A caller reads the clock.
LEMMA LcAskKeeps ==
    ASSUME LcInv, NEW c \in LcCallers, LcAsk(c)
    PROVE  LcInv'
    <1>1. /\ lcNow' = [lcNow EXCEPT ![c] = lcClock] /\ lcClock' = lcClock /\ lcStart' = lcStart /\ lcGrid' = lcGrid
          /\ lcAt' = lcAt /\ lcSum' = lcSum /\ lcAdmitted' = lcAdmitted /\ lcRefused' = lcRefused
      BY DEF LcAsk
    <1>2. lcClock \in LcTimes /\ lcClock \in Nat /\ lcStart <= lcClock /\ InTime(lcAdmitted, lcClock)
      BY LcNumbers DEF LcInv, ClocksAgree
    <1>3. lcNow \in [LcCallers -> LcTimes \cup {NoCall}]
      BY DEF LcInv, AskersAgree
    <1>4. ClocksAgree'
      BY <1>1 DEF LcInv, ClocksAgree
    <1>5. AskersAgree'
      <2>1. lcNow' \in [LcCallers -> LcTimes \cup {NoCall}]
        BY <1>1, <1>2, <1>3
      <2>2. ASSUME NEW d \in LcCallers, lcNow'[d] # NoCall
            PROVE  lcStart <= lcNow'[d] /\ lcNow'[d] <= lcClock /\ InTime(lcAdmitted, lcNow'[d])
        <3>1. CASE d = c
          <4>1. lcNow'[d] = lcClock
            BY <1>1, <1>3, <3>1
          <4>2. lcClock <= lcClock
            BY <1>2
          <4>3. QED
            BY <1>2, <4>1, <4>2
        <3>2. CASE d # c
          <4>1. lcNow'[d] = lcNow[d]
            BY <1>1, <1>3, <3>2
          <4>2. QED
            BY <2>2, <4>1 DEF LcInv, AskersAgree
        <3>3. QED
          BY <3>1, <3>2
      <2>3. QED
        BY <1>1, <2>1, <2>2 DEF AskersAgree
    <1>6. GoodRing(lcGrid, lcAt, lcSum, lcStart, lcAdmitted)' /\ lcSum' <= LcMax + 1
      BY <1>1 DEF LcInv
    <1>7. lcRefused' \in LcTimes \cup {NoCall} /\ LimitIn(lcAdmitted') /\ RefusedIn(lcAdmitted', lcRefused')
      BY <1>1 DEF LcInv
    <1>8. QED
      BY <1>4, <1>5, <1>6, <1>7 DEF LcInv

\* A request is checked.
LEMMA CheckFlowKeeps ==
    ASSUME OneCaller, LcInv, NoWrap, NEW c \in LcCallers, CheckFlow(c)
    PROVE  LcInv'
    <1>1. PICK now, r, start : now = lcNow[c] /\ r = UpdateGrids(now) /\ start = StartAfter(now)
      OBVIOUS
    <1>2. /\ now # NoCall /\ lcStart' = start /\ lcAt' = r.at /\ lcClock' = lcClock
          /\ lcGrid' = (IF r.sum > LcMax THEN r.grid ELSE [r.grid EXCEPT ![r.at] = @ + 1])
          /\ lcSum' = (IF r.sum > LcMax THEN r.sum ELSE r.sum + 1)
          /\ lcAdmitted' = (IF r.sum > LcMax THEN lcAdmitted ELSE Append(lcAdmitted, now))
          /\ lcRefused' = (IF r.sum > LcMax THEN now ELSE NoCall)
          /\ lcNow' = [lcNow EXCEPT ![c] = NoCall]
      BY <1>1, Zenon DEF CheckFlow
    <1>3. /\ lcNow \in [LcCallers -> LcTimes \cup {NoCall}] /\ now \in LcTimes /\ now \in Nat
          /\ lcStart <= now /\ now <= lcClock /\ InTime(lcAdmitted, now)
      <2>1. lcNow \in [LcCallers -> LcTimes \cup {NoCall}]
        BY DEF LcInv, AskersAgree
      <2>2. now \in LcTimes
        BY <1>1, <1>2, <2>1
      <2>3. lcStart <= now /\ now <= lcClock /\ InTime(lcAdmitted, now)
        BY <1>1, <1>2 DEF LcInv, AskersAgree
      <2>4. QED
        BY <2>1, <2>2, <2>3, LcNumbers
    <1>4. /\ GoodRing(lcGrid, lcAt, lcSum, lcStart, lcAdmitted) /\ lcSum <= LcMax + 1 /\ lcSum \in Nat
          /\ lcClock \in LcTimes /\ lcClock \in Nat /\ lcAdmitted \in Seq(LcTimes)
          /\ InTime(lcAdmitted, lcClock) /\ LimitIn(lcAdmitted)
      BY LcNumbers DEF LcInv, ClocksAgree, GoodRing
    <1>5. AskedAt(now)
      BY <1>1, <1>2, <1>3, <1>4 DEF AskedAt, NoWrap
    <1>6. UpdatedAt(now, r, start)
      BY <1>1, <1>5, RestartKeeps, MovesKeep, Zenon
    <1>7. /\ GoodRing(r.grid, r.at, r.sum, start, lcAdmitted) /\ r.sum <= lcSum
          /\ start \in LcTimes /\ start <= lcClock /\ now <= start + LcUnit /\ (now >= start \/ r.sum = 0)
          /\ FreshBut(r.sum, now, lcAdmitted)
      BY <1>6, Zenon DEF UpdatedAt
    <1>8. r.sum \in Nat /\ r.sum <= Len(lcAdmitted)
      BY <1>7 DEF GoodRing
    <1>9. AskersAgree'
      <2>1. \A d \in LcCallers : lcNow'[d] = NoCall
        BY <1>2, <1>3 DEF OneCaller
      <2>2. lcNow' \in [LcCallers -> LcTimes \cup {NoCall}]
        BY <1>2, <1>3
      <2>3. QED
        BY <2>1, <2>2 DEF AskersAgree
    <1>10. CASE r.sum > LcMax
      <2>1. /\ lcGrid' = r.grid /\ lcSum' = r.sum /\ lcAdmitted' = lcAdmitted /\ lcRefused' = now
        BY <1>2, <1>10
      <2>2. ClocksAgree'
        BY <1>2, <1>4, <1>7, <2>1 DEF ClocksAgree
      <2>3. GoodRing(lcGrid', lcAt', lcSum', lcStart', lcAdmitted')
        BY <1>2, <1>7, <2>1, Zenon
      <2>4. lcSum' <= LcMax + 1
        BY <1>4, <1>7, <1>8, <2>1, LcNumbers
      <2>5. RefusedIn(lcAdmitted', lcRefused')
        <3>1. \A i \in 1..Len(lcAdmitted) : lcAdmitted[i] <= now
          BY <1>3 DEF InTime
        <3>2. PICK grid, at, sum, log : grid = r.grid /\ at = r.at /\ sum = r.sum /\ log = lcAdmitted
          OBVIOUS
        <3>3. GoodRing(grid, at, sum, start, log) /\ sum > LcMax /\ \A i \in 1..Len(log) : log[i] <= now
          BY <1>7, <1>10, <3>1, <3>2
        <3>4. RefusedIn(log, now)
          BY <1>3, <1>7, <3>3, RefusalStays
        <3>5. QED
          BY <2>1, <3>2, <3>4
      <2>6. lcRefused' \in LcTimes \cup {NoCall} /\ LimitIn(lcAdmitted')
        BY <1>3, <1>4, <2>1
      <2>7. QED
        BY <1>9, <2>2, <2>3, <2>4, <2>5, <2>6 DEF LcInv
    <1>11. CASE ~ (r.sum > LcMax)
      <2>1. /\ lcGrid' = [r.grid EXCEPT ![r.at] = @ + 1] /\ lcSum' = r.sum + 1
            /\ lcAdmitted' = Append(lcAdmitted, now) /\ lcRefused' = NoCall
        BY <1>2, <1>11
      <2>2. PICK grid, at, sum, log, new, longer : /\ grid = r.grid /\ at = r.at /\ sum = r.sum /\ log = lcAdmitted
                                                   /\ new = [grid EXCEPT ![at] = @ + 1] /\ longer = Append(log, now)
        OBVIOUS
      <2>3. sum \in Nat /\ sum <= LcMax /\ sum <= Len(log) /\ log \in Seq(LcTimes)
        BY <1>4, <1>8, <1>11, <2>2, LcNumbers
      <2>4. GoodRing(new, at, sum + 1, start, longer)
        <3>1. CountedAt(grid, at, sum, start, log, now, new, longer)
          BY <1>3, <1>7, <2>2, Zenon DEF CountedAt
        <3>2. QED
          BY <3>1, CountKeepsRing, Zenon
      <2>5. GoodRing(lcGrid', lcAt', lcSum', lcStart', lcAdmitted')
        BY <1>2, <2>1, <2>2, <2>4, Zenon
      <2>6. InTime(lcAdmitted', lcClock')
        <3>1. PICK N \in Nat : N = Len(log)
          BY <2>3
        <3>2. Len(longer) = N + 1 /\ longer[N + 1] = now /\ \A i \in 1..N : longer[i] = log[i]
          BY <1>3, <2>2, <2>3, <3>1
        <3>3. ASSUME NEW i \in 1..(N + 1)
              PROVE  longer[i] <= lcClock
          <4>1. CASE i = N + 1
            BY <1>3, <3>2, <4>1
          <4>2. CASE i # N + 1
            <5>1. i \in 1..N
              BY <4>2
            <5>2. log[i] <= lcClock
              BY <1>4, <2>2, <3>1, <5>1 DEF InTime
            <5>3. QED
              BY <3>2, <5>1, <5>2
          <4>3. QED
            BY <4>1, <4>2
        <3>4. InTime(longer, lcClock)
          BY <3>2, <3>3 DEF InTime
        <3>5. QED
          BY <1>2, <2>1, <2>2, <3>4, Zenon
      <2>7. ClocksAgree'
        BY <1>2, <1>4, <1>7, <2>6 DEF ClocksAgree
      <2>8. LimitIn(lcAdmitted')
        <3>1. FreshBut(sum, now, log) /\ LimitIn(log)
          BY <1>4, <1>7, <2>2, Zenon
        <3>2. LimitIn(longer)
          BY <1>3, <2>2, <2>3, <3>1, LimitStays
        <3>3. QED
          BY <2>1, <2>2, <3>2, Zenon
      <2>9. RefusedIn(lcAdmitted', lcRefused')
        BY <2>1 DEF RefusedIn
      <2>10. lcSum' <= LcMax + 1
        BY <2>1, <2>2, <2>3, LcNumbers
      <2>11. QED
        BY <1>9, <2>1, <2>5, <2>7, <2>8, <2>9, <2>10 DEF LcInv
    <1>12. QED
      BY <1>10, <1>11

\* The invariant is what the property asks for.
LEMMA LcInvShows ==
    ASSUME LcInv
    PROVE  FlowWindow
    <1>1. /\ lcGrid \in [LcGrids -> Nat] /\ lcAt \in LcGrids /\ lcSum \in Nat /\ lcSum <= LcMax + 1
          /\ lcAdmitted \in Seq(LcTimes)
      BY DEF LcInv, GoodRing
    <1>2. PICK S : SumIs(S, lcGrid, lcSum)
      BY DEF LcInv, GoodRing
    <1>3. lcSum = SumOf(lcGrid)
      BY <1>1, <1>2, SumOfIs
    <1>4. ASSUME NEW g \in LcGrids
          PROVE  lcGrid[g] \in 0..(LcMax + 1)
      <2>1. lcGrid[g] <= lcSum
        BY <1>1, <1>2, GridInSum
      <2>2. PICK x \in Nat : x = lcGrid[g]
        BY <1>1
      <2>3. QED
        BY <1>1, <2>1, <2>2, LcNumbers
    <1>5. lcGrid \in [LcGrids -> 0..(LcMax + 1)]
      BY <1>1, <1>4
    <1>6. lcSum \in 0..(LcMax + 1)
      BY <1>1, LcNumbers
    <1>7. LcTypeOK
      BY <1>1, <1>5, <1>6 DEF LcInv, ClocksAgree, AskersAgree, LcTypeOK
    <1>8. ASSUME NEW t \in LcTimes
          PROVE  AdmittedIn(t, t + LcTotal - LcUnit - 1) <= LcMax + 1
      BY Zenon DEF LcInv, LimitIn, AdmittedIn, WindowOf
    <1>9. lcRefused # NoCall => AdmittedIn(lcRefused - LcNum * LcUnit, lcRefused) >= LcMax
      BY Zenon DEF LcInv, RefusedIn, AdmittedIn, WindowOf
    <1>10. QED
      BY <1>3, <1>7, <1>8, <1>9, Zenon DEF FlowWindow

\* The invariant is kept by every step.
LEMMA LcInvStep ==
    ASSUME OneCaller, LcInv, NoWrap, [LcNext]_lcVars
    PROVE  LcInv'
    <1>1. CASE LcTick
      BY <1>1, LcTickKeeps
    <1>2. ASSUME NEW c \in LcCallers, LcAsk(c)
          PROVE  LcInv'
      BY <1>2, LcAskKeeps
    <1>3. ASSUME NEW c \in LcCallers, CheckFlow(c)
          PROVE  LcInv'
      BY <1>3, CheckFlowKeeps
    <1>4. CASE UNCHANGED lcVars
      <2>1. /\ lcClock' = lcClock /\ lcStart' = lcStart /\ lcGrid' = lcGrid /\ lcAt' = lcAt /\ lcSum' = lcSum
            /\ lcNow' = lcNow /\ lcAdmitted' = lcAdmitted /\ lcRefused' = lcRefused
        BY <1>4 DEF lcVars
      <2>2. QED
        BY <2>1 DEF LcInv, ClocksAgree, AskersAgree
    <1>5. QED
      BY <1>1, <1>2, <1>3, <1>4 DEF LcNext

\* A server whose only worker asks the flow control, at least once while the time
\* since start_time_ fits an int, never admits more than LcMax + 1 requests in a
\* stretch of the span less one grid, refuses none unless LcMax were admitted in the
\* span, and keeps the running sum equal to the grids: for every unit, span and limit.
THEOREM FlowStaysBounded ==
    ASSUME OneCaller
    PROVE  LcSpec /\ []NoWrap => []FlowWindow
    <1>1. LcInit => LcInv
      BY LcInvInit
    <1>2. LcInv /\ NoWrap /\ [LcNext]_lcVars => LcInv'
      BY LcInvStep
    <1>3. LcInv => FlowWindow
      BY LcInvShows
    <1>4. QED
      BY <1>1, <1>2, <1>3, PTL DEF LcSpec

=============================================================================
