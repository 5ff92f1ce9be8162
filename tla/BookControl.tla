---------------------------- MODULE BookControl ----------------------------
(***************************************************************************)
(* The book control service: requests handled by worker threads that keep  *)
(* a cache beside a database, each a server of its own reached through     *)
(* CallBackend.  A request makes up to three calls, and the calls of other *)
(* requests fall between them.                                             *)
(*                                                                         *)
(* A call may fail in three ways that the caller cannot tell apart: it was  *)
(* never executed ("lost"), it was executed and the answer was lost        *)
(* ("executed"), or it is executed after the caller has given up ("late",  *)
(* a request of a connection that the client has closed; see RpcChannel).  *)
(* Values are the numbers of the writes, 0 is no value.                    *)
(***************************************************************************)
EXTENDS Integers, FiniteSets

CONSTANTS BkWorkers, BkBooks, BkMaxWrites

ASSUME BkAssumption == BkMaxWrites \in Nat /\ BkBooks # {}

VARIABLES bkDb,     \* what LevelDB has
          bkCache,  \* what the cache DAO has
          bkPc, bkReq, bkWrites,
          bkLate,   \* calls given up and not executed yet
          bkWhy     \* why the cache may differ from the database

bkVars == <<bkDb, bkCache, bkPc, bkReq, bkWrites, bkLate, bkWhy>>

Ops == {"create", "update", "delete", "get"}
Outcomes == {"ok", "lost", "executed", "late"}
Effects == [to : {"db", "cache"}, book : BkBooks, val : 0..BkMaxWrites]
NoReq == [op |-> "get", book |-> CHOOSE b \in BkBooks : TRUE, val |-> 0]

BkInit == /\ bkDb = [b \in BkBooks |-> 0] /\ bkCache = [b \in BkBooks |-> 0]
          /\ bkPc = [w \in BkWorkers |-> "idle"] /\ bkReq = [w \in BkWorkers |-> NoReq]
          /\ bkWrites = 0
          /\ bkLate = {}
          /\ bkWhy = [b \in BkBooks |-> "fresh"]

-----------------------------------------------------------------------------
Executed(outcome) == outcome \in {"ok", "executed"}
Goto(w, pc) == bkPc' = [bkPc EXCEPT ![w] = pc]

\* What a call does to the two stores and to the calls still under way.
CallBackend(outcome, to, b, v) ==
    /\ bkDb' = IF Executed(outcome) /\ to = "db" THEN [bkDb EXCEPT ![b] = v] ELSE bkDb
    /\ bkCache' = IF Executed(outcome) /\ to = "cache" THEN [bkCache EXCEPT ![b] = v] ELSE bkCache
    /\ bkLate' = IF outcome = "late" THEN bkLate \cup {[to |-> to, book |-> b, val |-> v]} ELSE bkLate

\* Records that the step is the reason why the cache of b is stale, if it is.
Blame(b, why) ==
    bkWhy' = [bkWhy EXCEPT ![b] = IF bkCache'[b] \in {0, bkDb'[b]} THEN "fresh" ELSE why]

\* ControlPbRpcAction dispatches on the request.
BkRequest(w) ==
    /\ bkPc[w] = "idle"
    /\ \E op \in Ops, b \in BkBooks :
          LET writes == op \in {"create", "update"}
          IN  /\ writes => bkWrites < BkMaxWrites
              /\ bkWrites' = IF writes THEN bkWrites + 1 ELSE bkWrites
              /\ bkReq' = [bkReq EXCEPT ![w] = [op |-> op, book |-> b,
                                               val |-> IF writes THEN bkWrites + 1 ELSE 0]]
              /\ Goto(w, IF op = "get" THEN "get_cache" ELSE "db")
    /\ UNCHANGED <<bkDb, bkCache, bkLate, bkWhy>>

\* HandleRead, first call: a hit is the answer, anything else goes on to the
\* database.
GetCache(w) == /\ bkPc[w] = "get_cache"
               /\ \E outcome \in {"ok", "lost"} :
                     IF outcome = "ok" /\ bkCache[bkReq[w].book] # 0 THEN Goto(w, "idle")
                                                                    ELSE Goto(w, "get_db")
               /\ UNCHANGED <<bkDb, bkCache, bkReq, bkWrites, bkLate, bkWhy>>

\* Second call: what was found goes to the client and will be written back.
GetDb(w) == /\ bkPc[w] = "get_db"
            /\ \E outcome \in {"ok", "lost"} :
                  LET found == outcome = "ok" /\ bkDb[bkReq[w].book] # 0
                  IN  /\ bkReq' = IF found THEN [bkReq EXCEPT ![w].val = bkDb[bkReq[w].book]] ELSE bkReq
                      /\ Goto(w, IF found THEN "write_back" ELSE "idle")
            /\ UNCHANGED <<bkDb, bkCache, bkWrites, bkLate, bkWhy>>

\* Third call: the value read before goes into the cache, whatever the
\* database holds now.
WriteBack(w) == LET r == bkReq[w]
                IN  /\ bkPc[w] = "write_back"
                    /\ \E outcome \in Outcomes : CallBackend(outcome, "cache", r.book, r.val)
                    /\ Blame(r.book, "writeback")
                    /\ Goto(w, "idle")
                    /\ UNCHANGED <<bkReq, bkWrites>>

\* HandleCreate: the database only.
CreateDb(w) == LET r == bkReq[w]
               IN  /\ bkPc[w] = "db" /\ r.op = "create"
                   /\ \E outcome \in Outcomes : CallBackend(outcome, "db", r.book, r.val)
                   /\ Blame(r.book, "create")
                   /\ Goto(w, "idle")
                   /\ UNCHANGED <<bkReq, bkWrites>>

\* HandleUpdateOrDelete: the database, and the cache only if that succeeded.
UpdateDb_DeleteKeepsCache(w) ==
    LET r == bkReq[w]
    IN  /\ bkPc[w] = "db" /\ r.op \in {"update", "delete"}
        /\ CallBackend("ok", "db", r.book, r.val)
        /\ Goto(w, IF r.op = "update" THEN "invalidate" ELSE "idle")
        /\ UNCHANGED <<bkWhy, bkReq, bkWrites>>
UpdateDb(w) ==
    LET r == bkReq[w]
    IN  /\ bkPc[w] = "db" /\ r.op \in {"update", "delete"}
        /\ \E outcome \in Outcomes :
              /\ CallBackend(outcome, "db", r.book, r.val)
              /\ IF outcome = "ok" THEN UNCHANGED bkWhy ELSE Blame(r.book, "unknown_write")
              /\ Goto(w, IF outcome = "ok" THEN "invalidate" ELSE "idle")
        /\ UNCHANGED <<bkReq, bkWrites>>

Invalidate(w) == LET r == bkReq[w]
                 IN  /\ bkPc[w] = "invalidate"
                     /\ \E outcome \in Outcomes : CallBackend(outcome, "cache", r.book, 0)
                     /\ Blame(r.book, "lost_invalidation")
                     /\ Goto(w, "idle")
                     /\ UNCHANGED <<bkReq, bkWrites>>

\* A call that its caller has given up reaches the server after all.
LateCall(e) == /\ e \in bkLate
               /\ bkDb' = IF e.to = "db" THEN [bkDb EXCEPT ![e.book] = e.val] ELSE bkDb
               /\ bkCache' = IF e.to = "cache" THEN [bkCache EXCEPT ![e.book] = e.val] ELSE bkCache
               /\ bkLate' = bkLate \ {e}
               /\ Blame(e.book, "late")
               /\ UNCHANGED <<bkPc, bkReq, bkWrites>>

\* The cache drops an entry (its size, the age of the entry, a restart).
Evict(b) == /\ bkCache[b] # 0
            /\ bkCache' = [bkCache EXCEPT ![b] = 0]
            /\ bkWhy' = [bkWhy EXCEPT ![b] = "fresh"]
            /\ UNCHANGED <<bkDb, bkPc, bkReq, bkWrites, bkLate>>

BkNext == \/ \E w \in BkWorkers : \/ BkRequest(w)
                                  \/ GetCache(w) \/ GetDb(w) \/ WriteBack(w)
                                  \/ CreateDb(w) \/ UpdateDb(w) \/ Invalidate(w)
          \/ \E e \in bkLate : LateCall(e)
          \/ \E b \in BkBooks : Evict(b)

BkSpec == BkInit /\ [][BkNext]_bkVars

-----------------------------------------------------------------------------
BkTypeOK == /\ bkDb \in [BkBooks -> 0..BkMaxWrites] /\ bkCache \in [BkBooks -> 0..BkMaxWrites]
            /\ bkPc \in [BkWorkers -> {"idle", "get_cache", "get_db", "write_back", "db", "invalidate"}]
            /\ bkReq \in [BkWorkers -> [op : Ops, book : BkBooks, val : 0..BkMaxWrites]]
            /\ bkWrites \in 0..BkMaxWrites
            /\ bkLate \subseteq Effects
            /\ bkWhy \in [BkBooks -> {"fresh", "writeback", "create", "unknown_write",
                                      "lost_invalidation", "late"}]

StaleBook(b) == bkCache[b] \notin {0, bkDb[b]}
Invalidating(b) == \E w \in BkWorkers : bkPc[w] = "invalidate" /\ bkReq[w].book = b

\* The cache never disagrees with the database except while an update or a
\* delete is about to invalidate it, or for one of the named reasons: a reader
\* wrote back what it had read before a write, a create replaced a book that
\* was cached, or a call failed or came late.  With successful calls, no
\* create over a cached book and no overlapping reader, update and delete
\* leave no stale entry behind.
StaleOnlyForAReason ==
    /\ BkTypeOK
    /\ \A b \in BkBooks : StaleBook(b) => Invalidating(b) \/ bkWhy[b] # "fresh"

\* What the design promises: writes and deletes invalidate the cache, so it
\* agrees with the database whenever no request is at work on the book.
CacheAgreesAtRest == \A b \in BkBooks :
    StaleBook(b) => \E w \in BkWorkers : bkPc[w] # "idle" /\ bkReq[w].book = b
=============================================================================
