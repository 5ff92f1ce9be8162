--------------------------- MODULE AgentSessions ---------------------------
(***************************************************************************)
(* The sessions of the agent web server: SessionStore over LevelDB and the *)
(* worker threads that answer a chat, regenerate an answer and maintain    *)
(* the rolling summary.  A store operation holds mu_ to its end, so it is  *)
(* one step; a request is several, and the steps of the other workers fall *)
(* between them.  LevelDB takes the writes of an operation one by one: a   *)
(* crash leaves the first of them, and no worker.                          *)
(*                                                                         *)
(* One session is modelled: the keys of two sessions are disjoint and an   *)
(* id is never used again.  A message is known by its request and its role.*)
(* A summary is the set of the messages it tells of.                       *)
(***************************************************************************)
EXTENDS Integers, FiniteSets

CONSTANTS AgWorkers,
          AgMaxReqs,   \* chats and regenerations
          AgTimes,     \* what NowMs may return, in any order
          AgTrigger,   \* kSummaryTriggerMsgs
          AgKeep       \* kKeepRecentMsgs

\* The window kept verbatim is at least as long as the run of answers that
\* concurrent regenerations may still delete, one for each worker.
ASSUME AgAssumption == /\ AgMaxReqs \in Nat /\ AgTrigger \in Nat /\ AgKeep \in Nat
                       /\ IsFiniteSet(AgWorkers)
                       /\ Cardinality(AgWorkers) <= AgKeep /\ AgKeep <= AgTrigger

VARIABLES agMeta,     \* sess:meta:{id}
          agIdx,      \* the times of the sess:idx:{inv_updated}:{id} keys
          agMsgs,     \* msg:{id}:{seq}
          agSum,      \* summary:{id}
          agW,        \* the workers
          agReqs,     \* requests accepted
          agCreated, agCrashed

agVars == <<agMeta, agIdx, agMsgs, agSum, agW, agReqs, agCreated, agCrashed>>

Seqs == 0..(2 * AgMaxReqs - 1)
Messages == (1..AgMaxReqs) \X {"user", "assistant"}
NoMsg == <<0, "none">>
NoMeta == [count |-> -1, updated |-> -1]
NoSummary == [covered |-> 0, ids |-> {}]
Exists == agMeta # NoMeta
StoredIn(seqs) == {agMsgs[i] : i \in {j \in seqs : agMsgs[j] # NoMsg}}

AgIdle == [pc |-> "idle", req |-> 0, chat |-> FALSE, first |-> FALSE, answered |-> FALSE,
           count |-> 0, sum |-> NoSummary, msgs |-> {}]

AgInit == /\ agMeta = NoMeta /\ agIdx = {} /\ agSum = NoSummary
          /\ agMsgs = [i \in Seqs |-> NoMsg]
          /\ agW = [w \in AgWorkers |-> AgIdle]
          /\ agReqs = 0 /\ agCreated = FALSE /\ agCrashed = FALSE

-----------------------------------------------------------------------------
\* Worker w goes on as next when all of the operation's writes are done; a crash
\* after n of them restarts the server.
Continue(w, next, n, all) ==
    /\ n < all => ~agCrashed
    /\ agCrashed' = (agCrashed \/ n < all)
    /\ agW' = IF n < all THEN [x \in AgWorkers |-> AgIdle] ELSE [agW EXCEPT ![w] = next]

\* The first n writes of PutSessionLocked: the old index entry is deleted, the
\* meta data put, the new index entry put.
PutSessionLocked_KeepsOld(meta, n) ==
    /\ agMeta' = IF n >= 2 THEN meta ELSE agMeta
    /\ agIdx' = agIdx \cup (IF n >= 3 THEN {meta.updated} ELSE {})
PutSessionLocked(meta, n) ==
    /\ agMeta' = IF n >= 2 THEN meta ELSE agMeta
    /\ agIdx' = (agIdx \ (IF n >= 1 THEN {agMeta.updated} ELSE {}))
                  \cup (IF n >= 3 THEN {meta.updated} ELSE {})

\* GetSessionLocked found nothing: the operation returns kNotFound, which the
\* handlers that call it ignore.
NotFound(w, next) == /\ ~Exists
                     /\ Continue(w, next, 0, 0)
                     /\ UNCHANGED <<agMeta, agIdx, agMsgs>>

CreateSession(w) ==
    /\ agW[w].pc = "idle" /\ ~agCreated
    /\ agCreated' = TRUE
    /\ \E now \in AgTimes, n \in 1..3 :
          /\ PutSessionLocked([count |-> 0, updated |-> now], n)
          /\ Continue(w, AgIdle, n, 3)
    /\ UNCHANGED <<agMsgs, agSum, agReqs>>

PatchSession(w, next) ==
    \/ NotFound(w, next)
    \/ /\ Exists
       /\ \E now \in AgTimes, n \in 0..3 :
             /\ PutSessionLocked([agMeta EXCEPT !.updated = now], n)
             /\ Continue(w, next, n, 3)
       /\ UNCHANGED agMsgs

AppendMessage(w, role, next) ==
    \/ NotFound(w, next)
    \/ /\ Exists
       /\ \E now \in AgTimes, n \in 0..4 :
             /\ agMsgs' = IF n >= 1 THEN [agMsgs EXCEPT ![agMeta.count] = <<agW[w].req, role>>]
                                    ELSE agMsgs
             /\ PutSessionLocked([count |-> agMeta.count + 1, updated |-> now], n - 1)
             /\ Continue(w, next, n, 4)

DeleteLastAssistant(w, next) ==
    \/ NotFound(w, next)
    \/ LET last == agMeta.count - 1
           found == Exists /\ last >= 0 /\ agMsgs[last][2] = "assistant"
       IN  \/ /\ Exists /\ ~found
              /\ Continue(w, next, 0, 0)
              /\ UNCHANGED <<agMeta, agIdx, agMsgs>>
           \/ /\ found
              /\ \E now \in AgTimes, n \in 0..4 :
                    /\ agMsgs' = IF n >= 1 THEN [agMsgs EXCEPT ![last] = NoMsg] ELSE agMsgs
                    /\ PutSessionLocked([count |-> last, updated |-> now], n - 1)
                    /\ Continue(w, next, n, 4)

\* HandleSessionDelete: the index entry, the meta data and the summary are deleted,
\* then every message in the order of its seq.  Without meta data only the messages.
DeleteSession(w) ==
    /\ agW[w].pc = "idle"
    /\ LET seqs == {i \in Seqs : agMsgs[i] # NoMsg}
           head == IF Exists THEN 3 ELSE 0
           all == head + Cardinality(seqs)
           before(i) == head + Cardinality({j \in seqs : j < i})
       IN  /\ all > 0
           /\ \E n \in 0..all :
                 /\ agIdx' = IF Exists /\ n >= 1 THEN agIdx \ {agMeta.updated} ELSE agIdx
                 /\ agMeta' = IF Exists /\ n >= 2 THEN NoMeta ELSE agMeta
                 /\ agSum' = IF Exists /\ n >= 3 THEN NoSummary ELSE agSum
                 /\ agMsgs' = [i \in Seqs |-> IF before(i) < n THEN NoMsg ELSE agMsgs[i]]
                 /\ Continue(w, AgIdle, n, all)
    /\ UNCHANGED <<agReqs, agCreated>>

HandleSessionPatch(w) ==
    /\ agW[w].pc = "idle" /\ Exists
    /\ PatchSession(w, AgIdle)
    /\ UNCHANGED <<agSum, agReqs, agCreated>>

-----------------------------------------------------------------------------
\* HandleSessionChat and HandleSessionRegenerate first look the session up; they
\* answer 404 when it is not there.
Accept(w, chat) ==
    /\ agW[w].pc = "idle" /\ Exists /\ agReqs < AgMaxReqs
    /\ agReqs' = agReqs + 1
    /\ agW' = [agW EXCEPT ![w] = [pc |-> IF chat THEN "patch" ELSE "regenerate", req |-> agReqs + 1,
                                  chat |-> chat, first |-> chat /\ agMeta.count = 0,
                                  answered |-> FALSE, count |-> 0, sum |-> NoSummary, msgs |-> {}]]
    /\ UNCHANGED <<agMeta, agIdx, agMsgs, agSum, agCreated, agCrashed>>

At(w, pc) == agW[w].pc = pc
Then(w, pc) == [agW[w] EXCEPT !.pc = pc]

RememberModel(w) == At(w, "patch") /\ PatchSession(w, Then(w, "user"))
AppendUser(w) == At(w, "user") /\ AppendMessage(w, "user", Then(w, "summary"))
Regenerate(w) == At(w, "regenerate") /\ DeleteLastAssistant(w, Then(w, "summary"))

GetSummary(w) ==
    /\ At(w, "summary")
    /\ agW' = [agW EXCEPT ![w] = [Then(w, "history") EXCEPT !.sum = agSum]]

\* The messages that are not told by the summary go to the model verbatim, after
\* the summary.  There is nothing to regenerate in an empty session.
History_SkipsOne(w) == agW[w].sum.ids \cup StoredIn({i \in Seqs : i > agW[w].sum.covered})
History(w) == agW[w].sum.ids \cup StoredIn({i \in Seqs : i >= agW[w].sum.covered})
GetMessages(w) ==
    /\ At(w, "history")
    /\ agW' = [agW EXCEPT ![w] = IF ~agW[w].chat /\ StoredIn(Seqs) = {} THEN AgIdle
                                 ELSE [Then(w, "reply") EXCEPT !.sum = NoSummary, !.msgs = History(w)]]

\* StreamSessionReply: a call of the model that produces no text stores nothing and
\* is not followed by maintenance.  The first turn sets the title.
AfterReply(w, answered) ==
    IF agW[w].first \/ answered
      THEN [Then(w, IF agW[w].first THEN "title" ELSE "maintain")
              EXCEPT !.msgs = {}, !.answered = answered]
      ELSE AgIdle
Answered(w) == At(w, "reply") /\ AppendMessage(w, "assistant", AfterReply(w, TRUE))
Unanswered(w) == /\ At(w, "reply")
                 /\ agW' = [agW EXCEPT ![w] = AfterReply(w, FALSE)]
SetTitle(w) ==
    At(w, "title") /\ PatchSession(w, IF agW[w].answered THEN Then(w, "maintain") ELSE AgIdle)

\* RunRollingSummary.
NewCovered_All(w) == agW[w].count
NewCovered(w) == agW[w].count - AgKeep
MaintainSession(w) ==
    /\ At(w, "maintain")
    /\ agW' = [agW EXCEPT ![w] = IF Exists /\ agMeta.count > AgTrigger
                                 THEN [Then(w, "covered") EXCEPT !.count = agMeta.count]
                                 ELSE AgIdle]
MaintainSummary(w) ==
    /\ At(w, "covered")
    /\ agW' = [agW EXCEPT ![w] = IF NewCovered(w) > agSum.covered
                                 THEN [Then(w, "window") EXCEPT !.sum = agSum]
                                 ELSE AgIdle]
MaintainWindow(w) ==
    /\ At(w, "window")
    /\ LET window == StoredIn({i \in Seqs : agW[w].sum.covered <= i /\ i < NewCovered(w)})
       IN  agW' = [agW EXCEPT ![w] = IF window # {} THEN [Then(w, "put") EXCEPT !.msgs = window]
                                     ELSE AgIdle]
\* PutSummary does not look whether the session is still there.
PutSummary(w) ==
    /\ At(w, "put")
    /\ agSum' = [covered |-> NewCovered(w), ids |-> agW[w].sum.ids \cup agW[w].msgs]
    /\ agW' = [agW EXCEPT ![w] = AgIdle]
SummarizeFails(w) == At(w, "put") /\ agW' = [agW EXCEPT ![w] = AgIdle]

StoreSteps(w) == RememberModel(w) \/ AppendUser(w) \/ Regenerate(w) \/ Answered(w) \/ SetTitle(w)
ReadSteps(w) == \/ GetSummary(w) \/ GetMessages(w) \/ Unanswered(w) \/ MaintainSession(w)
                \/ MaintainSummary(w) \/ MaintainWindow(w) \/ SummarizeFails(w)

AgNext == \E w \in AgWorkers :
    \/ CreateSession(w)
    \/ DeleteSession(w)
    \/ HandleSessionPatch(w)
    \/ \E chat \in BOOLEAN : Accept(w, chat)
    \/ StoreSteps(w) /\ UNCHANGED <<agSum, agReqs, agCreated>>
    \/ ReadSteps(w) /\ UNCHANGED <<agMeta, agIdx, agMsgs, agSum, agReqs, agCreated, agCrashed>>
    \/ PutSummary(w) /\ UNCHANGED <<agMeta, agIdx, agMsgs, agReqs, agCreated, agCrashed>>

AgSpec == AgInit /\ [][AgNext]_agVars

-----------------------------------------------------------------------------
AgPcs == {"idle", "patch", "user", "regenerate", "summary", "history", "reply", "title",
          "maintain", "covered", "window", "put"}
Summaries == [covered : 0..(2 * AgMaxReqs), ids : SUBSET Messages]

\* Every variable keeps its type.
AgTypeOK ==
    /\ agMeta \in [count : 0..(2 * AgMaxReqs), updated : AgTimes] \cup {NoMeta}
    /\ agIdx \subseteq AgTimes
    /\ agMsgs \in [Seqs -> Messages \cup {NoMsg}]
    /\ agSum \in Summaries
    /\ \A w \in AgWorkers : /\ agW[w].pc \in AgPcs /\ agW[w].req \in 0..AgMaxReqs
                            /\ agW[w].sum \in Summaries /\ agW[w].msgs \subseteq Messages
    /\ agReqs \in 0..AgMaxReqs /\ agCreated \in BOOLEAN /\ agCrashed \in BOOLEAN

\* The summary of a session tells of exactly the stored messages below covered_seq:
\* none is told that a regeneration has deleted since, and none is left out, although
\* the session, the summary and the messages are read under three locks, two workers
\* may summarise at once and covered_seq may go back.
SummaryExact ==
    Exists => agSum.ids = StoredIn({i \in Seqs : i < agSum.covered})

\* What goes to the model with a question, the summary and the messages from
\* covered_seq on, is the whole of the stored conversation, although a summary may be
\* put between the two reads.
ContextComplete ==
    [][\A w \in AgWorkers :
          (At(w, "history") /\ agW'[w].pc = "reply" /\ Exists) => agW'[w].msgs = StoredIn(Seqs)]_agVars

\* The index never refers to a session that is gone nor to a time that is not its
\* updated_ms, wherever a crash cut an operation; and a server that has not crashed
\* lists every session once and has stored exactly msg_count messages.
StoreConsistent ==
    /\ AgTypeOK
    /\ agIdx \subseteq (IF Exists THEN {agMeta.updated} ELSE {})
    /\ (Exists /\ ~agCrashed) => /\ agIdx = {agMeta.updated}
                                 /\ \A i \in Seqs : (agMsgs[i] # NoMsg) <=> i < agMeta.count

-----------------------------------------------------------------------------
\* What does not hold.  A crash between the two writes of the index hides a session
\* from ListSessions until it is written again.
Listed == Exists => agIdx = {agMeta.updated}

\* A summary put after the session was deleted stays for ever.
NoOrphanSummary == (agCreated /\ ~Exists /\ ~agCrashed) => agSum = NoSummary

=============================================================================
