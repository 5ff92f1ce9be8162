--------------------- MODULE FileServiceProviderProofs ---------------------
(***************************************************************************)
(* Proofs about FileServiceProvider, for any services, edits, errors and   *)
(* clock: when at most one thread reloads at a time, lists only move       *)
(* forward, although registration and reloading interleave freely.         *)
(***************************************************************************)
EXTENDS FileServiceProvider, TLAPS

-----------------------------------------------------------------------------
\* Types

\* Initially.
LEMMA TypeInit == Init => TypeOK
  <1> SUFFICES ASSUME Init
               PROVE  TypeOK
    OBVIOUS
  <1>1. Empty \in Lists
    BY BoundsAssumption DEF Empty, Lists
  <1>2. file \in Lists
    BY BoundsAssumption DEF Init, Lists
  <1>3. watchers = {s \in Services : reg[s] = "done"}
    BY DEF Init
  <1>4. /\ conf \in [Threads -> Lists] /\ found \in Lists /\ list \in Lists
        /\ \A r \in Threads : todo[r] \subseteq watchers
    BY <1>1 DEF Init
  <1>5. /\ clock \in Nat /\ mtime \in 1..clock /\ lastMtime \in 0..mtime /\ edits \in 0..MaxEdits
        /\ statErrors \in 0..MaxStatErrors /\ loadErrors \in 0..MaxLoadErrors
        /\ seen \in [Threads -> 0..mtime]
    BY BoundsAssumption DEF Init
  <1>6. /\ pc \in [Threads -> {"off", "sleep", "stat", "record", "load", "callback"}]
        /\ todo \in [Threads -> SUBSET Services] /\ running \in BOOLEAN
        /\ reg \in [Services -> {"none", "resolve", "merge", "watch", "done"}]
    BY DEF Init
  <1>7. QED
    BY <1>2, <1>3, <1>4, <1>5, <1>6 DEF TypeOK

\* The steps of the operator, of Start and Stop and of RegisterService.
LEMMA OutsideTypes ==
  ASSUME TypeOK,
         \/ \E s \in Services :
              \/ \E v \in 0..MaxEdits : Edit(s, v)
              \/ RegisterService(s) \/ Resolve(s) \/ ResolveFailed(s) \/ MergeResolved(s) \/ Watch(s)
         \/ ClockTick \/ Start \/ Stop \/ ThreadExit
  PROVE  TypeOK'
  <1> USE BoundsAssumption DEF TypeOK, Lists
  <1>1. ASSUME NEW s \in Services, NEW v \in 0..MaxEdits, Edit(s, v)
        PROVE  TypeOK'
    BY <1>1 DEF Edit, errVars, provVars, threadVars, regVars
  <1>2. ASSUME NEW s \in Services, RegisterService(s) \/ Resolve(s) \/ MergeResolved(s)
        PROVE  TypeOK'
    <2>1. CASE RegisterService(s)
      BY <2>1 DEF RegisterService, fileVars, errVars, provVars, threadVars
    <2>2. CASE Resolve(s)
      BY <2>2 DEF Resolve, fileVars, errVars, provVars, threadVars
    <2>3. CASE MergeResolved(s)
      BY <2>3 DEF MergeResolved, fileVars, errVars, provVars, threadVars
    <2>4. QED
      BY <1>2, <2>1, <2>2, <2>3
  <1>3. ASSUME NEW s \in Services, ResolveFailed(s) \/ Watch(s)
        PROVE  TypeOK'
    <2>1. CASE ResolveFailed(s)
      BY <2>1 DEF ResolveFailed, fileVars, errVars, provVars, threadVars
    <2>2. CASE Watch(s)
      <3>1. /\ reg' = [reg EXCEPT ![s] = "done"] /\ watchers' = watchers \cup {s}
            /\ UNCHANGED <<fileVars, clock, errVars, lastMtime, running, threadVars, found, list>>
        BY <2>2 DEF Watch
      <3>2. watchers' = {q \in Services : reg'[q] = "done"}
        BY <3>1
      <3>3. \A r \in Threads : todo'[r] \subseteq watchers'
        BY <3>1 DEF threadVars
      <3>4. QED
        BY <3>1, <3>2, <3>3 DEF fileVars, errVars, threadVars
    <2>3. QED
      BY <1>3, <2>1, <2>2
  <1>4. CASE ClockTick
    BY <1>4 DEF ClockTick, fileVars, errVars, provVars, threadVars, regVars
  <1>5. CASE Start \/ Stop \/ ThreadExit
    BY <1>5 DEF Start, Stop, ThreadExit, fileVars, errVars, provVars, threadVars, regVars
  <1>6. QED
    BY <1>1, <1>2, <1>3, <1>4, <1>5

\* The steps of CheckAndReload.
LEMMA ReloadTypes ==
  ASSUME TypeOK, NEW r \in Threads,
         \/ CheckAndReload(r) \/ GetFileMtime(r) \/ StatFailed(r) \/ Unchanged(r)
         \/ Snapshot(r) \/ LoadFile(r) \/ LoadFailed(r) \/ ReloadDone(r)
         \/ \E s \in Services : Callback(r, s)
  PROVE  TypeOK'
  <1> USE BoundsAssumption DEF TypeOK, Lists
  <1>1. CASE CheckAndReload(r) \/ Unchanged(r) \/ StatFailed(r)
    <2>1. CASE CheckAndReload(r)
      BY <2>1 DEF CheckAndReload, fileVars, errVars, provVars, regVars
    <2>2. CASE Unchanged(r)
      BY <2>2 DEF Unchanged, Rest, fileVars, errVars, provVars, regVars
    <2>3. CASE StatFailed(r)
      BY <2>3 DEF StatFailed, Rest, fileVars, errVars, provVars, regVars
    <2>4. QED
      BY <1>1, <2>1, <2>2, <2>3
  <1>2. CASE GetFileMtime(r)
    BY <1>2 DEF GetFileMtime, fileVars, errVars, provVars, regVars
  <1>3. CASE Snapshot(r)
    BY <1>3 DEF Snapshot, fileVars, errVars, provVars, regVars
  <1>4. CASE LoadFile(r) \/ ReloadDone(r)
    <2>1. CASE LoadFile(r)
      BY <2>1 DEF LoadFile, fileVars, errVars, provVars, regVars
    <2>2. CASE ReloadDone(r)
      BY <2>2 DEF ReloadDone, Rest, Empty, fileVars, errVars, provVars, regVars
    <2>3. QED
      BY <1>4, <2>1, <2>2
  <1>5. CASE LoadFailed(r)
    BY <1>5 DEF LoadFailed, Rest, fileVars, errVars, provVars, regVars
  <1>6. ASSUME NEW s \in Services, Callback(r, s)
        PROVE  TypeOK'
    BY <1>6 DEF Callback, fileVars, errVars, provVars, regVars
  <1>7. QED
    BY <1>1, <1>2, <1>3, <1>4, <1>5, <1>6

\* The type invariant, and with it that watchers_ are exactly the services whose
\* registration is through.
THEOREM TypeCorrect == Spec => []TypeOK
  <1>1. Init => TypeOK
    BY TypeInit
  <1>2. TypeOK /\ [Next]_vars => TypeOK'
    <2> SUFFICES ASSUME TypeOK, [Next]_vars
                 PROVE  TypeOK'
      OBVIOUS
    <2>1. CASE UNCHANGED vars
      BY <2>1 DEF TypeOK, Lists, vars, fileVars, errVars, provVars, threadVars, regVars
    <2>2. CASE Next
      BY <2>2, OutsideTypes, ReloadTypes DEF Next
    <2>3. QED
      BY <2>1, <2>2
  <1>3. QED
    BY <1>1, <1>2, PTL DEF Spec

-----------------------------------------------------------------------------
\* Lists only move forward

\* At most one thread is in CheckAndReload.
Alone == \A q, r \in Threads : q # r => AtRest(q) \/ AtRest(r)

\* Edits are numbered upwards, and nothing comes from anywhere but the file.
Numbered ==
  /\ \A s \in Services : file[s] <= edits /\ found[s] <= edits /\ list[s] <= edits
  /\ \A r \in Threads, s \in Services : conf[r][s] <= edits

\* List v of service s is no newer than its line in the file.
NotNewer(s, v) == file[s] # 0 => v <= file[s]

\* A service has no list until its registration merged one, and a list that
\* is about to be merged or called back lies between the one it replaces and
\* the one in the file.
Forward ==
  /\ \A s \in Services :
       /\ NotNewer(s, list[s])
       /\ reg[s] \in {"none", "resolve", "merge"} => list[s] = 0
       /\ reg[s] = "merge" => NotNewer(s, found[s])
  /\ \A r \in Threads : pc[r] = "callback" =>
       \A s \in todo[r] : conf[r][s] # 0 => list[s] <= conf[r][s] /\ NotNewer(s, conf[r][s])

Inv == Alone /\ Numbered /\ Forward

\* The guard of the reloads keeps a second reload from starting.
LEMMA AloneStep ==
  ASSUME ~ ConcurrentReload, TypeOK, Alone, [Next]_vars
  PROVE  Alone'
  <1> USE DEF Alone, AtRest
  <1>0. pc \in [Threads -> {"off", "sleep", "stat", "record", "load", "callback"}] /\ Poller \in Threads
    BY DEF TypeOK, Threads
  <1>1. CASE pc' = pc
    BY <1>1
  <1>2. ASSUME NEW r \in Threads, pc' = [pc EXCEPT ![r] = pc'[r]], pc'[r] \in {"off", "sleep"} \/ ~ AtRest(r)
        PROVE  Alone'
    BY <1>0, <1>2
  <1>3. CASE Start
    <2>1. pc' = [pc EXCEPT ![Poller] = pc'[Poller]] /\ pc'[Poller] = "sleep"
      BY <1>0, <1>3 DEF Start
    <2>2. QED
      BY <1>0, <1>2, <2>1
  <1>4. CASE ThreadExit
    <2>1. pc' = [pc EXCEPT ![Poller] = pc'[Poller]] /\ pc'[Poller] = "off"
      BY <1>0, <1>4 DEF ThreadExit
    <2>2. QED
      BY <1>0, <1>2, <2>1
  <1>5. ASSUME NEW r \in Threads, CheckAndReload(r)
        PROVE  Alone'
    BY <1>0, <1>5 DEF CheckAndReload
  <1>6. ASSUME NEW r \in Threads,
               \/ GetFileMtime(r) \/ StatFailed(r) \/ Unchanged(r)
               \/ Snapshot(r) \/ LoadFile(r) \/ LoadFailed(r) \/ ReloadDone(r)
        PROVE  Alone'
    <2>1. pc' = [pc EXCEPT ![r] = pc'[r]] /\ ~ AtRest(r)
      BY <1>0, <1>6 DEF GetFileMtime, StatFailed, Unchanged, Snapshot, LoadFile, LoadFailed, ReloadDone
    <2>2. QED
      BY <1>2, <2>1
  <1>7. ASSUME NEW r \in Threads, NEW s \in Services, Callback(r, s)
        PROVE  Alone'
    BY <1>1, <1>7 DEF Callback
  <1>8. ASSUME NEW s \in Services,
               \/ \E v \in 0..MaxEdits : Edit(s, v)
               \/ RegisterService(s) \/ Resolve(s) \/ ResolveFailed(s) \/ MergeResolved(s) \/ Watch(s)
        PROVE  Alone'
    BY <1>1, <1>8 DEF Edit, RegisterService, Resolve, ResolveFailed, MergeResolved, Watch, threadVars
  <1>9. CASE ClockTick \/ Stop \/ UNCHANGED vars
    BY <1>1, <1>9 DEF ClockTick, Stop, vars, threadVars
  <1>10. QED
    BY <1>3, <1>4, <1>5, <1>6, <1>7, <1>8, <1>9 DEF Next

\* Lists that were read are lists that were written.
LEMMA NumberedStep ==
  ASSUME TypeOK, Numbered, [Next]_vars
  PROVE  Numbered'
  <1>0. /\ edits \in Nat /\ file \in [Services -> Nat] /\ found \in [Services -> Nat]
        /\ list \in [Services -> Nat] /\ conf \in [Threads -> [Services -> Nat]]
    BY BoundsAssumption DEF TypeOK, Lists
  <1> USE DEF Numbered
  <1>1. ASSUME NEW s \in Services, NEW v \in 0..MaxEdits, Edit(s, v)
        PROVE  Numbered'
    BY <1>0, <1>1 DEF Edit, threadVars, regVars
  <1>2. ASSUME NEW s \in Services,
               RegisterService(s) \/ Resolve(s) \/ ResolveFailed(s) \/ MergeResolved(s) \/ Watch(s)
        PROVE  Numbered'
    BY <1>0, <1>2 DEF RegisterService, Resolve, ResolveFailed, MergeResolved, Watch,
                      fileVars, threadVars
  <1>3. ASSUME NEW r \in Threads, NEW s \in Services, Callback(r, s)
        PROVE  Numbered'
    BY <1>0, <1>3 DEF Callback, fileVars, regVars
  <1>4. ASSUME NEW r \in Threads, LoadFile(r) \/ ReloadDone(r)
        PROVE  Numbered'
    BY <1>0, <1>4 DEF LoadFile, ReloadDone, Empty, fileVars, regVars
  <1>5. ASSUME UNCHANGED <<fileVars, conf, found, list>>
        PROVE  Numbered'
    BY <1>5 DEF fileVars
  <1>6. ASSUME NEW r \in Threads,
               \/ CheckAndReload(r) \/ GetFileMtime(r) \/ StatFailed(r) \/ Unchanged(r)
               \/ Snapshot(r) \/ LoadFailed(r)
        PROVE  UNCHANGED <<fileVars, conf, found, list>>
    BY <1>6 DEF CheckAndReload, GetFileMtime, StatFailed, Unchanged, Snapshot, LoadFailed, regVars
  <1>7. ASSUME ClockTick \/ Start \/ Stop \/ ThreadExit \/ UNCHANGED vars
        PROVE  UNCHANGED <<fileVars, conf, found, list>>
    BY <1>7 DEF ClockTick, Start, Stop, ThreadExit, vars, threadVars, regVars
  <1> HIDE DEF Numbered
  <1>8. QED
    BY <1>1, <1>2, <1>3, <1>4, <1>5, <1>6, <1>7 DEF Next

\* A reload in progress is the only one, and only watched services are in it.
LEMMA ForwardStep ==
  ASSUME TypeOK, Alone, Numbered, Forward, [Next]_vars
  PROVE  Forward' /\ \A s \in Services : list'[s] >= list[s]
  <1>0. /\ edits \in Nat /\ file \in [Services -> Nat] /\ found \in [Services -> Nat]
        /\ list \in [Services -> Nat] /\ conf \in [Threads -> [Services -> Nat]]
        /\ reg \in [Services -> {"none", "resolve", "merge", "watch", "done"}]
        /\ pc \in [Threads -> {"off", "sleep", "stat", "record", "load", "callback"}]
        /\ todo \in [Threads -> SUBSET Services]
        /\ \A r \in Threads : \A s \in todo[r] : reg[s] = "done"
    BY BoundsAssumption DEF TypeOK, Lists
  <1> DEFINE Goal == Forward' /\ \A s \in Services : list'[s] >= list[s]
  <1> USE DEF Forward, NotNewer
  <1>1. ASSUME NEW s \in Services, NEW v \in 0..MaxEdits, Edit(s, v)
        PROVE  Goal
    BY <1>0, <1>1 DEF Edit, Numbered, threadVars, regVars
  <1>2. ASSUME NEW s \in Services, RegisterService(s) \/ ResolveFailed(s) \/ Watch(s)
        PROVE  Goal
    BY <1>0, <1>2 DEF RegisterService, ResolveFailed, Watch, fileVars, threadVars
  <1>3. ASSUME NEW s \in Services, Resolve(s)
        PROVE  Goal
    BY <1>0, <1>3 DEF Resolve, fileVars, threadVars
  <1>4. ASSUME NEW s \in Services, MergeResolved(s)
        PROVE  Goal
    BY <1>0, <1>4 DEF MergeResolved, fileVars, threadVars
  <1>5. ASSUME NEW r \in Threads, LoadFile(r)
        PROVE  Goal
    BY <1>0, <1>5 DEF LoadFile, fileVars, regVars
  <1>6. ASSUME NEW r \in Threads, NEW s \in Services, Callback(r, s)
        PROVE  Goal
    <2>1. /\ pc[r] = "callback" /\ s \in todo[r] /\ pc' = pc /\ conf' = conf /\ file' = file
          /\ reg' = reg /\ found' = found
          /\ list' = IF conf[r][s] = 0 THEN list ELSE [list EXCEPT ![s] = conf[r][s]]
          /\ todo' = [todo EXCEPT ![r] = @ \ {s}]
      BY <1>6 DEF Callback, fileVars, regVars
    <2>2. \A q \in Threads \ {r} : pc[q] # "callback"
      BY <2>1 DEF Alone, AtRest
    <2>3. \A q \in Threads : pc'[q] = "callback" => q = r /\ todo'[q] = todo[r] \ {s}
      BY <1>0, <2>1, <2>2
    <2>4. /\ \A t \in Services \ {s} : list'[t] = list[t]
          /\ list'[s] = (IF conf[r][s] = 0 THEN list[s] ELSE conf[r][s])
      BY <1>0, <2>1
    <2>5. \A t \in Services : list'[t] >= list[t] /\ NotNewer(t, list[t])'
      BY <1>0, <2>1, <2>4
    <2>6. \A t \in Services :
            /\ reg'[t] \in {"none", "resolve", "merge"} => list'[t] = 0
            /\ reg'[t] = "merge" => NotNewer(t, found[t])'
      BY <1>0, <2>1, <2>4
    <2>7. \A q \in Threads : pc'[q] = "callback" =>
            \A t \in todo'[q] :
              conf'[q][t] # 0 => list'[t] <= conf'[q][t] /\ NotNewer(t, conf[q][t])'
      BY <1>0, <2>1, <2>3, <2>4
    <2>8. QED
      BY <2>5, <2>6, <2>7
  <1>7. ASSUME NEW r \in Threads,
               \/ CheckAndReload(r) \/ GetFileMtime(r) \/ StatFailed(r) \/ Unchanged(r)
               \/ Snapshot(r) \/ LoadFailed(r) \/ ReloadDone(r)
        PROVE  Goal
    <2>1. /\ UNCHANGED <<file, list, reg, found>> /\ pc' = [pc EXCEPT ![r] = pc'[r]]
          /\ pc'[r] # "callback"
          /\ \A q \in Threads \ {r} : todo'[q] = todo[q] /\ conf'[q] = conf[q]
      BY <1>0, <1>7 DEF CheckAndReload, GetFileMtime, StatFailed, Unchanged, Snapshot, LoadFailed,
                        ReloadDone, Rest, fileVars, regVars
    <2>2. QED
      BY <1>0, <2>1
  <1>8. ASSUME ClockTick \/ Stop \/ UNCHANGED vars
        PROVE  Goal
    BY <1>0, <1>8 DEF ClockTick, Stop, vars, fileVars, threadVars, regVars
  <1>9. ASSUME Start \/ ThreadExit
        PROVE  Goal
    <2>1. /\ UNCHANGED <<file, list, reg, found, todo, conf>> /\ Poller \in Threads
          /\ pc' = [pc EXCEPT ![Poller] = pc'[Poller]] /\ pc'[Poller] # "callback"
      BY <1>0, <1>9 DEF Start, ThreadExit, Threads, fileVars, regVars
    <2>2. QED
      BY <1>0, <2>1
  <1> HIDE DEF Goal
  <1>10. QED
    <2>1. Goal
      BY <1>1, <1>2, <1>3, <1>4, <1>5, <1>6, <1>7, <1>8, <1>9 DEF Next
    <2>2. QED
      BY <2>1 DEF Goal

\* Lists only move forward when at most one thread reloads at a time, whatever
\* is edited, fails or is registered meanwhile.
THEOREM ForwardOnly ==
  ASSUME ~ ConcurrentReload
  PROVE  Spec => NeverBackwards
  <1>1. Init => Inv
    BY BoundsAssumption DEF Init, Inv, Alone, AtRest, Numbered, Forward, NotNewer, Empty
  <1>2. TypeOK /\ Inv /\ [Next]_vars => Inv'
    BY AloneStep, NumberedStep, ForwardStep DEF Inv
  <1>3. TypeOK /\ Inv /\ [Next]_vars => [\A s \in Services : list'[s] >= list[s]]_list
    BY ForwardStep DEF Inv
  <1>4. QED
    BY <1>1, <1>2, <1>3, TypeCorrect, PTL DEF Spec, NeverBackwards
=============================================================================
