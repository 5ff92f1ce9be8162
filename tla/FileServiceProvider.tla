------------------------ MODULE FileServiceProvider ------------------------
(***************************************************************************)
(* Service discovery from a file: FileServiceProvider, whose background    *)
(* thread compares the file's mtime and hands the new instance lists to    *)
(* the watchers, and ServiceManager::RegisterService, which resolves once  *)
(* and then watches.                                                       *)
(*                                                                         *)
(* The file maps every service to its instance list.  A list is a number,  *)
(* larger for a later edit; 0 stands for a line that is missing or does    *)
(* not parse (kNotFound).  Time is in seconds, the unit of st_mtime.       *)
(***************************************************************************)
EXTENDS Integers, FiniteSets

CONSTANTS
  Services,
  Poller,           \* the thread that Start creates
  Callers,          \* other threads, which call CheckAndReload(true)
  MaxEdits,         \* bound: edits of the file, writing it first included
  MaxClock,         \* bound: seconds that pass
  MaxStatErrors,    \* bound: failures of stat
  MaxLoadErrors,    \* bound: failures of Config::LoadFile
  SameSecond,       \* may two edits carry the same mtime?
  LateRegister,     \* may RegisterService run beside the background thread?
  ConcurrentReload  \* may two threads be in CheckAndReload at once?

ASSUME BoundsAssumption ==
  /\ MaxEdits \in Nat \ {0}
  /\ {MaxClock, MaxStatErrors, MaxLoadErrors} \subseteq Nat
  /\ {SameSecond, LateRegister, ConcurrentReload} \subseteq BOOLEAN
ASSUME PollerAssumption == Poller \notin Callers

VARIABLES
  file,       \* the list of every service in the file
  edits,      \* edits so far
  mtime,      \* st_mtime of the file
  clock,
  statErrors, loadErrors,
  lastMtime,  \* last_mtime_
  watchers,   \* watchers_
  running,    \* running_
  pc,         \* control state of a thread in CheckAndReload
  seen,       \* its mtime
  conf,       \* its conf
  todo,       \* the part of its snapshot still to be called back
  reg,        \* control state of RegisterService for a service
  found,      \* what its Resolve returned
  list        \* the list ServiceManager holds, 0 for none

fileVars == <<file, edits, mtime>>
errVars == <<statErrors, loadErrors>>
provVars == <<lastMtime, watchers, running>>
threadVars == <<pc, seen, conf, todo>>
regVars == <<reg, found>>
vars == <<fileVars, clock, errVars, provVars, threadVars, regVars, list>>

Threads == {Poller} \cup Callers
Empty == [s \in Services |-> 0]
\* A configuration: for each service the edit that wrote its list, or 0 when
\* ParseEndpoints finds no valid instance in it.
Lists == [Services -> 0..MaxEdits]

\* Where a thread is when it is not in CheckAndReload: the background thread
\* sleeps between two polls and is "off" when it does not exist.
Rest(r) == IF r = Poller THEN "sleep" ELSE "off"
AtRest(r) == pc[r] \in {"off", "sleep"}

Init ==
  /\ file \in [Services -> {0, 1}]
  /\ edits = 1
  /\ mtime = 1
  /\ clock = 1
  /\ statErrors = 0 /\ loadErrors = 0
  /\ lastMtime = 0
  /\ watchers = {}
  /\ running = FALSE
  /\ pc = [r \in Threads |-> "off"]
  /\ seen = [r \in Threads |-> 0]
  /\ conf = [r \in Threads |-> Empty]
  /\ todo = [r \in Threads |-> {}]
  /\ reg = [s \in Services |-> "none"]
  /\ found = Empty
  /\ list = Empty

-----------------------------------------------------------------------------
\* The operator

\* A line is replaced or made invalid.
Edit(s, v) ==
  /\ edits < MaxEdits
  /\ SameSecond \/ mtime < clock
  /\ v \in {0, edits + 1}
  /\ file' = [file EXCEPT ![s] = v]
  /\ edits' = edits + 1
  /\ mtime' = clock
  /\ UNCHANGED <<clock, errVars, provVars, threadVars, regVars, list>>

ClockTick ==
  /\ clock < MaxClock
  /\ clock' = clock + 1
  /\ UNCHANGED <<fileVars, errVars, provVars, threadVars, regVars, list>>

-----------------------------------------------------------------------------
\* Start, Stop and the background thread

\* Without LateRegister nobody reloads while RegisterService runs, as in main(),
\* which registers the services before it calls Start.
Registering == \E s \in Services : reg[s] \in {"resolve", "merge", "watch"}

\* Stop joins the thread, so a thread that is started again finds the old one
\* gone.
Start ==
  /\ ~ running
  /\ pc[Poller] = "off"
  /\ LateRegister \/ ~ Registering
  /\ running' = TRUE
  /\ pc' = [pc EXCEPT ![Poller] = "sleep"]
  /\ UNCHANGED <<fileVars, clock, errVars, lastMtime, watchers, seen, conf, todo, regVars, list>>

Stop ==
  /\ running
  /\ running' = FALSE
  /\ UNCHANGED <<fileVars, clock, errVars, lastMtime, watchers, threadVars, regVars, list>>

\* ThreadMain leaves its loop.
ThreadExit ==
  /\ pc[Poller] = "sleep"
  /\ ~ running
  /\ pc' = [pc EXCEPT ![Poller] = "off"]
  /\ UNCHANGED <<fileVars, clock, errVars, provVars, seen, conf, todo, regVars, list>>

\* A thread enters CheckAndReload: the background thread after its sleep, any
\* other with force.
CheckAndReload(r) ==
  /\ IF r = Poller THEN pc[r] = "sleep" /\ running ELSE pc[r] = "off"
  /\ ConcurrentReload \/ \A q \in Threads : AtRest(q)
  /\ LateRegister \/ ~ Registering
  /\ pc' = [pc EXCEPT ![r] = "stat"]
  /\ UNCHANGED <<fileVars, clock, errVars, provVars, seen, conf, todo, regVars, list>>

GetFileMtime(r) ==
  /\ pc[r] = "stat"
  /\ seen' = [seen EXCEPT ![r] = mtime]
  /\ pc' = [pc EXCEPT ![r] = "record"]
  /\ UNCHANGED <<fileVars, clock, errVars, provVars, conf, todo, regVars, list>>

StatFailed(r) ==
  /\ pc[r] = "stat"
  /\ statErrors < MaxStatErrors
  /\ statErrors' = statErrors + 1
  /\ pc' = [pc EXCEPT ![r] = Rest(r)]
  /\ UNCHANGED <<fileVars, clock, loadErrors, provVars, seen, conf, todo, regVars, list>>

\* Under mu_: nothing new for the background thread.
Unchanged(r) ==
  /\ pc[r] = "record"
  /\ r = Poller
  /\ seen[r] = lastMtime
  /\ pc' = [pc EXCEPT ![r] = Rest(r)]
  /\ UNCHANGED <<fileVars, clock, errVars, provVars, seen, conf, todo, regVars, list>>

\* Under mu_: the mtime is recorded and the watchers copied.
Snapshot(r) ==
  /\ pc[r] = "record"
  /\ r # Poller \/ seen[r] # lastMtime
  /\ lastMtime' = seen[r]
  /\ todo' = [todo EXCEPT ![r] = watchers]
  /\ pc' = [pc EXCEPT ![r] = "load"]
  /\ UNCHANGED <<fileVars, clock, errVars, watchers, running, seen, conf, regVars, list>>

LoadFile(r) ==
  /\ pc[r] = "load"
  /\ conf' = [conf EXCEPT ![r] = file]
  /\ pc' = [pc EXCEPT ![r] = "callback"]
  /\ UNCHANGED <<fileVars, clock, errVars, provVars, seen, todo, regVars, list>>

\* The reload is given up; last_mtime_ stays as recorded.
LoadFailed(r) ==
  /\ pc[r] = "load"
  /\ loadErrors < MaxLoadErrors
  /\ loadErrors' = loadErrors + 1
  /\ todo' = [todo EXCEPT ![r] = {}]
  /\ pc' = [pc EXCEPT ![r] = Rest(r)]
  /\ UNCHANGED <<fileVars, clock, statErrors, provVars, seen, conf, regVars, list>>

\* Mutant: a service that does not resolve gets an empty list.
Callback_NotResolved(r, s) ==
  /\ pc[r] = "callback"
  /\ s \in todo[r]
  /\ list' = [list EXCEPT ![s] = conf[r][s]]
  /\ todo' = [todo EXCEPT ![r] = @ \ {s}]
  /\ UNCHANGED <<fileVars, clock, errVars, provVars, pc, seen, conf, regVars>>

\* ResolveFromConfig and the callback, OnEndpointsChangedCb; a service that
\* does not resolve keeps its list.
Callback(r, s) ==
  /\ pc[r] = "callback"
  /\ s \in todo[r]
  /\ list' = IF conf[r][s] = 0 THEN list ELSE [list EXCEPT ![s] = conf[r][s]]
  /\ todo' = [todo EXCEPT ![r] = @ \ {s}]
  /\ UNCHANGED <<fileVars, clock, errVars, provVars, pc, seen, conf, regVars>>

\* Mutant: the mtime is recorded at the end, from a second stat.
ReloadDone_StatAgain(r) ==
  /\ pc[r] = "callback"
  /\ todo[r] = {}
  /\ lastMtime' = mtime
  /\ conf' = [conf EXCEPT ![r] = Empty]
  /\ pc' = [pc EXCEPT ![r] = Rest(r)]
  /\ UNCHANGED <<fileVars, clock, errVars, watchers, running, seen, todo, regVars, list>>

ReloadDone(r) ==
  /\ pc[r] = "callback"
  /\ todo[r] = {}
  /\ conf' = [conf EXCEPT ![r] = Empty]
  /\ pc' = [pc EXCEPT ![r] = Rest(r)]
  /\ UNCHANGED <<fileVars, clock, errVars, provVars, seen, todo, regVars, list>>

-----------------------------------------------------------------------------
\* ServiceManager::RegisterService

\* The entry is inserted under map_mu_; a service is registered once.
RegisterService(s) ==
  /\ reg[s] = "none"
  /\ LateRegister \/ \A r \in Threads : pc[r] = "off"
  /\ reg' = [reg EXCEPT ![s] = "resolve"]
  /\ UNCHANGED <<fileVars, clock, errVars, provVars, threadVars, found, list>>

Resolve(s) ==
  /\ reg[s] = "resolve"
  /\ found' = [found EXCEPT ![s] = file[s]]
  /\ reg' = [reg EXCEPT ![s] = IF file[s] = 0 THEN "watch" ELSE "merge"]
  /\ UNCHANGED <<fileVars, clock, errVars, provVars, threadVars, list>>

ResolveFailed(s) ==
  /\ reg[s] = "resolve"
  /\ loadErrors < MaxLoadErrors
  /\ loadErrors' = loadErrors + 1
  /\ reg' = [reg EXCEPT ![s] = "watch"]
  /\ UNCHANGED <<fileVars, clock, statErrors, provVars, threadVars, found, list>>

MergeResolved(s) ==
  /\ reg[s] = "merge"
  /\ list' = [list EXCEPT ![s] = found[s]]
  /\ reg' = [reg EXCEPT ![s] = "watch"]
  /\ UNCHANGED <<fileVars, clock, errVars, provVars, threadVars, found>>

Watch(s) ==
  /\ reg[s] = "watch"
  /\ watchers' = watchers \cup {s}
  /\ reg' = [reg EXCEPT ![s] = "done"]
  /\ UNCHANGED <<fileVars, clock, errVars, lastMtime, running, threadVars, found, list>>

-----------------------------------------------------------------------------
Reload(r) ==
  \/ CheckAndReload(r) \/ GetFileMtime(r) \/ Unchanged(r) \/ Snapshot(r)
  \/ LoadFile(r) \/ ReloadDone(r) \/ \E s \in Services : Callback(r, s)

Register(s) == Resolve(s) \/ MergeResolved(s) \/ Watch(s)

Next ==
  \/ \E s \in Services :
       \/ \E v \in 0..MaxEdits : Edit(s, v)
       \/ RegisterService(s) \/ Resolve(s) \/ ResolveFailed(s) \/ MergeResolved(s) \/ Watch(s)
  \/ ClockTick \/ Start \/ Stop \/ ThreadExit
  \/ \E r \in Threads :
       \/ CheckAndReload(r) \/ GetFileMtime(r) \/ StatFailed(r) \/ Unchanged(r)
       \/ Snapshot(r) \/ LoadFile(r) \/ LoadFailed(r) \/ ReloadDone(r)
       \/ \E s \in Services : Callback(r, s)

Spec == Init /\ [][Next]_vars

\* The background thread polls for ever, a reload and a registration that are
\* under way go on.  Nobody has to edit, stop, call or register, and no error
\* has to happen.
FairSpec ==
  /\ Spec
  /\ WF_vars(Reload(Poller))
  /\ \A r \in Callers : WF_vars(pc[r] # "off" /\ Reload(r))
  /\ \A s \in Services : WF_vars(Register(s))

-----------------------------------------------------------------------------
\* Properties

\* Type invariant; a service is among watchers_ exactly when its
\* RegisterService is through.
TypeOK ==
  /\ file \in Lists /\ edits \in 0..MaxEdits
  /\ clock \in Nat /\ mtime \in 1..clock /\ lastMtime \in 0..mtime
  /\ statErrors \in 0..MaxStatErrors /\ loadErrors \in 0..MaxLoadErrors
  /\ watchers = {s \in Services : reg[s] = "done"}
  /\ running \in BOOLEAN
  /\ pc \in [Threads -> {"off", "sleep", "stat", "record", "load", "callback"}]
  /\ seen \in [Threads -> 0..mtime]
  /\ conf \in [Threads -> Lists]
  /\ todo \in [Threads -> SUBSET Services]
  /\ \A r \in Threads : todo[r] \subseteq watchers
  /\ reg \in [Services -> {"none", "resolve", "merge", "watch", "done"}]
  /\ found \in Lists
  /\ list \in Lists

\* A service never goes back to an older list, and never loses its list, not
\* even when a reload fails in the middle, lines become invalid, or the
\* service is registered while a reload is under way (CheckAndReload and
\* RegisterService).
NeverBackwards == [][\A s \in Services : list'[s] >= list[s]]_list

\* Hot reload: when the background thread stays running and no load of the file
\* fails, the list of every registered service ends up as the file has it,
\* although the file is edited between any two steps of a reload and stat may
\* fail (CheckAndReload, ThreadMain).
UpToDate == \A s \in Services : reg[s] = "done" /\ file[s] # 0 => list[s] = file[s]
HotReload == <>[]running /\ [](loadErrors = 0) => <>[]UpToDate

\* What file_service_provider.h:25 says, without the exception ("a change is
\* loaded and the complete list handed on"): it does not hold when one load
\* fails, because the mtime is recorded before the load.
EveryEditLoaded == <>[]running => <>[]UpToDate
=============================================================================
