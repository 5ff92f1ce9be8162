----------------------------- MODULE Coroutine -----------------------------
(***************************************************************************)
(* base::Dispatch: coroutines that take turns on one stack.  A coroutine   *)
(* that yields keeps a copy of its part of the stack; resuming it copies   *)
(* that part back.  A stack is a sequence of frames from the high end; a   *)
(* frame is its coroutine's name and the value of its locals, and what     *)
(* lies beyond the frames in use is whatever was there before.  The        *)
(* functions of the coroutines call, return, yield and finish at will.     *)
(***************************************************************************)
EXTENDS Integers, Sequences, FiniteSets

CONSTANTS CoIds,     \* ids are 1..CoIds; 0 is kCoroutineDefaultId (2^32 - 1 in the code)
          CoMax,     \* kMaxCoroutines
          CoDepth,   \* bound on the frames of a coroutine
          CoLocals,  \* values of a frame's locals
          CoNested   \* do coroutines resume others, as well as the main context?

ASSUME CoAssumption == /\ CoMax \in Nat /\ CoIds \in Nat /\ CoMax + 1 < CoIds
                       /\ CoDepth \in Nat \ {0} /\ CoNested \in BOOLEAN

VARIABLES coStatus,   \* status_ of the coroutines in coroutines_
          coBackup,   \* their bak_stack_
          coCur,      \* cur_coroutine_id_
          coMain,     \* whose context main_context_ holds: 0 is the main program
          coRunning,  \* who executes: 0 is the main program
          coStack,    \* stack_
          coFrames    \* history: the frames each coroutine has made

coVars == <<coStatus, coBackup, coCur, coMain, coRunning, coStack, coFrames>>

CoExists == DOMAIN coStatus
CoAll == 1..CoIds
Without(f, id) == [j \in DOMAIN f \ {id} |-> f[j]]
With(f, id, x) == [j \in DOMAIN f \cup {id} |-> IF j = id THEN x ELSE f[j]]
CoNothing == <<0, 0>>

CoInit == /\ coStatus = <<>> /\ coBackup = <<>> /\ coFrames = <<>>
          /\ coCur = 0 /\ coMain = 0 /\ coRunning = 0
          /\ coStack = [p \in 1..CoDepth |-> CoNothing]

-----------------------------------------------------------------------------
\* The first free id after the biggest one, past the wrap and over the default id.
GetNewCoroutineId ==
    LET biggest == CHOOSE id \in CoExists : \A j \in CoExists : j <= id
        after(n) == ((biggest - 1 + n) % CoIds) + 1
        steps == CHOOSE n \in CoAll : /\ after(n) \notin CoExists
                                      /\ \A m \in 1..(n - 1) : after(m) \in CoExists
    IN  IF CoExists = {} THEN 1 ELSE after(steps)

\* Anyone may create a coroutine; with more than kMaxCoroutines there it fails.
CreateCoroutine ==
    /\ Cardinality(CoExists) <= CoMax
    /\ LET id == GetNewCoroutineId
       IN  /\ coStatus' = With(coStatus, id, "preparing")
           /\ coBackup' = With(coBackup, id, <<>>)
           /\ coFrames' = With(coFrames, id, <<>>)
    /\ UNCHANGED <<coCur, coMain, coRunning, coStack>>

\* memcpy(stack_ + sizeof(stack_) - bak_stack_.size(), ...)
Restored_Not(id) == coStack
Restored(id) == [p \in 1..CoDepth |-> IF p <= Len(coBackup[id]) THEN coBackup[id][p] ELSE coStack[p]]

\* Other than a prepared or suspended one cannot be resumed (kInvalidStatus).
CoroutineResume(id) ==
    /\ coRunning = 0 \/ CoNested
    /\ id \in CoExists
    /\ coStatus[id] \in {"preparing", "suspending"}
    /\ coStack' = IF coStatus[id] = "suspending" THEN Restored(id) ELSE coStack
    /\ coStatus' = [coStatus EXCEPT ![id] = "running"]
    /\ coCur' = id /\ coMain' = coRunning /\ coRunning' = id
    /\ UNCHANGED <<coBackup, coFrames>>

\* From &cur_coroutine to the end of stack_: the frames that the one who executes
\* has in use.  Without a current coroutine it returns kInvalidCoroutineId.
CoroutineYield ==
    /\ coRunning # 0 /\ coCur # 0
    /\ coBackup' = [coBackup EXCEPT ![coCur] = SubSeq(coStack, 1, Len(coFrames[coRunning]))]
    /\ coStatus' = [coStatus EXCEPT ![coCur] = "suspending"]
    /\ coCur' = 0 /\ coRunning' = coMain
    /\ UNCHANGED <<coMain, coStack, coFrames>>

\* MainFunc, after the coroutine's function has returned: DeleteCurCoroutine.
CoFinish ==
    /\ coRunning # 0 /\ coCur # 0 /\ coFrames[coRunning] = <<>>
    /\ coStatus' = Without(coStatus, coCur)
    /\ coBackup' = Without(coBackup, coCur)
    /\ coFrames' = Without(coFrames, coCur)
    /\ coCur' = 0 /\ coRunning' = coMain
    /\ UNCHANGED <<coMain, coStack>>

\* The coroutine's function calls and returns.
CoCall(x) ==
    /\ coRunning # 0 /\ Len(coFrames[coRunning]) < CoDepth
    /\ coFrames' = [coFrames EXCEPT ![coRunning] = Append(@, <<coRunning, x>>)]
    /\ coStack' = [coStack EXCEPT ![Len(coFrames[coRunning]) + 1] = <<coRunning, x>>]
    /\ UNCHANGED <<coStatus, coBackup, coCur, coMain, coRunning>>

CoReturn ==
    /\ coRunning # 0 /\ coFrames[coRunning] # <<>>
    /\ coFrames' = [coFrames EXCEPT ![coRunning] = SubSeq(@, 1, Len(@) - 1)]
    /\ UNCHANGED <<coStatus, coBackup, coCur, coMain, coRunning, coStack>>

CoNext == \/ CreateCoroutine \/ CoroutineYield \/ CoFinish \/ CoReturn
          \/ \E id \in CoExists : CoroutineResume(id)
          \/ \E x \in CoLocals : CoCall(x)

CoSpec == CoInit /\ [][CoNext]_coVars

-----------------------------------------------------------------------------
CoTypeOK == /\ CoExists \subseteq CoAll
            /\ coStatus \in [CoExists -> {"preparing", "running", "suspending"}]
            /\ DOMAIN coBackup = CoExists /\ DOMAIN coFrames = CoExists
            /\ {coCur, coMain, coRunning} \subseteq CoExists \cup {0}
            /\ Cardinality(CoExists) <= CoMax + 1

\* Whoever executes is the current coroutine and finds its own frames on the stack
\* they share, whatever ran and was deleted since it yielded (Dispatch::
\* CoroutineResume, CoroutineYield, DeleteCurCoroutine).  It needs that only
\* the main program resumes: see CoNested.
StackIntact ==
    /\ CoTypeOK
    /\ coCur = coRunning
    /\ \A id \in CoExists : coStatus[id] = "running" <=> id = coRunning
    /\ coRunning # 0 => \A p \in DOMAIN coFrames[coRunning] : coStack[p] = coFrames[coRunning][p]

=============================================================================
