----------------------------- MODULE BitCaskDB -----------------------------
(***************************************************************************)
(* store::BitCaskDB: an index in memory over append-only data files.       *)
(* bcFiles[n] is the data file with the n-th suffix, a sequence of records *)
(* or of fragments of records that were not written to the end; the last   *)
(* file is the one written to.  A crash loses the index, the next Init     *)
(* rebuilds it from the files, the newest file first, keeping for each key *)
(* the record with the latest time.                                        *)
(*                                                                         *)
(* BcOutcomes are the ways an append may end: complete and acknowledged    *)
(* ("ok"), refused by the file system with nothing written ("failed"),     *)
(* cut by a crash after ("after") or before ("before") the record is on    *)
(* disk, or with only a part of its head ("head") or of its body ("body")  *)
(* on disk.                                                                *)
(***************************************************************************)
EXTENDS Integers, Sequences, FiniteSets, SequencesExt

CONSTANTS BcKeys, BcValues, BcNoValue,
          BcFileCap,   \* kSingleFileSize, in records
          BcMaxFiles,  \* kMaxFilesNum
          BcMaxTime,   \* bound on the clock
          BcOutcomes

ASSUME BcAssumption == /\ BcFileCap \in Nat \ {0} /\ BcMaxFiles \in Nat \ {0}
                       /\ BcMaxTime \in Nat
                       /\ BcNoValue \notin BcValues
                       /\ BcOutcomes \subseteq {"ok", "failed", "before", "after", "head", "body"}

VARIABLES bcFiles,
          bcUp,      \* the process runs and Init succeeded
          bcIndex,   \* index_: where the current record of a key is, and a copy of its head
          bcUsed,    \* info_.used_cnt
          bcFerror,  \* files whose stream has its error flag set
          bcClock    \* the wall clock, which may be set back

bcVars == <<bcFiles, bcUp, bcIndex, bcUsed, bcFerror, bcClock>>

Record == [key : BcKeys, val : BcValues \cup {BcNoValue}, del : BOOLEAN,
           time : 0..BcMaxTime, ver : Nat]
Fragment == [torn : {"head", "body"}]
IsFragment(e) == "torn" \in DOMAIN e

NoBucket == [file |-> 0, pos |-> 0, del |-> TRUE, time |-> -1, ver |-> 0]
Bucket(n, i, e) == [file |-> n, pos |-> i, del |-> e.del, time |-> e.time, ver |-> e.ver]
Indexed(k) == bcIndex[k].file > 0

-----------------------------------------------------------------------------
\* CheckValueIsNew: strictly later, by seconds and nanoseconds.
CheckValueIsNew(time, old) == time > old

\* One record read during recovery, at position i of file n, replaces what the
\* index has for its key if there is nothing or it is newer; used_cnt follows.
ReadRecord(acc, n, i, e) ==
    LET old == acc.index[e.key]
        isNew == old.file = 0 \/ CheckValueIsNew(e.time, old.time)
    IN  IF ~isNew THEN acc
        ELSE [index |-> [acc.index EXCEPT ![e.key] = Bucket(n, i, e)],
              used |-> acc.used + (IF old.del /\ ~e.del THEN 1 ELSE 0)
                                - (IF ~old.del /\ e.del THEN 1 ELSE 0)]

\* A file can be read to its end: a fragment of a head at the very end counts
\* as the end of the file, any other fragment is an error.
FileReadable(f) == \A i \in DOMAIN f :
                      IsFragment(f[i]) => f[i].torn = "head" /\ i = Len(f)

\* The records of a file in their order; a fragment at the end is not one.
OpenAndReadFile(n, acc) ==
    LET read[i \in 0..Len(bcFiles[n])] ==
            IF i = 0 THEN acc
            ELSE IF IsFragment(bcFiles[n][i]) THEN read[i - 1]
            ELSE ReadRecord(read[i - 1], n, i, bcFiles[n][i])
    IN  read[Len(bcFiles[n])]

\* The newest file first.
OpenAndReadFiles ==
    LET opened[m \in 0..Len(bcFiles)] ==
            IF m = 0 THEN [index |-> [k \in BcKeys |-> NoBucket], used |-> 0]
            ELSE OpenAndReadFile(Len(bcFiles) + 1 - m, opened[m - 1])
    IN  opened[Len(bcFiles)]

\* Init on an empty directory has created the first file.
BcInit == /\ bcFiles = <<<<>>>>
          /\ bcUp = TRUE
          /\ bcIndex = [k \in BcKeys |-> NoBucket]
          /\ bcUsed = 0
          /\ bcFerror = {}
          /\ bcClock = 0

\* Init after a crash or a Destroy; it fails, and the store stays down, when a
\* file cannot be read to its end.
Reopen == /\ ~bcUp
          /\ \A n \in DOMAIN bcFiles : FileReadable(bcFiles[n])
          /\ bcUp' = TRUE
          /\ bcIndex' = OpenAndReadFiles.index
          /\ bcUsed' = OpenAndReadFiles.used
          /\ bcFerror' = {}
          /\ UNCHANGED <<bcFiles, bcClock>>

\* The end of the process, by a Destroy or by a crash between two calls: only
\* the files are left.
LoseMemory == /\ bcUp' = FALSE
              /\ bcIndex' = [k \in BcKeys |-> NoBucket]
              /\ bcUsed' = 0
              /\ bcFerror' = {}

Stop == bcUp /\ LoseMemory /\ UNCHANGED <<bcFiles, bcClock>>

ClockMoves == /\ \E t \in 0..BcMaxTime : t # bcClock /\ bcClock' = t
              /\ UNCHANGED <<bcFiles, bcUp, bcIndex, bcUsed, bcFerror>>

-----------------------------------------------------------------------------
\* SetValue up to the append: the checks on the key, on the version and on the
\* time, and the file that the record goes to.
IsLive(k) == Indexed(k) /\ ~bcIndex[k].del
Version_IgnoresDel(k) == IF Indexed(k) THEN bcIndex[k].ver ELSE 0
Version(k) == IF IsLive(k) THEN bcIndex[k].ver ELSE 0
LastFile == Len(bcFiles)
NeedsNextFile == Len(bcFiles[LastFile]) >= BcFileCap
Target == IF NeedsNextFile THEN LastFile + 1 ELSE LastFile

SetCheck_NoTimeCheck(k, del, version) ==
    CASE del /\ ~IsLive(k) -> "kNotFound"
      [] version # -1 /\ version # Version(k) -> "kCASFailed"
      [] NeedsNextFile /\ LastFile >= BcMaxFiles -> "kFilesNumIsFull"
      [] ~NeedsNextFile /\ LastFile \in bcFerror -> "kReadError"
      [] OTHER -> "kOk"
SetCheck(k, del, version) ==
    CASE del /\ ~IsLive(k) -> "kNotFound"
      [] version # -1 /\ version # Version(k) -> "kCASFailed"
      [] Indexed(k) /\ ~CheckValueIsNew(bcClock, bcIndex[k].time) -> "kTimeWrong"
      [] NeedsNextFile /\ LastFile >= BcMaxFiles -> "kFilesNumIsFull"
      [] ~NeedsNextFile /\ LastFile \in bcFerror -> "kReadError"
      [] OTHER -> "kOk"

\* WriteData: what is at the end of the target file afterwards.
Written(e, outcome) == CASE outcome \in {"ok", "after"} -> <<e>>
                         [] outcome \in {"head", "body"} -> <<[torn |-> outcome]>>
                         [] OTHER -> <<>>
Appended(s) == IF NeedsNextFile THEN Append(bcFiles, s)
               ELSE [bcFiles EXCEPT ![LastFile] = @ \o s]

\* SetValue after the checks.  A refused write sets the error flag of the
\* stream; a crash ends the process wherever the append stands.
SetValue(k, v, del, version) ==
    /\ bcUp
    /\ SetCheck(k, del, version) = "kOk"
    /\ UNCHANGED bcClock
    /\ \E outcome \in BcOutcomes :
          LET e == [key |-> k, val |-> v, del |-> del, time |-> bcClock, ver |-> Version(k) + 1]
              pos == IF NeedsNextFile THEN 1 ELSE Len(bcFiles[LastFile]) + 1
          IN  /\ bcFiles' = Appended(Written(e, outcome))
              /\ CASE outcome = "ok" -> /\ bcIndex' = [bcIndex EXCEPT ![k] = Bucket(Target, pos, e)]
                                        /\ bcUsed' = IF IsLive(k) THEN bcUsed ELSE bcUsed + 1
                                        /\ UNCHANGED <<bcUp, bcFerror>>
                   [] outcome = "failed" -> /\ bcFerror' = bcFerror \cup {Target}
                                            /\ UNCHANGED <<bcUp, bcIndex, bcUsed>>
                   [] OTHER -> LoseMemory

BcPut(k, v, version) == SetValue(k, v, FALSE, version)
BcDel(k, version) == SetValue(k, BcNoValue, TRUE, version)

BcNext == \/ \E k \in BcKeys : \E version \in {-1, Version(k)} :
                \/ \E v \in BcValues : BcPut(k, v, version)
                \/ BcDel(k, version)
          \/ Stop \/ Reopen \/ ClockMoves

BcSpec == BcInit /\ [][BcNext]_bcVars

-----------------------------------------------------------------------------
BcTypeOK == /\ bcFiles \in Seq(Seq(Record \cup Fragment))
            /\ Len(bcFiles) \in 1..BcMaxFiles
            /\ bcUp \in BOOLEAN
            /\ bcIndex \in [BcKeys -> [file : 0..BcMaxFiles, pos : 0..BcFileCap, del : BOOLEAN,
                                       time : -1..BcMaxTime, ver : Nat]]
            /\ bcUsed \in Nat
            /\ bcFerror \subseteq 1..BcMaxFiles
            /\ bcClock \in 0..BcMaxTime

\* While the store is up, rebuilding the index from the files would give the
\* index it has, each bucket at the place of its record: what was acknowledged
\* survives a restart, although records are ordered by a clock that may be set back and
\* the files are read newest first.
IndexIsRecoverable ==
    /\ BcTypeOK
    /\ bcUp => /\ bcIndex = OpenAndReadFiles.index
               /\ \A n \in DOMAIN bcFiles : FileReadable(bcFiles[n])

\* What the files say of a key: its record with the latest time.
RecordsOf(k) == {e \in UNION {Range(bcFiles[n]) : n \in DOMAIN bcFiles} :
                    ~IsFragment(e) /\ e.key = k}
OnDisk(k) ==
    LET latest == {e \in RecordsOf(k) : \A f \in RecordsOf(k) : f.time <= e.time}
    IN  IF \E e \in latest : ~e.del
        THEN LET e == CHOOSE e \in latest : ~e.del IN [val |-> e.val, ver |-> e.ver]
        ELSE [val |-> BcNoValue, ver |-> 0]

\* BitCaskDB implements DBBase; the abstract contents are what the files say,
\* so a crash and a restart change nothing and a record on disk counts whether
\* or not its Put was acknowledged.
BcDB == INSTANCE DBBase WITH DbKeys <- BcKeys, DbValues <- BcValues, DbNoValue <- BcNoValue,
                             cells <- [k \in BcKeys |-> OnDisk(k)]
BitCaskImplementsDBBase == BcDB!DbSpec

\* A store that is up can be opened again after any crash (the store's skill
\* document calls BitCask recoverable).
ReopensAfterCrash == ~bcUp => \A n \in DOMAIN bcFiles : FileReadable(bcFiles[n])

\* used_cnt counts the live keys.
UsedIsLive == bcUp => bcUsed = Cardinality({k \in BcKeys : IsLive(k)})
=============================================================================
