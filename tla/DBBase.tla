------------------------------- MODULE DBBase -------------------------------
(***************************************************************************)
(* What the interface store::DBBase promises of a store, whatever it keeps *)
(* on disk: a map from keys to a value and a version, changed by Put and   *)
(* Del, each of them unconditional (version -1) or a compare-and-set on    *)
(* the version.  A missing key has version 0, so a key that is put again   *)
(* after a Del starts from version 1.  A call that fails changes nothing.  *)
(***************************************************************************)
EXTENDS Integers

CONSTANTS DbKeys, DbValues, DbNoValue

VARIABLE cells   \* cells[k]: the value and version that Get returns, version 0: kNotFound

DbAbsent == [val |-> DbNoValue, ver |-> 0]
DbInit == cells = [k \in DbKeys |-> DbAbsent]

\* Put: -1 sets directly, another version must be the current one.
DbPut(k, v, version) == /\ version \in {-1, cells[k].ver}
                        /\ cells' = [cells EXCEPT ![k] = [val |-> v, ver |-> @.ver + 1]]

DbDel(k, version) == /\ cells[k].ver > 0
                     /\ version \in {-1, cells[k].ver}
                     /\ cells' = [cells EXCEPT ![k] = DbAbsent]

DbNext == \E k \in DbKeys : \E version \in {-1, cells[k].ver} :
             \/ \E v \in DbValues : DbPut(k, v, version)
             \/ DbDel(k, version)

DbSpec == DbInit /\ [][DbNext]_cells
=============================================================================
