------------------------------ MODULE RbTree ------------------------------
(***************************************************************************)
(* my_rb_tree, the red-black tree under my_set, my_map, my_multiset and    *)
(* my_multimap: insert_equal, insert_unique, erase of a position and       *)
(* clear, with the rebalancing of both, on nodes with parent, left and     *)
(* right pointers and a header that holds the root, the leftmost and the   *)
(* rightmost node.                                                         *)
(*                                                                         *)
(* The address of a node is abstracted to its rank in the order of the     *)
(* tree: a node that is created or destroyed shifts the ranks above it.    *)
(* Left and right are the two sides of one definition.                     *)
(***************************************************************************)
EXTENDS Integers, Sequences, FiniteSets

CONSTANTS RbKeys, RbMaxNodes

ASSUME RbAssumption == RbKeys \subseteq Nat /\ RbMaxNodes \in Nat

VARIABLES rbTree,
          rbOp       \* the last operation: its name, its key, and how many nodes it adds

rbVars == <<rbTree, rbOp>>

Nil == 0
Header == -1
Dangling == -2   \* a pointer to a node that was destroyed

Sides == {"left", "right"}
OtherSide(s) == CHOOSE o \in Sides : o # s
EmptyTree == [n |-> 0, root |-> Nil, most |-> [s \in Sides |-> Header],
              kid |-> [s \in Sides |-> <<>>], parent |-> <<>>, color |-> <<>>, key |-> <<>>]

RbInit == rbTree = EmptyTree /\ rbOp = [name |-> "clear", key |-> 0, adds |-> 0]

-----------------------------------------------------------------------------
Blacken(t, x) == [t EXCEPT !.color[x] = "black"]
SideOf(t, x) == IF t.kid["left"][t.parent[x]] = x THEN "left" ELSE "right"

\* __my_rb_tree_rotate_left for s = "left": the child y of x on the other side takes
\* the place of x.
Rotate(t, x, s) ==
    LET o == OtherSide(s)
        y == t.kid[o][x]
        p == t.parent[x]
    IN  [t EXCEPT !.kid = [d \in Sides |-> [i \in 1..t.n |->
                      CASE i = y /\ d = s -> x
                        [] i = x /\ d = o -> t.kid[s][y]
                        [] i = p /\ t.kid[d][i] = x -> y
                        [] OTHER -> t.kid[d][i]]],
                  !.parent = [i \in 1..t.n |-> CASE i = y -> p
                                                 [] i = x -> y
                                                 [] i = t.kid[s][y] -> x
                                                 [] OTHER -> t.parent[i]],
                  !.root = IF x = @ THEN y ELSE @]

\* __my_rb_tree_insert_rebalance: while the parent of the red node x is red.
RECURSIVE InsertRebalance(_, _)
InsertRebalance(t, x) ==
    IF x = t.root \/ t.color[t.parent[x]] = "black" THEN Blacken(t, t.root)
    ELSE LET p == t.parent[x]
             g == t.parent[p]
             s == SideOf(t, p)
             o == OtherSide(s)
             uncle == t.kid[o][g]
             inner == t.kid[o][p] = x
             turned == IF inner THEN Rotate(t, p, s) ELSE t
             low == IF inner THEN p ELSE x
             top == turned.parent[low]
         IN  IF uncle # Nil /\ t.color[uncle] = "red"
               THEN InsertRebalance([t EXCEPT !.color[p] = "black", !.color[uncle] = "black",
                                              !.color[g] = "red"], g)
               ELSE InsertRebalance(Rotate([turned EXCEPT !.color[top] = "black",
                                                          !.color[g] = "red"], g, o), low)

\* The second loop of __my_rb_tree_erase_reblance: x lacks a black node.
RECURSIVE EraseUp(_, _)
EraseUp(t, x) ==
    IF x = t.root \/ t.color[x] = "red" THEN Blacken(t, x)
    ELSE LET p == t.parent[x]
             s == SideOf(t, x)
             o == OtherSide(s)
             w0 == t.kid[o][p]
             t1 == IF t.color[w0] = "red"
                     THEN Rotate([t EXCEPT !.color[w0] = "black", !.color[p] = "red"], p, s) ELSE t
             w1 == t1.kid[o][p]
             near == t1.kid[s][w1]
             far == t1.kid[o][w1]
             t2 == IF t1.color[far] = "black"
                     THEN Rotate([t1 EXCEPT !.color[near] = "black", !.color[w1] = "red"], w1, o) ELSE t1
             w2 == t2.kid[o][p]
             t3 == [t2 EXCEPT !.color[w2] = t2.color[p], !.color[p] = "black",
                              !.color[t2.kid[o][w2]] = "black"]
             t4 == Rotate(t3, p, s)
         IN  IF t1.color[near] = "black" /\ t1.color[far] = "black"
               THEN EraseUp([t1 EXCEPT !.color[w1] = "red"], p)
               ELSE EraseUp(t4, t4.root)

\* The first loop: the node that lacks is no node, and p was its parent.
EraseRebalance_NoRotation(t, x, p) == IF x = Nil THEN EraseUp(t, p) ELSE EraseUp(t, x)
EraseRebalance(t, x, p) ==
    IF x # Nil THEN EraseUp(t, x)
    ELSE LET s == IF t.kid["left"][p] = Nil THEN "left" ELSE "right"
             o == OtherSide(s)
             w0 == t.kid[o][p]
             t1 == IF t.color[w0] = "red"
                     THEN Rotate([t EXCEPT !.color[w0] = "black", !.color[p] = "red"], p, s) ELSE t
             w1 == t1.kid[o][p]
             near == t1.kid[s][w1]
             t2 == IF near # Nil
                     THEN Rotate([t1 EXCEPT !.color[near] = "black", !.color[w1] = "red"], w1, o) ELSE t1
             w2 == t2.kid[o][p]
             t3 == [t2 EXCEPT !.color[w2] = t2.color[p], !.color[p] = "black",
                              !.color[t2.kid[o][w2]] = "black"]
         IN  IF near = Nil /\ t1.kid[o][w1] = Nil
               THEN EraseUp([t1 EXCEPT !.color[w1] = "red"], p)
               ELSE Rotate(t3, p, s)

-----------------------------------------------------------------------------
\* create_node: room for a node of rank z.  A dangling pointer points to it when the
\* allocator hands the destroyed node's memory out again.
Create(t, z, k, reused) ==
    LET up(p) == IF p >= z THEN p + 1 ELSE p
        old(i) == IF i > z THEN i - 1 ELSE i
        grown(f, new, g(_)) == [i \in 1..(t.n + 1) |-> IF i = z THEN new ELSE g(f[old(i)])]
        same(v) == v
    IN  [n |-> t.n + 1, root |-> up(t.root),
         most |-> [s \in Sides |-> IF t.most[s] = Dangling /\ reused THEN z ELSE up(t.most[s])],
         kid |-> [s \in Sides |-> grown(t.kid[s], Nil, up)],
         parent |-> grown(t.parent, Header, up),
         color |-> grown(t.color, "red", same),
         key |-> grown(t.key, k, same)]

\* destroy_node.
Destroy(t, y) ==
    LET down(p) == CASE p = y -> Dangling [] p > y -> p - 1 [] OTHER -> p
        old(i) == IF i >= y THEN i + 1 ELSE i
    IN  [n |-> t.n - 1, root |-> down(t.root),
         most |-> [s \in Sides |-> down(t.most[s])],
         kid |-> [s \in Sides |-> [i \in 1..(t.n - 1) |-> down(t.kid[s][old(i)])]],
         parent |-> [i \in 1..(t.n - 1) |-> down(t.parent[old(i)])],
         color |-> [i \in 1..(t.n - 1) |-> t.color[old(i)]],
         key |-> [i \in 1..(t.n - 1) |-> t.key[old(i)]]]

\* The place of a new key: the node it becomes a child of.
RECURSIVE Descend(_, _, _, _)
Descend(t, x, y, k) ==
    IF x = Nil THEN y ELSE Descend(t, t.kid[IF k < t.key[x] THEN "left" ELSE "right"][x], x, k)
ParentFor(t, k) == Descend(t, t.root, Header, k)

\* __insert of k under y.
Insert(t, y, k, reused) ==
    IF y = Header
      THEN LET c == Create(t, 1, k, reused)
           IN  InsertRebalance([c EXCEPT !.root = 1, !.most = [s \in Sides |-> 1]], 1)
      ELSE LET s == IF k < t.key[y] THEN "left" ELSE "right"
               z == IF s = "left" THEN y ELSE y + 1
               yy == IF s = "left" THEN y + 1 ELSE y
               c == Create(t, z, k, reused)
           IN  InsertRebalance([c EXCEPT !.kid[s][yy] = z, !.parent[z] = yy,
                                         !.most[s] = IF @ = yy THEN z ELSE @], z)

\* The successor's value is constructed over the one of the position.
MoveValue_Not(t, z, y) == t
MoveValue(t, z, y) == [t EXCEPT !.key[z] = t.key[y]]

\* erase(position): y, the node or its successor, is unlinked; x takes its place.
Erase(t, z) ==
    LET two == t.kid["left"][z] # Nil /\ t.kid["right"][z] # Nil
        y == IF two THEN z + 1 ELSE z
        x == IF t.kid["left"][y] # Nil THEN t.kid["left"][y] ELSE t.kid["right"][y]
        p == t.parent[y]
        s == SideOf(t, y)
        most == IF x # Nil THEN IF p = t.root THEN [t.most EXCEPT ![s] = x] ELSE t.most
                ELSE IF y = t.most["left"] THEN [t.most EXCEPT !["left"] = p]
                ELSE IF y = t.most["right"] THEN [t.most EXCEPT !["right"] = p] ELSE t.most
        unlinked == [MoveValue(t, z, y) EXCEPT
                        !.kid[s][p] = x, !.most = most,
                        !.parent = [i \in 1..t.n |-> IF i = x THEN p ELSE @[i]]]
    IN  CASE y = t.root /\ x = Nil -> EmptyTree
          [] y = t.root /\ x # Nil ->
                Destroy([t EXCEPT !.root = x, !.most = [d \in Sides |-> x], !.color[x] = "black",
                                  !.parent[x] = Header], y)
          [] OTHER -> Destroy(IF t.color[y] = "black" THEN EraseRebalance(unlinked, x, p)
                              ELSE unlinked, y)

-----------------------------------------------------------------------------
Does(t, name, k, adds) == rbTree' = t /\ rbOp' = [name |-> name, key |-> k, adds |-> adds]

insert_equal(k) == /\ rbTree.n < RbMaxNodes
                   /\ \E reused \in BOOLEAN :
                         Does(Insert(rbTree, ParentFor(rbTree, k), k, reused), "insert_equal", k, 1)

\* insert_unique looks at the node before the new one.  When there is none although
\* the new node does not go before begin(), it reads the key of the header, which has
\* none: either answer is possible.
IsNew(t, y, k) ==
    IF y = Header \/ (k < t.key[y] /\ y = t.most["left"]) THEN {TRUE}
    ELSE LET j == IF k < t.key[y] THEN y - 1 ELSE y
         IN  IF j = 0 THEN BOOLEAN ELSE {t.key[j] < k}
insert_unique(k) ==
    /\ rbTree.n < RbMaxNodes
    /\ \E reused \in BOOLEAN, new \in IsNew(rbTree, ParentFor(rbTree, k), k) :
          IF new THEN Does(Insert(rbTree, ParentFor(rbTree, k), k, reused), "insert_unique", k, 1)
                 ELSE Does(rbTree, "insert_unique", k, 0)

erase(z) == z <= rbTree.n /\ Does(Erase(rbTree, z), "erase", rbTree.key[z], -1)
clear == rbTree.n > 0 /\ Does(EmptyTree, "clear", 0, 0)

RbNext == \/ \E k \in RbKeys : insert_equal(k) \/ insert_unique(k)
          \/ \E z \in 1..RbMaxNodes : erase(z)
          \/ clear
RbSpec == RbInit /\ [][RbNext]_rbVars

-----------------------------------------------------------------------------
\* The nodes below x in the order of the tree.
RECURSIVE Walk(_, _)
Walk(t, x) == IF x = Nil THEN <<>>
              ELSE Walk(t, t.kid["left"][x]) \o <<x>> \o Walk(t, t.kid["right"][x])
\* The numbers of black nodes on the ways down from x.
RECURSIVE Blacks(_, _)
Blacks(t, x) == IF x = Nil THEN {0}
                ELSE {b + (IF t.color[x] = "black" THEN 1 ELSE 0) :
                         b \in Blacks(t, t.kid["left"][x]) \cup Blacks(t, t.kid["right"][x])}

\* After every operation the tree is a red-black tree: the links agree in both
\* directions, the walk meets every node once and its keys in order, the root is
\* black, no red node has a red child, and all ways down meet equally many black nodes.
RedBlack ==
    LET t == rbTree IN
    /\ Walk(t, t.root) = [i \in 1..t.n |-> i]
    /\ \A i \in 1..(t.n - 1) : t.key[i] <= t.key[i + 1]
    /\ t.root # Nil => t.parent[t.root] = Header /\ t.color[t.root] = "black"
    /\ \A i \in 1..t.n, s \in Sides :
          t.kid[s][i] # Nil => /\ t.parent[t.kid[s][i]] = i
                               /\ t.color[i] = "red" => t.color[t.kid[s][i]] = "black"
    /\ Cardinality(Blacks(t, t.root)) = 1

\* An operation adds or removes exactly the key it is called with, also an erase that
\* destroys the successor's node in place of the one it was given.
Occurrences(t, k) == Cardinality({i \in 1..t.n : t.key[i] = k})
ContentsExact ==
    [][rbOp'.name # "clear" =>
          \A k \in RbKeys : Occurrences(rbTree', k) =
              Occurrences(rbTree, k) + (IF k = rbOp'.key THEN rbOp'.adds ELSE 0)]_rbVars

\* The header's leftmost and rightmost are the ends of the tree, which begin() and
\* --end() rely on.
EndsExact ==
    rbTree.most = [s \in Sides |-> IF rbTree.n = 0 THEN Header
                                   ELSE IF s = "left" THEN 1 ELSE rbTree.n]

=============================================================================
