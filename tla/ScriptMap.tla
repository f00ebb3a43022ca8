------------------------------ MODULE ScriptMap ------------------------------
(***************************************************************************)
(* asCMap of AngelScript (source/as_map.h): the red-black tree behind its  *)
(* maps, node by node.  A node is an identity with a key; tree.nodes holds *)
(* those that are in the tree.                                             *)
(***************************************************************************)
EXTENDS Integers, Sequences, FiniteSets

CONSTANTS
  Key,  \* node -> its key, an integer
  Nil   \* a null pointer

Nodes == DOMAIN Key
ASSUME MapAssumption == Nil \notin Nodes /\ Key \in [Nodes -> Int]

VARIABLE tree  \* root, count, and the nodes: [parent, left, right, isRed]

IsRed(t, n) == n # Nil /\ t.nodes[n].isRed
Parent(t, n) == t.nodes[n].parent
Child(t, n, side) == t.nodes[n][side]
Other(side) == IF side = "left" THEN "right" ELSE "left"
SideOf(t, n) == IF Child(t, Parent(t, n), "left") = n THEN "left" ELSE "right"

Color(t, n, red) == IF n = Nil THEN t ELSE [t EXCEPT !.nodes[n].isRed = red]
SetParent(t, n, p) == IF n = Nil THEN t ELSE [t EXCEPT !.nodes[n].parent = p]

(* new takes the place of old under the parent of old. *)
Replace(t, old, new) ==
  LET p == Parent(t, old)
      linked == IF p = Nil THEN [t EXCEPT !.root = new]
                ELSE [t EXCEPT !.nodes[p][SideOf(t, old)] = new]
  IN SetParent(linked, new, p)

(* RotateLeft and RotateRight: the child on the other side goes up.        *)
Rotate(t, n, side) ==
  LET up == Child(t, n, Other(side))
      inner == Child(t, up, side)
      placed == SetParent(Replace(t, n, up), inner, n)
  IN IF up = Nil THEN t
     ELSE [placed EXCEPT !.nodes[n][Other(side)] = inner, !.nodes[up][side] = n,
                         !.nodes[n].parent = up]

-----------------------------------------------------------------------------
RECURSIVE Descend(_, _, _)
Descend(t, n, p) ==
  LET side == IF Key[n] < Key[p] THEN "left" ELSE "right"
  IN IF Child(t, p, side) # Nil THEN Descend(t, n, Child(t, p, side))
     ELSE [t EXCEPT !.nodes[p][side] = n, !.nodes[n].parent = p]

(* One round of BalanceInsert: the tree, and the node to go on from.       *)
BalanceUnder(t, n) ==
  LET p == Parent(t, n)
      g == Parent(t, p)
      side == SideOf(t, p)
      uncle == Child(t, g, Other(side))
      inner == n = Child(t, p, Other(side))
      outer == IF inner THEN Rotate(t, p, side) ELSE t
      up == IF inner THEN n ELSE p
  IN IF IsRed(t, uncle)
     THEN [tree |-> Color(Color(Color(t, p, FALSE), uncle, FALSE), g, TRUE), node |-> g]
     ELSE [tree |-> Rotate(Color(Color(outer, up, FALSE), g, TRUE), g, Other(side)),
           node |-> IF inner THEN p ELSE n]

(* A red node cannot have a red parent. *)
RECURSIVE BalanceInsert(_, _)
BalanceInsert(t, n) ==
  LET round == BalanceUnder(t, n)
  IN IF n = t.root \/ ~IsRed(t, Parent(t, n)) THEN Color(t, t.root, FALSE)
     ELSE BalanceInsert(round.tree, round.node)

Insert(t, n) ==
  LET new == [parent |-> Nil, left |-> Nil, right |-> Nil, isRed |-> TRUE]
      added == [t EXCEPT !.nodes = [m \in DOMAIN @ \cup {n} |-> IF m = n THEN new ELSE @[m]],
                         !.count = @ + 1]
  IN BalanceInsert(IF t.root = Nil THEN [added EXCEPT !.root = n]
                   ELSE Descend(added, n, t.root), n)

-----------------------------------------------------------------------------
(* A black node was removed over child, under parent: the four cases of    *)
(* BalanceErase, by the color of the brother, its children and the parent. *)
(* Slip: the far child stays red.                                          *)
BrotherUp_farRed(t, child, parent, side) ==
  LET brother == Child(t, parent, Other(side))
      far == Child(t, brother, Other(side))
      near == Child(t, brother, side)
      turned == IF IsRed(t, far) THEN t
                ELSE Rotate(Color(Color(t, near, FALSE), brother, TRUE), brother, Other(side))
      top == Child(turned, parent, Other(side))
      colored == Color(Color(turned, top, IsRed(t, parent)), parent, FALSE)
  IN Rotate(colored, parent, side)
BrotherUp(t, child, parent, side) ==
  LET brother == Child(t, parent, Other(side))
      far == Child(t, brother, Other(side))
      near == Child(t, brother, side)
      turned == IF IsRed(t, far) THEN t
                ELSE Rotate(Color(Color(t, near, FALSE), brother, TRUE), brother, Other(side))
      top == Child(turned, parent, Other(side))
      colored == Color(Color(turned, top, IsRed(t, parent)), parent, FALSE)
  IN Rotate(Color(colored, Child(turned, top, Other(side)), FALSE), parent, side)

RECURSIVE BalanceErase(_, _, _)
BalanceErase(t, child, parent) ==
  LET side == IF child = Child(t, parent, "left") THEN "left" ELSE "right"
      red == Child(t, parent, Other(side))
      u == IF ~IsRed(t, red) THEN t
           ELSE Rotate(Color(Color(t, red, FALSE), parent, TRUE), parent, side)
      brother == Child(u, parent, Other(side))
      blacks == ~IsRed(u, Child(u, brother, "left")) /\ ~IsRed(u, Child(u, brother, "right"))
  IN IF child = t.root \/ IsRed(t, child) THEN Color(t, child, FALSE)
     ELSE IF brother = Nil THEN Color(u, child, FALSE)
     ELSE IF ~blacks THEN Color(BrotherUp(u, child, parent, side), child, FALSE)
     ELSE IF IsRed(u, parent) THEN Color(Color(Color(u, parent, FALSE), brother, TRUE), child, FALSE)
     ELSE BalanceErase(Color(u, brother, TRUE), parent, Parent(u, parent))

RECURSIVE Leftmost(_, _)
Leftmost(t, n) == IF Child(t, n, "left") = Nil THEN n ELSE Leftmost(t, Child(t, n, "left"))
RECURSIVE Rightmost(_, _)
Rightmost(t, n) == IF Child(t, n, "right") = Nil THEN n ELSE Rightmost(t, Child(t, n, "right"))

(* remove is unlinked, and takes the place of the node to be removed. *)
TakePlace(t, node, remove) ==
  LET c == t.nodes[node]
      linked == Replace(t, node, remove)
      filled == [linked EXCEPT !.nodes[remove].isRed = c.isRed,
                               !.nodes[remove].left = c.left, !.nodes[remove].right = c.right]
  IN SetParent(SetParent(filled, c.left, remove), c.right, remove)

RemoveNode(t, node) ==
  LET both == Child(t, node, "left") # Nil /\ Child(t, node, "right") # Nil
      remove == IF both THEN Leftmost(t, Child(t, node, "right")) ELSE node
      child == IF Child(t, remove, "left") # Nil THEN Child(t, remove, "left")
               ELSE Child(t, remove, "right")
      cut == Replace(t, remove, child)
      balanced == IF IsRed(t, remove) THEN cut ELSE BalanceErase(cut, child, Parent(cut, remove))
      placed == IF remove = node THEN balanced ELSE TakePlace(balanced, node, remove)
  IN [placed EXCEPT !.nodes = [m \in DOMAIN @ \ {node} |-> @[m]], !.count = @ - 1]

-----------------------------------------------------------------------------
RECURSIVE Find(_, _, _)
Find(t, n, key) ==
  IF n = Nil THEN Nil
  ELSE IF key = Key[n] THEN n
  ELSE Find(t, Child(t, n, IF key < Key[n] THEN "left" ELSE "right"), key)
MoveTo(t, key) == Find(t, t.root, key)

MoveFirst(t) == IF t.root = Nil THEN Nil ELSE Leftmost(t, t.root)

RECURSIVE Climb(_, _, _)
Climb(t, n, side) ==
  IF Parent(t, n) # Nil /\ Child(t, Parent(t, n), side) = n THEN Climb(t, Parent(t, n), side)
  ELSE Parent(t, n)

MoveNext(t, n) ==
  IF Child(t, n, "right") = Nil THEN Climb(t, n, "right") ELSE Leftmost(t, Child(t, n, "right"))
MovePrev(t, n) ==
  IF Child(t, n, "left") = Nil THEN Climb(t, n, "left") ELSE Rightmost(t, Child(t, n, "left"))

(* The black nodes on every path below n, or -1. *)
RECURSIVE CheckIntegrity(_, _)
CheckIntegrity(t, n) ==
  LET left == CheckIntegrity(t, Child(t, n, "left"))
      right == CheckIntegrity(t, Child(t, n, "right"))
  IN IF n = Nil THEN 0
     ELSE IF left # right \/ left = -1 THEN -1
     ELSE IF IsRed(t, n) THEN left ELSE left + 1

MapInit == tree = [root |-> Nil, count |-> 0, nodes |-> [n \in {} |-> Nil]]

MapInsert(n) == n \notin DOMAIN tree.nodes /\ tree' = Insert(tree, n)
MapErase(n) == n \in DOMAIN tree.nodes /\ tree' = RemoveNode(tree, n)
MapNext == \E n \in Nodes : MapInsert(n) \/ MapErase(n)

MapSpec == MapInit /\ [][MapNext]_tree

-----------------------------------------------------------------------------
NodeRecord == [parent : Nodes \cup {Nil}, left : Nodes \cup {Nil}, right : Nodes \cup {Nil},
               isRed : BOOLEAN]
MapTypeOK ==
  /\ tree.root \in Nodes \cup {Nil} /\ tree.count \in Nat
  /\ \A n \in DOMAIN tree.nodes : tree.nodes[n] \in NodeRecord

(* After any inserts and removals MoveFirst and MoveNext visit exactly the *)
(* nodes in the map, in the order of their keys, and MovePrev goes back;   *)
(* MoveTo finds every key there is and no other; and the tree is balanced: *)
(* its root is black, no red node has a red parent, and all paths have the *)
(* same number of black nodes.                                             *)
MapSorted ==
  LET members == DOMAIN tree.nodes
      visited[i \in 1 .. tree.count] == IF i = 1 THEN MoveFirst(tree)
                                        ELSE MoveNext(tree, visited[i - 1])
  IN /\ tree.count = Cardinality(members)
     /\ {visited[i] : i \in 1 .. tree.count} = members
     /\ \A i \in 2 .. tree.count :
          Key[visited[i - 1]] <= Key[visited[i]] /\ MovePrev(tree, visited[i]) = visited[i - 1]
     /\ \A n \in Nodes :
          LET found == MoveTo(tree, Key[n])
          IN IF \E m \in members : Key[m] = Key[n] THEN found \in members /\ Key[found] = Key[n]
             ELSE found = Nil
     /\ ~IsRed(tree, tree.root) /\ CheckIntegrity(tree, tree.root) # -1
     /\ \A n \in members : IsRed(tree, n) => ~IsRed(tree, Parent(tree, n))
=============================================================================
