------------------------------- MODULE AvlMap -------------------------------
(***************************************************************************)
(* The immutable ordered map of crates/cavlc/src/avl.rs.                   *)
(*                                                                         *)
(* A link is Nil or a node that carries its own height and size, as the    *)
(* code caches them.  Every update returns a new root; the keys are        *)
(* integers in their usual order.  What two links share in memory is not   *)
(* part of a link: Removed reports whether the key was found, which is     *)
(* what decides if the root keeps its identity.                            *)
(***************************************************************************)
EXTENDS Integers, Sequences, FiniteSets

Nil == [height |-> 0, size |-> 0]

HeightOf(left, right) ==
    1 + IF left.height > right.height THEN left.height ELSE right.height

Node(key, value, left, right) ==
    [key |-> key, value |-> value, left |-> left, right |-> right,
     height |-> HeightOf(left, right),
     size |-> 1 + left.size + right.size]

RotateLeft(n) ==
    LET r == n.right
    IN  Node(r.key, r.value, Node(n.key, n.value, n.left, r.left), r.right)

RotateRight(n) ==
    LET l == n.left
    IN  Node(l.key, l.value, l.left, Node(n.key, n.value, l.right, n.right))

(* A child that leans inwards is straightened first: the double rotation.  *)
LeansOut(n) ==
    LET l == n.left
        r == n.right
    IN  IF l.height > r.height
        THEN IF l.right.height > l.left.height
             THEN Node(n.key, n.value, RotateLeft(l), r)
             ELSE n
        ELSE IF r.left.height > r.right.height
             THEN Node(n.key, n.value, l, RotateRight(r))
             ELSE n

Balance(n) ==
    IF n.left.height > n.right.height + 1 THEN RotateRight(LeansOut(n))
    ELSE IF n.right.height > n.left.height + 1 THEN RotateLeft(LeansOut(n))
    ELSE n

RECURSIVE Insert(_, _, _)
Insert(root, key, value) ==
    IF root = Nil THEN Node(key, value, Nil, Nil)
    ELSE IF key < root.key
    THEN Balance(Node(root.key, root.value,
                      Insert(root.left, key, value), root.right))
    ELSE IF key > root.key
    THEN Balance(Node(root.key, root.value,
                      root.left, Insert(root.right, key, value)))
    ELSE Node(key, value, root.left, root.right)

RECURSIVE RemoveMin(_)
RemoveMin(n) ==
    IF n.left = Nil
    THEN n.right
    ELSE Balance(Node(n.key, n.value, RemoveMin(n.left), n.right))

RECURSIVE Successor(_)
Successor(n) == IF n.left = Nil THEN n ELSE Successor(n.left)

(* MUTANT: the successor's subtree is put back without rebalancing.        *)
RemoveRootSlack(n) ==
    IF n.left = Nil THEN n.right
    ELSE IF n.right = Nil THEN n.left
    ELSE LET s == Successor(n.right)
         IN  Node(s.key, s.value, n.left, RemoveMin(n.right))

(* The node that held the key goes; its successor takes its place.         *)
RemoveRoot(n) ==
    IF n.left = Nil THEN n.right
    ELSE IF n.right = Nil THEN n.left
    ELSE LET s == Successor(n.right)
         IN  Balance(Node(s.key, s.value, n.left, RemoveMin(n.right)))

(* The node with a child replaced, or untouched when the key was not there. *)
WithLeft(n, below) ==
    IF below.found
    THEN [root |-> Balance(Node(n.key, n.value, below.root, n.right)), found |-> TRUE]
    ELSE [root |-> n, found |-> FALSE]

WithRight(n, below) ==
    IF below.found
    THEN [root |-> Balance(Node(n.key, n.value, n.left, below.root)), found |-> TRUE]
    ELSE [root |-> n, found |-> FALSE]

RECURSIVE Removed(_, _)
Removed(root, key) ==
    IF root = Nil THEN [root |-> Nil, found |-> FALSE]
    ELSE IF key < root.key THEN WithLeft(root, Removed(root.left, key))
    ELSE IF key > root.key THEN WithRight(root, Removed(root.right, key))
    ELSE [root |-> RemoveRoot(root), found |-> TRUE]

(* The entry under a key, as a sequence of at most one value.              *)
RECURSIVE Get(_, _)
Get(root, key) ==
    IF root = Nil THEN << >>
    ELSE IF key < root.key THEN Get(root.left, key)
    ELSE IF key > root.key THEN Get(root.right, key)
    ELSE <<root.value>>

(* The iterator keeps the path of nodes still to visit on a stack.         *)
RECURSIVE PushLeft(_, _)
PushLeft(stack, n) ==
    IF n = Nil THEN stack ELSE PushLeft(<<n>> \o stack, n.left)

RECURSIVE Drain(_)
Drain(stack) ==
    IF stack = << >> THEN << >>
    ELSE LET n == Head(stack)
         IN  <<n>> \o Drain(PushLeft(Tail(stack), n.right))

InOrder(root) == Drain(PushLeft(<< >>, root))

-----------------------------------------------------------------------------
(* What a sound tree is, by structure alone.                               *)
RECURSIVE NodesOf(_)
NodesOf(root) ==
    IF root = Nil THEN {}
    ELSE {root} \cup NodesOf(root.left) \cup NodesOf(root.right)

KeysOf(root) == {n.key : n \in NodesOf(root)}

NodeIsSound(n) ==
    /\ n.left.height - n.right.height \in -1 .. 1
    /\ n.height = HeightOf(n.left, n.right)
    /\ n.size = Cardinality(NodesOf(n))
    /\ \A k \in KeysOf(n.left) : k < n.key
    /\ \A k \in KeysOf(n.right) : k > n.key
=============================================================================
