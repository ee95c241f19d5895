---------------------------- MODULE MCCavlcStore ----------------------------
(* A store over five root keys.  Key 1 holds an object, the others hold    *)
(* atoms, and the patches reach every operation and every refusal.         *)
EXTENDS CavlcStore

Keys == 1 .. 5
Held(k) == IF k = 1 THEN Object(Nil) ELSE Atom(0)

Creates == {Patch([x \in {k} |-> Held(k)], Empty, << >>) : k \in Keys}
Deletes == {Patch(Empty, Empty, <<k>>) : k \in Keys}
Nested(inner) == Patch(Empty, [x \in {1} |-> inner], << >>)
Leaf(k, a) == Patch([x \in {k} |-> Atom(a)], Empty, << >>)

MCPatches ==
    Creates \cup Deletes \cup
    { Nothing,
      Patch(Empty, [x \in {2} |-> Atom(0)], << >>),      \* may change nothing
      Patch(Empty, [x \in {1} |-> Atom(0)], << >>),      \* an object's place
      Nested(Leaf(7, 0)), Nested(Patch(Empty, Empty, <<7>>)),             \* below an object
      Nested(Leaf(8, 0)),                                \* independent of those
      Patch([x \in {3} |-> Atom(0)], Empty, <<3>>),      \* two edits of a key
      Patch([x \in {4} |-> Atom(0)], [x \in {1} |-> Nothing], <<5>>) }

MCRoots == {Atom(0), Fields([k \in Keys |-> ToJson(Held(k))])}
MCImports == {1}

=============================================================================
