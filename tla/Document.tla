------------------------------ MODULE Document ------------------------------
(***************************************************************************)
(* JSON documents and their patches: crates/cavlc/src/value.rs and         *)
(* crates/cavlc/src/patch.rs.                                              *)
(*                                                                         *)
(* A value is an atom or an object held in an AVL map.  The JSON the       *)
(* program reads and writes is the same with functions for objects.  A     *)
(* patch has the three maps of the code; on the wire it is an object with  *)
(* the operations as its keys.  Error texts and paths are left out: an     *)
(* operation that fails returns ok = FALSE.                                *)
(***************************************************************************)
EXTENDS AvlMap, SequencesExt

Atom(a) == [tag |-> "atom", atom |-> a]
Object(map) == [tag |-> "object", map |-> map]
IsObject(v) == v.tag = "object"
Fields(f) == [tag |-> "fields", fields |-> f]

Ascending(S) == SetToSortSeq(S, <)
Empty == << >>                           \* the function with no keys

RECURSIVE FromJson(_)
FromJson(j) ==
    IF j.tag = "atom" THEN j
    ELSE Object(FoldLeft(LAMBDA map, k : Insert(map, k, FromJson(j.fields[k])),
                         Nil, Ascending(DOMAIN j.fields)))

RECURSIVE ToJson(_)
ToJson(v) ==
    IF ~IsObject(v) THEN v
    ELSE LET entries == InOrder(v.map)
         IN  Fields([k \in {entries[i].key : i \in DOMAIN entries} |->
                       ToJson((CHOOSE n \in ToSet(entries) : n.key = k).value)])

RECURSIVE Equals(_, _)
Equals(a, b) ==
    \/ ~IsObject(a) /\ ~IsObject(b) /\ a = b
    \/ /\ IsObject(a) /\ IsObject(b)
       /\ a.map.size = b.map.size
       /\ LET m == InOrder(a.map)
              n == InOrder(b.map)
          IN  \A i \in DOMAIN m :
                 m[i].key = n[i].key /\ Equals(m[i].value, n[i].value)

-----------------------------------------------------------------------------
(* A patch: create and update are functions, delete is a sequence of keys. *)
Patch(create, update, delete) ==
    [tag |-> "patch", create |-> create, update |-> update, delete |-> delete]

Nothing == Patch(Empty, Empty, << >>)
IsEmpty(p) == p = Nothing
KeysIn(p) == DOMAIN p.create \cup DOMAIN p.update \cup ToSet(p.delete)

RECURSIVE Validate(_)
Validate(p) ==
    /\ Cardinality(KeysIn(p)) =
         Cardinality(DOMAIN p.create) + Cardinality(DOMAIN p.update)
           + Len(p.delete)
    /\ \A k \in DOMAIN p.update :
         IF p.update[k].tag = "patch" THEN Validate(p.update[k])
                                      ELSE ~IsObject(p.update[k])

(* The stored form: an operation without edits is left out.                *)
RECURSIVE Serialize(_)
Serialize(p) ==
    LET operations == {op \in {"Create", "Update", "Delete"} :
                         CASE op = "Create" -> p.create # Empty
                           [] op = "Update" -> p.update # Empty
                           [] op = "Delete" -> p.delete # << >>}
    IN  Fields([op \in operations |->
           CASE op = "Create" -> [k \in DOMAIN p.create |-> ToJson(p.create[k])]
             [] op = "Update" -> [k \in DOMAIN p.update |->
                                    IF p.update[k].tag = "patch"
                                    THEN Serialize(p.update[k])
                                    ELSE ToJson(p.update[k])]
             [] op = "Delete" -> p.delete])

(* Reading one back: objects under Update hold operations, other values    *)
(* replace leaves, and what does not validate is refused.                  *)
Take(f, op) == IF op \in DOMAIN f THEN f[op] ELSE Empty

Assembled(f, update) ==
    Patch([k \in DOMAIN Take(f, "Create") |-> FromJson(f["Create"][k])],
          [k \in DOMAIN update |-> update[k].patch], Take(f, "Delete"))

Checked(f, update, p) ==
    IF /\ DOMAIN f \subseteq {"Create", "Update", "Delete"}
       /\ \A k \in DOMAIN update : update[k].ok
       /\ Validate(p)
    THEN [ok |-> TRUE, patch |-> p]
    ELSE [ok |-> FALSE, patch |-> Nothing]

RECURSIVE Parse(_)
Parse(j) ==
    LET Read(f, update) == Checked(f, update, Assembled(f, update))
    IN  Read(j.fields,
             [k \in DOMAIN Take(j.fields, "Update") |->
                IF j.fields["Update"][k].tag = "fields"
                THEN Parse(j.fields["Update"][k])
                ELSE [ok |-> TRUE, patch |-> FromJson(j.fields["Update"][k])]])

(* Two maps joined, the second winning, as BTreeMap::extend does.          *)
Extended(f, g) ==
    [k \in DOMAIN f \cup DOMAIN g |-> IF k \in DOMAIN g THEN g[k] ELSE f[k]]

Shared(p, q) == KeysIn(p) \cap KeysIn(q)
Nests(p, q) == {k \in Shared(p, q) \cap DOMAIN p.update \cap DOMAIN q.update :
                  p.update[k].tag = "patch" /\ q.update[k].tag = "patch"}

Combined(p, q, deeper) ==
    IF DOMAIN deeper # Shared(p, q) \/ \E k \in DOMAIN deeper : ~deeper[k].ok
    THEN [ok |-> FALSE, patch |-> Nothing]
    ELSE [ok |-> TRUE,
          patch |-> Patch(Extended(p.create, q.create),
                          Extended(Extended(p.update, q.update),
                                   [k \in DOMAIN deeper |-> deeper[k].patch]),
                          SortSeq(p.delete \o q.delete, <))]

RECURSIVE MergeAt(_, _)
MergeAt(p, q) ==
    IF IsEmpty(p) THEN [ok |-> TRUE, patch |-> q]
    ELSE IF IsEmpty(q) THEN [ok |-> TRUE, patch |-> p]
    ELSE Combined(p, q, [k \in Nests(p, q) |->
                           MergeAt(p.update[k], q.update[k])])

(* MUTANT: nested updates of one key are not merged, the second one wins.  *)
MergeOver(p, q) ==
    [ok |-> Validate(p) /\ Validate(q),
     patch |-> Patch(Extended(p.create, q.create),
                     Extended(p.update, q.update), p.delete \o q.delete)]

Merge(p, q) ==
    IF Validate(p) /\ Validate(q) THEN MergeAt(p, q)
                                  ELSE [ok |-> FALSE, patch |-> Nothing]

-----------------------------------------------------------------------------
(* Applying a patch threads a map through the three operations in order,   *)
(* each over its keys in ascending order (delete in the order given).      *)
(* `same' says that the map is still the very root it started from.        *)
Untouched(map) == [ok |-> TRUE, map |-> map, same |-> TRUE]
Failed == [ok |-> FALSE, map |-> Nil, same |-> TRUE]

CreateOne(p, at, key) ==
    IF ~at.ok \/ Get(at.map, key) # << >> THEN Failed
    ELSE [ok |-> TRUE, map |-> Insert(at.map, key, p.create[key]),
          same |-> FALSE]

DeleteOne(at, key) ==
    IF ~at.ok \/ Get(at.map, key) = << >> THEN Failed
    ELSE [ok |-> TRUE, map |-> Removed(at.map, key).root, same |-> FALSE]

(* MUTANT: an equal leaf counts as a change.                               *)
UpdateLeafAlways(child, current) ==
    IF IsObject(current)
    THEN [ok |-> FALSE, value |-> current, same |-> TRUE]
    ELSE [ok |-> TRUE, value |-> child, same |-> FALSE]

(* Replacing a leaf by an equal leaf keeps the value that was there.       *)
UpdateLeaf(child, current) ==
    IF IsObject(current)
    THEN [ok |-> FALSE, value |-> current, same |-> TRUE]
    ELSE [ok |-> TRUE, value |-> child, same |-> Equals(child, current)]

(* A child that is the value it replaces leaves the map alone.             *)
Placed(at, key, next) ==
    IF ~next.ok THEN Failed
    ELSE IF next.same THEN at
    ELSE [ok |-> TRUE, map |-> Insert(at.map, key, next.value), same |-> FALSE]

Rebuilt(value, end) ==
    [ok |-> end.ok, same |-> end.same,
     value |-> IF end.same THEN value ELSE Object(end.map)]

RECURSIVE ApplyAt(_, _)
ApplyAt(p, value) ==
    LET Changed(u, current) == IF u.tag = "patch" THEN ApplyAt(u, current)
                                                  ELSE UpdateLeaf(u, current)
        UpdateOne(at, key) ==
            IF ~at.ok \/ Get(at.map, key) = << >> THEN Failed
            ELSE Placed(at, key, Changed(p.update[key], Get(at.map, key)[1]))
        Creations(map) == FoldLeft(LAMBDA at, k : CreateOne(p, at, k),
                                   Untouched(map), Ascending(DOMAIN p.create))
        Updates(at) == FoldLeft(UpdateOne, at, Ascending(DOMAIN p.update))
    IN  IF ~IsObject(value) THEN [ok |-> FALSE, value |-> value, same |-> TRUE]
        ELSE Rebuilt(value,
                     FoldLeft(DeleteOne, Updates(Creations(value.map)), p.delete))

Apply(p, value) ==
    IF Validate(p) THEN ApplyAt(p, value)
                   ELSE [ok |-> FALSE, value |-> value, same |-> TRUE]

-----------------------------------------------------------------------------
(* The reference: what a patch means on plain JSON, all keys at once.      *)
RECURSIVE Applies(_, _)
Applies(p, j) ==
    /\ j.tag = "fields"
    /\ DOMAIN p.create \cap DOMAIN j.fields = {}
    /\ DOMAIN p.update \subseteq DOMAIN j.fields
    /\ ToSet(p.delete) \subseteq DOMAIN j.fields
    /\ \A k \in DOMAIN p.update :
         IF p.update[k].tag = "patch" THEN Applies(p.update[k], j.fields[k])
                                      ELSE j.fields[k].tag = "atom"

RECURSIVE Applied(_, _)
Applied(p, j) ==
    Fields([k \in (DOMAIN p.create \cup DOMAIN j.fields) \ ToSet(p.delete) |->
              CASE k \in DOMAIN p.create -> ToJson(p.create[k])
                [] k \in DOMAIN p.update ->
                     IF p.update[k].tag = "patch"
                     THEN Applied(p.update[k], j.fields[k])
                     ELSE p.update[k]
                [] OTHER -> j.fields[k]])

RECURSIVE AppliedAll(_, _)
AppliedAll(patches, j) ==
    IF patches = << >> THEN j
    ELSE AppliedAll(Tail(patches), Applied(Head(patches), j))
=============================================================================
