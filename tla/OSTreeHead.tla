------------------------------ MODULE OSTreeHead ------------------------------
(***************************************************************************)
(* OSTreeHead (ostree.h): an order statistic tree whose caller inserts     *)
(* timestamps in any order and removes entries by rank.  OSTCacheSim uses  *)
(* it in one particular way; this is any use of its interface.             *)
(***************************************************************************)
EXTENDS OSTree

CONSTANT Timestamps  \* timestamps, positive integers

ASSUME TimestampsAssumption == Timestamps \subseteq Nat

VARIABLES
    head,     \* the root of the tree
    entries   \* the entries the tree should hold

vars == <<head, entries>>

Init == head = Nil /\ entries = {}

HeadInsert(ts, value) ==
    /\ \A e \in entries : e.ts # ts
    /\ head' = Insert(head, ts, value)
    /\ entries' = entries \cup {[ts |-> ts, value |-> value]}

LaterThan(e) == {d \in entries : d.ts > e.ts}

\* Removes the element with rank predecessors: the caller's view is the entry
\* that has this many later ones.
HeadRemove(rank) ==
    /\ rank < Size(head)
    /\ head' = Remove(head, rank).tree
    /\ entries' = {e \in entries : Cardinality(LaterThan(e)) # rank}

Next ==
    \/ \E ts \in Timestamps, value \in Stored : HeadInsert(ts, value)
    \/ \E rank \in 0..(Size(head) - 1) : HeadRemove(rank)

Spec == Init /\ [][Next]_vars

-----------------------------------------------------------------------------
(* Properties                                                              *)

\* Weights and order hold at every node, the tree holds the entries that were
\* inserted and not removed, and the rank found for each is its number of
\* later entries: remove takes out what find found.
TreeHoldsEntries ==
    /\ IsSearchTree(head)
    /\ Values(head) = entries
    /\ \A e \in entries :
          /\ Find(head, e.ts) = Found(Cardinality(LaterThan(e)), e.value)
          /\ Remove(head, Cardinality(LaterThan(e))).removed = e
    /\ entries # {} => \E e \in entries :
          /\ \A d \in entries : e.ts <= d.ts
          /\ LastValue(head) = e.value

\* "remove never increases the depth of the tree", the reason why it does
\* without rebalancing.
RemoveNeverDeepens ==
    [][Size(head') < Size(head) => Depth(head') <= Depth(head)]_vars

\* "The tree may get out of balance after inserting, but only by 1 element":
\* at every node on the way to the new one.
InsertOffByOneElement ==
    [][\A e \in entries' \ entries : \A n \in Path(head', e.ts) :
          LET l == Size(n.left) + 1
              r == Size(n.right) + 1
          IN l <= 2 * r + 1 /\ r <= 2 * l + 1]_vars

=============================================================================
