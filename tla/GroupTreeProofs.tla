---------------------------- MODULE GroupTreeProofs ----------------------------
(* What holds of any number of groups, any writes and any order of           *)
(* creations, destructions and grace periods: WalksAllocated, RtSumsFit and  *)
(* QuotasFit.                                                                *)
(*                                                                           *)
(* A walk may stand on a group that was unlinked under it, and the pointers  *)
(* that group still has lead to groups that may be unlinked in turn.  Safe   *)
(* says what a walk may stand on, and HeldOK that what such a group points   *)
(* to is safe for every walk it waits for.  That list_del_rcu leaves no      *)
(* pointer to the group among those that are linked is ListsOK: one pointer  *)
(* leads to each, from its parent or its sibling.                            *)
(*                                                                           *)
(* That a walk that ends has checked every group it found and still finds in *)
(* the tree is not said of the groups it has left, which nothing records,    *)
(* but of those it has yet to come to: of a trap, a set of positions the     *)
(* walk cannot leave but through the group.  WillVisit is that there is one, *)
(* and Reached that there is one for every group at the start.               *)
EXTENDS GroupTree, DataProofs

Names == {"rt", "cfs"}

Places == [at : Node \union {None}, up : BOOLEAN, tg : Node \union {None},
           new : bounds.shares \union {<<1, 0>>}]

TypeOK ==
    /\ mem \in [Group -> {"free", "linked", "unlinked"}]
    /\ parent \in [Group -> Node]
    /\ first \in [Node -> Group \union {None}]
    /\ next \in [Group -> Group \union {None}]
    /\ readers \in [Group -> SUBSET Names]
    /\ walk \in [Names -> Places]

InTree(x) == x \in Linked \union {Root}

\* Walk w may stand on x: it is in the tree, or waits for w before it is freed.
Held(w, x) == x \in Group /\ mem[x] = "unlinked" /\ w \in readers[x]
Safe(w, x) == InTree(x) \/ Held(w, x)

\* The lists of children.
ListsOK ==
    /\ \A x \in Linked : InTree(parent[x])
    /\ \A x \in Linked : next[x] # None => next[x] \in Linked /\ parent[next[x]] = parent[x]
    /\ \A x \in Node : InTree(x) /\ first[x] # None => first[x] \in Linked /\ parent[first[x]] = x
    /\ \A x, y \in Linked : next[x] # None /\ next[x] = next[y] => x = y
    /\ \A x \in Linked : \A y \in Node : InTree(y) /\ next[x] # None => next[x] # first[y]

\* What is taken out of a list, and a walk may still stand on.
HeldOK ==
    \A w \in Names, x \in Group :
       Held(w, x) => /\ w \in Walking
                     /\ Safe(w, parent[x])
                     /\ next[x] # None => Safe(w, next[x]) /\ parent[next[x]] = parent[x]
                     /\ first[x] = None

WalkOK == \A w \in Walking : Safe(w, walk[w].at) /\ (walk[w].tg = None \/ InTree(walk[w].tg))

TreeOK == TypeOK /\ ListsOK /\ HeldOK /\ WalkOK

\* A group is not destroyed while a write to one of its files waits.
WritersOK ==
    /\ pending \in [Names -> (Node \X bounds.shares) \union {None}]
    /\ \A name \in Names : pending[name] # None => InTree(pending[name][1])
    /\ pending["cfs"] # None => pending["cfs"][1] # Root

-----------------------------------------------------------------------------
(* The walks. *)

\* Idle walks.
LEMMA Idle ==
    /\ idle \in Places /\ idle.at = None
    /\ \A g, new : /\ walk_tg_tree(g, new).at = Root /\ walk_tg_tree(g, new).tg = g
                   /\ g \in Node \union {None} /\ new \in bounds.shares \union {<<1, 0>>}
                         => walk_tg_tree(g, new) \in Places
BY DEF idle, walk_tg_tree, Places, Node

\* walk_tg_tree_from goes to a child, to the next sibling or up, or ends at the root.
LEMMA Onwards ==
    ASSUME TypeOK, NEW w \in Places, NEW g \in Node, NEW child \in Group \union {None},
           NEW on, on = walk_on(w, g, child)
    PROVE  \/ child = None /\ g = Root /\ on = idle
           \/ /\ on \in Places /\ on # idle /\ on.at # None
              /\ on.tg = w.tg /\ on.new = w.new
              /\ \/ child # None /\ on.at = child /\ ~on.up
                 \/ /\ child = None /\ g \in Group
                    /\ IF next[g] # None THEN on.at = next[g] /\ ~on.up
                                         ELSE on.at = parent[g] /\ on.up
<1> DEFINE At(x, b) == [w EXCEPT !.at = x, !.up = b]
<1>1. ASSUME NEW x \in Node, NEW b \in BOOLEAN
      PROVE  /\ At(x, b) \in Places /\ At(x, b).at = x /\ At(x, b).up = b /\ At(x, b).at # None
             /\ At(x, b).tg = w.tg /\ At(x, b).new = w.new
  BY NameAssumption DEF Places, Node
<1>2. idle.at = None
  BY Idle
<1>3. CASE child # None
  <2>1. on = At(child, FALSE) /\ child \in Node
    BY <1>3 DEF Node, walk_on
  <2> HIDE DEF At
  <2> QED BY <1>1, <1>2, <1>3, <2>1
<1>4. CASE child = None /\ g = Root
  BY <1>4 DEF walk_on
<1>5. CASE child = None /\ g # Root /\ next[g] # None
  <2>1. on = At(next[g], FALSE) /\ g \in Group /\ next[g] \in Node
    BY <1>5 DEF Node, TypeOK, walk_on
  <2> HIDE DEF At
  <2> QED BY <1>1, <1>2, <1>5, <2>1
<1>6. CASE child = None /\ g # Root /\ next[g] = None
  <2>1. on = At(parent[g], TRUE) /\ g \in Group /\ parent[g] \in Node
    BY <1>6 DEF Node, TypeOK, walk_on
  <2> HIDE DEF At
  <2>2. /\ on \in Places /\ on.at = parent[g] /\ on.up = TRUE /\ on.at # None
        /\ on.tg = w.tg /\ on.new = w.new
    BY <1>1, <2>1
  <2> QED BY <1>2, <1>6, <2>1, <2>2
<1> QED BY <1>3, <1>4, <1>5, <1>6

\* A walk that ends lets go of what it held, and nothing else changes.
LEMMA WalkEnds ==
    ASSUME TreeOK, NEW name \in Names, Stops(name), UNCHANGED <<bounds, mem, parent, first, next>>
    PROVE  TreeOK'
<1>1. /\ walk' = [walk EXCEPT ![name] = idle] /\ idle \in Places /\ idle.at = None
      /\ readers' = [g \in Group |-> readers[g] \ {name}]
  BY Idle DEF Stops, Ends
<1>2. TypeOK'
  BY <1>1 DEF TreeOK, TypeOK, Places
<1>3. Linked' = Linked /\ \A x : InTree(x)' <=> InTree(x)
  BY DEF Linked, InTree
<1>4. ListsOK'
  BY <1>3 DEF TreeOK, ListsOK
<1>5. \A x, w : Held(w, x)' <=> Held(w, x) /\ w # name
  BY <1>1 DEF Held
<1>6. \A x, w : w # name => (Safe(w, x)' <=> Safe(w, x))
  BY <1>3, <1>5 DEF Safe
<1>7. Walking' = Walking \ {name} /\ \A w \in Names \ {name} : walk'[w] = walk[w]
  BY <1>1 DEF Walking, TreeOK, TypeOK, Names
<1>8. HeldOK'
  BY <1>5, <1>6, <1>7 DEF TreeOK, HeldOK
<1>9. WalkOK'
  BY <1>3, <1>6, <1>7 DEF TreeOK, WalkOK, Walking, Names
<1> QED BY <1>2, <1>4, <1>8, <1>9 DEF TreeOK

\* A walk stays on what is safe for it.
LEMMA WalkMoves ==
    ASSUME TreeOK, NEW name \in Names, walk[name].at # None, Moves(name),
           UNCHANGED <<bounds, mem, parent, first, next>>
    PROVE  TreeOK'
<1>1. PICK w, child, on : /\ w = walk[name] /\ child = IF w.up THEN None ELSE first[w.at]
                          /\ on = walk_on(w, w.at, child)
  OBVIOUS
<1>2. walk' = [walk EXCEPT ![name] = on] /\ IF on = idle THEN Ends(name) ELSE UNCHANGED readers
  BY <1>1 DEF Moves
<1>3. CASE on = idle
  BY <1>2, <1>3, WalkEnds DEF Stops
<1>4. CASE on # idle
  <2>1. w \in Places /\ w.at \in Node /\ child \in Group \union {None}
    BY <1>1 DEF TreeOK, TypeOK, Places
  <2>2. /\ on \in Places /\ on.tg = w.tg /\ on.at # None
        /\ \/ child # None /\ on.at = child
           \/ w.at \in Group /\ next[w.at] # None /\ on.at = next[w.at]
           \/ w.at \in Group /\ on.at = parent[w.at]
    BY <1>1, <1>4, <2>1, Onwards DEF TreeOK
  <2>3. TypeOK'
    BY <1>2, <1>4, <2>2 DEF TreeOK, TypeOK, Places
  <2>4. Linked' = Linked /\ (\A x : InTree(x)' <=> InTree(x)) /\ \A x, v : Held(v, x)' <=> Held(v, x)
    BY <1>2, <1>4 DEF Linked, InTree, Held
  <2>5. \A x, v : Safe(v, x)' <=> Safe(v, x)
    BY <2>4 DEF Safe
  <2>6. Walking' = Walking /\ name \in Walking /\ walk'[name] = on /\ \A v \in Names \ {name} : walk'[v] = walk[v]
    BY <1>2, <2>2 DEF Walking, TreeOK, TypeOK, Names
  <2>7. ListsOK' /\ HeldOK'
    BY <2>4, <2>5, <2>6 DEF TreeOK, ListsOK, HeldOK
  <2>8. Safe(name, w.at) /\ (w.tg = None \/ InTree(w.tg))
    BY <1>1, <2>6 DEF TreeOK, WalkOK
  <2>9. Safe(name, on.at)
    <3>1. CASE InTree(w.at)
      <4>1. child # None => InTree(child)
        BY <1>1, <2>1, <3>1 DEF TreeOK, ListsOK, InTree
      <4>2. w.at \in Group => w.at \in Linked
        BY <3>1, NameAssumption DEF InTree
      <4> QED BY <2>2, <4>1, <4>2 DEF TreeOK, ListsOK, InTree, Safe
    <3>2. CASE Held(name, w.at)
      <4>1. child = None
        BY <1>1, <3>2 DEF TreeOK, HeldOK, Held
      <4> QED BY <2>2, <3>2, <4>1 DEF TreeOK, HeldOK, Held
    <3> QED BY <2>8, <3>1, <3>2 DEF Safe
  <2>10. WalkOK'
    BY <2>2, <2>4, <2>5, <2>6, <2>8, <2>9 DEF TreeOK, WalkOK, Walking, Names
  <2> QED BY <2>3, <2>7, <2>10 DEF TreeOK
<1> QED BY <1>3, <1>4

\* A walk starts at the root.
LEMMA WalkStarts ==
    ASSUME TreeOK, NEW name \in Names, walk[name] = idle, NEW g, g = None \/ (g \in Node /\ InTree(g)),
           NEW new \in bounds.shares \union {<<1, 0>>},
           walk' = [walk EXCEPT ![name] = walk_tg_tree(g, new)], UNCHANGED <<bounds, tree>>
    PROVE  TreeOK'
<1>1. PICK w : w = walk_tg_tree(g, new)
  OBVIOUS
<1>2. w \in Places /\ w.at = Root /\ w.tg = g
  BY <1>1, Idle
<1>3. TypeOK'
  BY <1>1, <1>2 DEF TreeOK, TypeOK, Places, tree
<1>4. /\ Linked' = Linked /\ (\A x : InTree(x)' <=> InTree(x)) /\ \A x, v : Held(v, x)' <=> Held(v, x)
  BY DEF Linked, InTree, Held, tree
<1>5. \A x, v : Safe(v, x)' <=> Safe(v, x)
  BY <1>4 DEF Safe
<1>6. Walking' = Walking \union {name} /\ walk'[name] = w /\ \A v \in Names \ {name} : walk'[v] = walk[v]
  BY <1>1, <1>2, NameAssumption DEF Walking, TreeOK, TypeOK, Names
<1>7. ListsOK'
  BY <1>4 DEF TreeOK, ListsOK, tree
<1>8. HeldOK'
  BY <1>4, <1>5, <1>6 DEF TreeOK, HeldOK, tree
<1>9. WalkOK'
  BY <1>2, <1>4, <1>5, <1>6 DEF TreeOK, WalkOK, Walking, Names, Safe, InTree
<1> QED BY <1>3, <1>7, <1>8, <1>9 DEF TreeOK

-----------------------------------------------------------------------------
(* Groups come and go. *)

\* sched_create_group: the new group is the first child, and no pointer led to it.
LEMMA CreateKeeps ==
    ASSUME TreeOK, NEW g \in Group, NEW up \in Node, Create(g, up)
    PROVE  TreeOK'
<1>1. /\ mem[g] = "free" /\ InTree(up) /\ g # up /\ up # None /\ g # None
      /\ mem' = [mem EXCEPT ![g] = "linked"] /\ parent' = [parent EXCEPT ![g] = up]
      /\ next' = [next EXCEPT ![g] = first[up]] /\ first' = [first EXCEPT ![g] = None, ![up] = g]
      /\ UNCHANGED <<bounds, readers, walk>>
  BY NameAssumption DEF Create, kzalloc, InTree, Linked, Node
<1>2. TypeOK'
  BY <1>1 DEF TreeOK, TypeOK, Places, Node
<1>3. /\ Linked' = Linked \union {g} /\ g \notin Linked /\ ~InTree(g)
      /\ \A x : InTree(x)' <=> InTree(x) \/ x = g
  BY <1>1, NameAssumption DEF Linked, InTree, TreeOK, TypeOK
<1>4. /\ \A x \in Group : x # g => parent'[x] = parent[x] /\ next'[x] = next[x]
      /\ \A x \in Node : x # g /\ x # up => first'[x] = first[x]
      /\ parent'[g] = up /\ next'[g] = first[up] /\ first'[g] = None /\ first'[up] = g
  BY <1>1 DEF TreeOK, TypeOK, Node
<1>5. \A x, w : Held(w, x)' <=> Held(w, x)
  BY <1>1 DEF Held, TreeOK, TypeOK
<1>6. \A x, w : Safe(w, x) => Safe(w, x)'
  BY <1>3, <1>5 DEF Safe
<1>7. ListsOK'
  <2>1. /\ \A x \in Linked : x \in Group /\ x \in Node /\ x # g /\ x # None /\ InTree(x)
        /\ up \in Linked \/ up = Root
    BY <1>1, <1>3, NameAssumption DEF Linked, Node, InTree
  <2>2. \A x \in Linked : /\ InTree(parent[x]) /\ parent'[x] = parent[x] /\ next'[x] = next[x]
                          /\ next[x] # None => next[x] \in Linked /\ parent[next[x]] = parent[x]
    BY <1>4, <2>1 DEF TreeOK, ListsOK
  <2>3. \A x \in Node : InTree(x) => /\ x # g
                                     /\ first[x] # None => first[x] \in Linked /\ parent[first[x]] = x
                                     /\ x # up => first'[x] = first[x]
    BY <1>3, <1>4 DEF TreeOK, ListsOK
  <2>4. /\ \A x, y \in Linked : next[x] # None /\ next[x] = next[y] => x = y
        /\ \A x \in Linked : \A y \in Node : InTree(y) /\ next[x] # None => next[x] # first[y]
    BY DEF TreeOK, ListsOK
  <2>5. ASSUME NEW x \in Linked'
        PROVE  InTree(parent[x])'
    <3>1. CASE x = g
      BY <1>1, <1>3, <1>4, <3>1
    <3>2. CASE x # g
      <4>1. x \in Linked /\ InTree(parent[x]) /\ parent'[x] = parent[x]
        BY <1>3, <2>2, <3>2
      <4> QED BY <1>3, <4>1
    <3> QED BY <3>1, <3>2
  <2>6. \A x \in Linked' : next'[x] # None => next'[x] \in Linked' /\ parent'[next'[x]] = parent'[x]
    BY <1>1, <1>3, <1>4, <2>2, <2>3
  <2>7. ASSUME NEW x \in Node, InTree(x)', first'[x] # None
        PROVE  first'[x] \in Linked' /\ parent'[first'[x]] = x
    <3>1. CASE x = g \/ x = up
      BY <1>3, <1>4, <2>7, <3>1
    <3>2. CASE x # g /\ x # up
      <4>1. InTree(x) /\ first'[x] = first[x] /\ first[x] # None
        BY <1>3, <2>3, <2>7, <3>2
      <4>2. first[x] \in Linked /\ parent[first[x]] = x
        BY <2>3, <4>1
      <4> QED BY <1>3, <2>2, <4>1, <4>2
    <3> QED BY <3>1, <3>2
  <2>8. \A x, y \in Linked' : next'[x] # None /\ next'[x] = next'[y] => x = y
    BY <1>1, <1>3, <1>4, <2>2, <2>4
  <2>9. ASSUME NEW x \in Linked', NEW y \in Node, InTree(y)', next'[x] # None
        PROVE  next'[x] # first'[y]
    <3>1. CASE y = g
      BY <1>4, <2>9, <3>1
    <3>2. CASE y = up
      <4>1. next'[x] \in Linked
        BY <1>1, <1>3, <1>4, <2>2, <2>3, <2>9
      <4> QED BY <1>4, <2>1, <3>2, <4>1
    <3>3. CASE y # g /\ y # up
      <4>1. InTree(y) /\ first'[y] = first[y]
        BY <1>3, <2>3, <2>9, <3>3
      <4>2. CASE x = g
        BY <1>1, <1>4, <2>3, <2>9, <3>3, <4>1, <4>2
      <4>3. CASE x # g
        BY <1>3, <2>2, <2>4, <2>9, <4>1, <4>3
      <4> QED BY <4>2, <4>3
    <3> QED BY <3>1, <3>2, <3>3
  <2> QED BY <2>5, <2>6, <2>7, <2>8, <2>9 DEF ListsOK
<1>8. HeldOK'
  <2>1. ASSUME NEW w \in Names, NEW x \in Group, Held(w, x)
        PROVE  x # g /\ x # up /\ w \in Walking' /\ first'[x] = None
    <3>1. x # g /\ x # up
      BY <1>1, <2>1, NameAssumption DEF Held, InTree, Linked
    <3>2. w \in Walking /\ first[x] = None
      BY <2>1 DEF TreeOK, HeldOK
    <3> QED BY <1>1, <1>4, <3>1, <3>2 DEF Walking, Node
  <2>2. ASSUME NEW w \in Names, NEW x \in Group, Held(w, x), next[x] # None
        PROVE  Safe(w, next[x]) /\ parent[next[x]] = parent[x] /\ next[x] \in Group \ {g}
    <3>1. Safe(w, next[x]) /\ parent[next[x]] = parent[x] /\ next[x] \in Group
      BY <2>2 DEF TreeOK, HeldOK, TypeOK
    <3>2. ~Safe(w, g)
      BY <1>1, <1>3 DEF Safe, Held
    <3> QED BY <3>1, <3>2
  <2>3. \A w \in Names, x \in Group : Held(w, x) => Safe(w, parent[x])
    BY DEF TreeOK, HeldOK
  <2> QED BY <1>4, <1>5, <1>6, <2>1, <2>2, <2>3 DEF HeldOK
<1>9. WalkOK'
  BY <1>1, <1>3, <1>6 DEF TreeOK, WalkOK, Walking
<1> QED BY <1>2, <1>7, <1>8, <1>9 DEF TreeOK

\* list_del_rcu: the only pointer to the group is taken off it.
LEMMA DestroyKeeps ==
    ASSUME TreeOK, NEW g \in Group, Destroy(g)
    PROVE  TreeOK'
<1>1. /\ g \in Linked /\ Children(g) = {} /\ (\A w \in Walking : walk[w].tg # g)
      /\ mem' = [mem EXCEPT ![g] = "unlinked"] /\ readers' = [readers EXCEPT ![g] = Walking]
      /\ UNCHANGED <<bounds, parent, walk>>
  BY DEF Destroy, wait_for_readers
<1>2. ListsOK /\ Linked \subseteq Group /\ Group \subseteq Node /\ Walking \subseteq Names
      /\ g # None /\ g # Root
  BY NameAssumption DEF TreeOK, Linked, Node, Walking, Names
<1>3. /\ Linked' = Linked \ {g} /\ \A x : InTree(x)' <=> InTree(x) /\ x # g
  BY <1>1, <1>2 DEF Linked, InTree, TreeOK, TypeOK
<1>4. /\ \A x \in Node : x # parent[g] \/ first[parent[g]] # g => first'[x] = first[x]
      /\ \A x \in Group : first[parent[g]] = g \/ x \notin Linked \/ next[x] # g => next'[x] = next[x]
      /\ first[parent[g]] = g => first'[parent[g]] = next[g]
      /\ \A x \in Linked : first[parent[g]] # g /\ next[x] = g => next'[x] = next[g]
      /\ first' \in [Node -> Group \union {None}] /\ next' \in [Group -> Group \union {None}]
  BY <1>1, <1>2 DEF Destroy, TreeOK, TypeOK
<1>5. TypeOK'
  BY <1>1, <1>2, <1>4 DEF TreeOK, TypeOK, Places
<1>6. InTree(parent[g]) /\ parent[g] \in Node /\ parent[g] # g
  BY <1>1, <1>2 DEF TreeOK, TypeOK, ListsOK, Children
<1>7. \A w \in Names, x \in Group : Held(w, x)' <=> Held(w, x) \/ (x = g /\ w \in Walking)
  BY <1>1, <1>2 DEF TreeOK, TypeOK, Held, Linked
<1>8. \A w \in Walking : \A x : Safe(w, x) => Safe(w, x)'
  BY <1>1, <1>2, <1>3, <1>7 DEF Safe, Held, InTree
<1>9. /\ \A x \in Linked : next[x] = g => first[parent[g]] # g
      /\ \A x \in Node : InTree(x) /\ first[x] = g => x = parent[g]
      /\ first[g] = None
  BY <1>1, <1>2, <1>6 DEF ListsOK, Children, InTree
<1>10. ListsOK'
  <2>1. \A x \in Linked' : /\ x \in Linked /\ x # g /\ x \in Group /\ parent'[x] = parent[x]
                           /\ InTree(parent[x]) /\ parent[x] # g
                           /\ next[x] # None => next[x] \in Linked /\ parent[next[x]] = parent[x]
    BY <1>1, <1>2, <1>3 DEF ListsOK, Children
  <2>2. \A x \in Linked' : InTree(parent[x])'
    BY <1>3, <2>1
  <2>3. /\ next[g] # None => next[g] \in Linked /\ parent[next[g]] = parent[g]
        /\ \A x \in Linked' : next[x] = g => next[g] # g
        /\ first[parent[g]] = g => next[g] # g
    BY <1>1, <1>2, <1>9, <2>1 DEF ListsOK
  \* What a pointer of those that stay becomes.
  <2>4. \A x \in Linked' : \/ next'[x] = next[x] /\ next[x] # g
                           \/ next'[x] = next[g] /\ next[x] = g /\ first[parent[g]] # g
    BY <1>4, <1>9, <2>1
  <2>5. ASSUME NEW x \in Node, InTree(x)'
        PROVE  /\ InTree(x) /\ x # g
               /\ \/ first'[x] = first[x] /\ first[x] # g
                  \/ first'[x] = next[g] /\ first[x] = g /\ x = parent[g]
    BY <1>3, <1>4, <1>9, <2>5
  <2>6. \A x \in Linked' : next'[x] # None => next'[x] \in Linked' /\ parent'[next'[x]] = parent'[x]
    BY <1>1, <1>2, <1>3, <2>1, <2>3, <2>4
  <2>7. \A x \in Node : InTree(x)' /\ first'[x] # None => first'[x] \in Linked' /\ parent'[first'[x]] = x
    <3>1. \A x \in Node : InTree(x) /\ first[x] # None => first[x] \in Linked /\ parent[first[x]] = x
      BY <1>2 DEF ListsOK
    <3> QED BY <1>1, <1>2, <1>3, <2>3, <2>5, <3>1
  <2>8. /\ \A x, y \in Linked : next[x] # None /\ next[x] = next[y] => x = y
        /\ \A x \in Linked : \A y \in Node : InTree(y) /\ next[x] # None => next[x] # first[y]
    BY <1>2 DEF ListsOK
  <2>9. \A x, y \in Linked' : next'[x] # None /\ next'[x] = next'[y] => x = y
    BY <1>1, <1>2, <2>1, <2>4, <2>8
  <2>10. \A x \in Linked' : \A y \in Node : InTree(y)' /\ next'[x] # None => next'[x] # first'[y]
    BY <1>1, <1>2, <1>9, <2>1, <2>4, <2>5, <2>8
  <2> QED BY <2>2, <2>6, <2>7, <2>9, <2>10 DEF ListsOK
<1>11. HeldOK'
  <2> SUFFICES ASSUME NEW w \in Names, NEW x \in Group, Held(w, x)'
               PROVE  /\ w \in Walking'
                      /\ Safe(w, parent[x])'
                      /\ (next[x] # None => Safe(w, next[x]) /\ parent[next[x]] = parent[x])'
                      /\ (first[x] = None)'
    BY DEF HeldOK
  <2>1. Walking' = Walking
    BY <1>1 DEF Walking
  <2>2. CASE x = g
    <3>1. w \in Walking
      BY <1>1, <1>7, <2>2 DEF Held, Linked
    <3>2. parent'[x] = parent[g] /\ next'[x] = next[g] /\ first'[x] = None
      BY <1>1, <1>2, <1>4, <1>6, <1>9, <2>2
    <3>3. next[g] # None => next[g] \in Linked /\ parent[next[g]] = parent[g]
      BY <1>1, <1>2 DEF ListsOK
    <3>4. Safe(w, parent[g]) /\ (next[g] # None => Safe(w, next[g]))
      BY <1>6, <3>3 DEF Safe, InTree
    <3>5. \A y : Safe(w, y) => Safe(w, y)'
      BY <1>8, <3>1
    <3> QED BY <1>1, <2>1, <2>2, <3>1, <3>2, <3>3, <3>4, <3>5 DEF Safe, InTree, Held
  <2>3. CASE x # g
    <3>1. /\ Held(w, x) /\ w \in Walking /\ Safe(w, parent[x]) /\ first[x] = None
          /\ next[x] # None => Safe(w, next[x]) /\ parent[next[x]] = parent[x]
      BY <1>7, <2>3 DEF TreeOK, HeldOK
    <3>2. parent'[x] = parent[x] /\ next'[x] = next[x] /\ first'[x] = None
      <4>1. x \notin Linked /\ x # parent[g] /\ x \in Node
        BY <1>2, <1>6, <3>1, NameAssumption DEF Held, Linked, InTree
      <4> QED BY <1>1, <1>4, <3>1, <4>1
    <3> QED BY <1>1, <1>8, <2>1, <3>1, <3>2 DEF Safe, InTree, Held
  <2> QED BY <2>2, <2>3
<1>12. WalkOK'
  BY <1>1, <1>3, <1>8 DEF TreeOK, WalkOK, Walking
<1> QED BY <1>5, <1>10, <1>11, <1>12 DEF TreeOK

\* free_sched_group_rcu: no walk may stand on the group, and no pointer leads to it.
LEMMA FreeRcuKeeps ==
    ASSUME TreeOK, NEW g \in Group, FreeRcu(g)
    PROVE  TreeOK'
<1>1. /\ mem[g] = "unlinked" /\ readers[g] = {}
      /\ mem' = [mem EXCEPT ![g] = "free"] /\ parent' = [parent EXCEPT ![g] = Root]
      /\ next' = [next EXCEPT ![g] = None] /\ first' = [first EXCEPT ![g] = None]
      /\ UNCHANGED <<bounds, readers, walk>>
  BY DEF FreeRcu
<1>2. TypeOK'
  BY <1>1 DEF TreeOK, TypeOK, Places, Node
<1>3. /\ Linked' = Linked /\ g \notin Linked /\ Linked \subseteq Group /\ ~InTree(g)
      /\ \A x : InTree(x)' <=> InTree(x)
  BY <1>1, NameAssumption DEF Linked, InTree, TreeOK, TypeOK
<1>4. /\ \A x \in Group : x # g => parent'[x] = parent[x] /\ next'[x] = next[x]
      /\ \A x \in Node : x # g => first'[x] = first[x]
  BY <1>1 DEF TreeOK, TypeOK, Node
<1>5. /\ \A x, w : Held(w, x)' <=> Held(w, x)
      /\ \A x, w : Held(w, x) => x # g
  BY <1>1 DEF Held, TreeOK, TypeOK
<1>6. \A x, w : Safe(w, x)' <=> Safe(w, x)
  BY <1>3, <1>5 DEF Safe
<1>7. /\ \A x \in Linked : parent'[x] = parent[x] /\ next'[x] = next[x]
      /\ \A x \in Node : InTree(x) => first'[x] = first[x]
  BY <1>3, <1>4
<1>8. ListsOK'
  <2>1. /\ \A x \in Linked : InTree(parent[x])'
        /\ \A x \in Linked : next'[x] # None => next'[x] \in Linked /\ parent'[next'[x]] = parent'[x]
    BY <1>3, <1>7 DEF TreeOK, ListsOK
  <2>2. \A x \in Node : InTree(x)' /\ first'[x] # None => first'[x] \in Linked /\ parent'[first'[x]] = x
    BY <1>3, <1>7 DEF TreeOK, ListsOK
  <2>3. /\ \A x, y \in Linked : next'[x] # None /\ next'[x] = next'[y] => x = y
        /\ \A x \in Linked : \A y \in Node : InTree(y)' /\ next'[x] # None => next'[x] # first'[y]
    BY <1>3, <1>7 DEF TreeOK, ListsOK
  <2> QED BY <1>3, <2>1, <2>2, <2>3 DEF ListsOK
<1>9. HeldOK'
  <2>1. ASSUME NEW w \in Names, NEW x \in Group, Held(w, x)'
        PROVE  /\ Held(w, x) /\ parent'[x] = parent[x] /\ next'[x] = next[x] /\ first'[x] = first[x]
    BY <1>4, <1>5, <2>1 DEF Node
  <2>2. ASSUME NEW w \in Names, NEW x \in Group, Held(w, x), next[x] # None
        PROVE  Safe(w, next[x]) /\ parent'[next[x]] = parent[x]
    <3>1. Safe(w, next[x]) /\ parent[next[x]] = parent[x] /\ next[x] \in Group
      BY <2>2 DEF TreeOK, HeldOK, TypeOK
    <3>2. ~Safe(w, g)
      BY <1>1, <1>3 DEF Safe, Held
    <3> QED BY <1>4, <3>1, <3>2
  <2> QED BY <1>1, <1>6, <2>1, <2>2 DEF TreeOK, HeldOK, Walking
<1>10. WalkOK'
  BY <1>1, <1>3, <1>6 DEF TreeOK, WalkOK, Walking
<1> QED BY <1>2, <1>8, <1>9, <1>10 DEF TreeOK

-----------------------------------------------------------------------------
(* What a walk is bound to visit. *)

\* A walk that leaves x for good goes on to the next sibling, or up.
Leaves(x, D, U) == x # Root /\ IF next[x] # None THEN next[x] \in D ELSE parent[x] \in U

\* A walk that has come down to a group of D, or up to one of U, goes on to
\* another of these until it comes down to f.
Trap(D, U, f) ==
    /\ \A x \in D \ {f} : IF first[x] # None THEN first[x] \in D ELSE Leaves(x, D, U)
    /\ \A x \in U : Leaves(x, D, U)

\* A walk that starts at the root visits every group of the tree.
Reached ==
    \A f \in Node : InTree(f) =>
        \E D, U \in SUBSET {x \in Node : InTree(x)} : Root \in D /\ Trap(D, U, f)

\* Walk w of v comes to f, whatever is unlinked under it.
WillVisit(v, w, f) ==
    \E D, U \in SUBSET {x \in Node : Safe(v, x)} :
        (IF w.up THEN w.at \in U ELSE w.at \in D) /\ Trap(D, U, f)

\* What is asked of one group: its children have no more than it has itself.
Fits(r, g) == sum_of_children(r, g) <= to_ratio(r[g])

\* The groups the new bandwidth of w matters to.
Targets(w) == {w.tg} \union {parent[x] : x \in {w.tg} \intersect Group}

\* They fit with the new bandwidth once the walk has visited them.
ChecksOK ==
    LET w == walk["rt"]
    IN  w.at # None /\ ~Sysctl(w) => \A f \in Targets(w) : Fits(proposed(w), f) \/ WillVisit("rt", w, f)

Bandwidths == (Nat \ {0}) \X (Nat \union {Inf})

RatesOK ==
    /\ bounds \in Cases
    /\ rt \in [Node -> Bandwidths]
    /\ sysctl \in Nat \X (Nat \union {Inf})
    /\ IF saved = None THEN sysctl \in Bandwidths ELSE saved \in Bandwidths
    /\ def_period \in Nat \ {0}
    /\ walk["rt"].at # None /\ Sysctl(walk["rt"]) => saved # None /\ sysctl \in Bandwidths

SumsOK == TreeOK /\ RatesOK /\ Reached /\ ChecksOK /\ RtSumsFit

QuotaTypes ==
    /\ cfs \in [Node -> Bandwidths] /\ cfs[Root][2] = Inf
    /\ hierarchal_quota \in [Node -> Nat \union {Inf}]
    /\ walk["cfs"].at # None => walk["cfs"].tg \in Group

\* The groups of V have the quota that follows from those above them.
Visited(V, w) ==
    \A v \in V : /\ v # Root => parent[v] \in V
                 /\ hierarchal_quota[v] = effective_quota(v, w)
                 /\ tg_cfs_schedulable_down(v, w)

Limited(w, f) == normalize_cfs_quota(f, w) # Inf

\* What a walk has visited, and that it will visit every group with a limit.
QuotaChecks ==
    \A w \in {walk["cfs"]} :
        w.at # None =>
            \E V \in SUBSET {x \in Node : Safe("cfs", x)} :
                /\ Visited(V, w)
                /\ IF w.up THEN w.at \in V ELSE w.at # Root => parent[w.at] \in V
                /\ \A f \in Linked : Limited(w, f) => f \in V \/ WillVisit("cfs", w, f)

QuotasOK == SumsOK /\ QuotaTypes /\ QuotaChecks /\ QuotasFit

-----------------------------------------------------------------------------
(* Bandwidths and their sums. *)

Ratios(r) == [c \in Node |-> to_ratio(r[c])]

\* Of x with the children K.
FitsIn(r, K, x) == SumFunctionOnSet(Ratios(r), K) <= to_ratio(r[x])

\* to_ratio
LEMMA Ratio ==
    ASSUME NEW b \in Bandwidths
    PROVE  to_ratio(b) \in Nat /\ (b[2] = 0 => to_ratio(b) = 0)
<1>1. b[1] \in Nat \ {0} /\ b[2] \in Nat \union {Inf} /\ Unit \in Nat /\ Inf # 0
  BY BandwidthAssumption DEF Bandwidths
<1>2. CASE b[2] = Inf
  BY <1>1, <1>2 DEF to_ratio
<1>3. CASE b[2] # Inf
  <2>1. to_ratio(b) = (b[2] * Unit) \div b[1] /\ b[2] \in Nat
    BY <1>1, <1>3 DEF to_ratio
  <2>2. b[2] * Unit \in Nat /\ (b[2] = 0 => b[2] * Unit = 0)
    BY <1>1, <2>1
  <2>3. \A m \in Nat, n \in Nat \ {0} : m \div n \in Nat /\ (m = 0 => m \div n = 0)
    OBVIOUS
  <2> QED BY <1>1, <2>1, <2>2, <2>3
<1> QED BY <1>2, <1>3

\* The sums of the ratios of groups are numbers.
LEMMA RatioSums ==
    ASSUME NEW r \in [Node -> Bandwidths], NEW K \in SUBSET Group
    PROVE  /\ IsFiniteSet(K) /\ \A c \in K : Ratios(r)[c] \in Nat /\ Ratios(r)[c] = to_ratio(r[c])
           /\ SumFunctionOnSet(Ratios(r), K) \in Nat
<1>1. IsFiniteSet(K)
  BY GroupAssumption, FS_Subset
<1>2. \A c \in K : Ratios(r)[c] \in Nat /\ Ratios(r)[c] = to_ratio(r[c])
  BY Ratio DEF Ratios, Node
<1> HIDE DEF Ratios
<1>3. SumFunctionOnSet(Ratios(r), K) \in Nat
  BY <1>1, <1>2, SumNat
<1> QED BY <1>1, <1>2, <1>3

\* A sum is of the ratios of the children alone.
LEMMA FitsSame ==
    ASSUME NEW r \in [Node -> Bandwidths], NEW q \in [Node -> Bandwidths],
           NEW K \in SUBSET Group, NEW x \in Node, \A c \in K \union {x} : q[c] = r[c]
    PROVE  FitsIn(q, K, x) <=> FitsIn(r, K, x)
<1>1. \A c \in K : Ratios(q)[c] = Ratios(r)[c]
  BY RatioSums
<1>2. IsFiniteSet(K)
  BY RatioSums
<1> HIDE DEF Ratios
<1>3. SumFunctionOnSet(Ratios(q), K) = SumFunctionOnSet(Ratios(r), K)
  BY <1>1, <1>2, SumSame
<1> QED BY <1>3 DEF FitsIn

\* A child less, and there is more room.
LEMMA FitsLess ==
    ASSUME NEW r \in [Node -> Bandwidths], NEW K \in SUBSET Group, NEW x \in Node, NEW g,
           FitsIn(r, K, x)
    PROVE  FitsIn(r, K \ {g}, x)
<1>1. CASE g \notin K
  <2>1. K \ {g} = K
    BY <1>1
  <2> QED BY <2>1
<1>2. CASE g \in K
  <2>1. /\ IsFiniteSet(K) /\ (\A c \in K : Ratios(r)[c] \in Nat)
        /\ SumFunctionOnSet(Ratios(r), K \ {g}) \in Nat /\ to_ratio(r[x]) \in Nat
    BY RatioSums, Ratio
  <2> HIDE DEF Ratios
  <2>2. SumFunctionOnSet(Ratios(r), K) = Ratios(r)[g] + SumFunctionOnSet(Ratios(r), K \ {g})
    BY <1>2, <2>1, SumRemove
  <2> QED BY <1>2, <2>1, <2>2 DEF FitsIn
<1> QED BY <1>1, <1>2

\* A group with a runtime of 0 fits anywhere.
LEMMA FitsMore ==
    ASSUME NEW r \in [Node -> Bandwidths], NEW q \in [Node -> Bandwidths],
           NEW K \in SUBSET Group, NEW x \in Node, NEW g \in Group \ K, x # g,
           \A c \in Node \ {g} : q[c] = r[c], q[g][2] = 0, FitsIn(r, K, x)
    PROVE  FitsIn(q, K, x) /\ FitsIn(q, K \union {g}, x)
<1>1. FitsIn(q, K, x)
  <2>1. \A c \in K \union {x} : q[c] = r[c]
    BY DEF Node
  <2> QED BY <2>1, FitsSame
<1>2. Ratios(q)[g] = 0
  BY Ratio DEF Ratios, Node
<1>3. /\ IsFiniteSet(K \union {g}) /\ (\A c \in K \union {g} : Ratios(q)[c] \in Int)
      /\ SumFunctionOnSet(Ratios(q), K) \in Nat /\ (K \union {g}) \ {g} = K
  <2>1. K \union {g} \in SUBSET Group
    OBVIOUS
  <2> QED BY <2>1, RatioSums
<1> HIDE DEF Ratios
<1>4. SumFunctionOnSet(Ratios(q), K \union {g})
         = Ratios(q)[g] + SumFunctionOnSet(Ratios(q), (K \union {g}) \ {g})
  BY <1>3, SumRemove
<1> QED BY <1>1, <1>2, <1>3, <1>4 DEF FitsIn

\* sum_of_children, by the set of the children.
LEMMA FitsChildren == \A r, x : Fits(r, x) <=> FitsIn(r, Children(x), x)
BY DEF Fits, FitsIn, sum_of_children, Ratios

\* A group nothing is below has a sum of 0.
LEMMA FitsAlone ==
    ASSUME NEW r \in [Node -> Bandwidths], NEW x \in Node
    PROVE  FitsIn(r, {}, x)
BY SumEmpty, Ratio DEF FitsIn

-----------------------------------------------------------------------------
(* Groups that come and go do not lead a walk astray. *)

\* What sched_create_group writes.
LEMMA Created ==
    ASSUME TreeOK, NEW g \in Group, NEW up \in Node, Create(g, up)
    PROVE  /\ mem[g] = "free" /\ InTree(up) /\ g # up /\ g # Root
           /\ Linked' = Linked \union {g} /\ g \notin Linked /\ ~InTree(g)
           /\ \A x : InTree(x)' <=> InTree(x) \/ x = g
           /\ \A v : ~Safe(v, g) /\ \A x : Safe(v, x) \/ x = g => Safe(v, x)'
           /\ \A x \in Group : x # g => parent'[x] = parent[x] /\ next'[x] = next[x]
           /\ \A x \in Node : x # g /\ x # up => first'[x] = first[x]
           /\ parent'[g] = up /\ next'[g] = first[up] /\ first'[g] = None /\ first'[up] = g
<1>1. /\ mem[g] = "free" /\ InTree(up) /\ g # up /\ g # Root
      /\ mem' = [mem EXCEPT ![g] = "linked"] /\ parent' = [parent EXCEPT ![g] = up]
      /\ next' = [next EXCEPT ![g] = first[up]] /\ first' = [first EXCEPT ![g] = None, ![up] = g]
      /\ UNCHANGED readers
  BY NameAssumption DEF Create, kzalloc, InTree, Linked, Node
<1>2. /\ Linked' = Linked \union {g} /\ g \notin Linked /\ ~InTree(g)
      /\ \A x : InTree(x)' <=> InTree(x) \/ x = g
  BY <1>1, NameAssumption DEF Linked, InTree, TreeOK, TypeOK
<1>3. \A v : ~Safe(v, g) /\ \A x : Safe(v, x) \/ x = g => Safe(v, x)'
  BY <1>1, <1>2 DEF Safe, Held, TreeOK, TypeOK
<1>4. /\ \A x \in Group : x # g => parent'[x] = parent[x] /\ next'[x] = next[x]
      /\ \A x \in Node : x # g /\ x # up => first'[x] = first[x]
      /\ parent'[g] = up /\ next'[g] = first[up] /\ first'[g] = None /\ first'[up] = g
  BY <1>1 DEF TreeOK, TypeOK, Node
<1> QED BY <1>1, <1>2, <1>3, <1>4

\* A walk that would come to f still does: the new group leads it on.
LEMMA CreateTraps ==
    ASSUME TreeOK, NEW g \in Group, NEW up \in Node, Create(g, up),
           NEW D \in SUBSET (Node \ {g}), NEW U \in SUBSET (Node \ {g}), NEW f, f # g, Trap(D, U, f)
    PROVE  \E D2 \in SUBSET (D \union {g}), U2 \in SUBSET (U \union {up}) :
               D \subseteq D2 /\ U \subseteq U2 /\ Trap(D2, U2, f)'
<1>1. /\ g # up /\ g # Root /\ g # None /\ up # None
      /\ \A x \in Group : x # g => parent'[x] = parent[x] /\ next'[x] = next[x]
      /\ \A x \in Node : x # g /\ x # up => first'[x] = first[x]
      /\ parent'[g] = up /\ next'[g] = first[up] /\ first'[g] = None /\ first'[up] = g
  BY Created, NameAssumption DEF Node
<1>2. \A x \in Node \ {g} : Leaves(x, D, U) =>
          \A D2, U2 : D \subseteq D2 /\ U \subseteq U2 => Leaves(x, D2, U2)'
  BY <1>1 DEF Leaves, Node
<1>3. CASE up = f \/ up \notin D
  <2>1. Trap(D, U, f)'
    BY <1>1, <1>2, <1>3 DEF Trap
  <2> QED BY <2>1
<1>4. CASE up # f /\ up \in D /\ first[up] # None
  <2>1. Leaves(g, D \union {g}, U)'
    BY <1>1, <1>4 DEF Trap, Leaves
  <2>2. Trap(D \union {g}, U, f)'
    BY <1>1, <1>2, <1>4, <2>1 DEF Trap
  <2> QED BY <2>2
<1>5. CASE up # f /\ up \in D /\ first[up] = None
  <2>1. Leaves(g, D \union {g}, U \union {up})' /\ Leaves(up, D, U)
    BY <1>1, <1>5 DEF Trap, Leaves
  <2>2. Trap(D \union {g}, U \union {up}, f)'
    BY <1>1, <1>2, <1>5, <2>1 DEF Trap
  <2> QED BY <2>2
<1> QED BY <1>3, <1>4, <1>5

\* A walk that would come to g comes to it from its parent.
LEMMA CreateReaches ==
    ASSUME TreeOK, NEW g \in Group, NEW up \in Node, Create(g, up),
           NEW D \in SUBSET (Node \ {g}), NEW U \in SUBSET (Node \ {g}), Trap(D, U, up)
    PROVE  Trap(D \union {g}, U, g)'
<1>1. /\ g # up /\ g # Root /\ g # None /\ up # None
      /\ \A x \in Group : x # g => parent'[x] = parent[x] /\ next'[x] = next[x]
      /\ \A x \in Node : x # g /\ x # up => first'[x] = first[x]
      /\ first'[up] = g
  BY Created, NameAssumption DEF Node
<1>2. \A x \in Node \ {g} : Leaves(x, D, U) => Leaves(x, D \union {g}, U)'
  BY <1>1 DEF Leaves, Node
<1> QED BY <1>1, <1>2 DEF Trap

\* What list_del_rcu writes.
LEMMA Destroyed ==
    ASSUME TreeOK, NEW g \in Group, Destroy(g)
    PROVE  /\ g \in Linked /\ Linked' = Linked \ {g} /\ first[g] = None /\ g # Root /\ g # None
           /\ \A x : InTree(x)' <=> InTree(x) /\ x # g
           /\ \A v \in Walking : walk[v].tg # g /\ \A x : Safe(v, x) => Safe(v, x)'
           /\ \A x \in Node : \/ first'[x] = first[x]
                              \/ first'[x] = next[g] /\ first[x] = g /\ x = parent[g]
           /\ \A x \in Group : \/ next'[x] = next[x]
                               \/ next'[x] = next[g] /\ next[x] = g /\ x \in Linked
           /\ \A x \in Linked : x # g => /\ parent[x] # g
                                         /\ next[x] = g => next'[x] = next[g] /\ parent[x] = parent[g]
           /\ \A x \in Node : InTree(x) /\ first[x] = g => first'[x] = next[g] /\ x = parent[g]
           /\ \A x \in Linked : x # g => next'[x] # g
           /\ \A x \in Node : InTree(x) => first'[x] # g
<1>1. /\ g \in Linked /\ Children(g) = {} /\ (\A w \in Walking : walk[w].tg # g)
      /\ mem' = [mem EXCEPT ![g] = "unlinked"] /\ readers' = [readers EXCEPT ![g] = Walking]
  BY DEF Destroy, wait_for_readers
<1>2. ListsOK /\ Linked \subseteq Group /\ Group \subseteq Node /\ g # None /\ g # Root
  BY NameAssumption DEF TreeOK, Linked, Node
<1>3. Linked' = Linked \ {g} /\ \A x : InTree(x)' <=> InTree(x) /\ x # g
  BY <1>1, <1>2 DEF Linked, InTree, TreeOK, TypeOK
<1>4. InTree(parent[g]) /\ parent[g] \in Node /\ parent[g] # g
  BY <1>1, <1>2 DEF TreeOK, TypeOK, ListsOK, Children
<1>5. /\ \A x \in Linked : next[x] = g => first[parent[g]] # g /\ parent[x] = parent[g]
      /\ \A x \in Node : InTree(x) /\ first[x] = g => x = parent[g]
      /\ \A x \in Linked : parent[x] # g
      /\ \A x \in Linked : next[x] = g /\ x # g => next[g] # g
      /\ first[parent[g]] = g => next[g] # g
      /\ first[g] = None
  BY <1>1, <1>2, <1>4 DEF ListsOK, Children, InTree
<1>6. /\ \A x \in Node : first'[x] = IF x = parent[g] /\ first[parent[g]] = g THEN next[g] ELSE first[x]
      /\ \A x \in Group : next'[x] = IF first[parent[g]] # g /\ x \in Linked /\ next[x] = g
                                      THEN next[g] ELSE next[x]
  <2>1. CASE first[parent[g]] = g
    BY <1>4, <2>1 DEF Destroy, TreeOK, TypeOK
  <2>2. CASE first[parent[g]] # g
    BY <1>4, <2>2 DEF Destroy, TreeOK, TypeOK
  <2> QED BY <2>1, <2>2
<1>7. ASSUME NEW v \in Walking, NEW x, Safe(v, x)
      PROVE  Safe(v, x)'
  <2>1. Held(v, x) \/ x = g => Held(v, x)'
    BY <1>1, <1>2 DEF Held, TreeOK, TypeOK, Linked
  <2> QED BY <1>3, <1>7, <2>1 DEF Safe
<1>8. /\ \A x \in Linked : x # g => next'[x] # g
      /\ \A x \in Node : InTree(x) => first'[x] # g
  BY <1>2, <1>5, <1>6
<1>9. /\ \A x \in Node : \/ first'[x] = first[x]
                         \/ first'[x] = next[g] /\ first[x] = g /\ x = parent[g]
      /\ \A x \in Group : \/ next'[x] = next[x]
                          \/ next'[x] = next[g] /\ next[x] = g /\ x \in Linked
  BY <1>6
<1>10. /\ \A x \in Linked : x # g => /\ parent[x] # g
                                     /\ next[x] = g => next'[x] = next[g] /\ parent[x] = parent[g]
       /\ \A x \in Node : InTree(x) /\ first[x] = g => first'[x] = next[g] /\ x = parent[g]
  BY <1>2, <1>5, <1>6
<1> QED BY <1>1, <1>2, <1>3, <1>5, <1>7, <1>8, <1>9, <1>10

\* A walk that would come to f still does, also if it stands on g.
LEMMA DestroyTraps ==
    ASSUME TreeOK, NEW g \in Group, Destroy(g),
           NEW D \in SUBSET Node, NEW U \in SUBSET Node, NEW f, f # g, Trap(D, U, f)
    PROVE  Trap(D, U, f)'
<1>1. /\ first[g] = None /\ UNCHANGED parent
      /\ \A x \in Node : \/ first'[x] = first[x]
                         \/ first'[x] = next[g] /\ first[x] = g /\ x = parent[g]
      /\ \A x \in Group : \/ next'[x] = next[x]
                          \/ next'[x] = next[g] /\ next[x] = g /\ x \in Linked
      /\ \A x \in Linked : x # g /\ next[x] = g => parent[x] = parent[g]
      /\ g # None
  BY Destroyed DEF Destroy
<1>2. g \in D => Leaves(g, D, U)
  BY <1>1 DEF Trap
<1>3. ASSUME NEW x \in Node, Leaves(x, D, U)
      PROVE  Leaves(x, D, U)'
  BY <1>1, <1>2, <1>3 DEF Leaves, Node
<1>4. ASSUME NEW x \in D \ {f}
      PROVE  (IF first[x] # None THEN first[x] \in D ELSE Leaves(x, D, U))'
  <2>1. CASE first'[x] = first[x]
    BY <1>3, <2>1 DEF Trap
  <2>2. CASE first'[x] = next[g] /\ first[x] = g /\ x = parent[g]
    <3>1. g \in D
      BY <1>1, <2>2 DEF Trap
    <3>2. next[g] = None => Leaves(x, D, U)
      BY <1>2, <2>2, <3>1 DEF Leaves, Trap
    <3> QED BY <1>2, <1>3, <2>2, <3>1, <3>2 DEF Leaves
  <2> QED BY <1>1, <2>1, <2>2
<1>5. \A x \in U : Leaves(x, D, U)'
  BY <1>3 DEF Trap
<1> QED BY <1>4, <1>5 DEF Trap

\* In the tree, it does without g.
LEMMA DestroyLeavesTraps ==
    ASSUME TreeOK, NEW g \in Group, Destroy(g),
           NEW D \in SUBSET {x \in Node : InTree(x)}, NEW U \in SUBSET {x \in Node : InTree(x)},
           NEW f, f # g, Trap(D, U, f)
    PROVE  Trap(D \ {g}, U \ {g}, f)'
<1>1. Trap(D, U, f)'
  BY DestroyTraps
<1>2. /\ UNCHANGED parent /\ g # None
      /\ \A x \in Linked : x # g => parent[x] # g /\ next'[x] # g
      /\ \A x \in Node : InTree(x) => first'[x] # g
  <2>1. UNCHANGED parent
    BY DEF Destroy
  <2> QED BY <2>1, Destroyed
<1>3. ASSUME NEW x \in Node, InTree(x), x # g, Leaves(x, D, U)'
      PROVE  Leaves(x, D \ {g}, U \ {g})'
  BY <1>2, <1>3 DEF Leaves, InTree
<1> QED BY <1>1, <1>2, <1>3 DEF Trap

\* What free_sched_group_rcu writes.
LEMMA Freed ==
    ASSUME TreeOK, NEW g \in Group, FreeRcu(g)
    PROVE  /\ Linked' = Linked /\ g \notin Linked /\ g # Root /\ ~InTree(g)
           /\ \A x : InTree(x)' <=> InTree(x)
           /\ \A v : ~Safe(v, g) /\ \A x : Safe(v, x)' <=> Safe(v, x)
           /\ \A x \in Group \ {g} : parent'[x] = parent[x] /\ next'[x] = next[x]
           /\ \A x \in Node \ {g} : first'[x] = first[x]
<1>1. /\ mem[g] = "unlinked" /\ readers[g] = {} /\ mem' = [mem EXCEPT ![g] = "free"]
      /\ UNCHANGED readers
  BY DEF FreeRcu
<1>2. /\ Linked' = Linked /\ g \notin Linked /\ g # Root /\ ~InTree(g)
      /\ \A x : InTree(x)' <=> InTree(x)
  BY <1>1, NameAssumption DEF Linked, InTree, TreeOK, TypeOK
<1>3. \A v : ~Safe(v, g) /\ \A x : Safe(v, x)' <=> Safe(v, x)
  BY <1>1, <1>2 DEF Safe, Held, TreeOK, TypeOK
<1>4. /\ \A x \in Group \ {g} : parent'[x] = parent[x] /\ next'[x] = next[x]
      /\ \A x \in Node \ {g} : first'[x] = first[x]
  BY DEF FreeRcu, TreeOK, TypeOK, Node
<1> QED BY <1>2, <1>3, <1>4

\* free_sched_group_rcu writes to nothing a walk may stand on.
LEMMA FreedTraps ==
    ASSUME TreeOK, NEW g \in Group, FreeRcu(g),
           NEW D \in SUBSET (Node \ {g}), NEW U \in SUBSET (Node \ {g}), NEW f, Trap(D, U, f)
    PROVE  Trap(D, U, f)'
<1>1. /\ \A x \in Group \ {g} : parent'[x] = parent[x] /\ next'[x] = next[x]
      /\ \A x \in Node \ {g} : first'[x] = first[x]
  BY Freed
<1>2. \A x \in Node \ {g} : Leaves(x, D, U)' <=> Leaves(x, D, U)
  BY <1>1 DEF Leaves, Node
<1> QED BY <1>1, <1>2 DEF Trap


\* A walk that is bound to come to f stays bound to, whatever becomes of g.
LEMMA CreateVisits ==
    ASSUME TreeOK, NEW g \in Group, NEW up \in Node, Create(g, up), NEW v, NEW w, NEW f, f # g,
           WillVisit(v, w, f)
    PROVE  WillVisit(v, w, f)'
<1>1. PICK D, U \in SUBSET {x \in Node : Safe(v, x)} :
           (IF w.up THEN w.at \in U ELSE w.at \in D) /\ Trap(D, U, f)
  BY DEF WillVisit
<1>2. InTree(up) /\ ~Safe(v, g) /\ \A x : Safe(v, x) \/ x = g => Safe(v, x)'
  BY Created
<1>3. D \in SUBSET (Node \ {g}) /\ U \in SUBSET (Node \ {g})
  BY <1>2
<1>4. PICK D2 \in SUBSET (D \union {g}), U2 \in SUBSET (U \union {up}) :
           D \subseteq D2 /\ U \subseteq U2 /\ Trap(D2, U2, f)'
  BY <1>1, <1>3, CreateTraps
<1>5. D2 \in SUBSET {x \in Node : Safe(v, x)'} /\ U2 \in SUBSET {x \in Node : Safe(v, x)'}
  BY <1>2 DEF Node, Safe
<1>6. IF w.up THEN w.at \in U2 ELSE w.at \in D2
  BY <1>1, <1>4
<1> QED BY <1>4, <1>5, <1>6 DEF WillVisit

\* The same when g is unlinked, and the walk may stand on it.
LEMMA DestroyVisits ==
    ASSUME TreeOK, NEW g \in Group, Destroy(g), NEW v \in Walking, NEW w, NEW f, f # g,
           WillVisit(v, w, f)
    PROVE  WillVisit(v, w, f)'
<1>1. PICK D, U \in SUBSET {x \in Node : Safe(v, x)} :
           (IF w.up THEN w.at \in U ELSE w.at \in D) /\ Trap(D, U, f)
  BY DEF WillVisit
<1>2. Trap(D, U, f)'
  BY <1>1, DestroyTraps
<1>3. D \in SUBSET {x \in Node : Safe(v, x)'} /\ U \in SUBSET {x \in Node : Safe(v, x)'}
  BY Destroyed
<1> QED BY <1>1, <1>2, <1>3 DEF WillVisit

\* The same when g is freed.
LEMMA FreedVisits ==
    ASSUME TreeOK, NEW g \in Group, FreeRcu(g), NEW v, NEW w, NEW f, WillVisit(v, w, f)
    PROVE  WillVisit(v, w, f)'
<1>1. PICK D, U \in SUBSET {x \in Node : Safe(v, x)} :
           (IF w.up THEN w.at \in U ELSE w.at \in D) /\ Trap(D, U, f)
  BY DEF WillVisit
<1>2. ~Safe(v, g) /\ \A x : Safe(v, x)' <=> Safe(v, x)
  BY Freed
<1>3. D \in SUBSET (Node \ {g}) /\ U \in SUBSET (Node \ {g})
  BY <1>2
<1>4. Trap(D, U, f)'
  BY <1>1, <1>3, FreedTraps
<1> QED BY <1>1, <1>2, <1>4 DEF WillVisit

\* A walk that is not at f yet goes on, and does not end.
LEMMA StepVisits ==
    ASSUME TreeOK, NEW v, NEW w \in Places, w.at \in Node, NEW f, WillVisit(v, w, f), w.up \/ w.at # f,
           NEW on, on = walk_on(w, w.at, IF w.up THEN None ELSE first[w.at])
    PROVE  on # idle /\ WillVisit(v, on, f)
<1>1. PICK D, U \in SUBSET {x \in Node : Safe(v, x)} :
           (IF w.up THEN w.at \in U ELSE w.at \in D) /\ Trap(D, U, f)
  BY DEF WillVisit
<1>2. PICK child : child = IF w.up THEN None ELSE first[w.at]
  OBVIOUS
<1>3. /\ child \in Group \union {None} /\ (child # None => child \in D)
      /\ (child = None => Leaves(w.at, D, U))
  <2>1. CASE w.up
    BY <1>1, <1>2, <2>1 DEF Trap
  <2>2. CASE ~w.up
    <3>1. child = first[w.at] /\ w.at \in D \ {f}
      BY <1>1, <1>2, <2>2
    <3> QED BY <1>1, <3>1 DEF Trap, TreeOK, TypeOK
  <2> QED BY <2>1, <2>2
<1>4. \/ child = None /\ w.at = Root /\ on = idle
      \/ /\ on # idle
         /\ \/ child # None /\ on.at = child /\ ~on.up
            \/ /\ child = None /\ w.at \in Group
               /\ IF next[w.at] # None THEN on.at = next[w.at] /\ ~on.up
                                       ELSE on.at = parent[w.at] /\ on.up
  BY <1>2, <1>3, Onwards DEF TreeOK
<1>5. on # idle /\ IF on.up THEN on.at \in U ELSE on.at \in D
  BY <1>3, <1>4 DEF Leaves
<1> QED BY <1>1, <1>5 DEF WillVisit

\* A walk that starts at the root comes to every group.
LEMMA StartVisits ==
    ASSUME Reached, NEW f \in Node, InTree(f), NEW v, NEW w, w.at = Root, ~w.up
    PROVE  WillVisit(v, w, f)
BY DEF Reached, WillVisit, Safe

-----------------------------------------------------------------------------
(* The theorems. *)

\* The invariant reads nothing else.
LEMMA Untouched ==
    ASSUME TreeOK, UNCHANGED <<bounds, mem, parent, first, next, readers, walk>>
    PROVE  TreeOK'
BY DEF TreeOK, TypeOK, Places, ListsOK, HeldOK, WalkOK, Linked, InTree, Held, Safe, Walking

\* Nothing is linked and no walk is on.
LEMMA InitTree == Init => TreeOK
<1> SUFFICES ASSUME Init PROVE TreeOK
  OBVIOUS
<1>1. /\ Linked = {} /\ (\A x : InTree(x) <=> x = Root) /\ Walking = {}
      /\ \A w, x : ~Held(w, x)
  BY Idle DEF Init, Linked, InTree, Walking, Held
<1>2. TypeOK
  BY Idle DEF Init, TypeOK, Names, Node
<1>3. ListsOK /\ HeldOK /\ WalkOK
  BY <1>1 DEF Init, ListsOK, HeldOK, WalkOK, Node
<1> QED BY <1>2, <1>3 DEF TreeOK

\* A write that has the mutex walks on behalf of a group that is in the tree.
LEMMA LockStarts ==
    ASSUME TreeOK, WritersOK, NEW name \in Names, mutex_lock(name)
    PROVE  TreeOK'
<1>1. PICK g, b : g = pending[name][1] /\ b = pending[name][2]
  OBVIOUS
<1>2. g \in Node /\ InTree(g) /\ b \in bounds.shares
  BY <1>1 DEF WritersOK, mutex_lock
<1> QED BY <1>1, <1>2, WalkStarts DEF mutex_lock

\* What any step keeps.
LEMMA NextTree == TreeOK /\ WritersOK /\ [Next]_vars => TreeOK'
<1> SUFFICES ASSUME TreeOK, WritersOK, [Next]_vars PROVE TreeOK'
  OBVIOUS
<1>1. ASSUME NEW g \in Group, NEW up \in Node, Create(g, up)
      PROVE  TreeOK'
  BY <1>1, CreateKeeps
<1>2. ASSUME NEW g \in Group, Destroy(g)
      PROVE  TreeOK'
  BY <1>2, DestroyKeeps
<1>3. ASSUME NEW g \in Group, FreeRcu(g)
      PROVE  TreeOK'
  BY <1>3, FreeRcuKeeps
<1>4. CASE RtWalk
  <2>1. /\ walk["rt"].at # None /\ (Moves("rt") \/ Stops("rt"))
        /\ UNCHANGED <<bounds, mem, parent, first, next>>
    BY <1>4 DEF RtWalk
  <2> QED BY <2>1, WalkMoves, WalkEnds DEF Names
<1>5. CASE CfsWalk
  <2>1. /\ walk["cfs"].at # None /\ (Moves("cfs") \/ Stops("cfs"))
        /\ UNCHANGED <<bounds, mem, parent, first, next>>
    BY <1>5 DEF CfsWalk
  <2> QED BY <2>1, WalkMoves, WalkEnds DEF Names
<1>6. ASSUME NEW b \in bounds.shares,
             (\E g \in Node : WriteRt(g, b)) \/ (\E g \in Group : WriteCfs(g, b))
      PROVE  TreeOK'
  BY <1>6, Untouched DEF WriteRt, WriteCfs, waits_for_mutex, tree
<1>7. CASE tg_set_rt_bandwidth \/ tg_set_cfs_bandwidth
  BY <1>7, LockStarts DEF tg_set_rt_bandwidth, tg_set_cfs_bandwidth, Names
<1>8. CASE CheckSysctl
  <2>1. CASE sysctl[1] > 0 /\ valid(sysctl)
    BY <1>8, <2>1, WalkStarts DEF CheckSysctl, Names
  <2>2. CASE ~(sysctl[1] > 0 /\ valid(sysctl))
    BY <1>8, <2>2, Untouched DEF CheckSysctl, tree
  <2> QED BY <2>1, <2>2
<1>9. ASSUME NEW p \in Task,
             (\E g \in Node : CanAttach(p, g)) \/ SetPolicy(p)
      PROVE  TreeOK'
  BY <1>9, Untouched DEF CanAttach, SetPolicy, tree
<1>10. CASE \/ \E b \in Sysctls : WriteSysctl(b)
            \/ Attach \/ UNCHANGED vars
  BY <1>10, Untouched DEF WriteSysctl, Attach, vars, tree
<1> QED BY <1>1, <1>2, <1>3, <1>4, <1>5, <1>6, <1>7, <1>8, <1>9, <1>10 DEF Next

\* No write waits at the start.
LEMMA InitWriters == Init => WritersOK
BY DEF Init, WritersOK, Names

\* A write waits for a group that was in the tree, and stays there until it has
\* the mutex.
LEMMA NextWriters == TreeOK /\ WritersOK /\ [Next]_vars => WritersOK'
<1> SUFFICES ASSUME TreeOK, WritersOK, [Next]_vars PROVE WritersOK'
  OBVIOUS
<1>1. bounds' = bounds
  BY DEF Next, vars, Create, Destroy, FreeRcu, RtWalk, CfsWalk, WriteSysctl, WriteRt, WriteCfs,
         waits_for_mutex, tg_set_rt_bandwidth, tg_set_cfs_bandwidth, mutex_lock,
         CheckSysctl, CanAttach, SetPolicy, Attach
<1>2. ASSUME pending' = pending,
             \A name \in Names : pending[name] # None => (InTree(pending[name][1]) => InTree(pending[name][1])')
      PROVE  WritersOK'
  BY <1>1, <1>2 DEF WritersOK, InTree
<1>3. ASSUME NEW g \in Group, NEW up \in Node, Create(g, up)
      PROVE  WritersOK'
  <2>1. pending' = pending /\ mem' = [mem EXCEPT ![g] = "linked"]
    BY <1>3 DEF Create
  <2> QED BY <1>2, <2>1 DEF InTree, Linked, TreeOK, TypeOK
<1>4. ASSUME NEW g \in Group, Destroy(g)
      PROVE  WritersOK'
  <2>1. /\ pending' = pending /\ mem' = [mem EXCEPT ![g] = "unlinked"]
        /\ \A name \in Names : pending[name] # None => pending[name][1] # g
    BY <1>4 DEF Destroy, Names
  <2> QED BY <1>2, <2>1 DEF InTree, Linked, TreeOK, TypeOK
<1>5. ASSUME NEW g \in Group, FreeRcu(g)
      PROVE  WritersOK'
  <2>1. pending' = pending /\ mem[g] = "unlinked" /\ mem' = [mem EXCEPT ![g] = "free"]
    BY <1>5 DEF FreeRcu
  <2> QED BY <1>2, <2>1 DEF InTree, Linked, TreeOK, TypeOK
<1>6. CASE \/ RtWalk \/ CfsWalk \/ CheckSysctl \/ \E b \in Sysctls : WriteSysctl(b)
           \/ \E p \in Task : (\E g \in Node : CanAttach(p, g)) \/ SetPolicy(p)
           \/ Attach \/ UNCHANGED vars
  <2>1. pending' = pending /\ mem' = mem
    BY <1>6 DEF RtWalk, CfsWalk, CheckSysctl, WriteSysctl, CanAttach, SetPolicy, Attach, vars, tree
  <2> QED BY <1>2, <2>1 DEF InTree, Linked
<1>7. ASSUME NEW b \in bounds.shares, NEW g \in Node, WriteRt(g, b)
      PROVE  WritersOK'
  <2>1. /\ InTree(g) /\ pending' = [pending EXCEPT !["rt"] = <<g, b>>] /\ mem' = mem
    BY <1>7 DEF WriteRt, waits_for_mutex, InTree, tree
  <2> QED BY <1>1, <2>1 DEF WritersOK, Names, InTree, Linked
<1>8. ASSUME NEW b \in bounds.shares, NEW g \in Group, WriteCfs(g, b)
      PROVE  WritersOK'
  <2>1. /\ InTree(g) /\ pending' = [pending EXCEPT !["cfs"] = <<g, b>>] /\ mem' = mem
    BY <1>8 DEF WriteCfs, waits_for_mutex, InTree, tree
  <2> QED BY <1>1, <2>1, NameAssumption DEF WritersOK, Names, InTree, Linked, Node
<1>9. ASSUME NEW name \in Names, mutex_lock(name)
      PROVE  WritersOK'
  <2>1. pending' = [pending EXCEPT ![name] = None] /\ mem' = mem
    BY <1>9 DEF mutex_lock, tree
  <2> QED BY <1>1, <2>1 DEF WritersOK, Names, InTree, Linked
<1> QED BY <1>3, <1>4, <1>5, <1>6, <1>7, <1>8, <1>9 DEF Next, tg_set_rt_bandwidth, tg_set_cfs_bandwidth, Names

\* A walk never stands on a group that is freed, nor does it go up or on to one:
\* rcu_read_lock around walk_tg_tree_from, call_rcu in sched_destroy_group and
\* the next pointer list_del_rcu leaves are enough, for any number of groups.
THEOREM WalksOnLiveGroups == Spec => []WalksAllocated
<1>1. TreeOK => WalksAllocated
  <2> SUFFICES ASSUME TreeOK, NEW w \in Walking
               PROVE  /\ {walk[w].at, walk[w].tg} \intersect {g \in Group : mem[g] = "free"} = {}
                      /\ walk[w].at # Root =>
                            \A g \in {parent[walk[w].at], next[walk[w].at]} \intersect Group : mem[g] # "free"
    BY DEF WalksAllocated
  <2> DEFINE at == walk[w].at
  <2>1. Safe(w, at) /\ (walk[w].tg = None \/ InTree(walk[w].tg)) /\ w \in Names
    BY DEF TreeOK, WalkOK, Walking, Names
  <2>2. \A x \in Group : Safe(w, x) \/ InTree(x) => mem[x] # "free"
    BY NameAssumption DEF Safe, InTree, Held, Linked
  <2>3. ASSUME at # Root
        PROVE  Safe(w, parent[at]) /\ (next[at] # None => Safe(w, next[at]))
    BY <2>1, <2>3 DEF TreeOK, HeldOK, ListsOK, Safe, InTree, Held
  <2> QED BY <2>1, <2>2, <2>3, NameAssumption
<1> QED BY <1>1, InitTree, NextTree, InitWriters, NextWriters, PTL DEF Spec

-----------------------------------------------------------------------------
(* The sums. *)

\* What does not concern the tree or what the real-time walk is to store.
LEMMA SumsUntouched ==
    ASSUME SumsOK, UNCHANGED <<mem, parent, first, next, rt>>,
           walk'["rt"] = walk["rt"] \/ Sysctl(walk["rt"])',
           \A x \in Group : "rt" \in readers'[x] <=> "rt" \in readers[x]
    PROVE  Reached' /\ ChecksOK' /\ RtSumsFit'
<1>1. Linked' = Linked /\ (\A x : InTree(x)' <=> InTree(x)) /\ \A x : Safe("rt", x)' <=> Safe("rt", x)
  BY DEF Linked, InTree, Safe, Held
<1>2. \A D, U, f : Trap(D, U, f)' <=> Trap(D, U, f)
  BY DEF Trap, Leaves
<1>3. Reached'
  BY <1>1, <1>2 DEF SumsOK, Reached
<1>4. \A x : Children(x)' = Children(x)
  BY <1>1 DEF Children
<1>5. \A r, x : Fits(r, x)' <=> Fits(r, x)
  BY <1>4 DEF Fits, sum_of_children
<1>6. RtSumsFit'
  BY <1>1, <1>4 DEF SumsOK, RtSumsFit, sum_of_children
<1>7. ASSUME NEW w, NEW f
      PROVE  WillVisit("rt", w, f)' <=> WillVisit("rt", w, f)
  BY <1>1, <1>2 DEF WillVisit
<1>8. ChecksOK'
  <2>1. CASE Sysctl(walk["rt"])'
    BY <2>1 DEF ChecksOK
  <2>2. CASE walk'["rt"] = walk["rt"]
    BY <1>5, <1>7, <2>2 DEF SumsOK, ChecksOK, Sysctl, Targets, proposed
  <2> QED BY <2>1, <2>2
<1> QED BY <1>3, <1>6, <1>8

\* The bandwidths are what can be written.
LEMMA RatesKept ==
    ASSUME SumsOK, WritersOK, [Next]_vars
    PROVE  RatesOK'
<1>1. bounds' = bounds
  BY DEF Next, vars, Create, Destroy, FreeRcu, RtWalk, CfsWalk, WriteSysctl, WriteRt, WriteCfs,
         waits_for_mutex, tg_set_rt_bandwidth, tg_set_cfs_bandwidth, mutex_lock,
         CheckSysctl, CanAttach, SetPolicy, Attach
<1>2. /\ bounds \in Cases /\ rt \in [Node -> Bandwidths] /\ sysctl \in Nat \X (Nat \union {Inf})
      /\ (IF saved = None THEN sysctl \in Bandwidths ELSE saved \in Bandwidths)
      /\ def_period \in Nat \ {0}
      /\ (walk["rt"].at # None /\ Sysctl(walk["rt"]) => saved # None /\ sysctl \in Bandwidths)
  BY DEF SumsOK, RatesOK
<1>3. /\ \A b \in bounds.shares \union {<<1, 0>>} : b \in Bandwidths
      /\ \A b \in Sysctls : b \in Nat \X (Nat \union {Inf})
      /\ None \notin Bandwidths
      /\ \A b \in Nat \X (Nat \union {Inf}) : b[1] > 0 => b \in Bandwidths
      /\ \A b \in Bandwidths : b \in Nat \X (Nat \union {Inf})
      /\ \A n \in Nat \ {0} : <<n, 0>> \in Bandwidths
      /\ \A b \in Bandwidths : b[1] \in Nat \ {0}
  BY <1>2, BandwidthAssumption DEF Bandwidths
<1>4. ASSUME UNCHANGED <<rt, limits, walk>>
      PROVE  RatesOK'
  BY <1>1, <1>2, <1>4 DEF RatesOK, limits, Sysctl
<1>5. ASSUME NEW g \in Group, NEW up \in Node, Create(g, up)
      PROVE  RatesOK'
  <2>1. rt' = [rt EXCEPT ![g] = <<def_period, 0>>] /\ UNCHANGED <<limits, walk>>
    BY <1>5 DEF Create
  <2> QED BY <1>1, <1>2, <1>3, <2>1 DEF RatesOK, limits, Sysctl
<1>6. ASSUME NEW g \in Group, FreeRcu(g)
      PROVE  RatesOK'
  <2>1. rt' = [rt EXCEPT ![g] = <<1, 0>>] /\ UNCHANGED <<limits, walk>>
    BY <1>6 DEF FreeRcu
  <2> QED BY <1>1, <1>2, <1>3, <2>1 DEF RatesOK, limits, Sysctl
<1>7. CASE RtWalk
  <2>1. PICK w : w = walk["rt"] /\ w \in Places /\ w.at # None
    BY <1>7 DEF RtWalk, SumsOK, TreeOK, TypeOK, Names
  <2>2. w.new \in Bandwidths
    BY <1>3, <2>1 DEF Places
  <2>3. CASE walk'["rt"] # idle
    <3>1. UNCHANGED <<rt, limits>> /\ Moves("rt")
      BY <1>7, <2>3, Idle DEF RtWalk, Stops, SumsOK, TreeOK, TypeOK, Names
    <3>2. PICK child, on : /\ child \in Group \union {None}
                           /\ on = walk_on(w, w.at, child) /\ walk' = [walk EXCEPT !["rt"] = on]
      BY <2>1, <3>1 DEF Moves, SumsOK, TreeOK, TypeOK, Places
    <3>3. walk'["rt"] = on /\ w.at \in Node
      BY <2>1, <3>2 DEF SumsOK, TreeOK, TypeOK, Names, Places
    <3>4. walk'["rt"].tg = w.tg
      BY <2>1, <2>3, <3>2, <3>3, Onwards DEF SumsOK, TreeOK
    <3> QED BY <1>1, <1>2, <2>1, <3>1, <3>4 DEF RatesOK, limits, Sysctl
  <2>4. CASE walk'["rt"] = idle /\ Sysctl(w)
    <3>1. /\ sysctl' \in {sysctl, saved} /\ def_period' \in {def_period, sysctl[1]}
          /\ saved' = None /\ UNCHANGED rt
      BY <1>7, <2>1, <2>4 DEF RtWalk
    <3>2. /\ saved \in Bandwidths /\ sysctl \in Bandwidths /\ sysctl[1] \in Nat \ {0}
          /\ walk'["rt"].at = None
      BY <1>2, <1>3, <2>1, <2>4, Idle
    <3> QED BY <1>1, <1>2, <1>3, <3>1, <3>2 DEF RatesOK
  <2>5. CASE walk'["rt"] = idle /\ ~Sysctl(w)
    <3>1. rt' \in {rt, [rt EXCEPT ![w.tg] = w.new]} /\ UNCHANGED limits
      BY <1>7, <2>1, <2>5 DEF RtWalk
    <3>2. rt' \in [Node -> Bandwidths] /\ walk'["rt"].at = None
      BY <1>2, <2>2, <2>5, <3>1, Idle
    <3> QED BY <1>1, <1>2, <3>1, <3>2 DEF RatesOK, limits
  <2> QED BY <2>3, <2>4, <2>5
<1>8. ASSUME walk["rt"]' = walk["rt"], UNCHANGED <<rt, limits>>
      PROVE  RatesOK'
  BY <1>1, <1>2, <1>8 DEF RatesOK, limits, Sysctl
<1>9. CASE CfsWalk
  <2>1. UNCHANGED <<rt, limits>> /\ walk'["rt"] = walk["rt"]
    BY <1>9 DEF CfsWalk, Moves, Stops, SumsOK, TreeOK, TypeOK, Names
  <2> QED BY <1>8, <2>1
<1>10. ASSUME NEW b \in Sysctls, WriteSysctl(b)
       PROVE  RatesOK'
  BY <1>1, <1>2, <1>3, <1>10 DEF WriteSysctl, RatesOK, bandwidths, Sysctl
<1>11. CASE tg_set_rt_bandwidth
  <2>1. /\ UNCHANGED <<rt, limits>>
        /\ walk'["rt"] = walk_tg_tree(pending["rt"][1], pending["rt"][2]) /\ pending["rt"][1] \in Node
    BY <1>11 DEF tg_set_rt_bandwidth, mutex_lock, bandwidths, WritersOK, SumsOK, TreeOK, TypeOK, Names
  <2>2. walk'["rt"].tg # None
    BY <2>1, NameAssumption DEF walk_tg_tree, Node
  <2> QED BY <1>1, <1>2, <2>1, <2>2 DEF RatesOK, limits, Sysctl
<1>12. CASE tg_set_cfs_bandwidth
  <2>1. UNCHANGED <<rt, limits>> /\ walk'["rt"] = walk["rt"]
    BY <1>12 DEF tg_set_cfs_bandwidth, mutex_lock, bandwidths, SumsOK, TreeOK, TypeOK, Names
  <2> QED BY <1>8, <2>1
<1>13. CASE CheckSysctl
  <2>1. CASE sysctl[1] > 0 /\ valid(sysctl)
    BY <1>1, <1>2, <1>3, <1>13, <2>1 DEF CheckSysctl, RatesOK, limits, bandwidths
  <2>2. CASE ~(sysctl[1] > 0 /\ valid(sysctl))
    BY <1>1, <1>2, <1>3, <1>13, <2>2 DEF CheckSysctl, RatesOK, limits, bandwidths
  <2> QED BY <2>1, <2>2
<1>14. CASE \/ \E g \in Group : Destroy(g)
            \/ \E b \in bounds.shares :
                  (\E g \in Node : WriteRt(g, b)) \/ (\E g \in Group : WriteCfs(g, b))
            \/ \E p \in Task : (\E g \in Node : CanAttach(p, g)) \/ SetPolicy(p)
            \/ Attach \/ UNCHANGED vars
  <2>1. UNCHANGED <<rt, limits, walk>>
    BY <1>14 DEF Destroy, WriteRt, WriteCfs, waits_for_mutex, CanAttach, SetPolicy, Attach, vars, bandwidths
  <2> QED BY <1>4, <2>1
<1> QED BY <1>5, <1>6, <1>7, <1>9, <1>10, <1>11, <1>12, <1>13, <1>14 DEF Next

\* A new group has a runtime of 0.
LEMMA CreateSums ==
    ASSUME SumsOK, TreeOK', NEW g \in Group, NEW up \in Node, Create(g, up)
    PROVE  Reached' /\ ChecksOK' /\ RtSumsFit'
<1>1. /\ InTree(up) /\ g # up /\ g # Root /\ ~InTree(g)
      /\ Linked' = Linked \union {g} /\ g \notin Linked
      /\ \A x : InTree(x)' <=> InTree(x) \/ x = g
      /\ \A x \in Group : x # g => parent'[x] = parent[x]
      /\ parent'[g] = up
  BY Created DEF SumsOK
<1>2. /\ walk' = walk /\ rt' = [rt EXCEPT ![g] = <<def_period, 0>>]
      /\ \A x \in Linked : x \in Group /\ x # g /\ InTree(x) /\ InTree(parent[x]) /\ parent[x] # g
  BY <1>1 DEF Create, SumsOK, TreeOK, ListsOK, Linked, InTree
<1>3. Reached'
  <2> SUFFICES ASSUME NEW f \in Node, InTree(f)'
               PROVE  \E D, U \in SUBSET {x \in Node : InTree(x)'} : Root \in D /\ Trap(D, U, f)'
    BY DEF Reached
  <2>1. CASE f = g
    <3>1. PICK D, U \in SUBSET {x \in Node : InTree(x)} : Root \in D /\ Trap(D, U, up)
      BY <1>1 DEF SumsOK, Reached
    <3>2. D \in SUBSET (Node \ {g}) /\ U \in SUBSET (Node \ {g})
      BY <1>1
    <3>3. Trap(D \union {g}, U, g)'
      BY <3>1, <3>2, CreateReaches DEF SumsOK
    <3>4. D \union {g} \in SUBSET {x \in Node : InTree(x)'} /\ U \in SUBSET {x \in Node : InTree(x)'}
      BY <1>1 DEF Node
    <3> QED BY <2>1, <3>1, <3>3, <3>4
  <2>2. CASE f # g
    <3>1. PICK D, U \in SUBSET {x \in Node : InTree(x)} : Root \in D /\ Trap(D, U, f)
      BY <1>1, <2>2 DEF SumsOK, Reached
    <3>2. D \in SUBSET (Node \ {g}) /\ U \in SUBSET (Node \ {g})
      BY <1>1
    <3>3. PICK D2 \in SUBSET (D \union {g}), U2 \in SUBSET (U \union {up}) :
               D \subseteq D2 /\ U \subseteq U2 /\ Trap(D2, U2, f)'
      BY <2>2, <3>1, <3>2, CreateTraps DEF SumsOK
    <3>4. D2 \in SUBSET {x \in Node : InTree(x)'} /\ U2 \in SUBSET {x \in Node : InTree(x)'}
      BY <1>1 DEF Node
    <3> QED BY <3>1, <3>3, <3>4
  <2> QED BY <2>1, <2>2
\* The sums, with the bandwidths r before and q after.
<1>4. ASSUME NEW r \in [Node -> Bandwidths], NEW q \in [Node -> Bandwidths],
             \A c \in Node \ {g} : q[c] = r[c], q[g][2] = 0,
             NEW x \in Node, InTree(x), FitsIn(r, Children(x), x)
      PROVE  FitsIn(q, Children(x)', x)
  <2>1. Children(x)' = Children(x) \union {y \in {g} : x = up}
    BY <1>1, <1>2 DEF Children
  <2>2. Children(x) \in SUBSET Group /\ g \in Group \ Children(x) /\ x # g
    BY <1>1, <1>2, <1>4 DEF Children
  <2>3. FitsIn(q, Children(x), x) /\ FitsIn(q, Children(x) \union {g}, x)
    BY <1>4, <2>2, FitsMore
  <2>4. Children(x)' = Children(x) \/ Children(x)' = Children(x) \union {g}
    BY <2>1
  <2> QED BY <2>3, <2>4
<1>5. /\ rt \in [Node -> Bandwidths] /\ rt' \in [Node -> Bandwidths]
      /\ (\A c \in Node \ {g} : rt'[c] = rt[c]) /\ rt'[g][2] = 0
  BY <1>2, BandwidthAssumption DEF SumsOK, RatesOK, Node, Bandwidths
<1>6. RtSumsFit'
  <2> SUFFICES ASSUME NEW x \in Node, InTree(x)'
               PROVE  FitsIn(rt', Children(x)', x)
    BY FitsChildren DEF RtSumsFit, InTree, Linked, Node, FitsIn, sum_of_children, Ratios
  <2>1. CASE x = g
    <3>1. Children(x)' = {}
      BY <1>1, <1>2, <2>1 DEF Children
    <3> QED BY <1>5, <3>1, FitsAlone
  <2>2. CASE x # g
    <3>1. FitsIn(rt, Children(x), x) /\ InTree(x)
      BY <1>1, <2>2 DEF SumsOK, RtSumsFit, InTree, FitsIn, sum_of_children, Ratios
    <3> QED BY <1>4, <1>5, <3>1
  <2> QED BY <2>1, <2>2
<1>7. ChecksOK'
  <2> DEFINE w == walk["rt"]
  <2> SUFFICES ASSUME w.at # None, ~Sysctl(w), NEW f \in Targets(w)'
               PROVE  (Fits(proposed(w), f) \/ WillVisit("rt", w, f))'
    BY <1>2 DEF ChecksOK, Sysctl
  <2>1. w \in Places /\ w.tg \in Node /\ w.tg # None /\ InTree(w.tg) /\ w.tg # g
    BY <1>1 DEF SumsOK, TreeOK, TypeOK, WalkOK, Names, Places, Walking, Sysctl
  <2>2. f \in Targets(w) /\ f \in Node /\ InTree(f) /\ f # g
    BY <1>1, <1>2, <2>1, NameAssumption DEF Targets, InTree, SumsOK, TreeOK, TypeOK
  <2>3. CASE Fits(proposed(w), f)
    <3>1. /\ proposed(w) \in [Node -> Bandwidths] /\ proposed(w)' \in [Node -> Bandwidths]
          /\ (\A c \in Node \ {g} : proposed(w)'[c] = proposed(w)[c]) /\ proposed(w)'[g][2] = 0
      <4>1. w.new \in Bandwidths
        BY <2>1, BandwidthAssumption DEF Places, Bandwidths, SumsOK, RatesOK
      <4> QED BY <1>2, <1>5, <2>1, <4>1 DEF proposed, Node
    <3>2. FitsIn(proposed(w), Children(f), f)
      BY <2>3, FitsChildren
    <3>3. FitsIn(proposed(w)', Children(f)', f)
      BY <1>4, <2>2, <3>1, <3>2
    <3> QED BY <3>3 DEF Fits, FitsIn, sum_of_children, Ratios
  <2>4. CASE WillVisit("rt", w, f)
    BY <1>2, <2>2, <2>4, CreateVisits DEF SumsOK
  <2>5. Fits(proposed(w), f) \/ WillVisit("rt", w, f)
    BY <2>2 DEF SumsOK, ChecksOK
  <2> QED BY <2>3, <2>4, <2>5
<1> QED BY <1>3, <1>6, <1>7

\* Without a child there is more room, and a walk that stands on it goes on.
LEMMA DestroySums ==
    ASSUME SumsOK, NEW g \in Group, Destroy(g)
    PROVE  Reached' /\ ChecksOK' /\ RtSumsFit'
<1>1. /\ g \in Linked /\ Linked' = Linked \ {g} /\ g # Root /\ (\A x : InTree(x)' <=> InTree(x) /\ x # g)
      /\ \A v \in Walking : walk[v].tg # g
      /\ \A x \in Linked : x # g => parent[x] # g
  BY Destroyed DEF SumsOK
<1>2. UNCHANGED <<parent, rt, walk>>
  BY DEF Destroy, bandwidths
<1>3. Reached'
  <2> SUFFICES ASSUME NEW f \in Node, InTree(f)'
               PROVE  \E D, U \in SUBSET {x \in Node : InTree(x)'} : Root \in D /\ Trap(D, U, f)'
    BY DEF Reached
  <2>1. PICK D, U \in SUBSET {x \in Node : InTree(x)} : Root \in D /\ Trap(D, U, f)
    BY <1>1 DEF SumsOK, Reached
  <2>2. Trap(D \ {g}, U \ {g}, f)'
    BY <1>1, <2>1, DestroyLeavesTraps DEF SumsOK
  <2>3. D \ {g} \in SUBSET {x \in Node : InTree(x)'} /\ U \ {g} \in SUBSET {x \in Node : InTree(x)'}
    BY <1>1
  <2> QED BY <1>1, <2>1, <2>2, <2>3
<1>4. ASSUME NEW r \in [Node -> Bandwidths], NEW x \in Node, FitsIn(r, Children(x), x)
      PROVE  FitsIn(r, Children(x)', x)
  <2>1. Children(x)' = Children(x) \ {g} /\ Children(x) \in SUBSET Group
    BY <1>1, <1>2 DEF Children, Linked
  <2> QED BY <1>4, <2>1, FitsLess
<1>5. RtSumsFit'
  <2> SUFFICES ASSUME NEW x \in Node, InTree(x)'
               PROVE  FitsIn(rt', Children(x)', x)
    BY FitsChildren DEF RtSumsFit, InTree, Linked, Node, FitsIn, sum_of_children, Ratios
  <2>1. FitsIn(rt, Children(x), x)
    BY <1>1 DEF SumsOK, RtSumsFit, InTree, FitsIn, sum_of_children, Ratios
  <2>2. FitsIn(rt, Children(x)', x)
    BY <1>4, <2>1 DEF SumsOK, RatesOK
  <2> QED BY <1>2, <2>2
<1>6. ChecksOK'
  <2> DEFINE w == walk["rt"]
  <2> SUFFICES ASSUME w.at # None, ~Sysctl(w), NEW f \in Targets(w)'
               PROVE  (Fits(proposed(w), f) \/ WillVisit("rt", w, f))'
    BY <1>2 DEF ChecksOK, Sysctl
  <2>1. w \in Places /\ w.tg \in Node /\ InTree(w.tg) /\ w.tg # g
    BY <1>1 DEF SumsOK, TreeOK, TypeOK, WalkOK, Names, Places, Walking, Sysctl
  <2>2. f \in Targets(w) /\ f \in Node /\ f # g
    BY <1>1, <1>2, <2>1, NameAssumption DEF Targets, InTree, SumsOK, TreeOK, TypeOK
  <2>3. CASE Fits(proposed(w), f)
    <3>1. proposed(w) \in [Node -> Bandwidths]
      <4>1. w.new \in Bandwidths
        BY <2>1, BandwidthAssumption DEF Places, Bandwidths, SumsOK, RatesOK
      <4> QED BY <4>1 DEF proposed, SumsOK, RatesOK
    <3>2. FitsIn(proposed(w), Children(f), f)
      BY <2>3, FitsChildren
    <3>3. FitsIn(proposed(w), Children(f)', f)
      BY <1>4, <2>2, <3>1, <3>2
    <3>4. proposed(w)' = proposed(w)
      BY <1>2 DEF proposed
    <3> QED BY <3>3, <3>4 DEF Fits, FitsIn, sum_of_children, Ratios
  <2>4. CASE WillVisit("rt", w, f)
    <3>1. "rt" \in Walking
      BY DEF Walking
    <3> QED BY <1>2, <2>2, <2>4, <3>1, DestroyVisits DEF SumsOK
  <2>5. Fits(proposed(w), f) \/ WillVisit("rt", w, f)
    BY <2>2 DEF SumsOK, ChecksOK
  <2> QED BY <2>3, <2>4, <2>5
<1> QED BY <1>3, <1>5, <1>6

\* Nothing is left of a group that is freed.
LEMMA FreedSums ==
    ASSUME SumsOK, NEW g \in Group, FreeRcu(g)
    PROVE  Reached' /\ ChecksOK' /\ RtSumsFit'
<1>1. /\ parent' = [parent EXCEPT ![g] = Root] /\ rt' = [rt EXCEPT ![g] = <<1, 0>>]
      /\ UNCHANGED walk
  BY DEF FreeRcu
<1>2. /\ Linked' = Linked /\ g \notin Linked /\ g # Root /\ ~InTree(g)
      /\ \A x : InTree(x)' <=> InTree(x)
  BY Freed DEF SumsOK
<1>3. Reached'
  <2> SUFFICES ASSUME NEW f \in Node, InTree(f)'
               PROVE  \E D, U \in SUBSET {x \in Node : InTree(x)'} : Root \in D /\ Trap(D, U, f)'
    BY DEF Reached
  <2>1. PICK D, U \in SUBSET {x \in Node : InTree(x)} : Root \in D /\ Trap(D, U, f)
    BY <1>2 DEF SumsOK, Reached
  <2>2. D \in SUBSET (Node \ {g}) /\ U \in SUBSET (Node \ {g})
    BY <1>2
  <2>3. Trap(D, U, f)'
    BY <2>1, <2>2, FreedTraps DEF SumsOK
  <2> QED BY <1>2, <2>1, <2>3
<1>4. \A x \in Node : Children(x)' = Children(x) /\ Children(x) \in SUBSET Group /\ g \notin Children(x)
  BY <1>1, <1>2 DEF Children, Linked, SumsOK, TreeOK, TypeOK
<1>5. /\ rt \in [Node -> Bandwidths] /\ rt' \in [Node -> Bandwidths]
      /\ \A c \in Node \ {g} : rt'[c] = rt[c]
  BY <1>1, BandwidthAssumption DEF SumsOK, RatesOK, Node, Bandwidths
\* The sums, with the bandwidths r before and q after.
<1>6. ASSUME NEW r \in [Node -> Bandwidths], NEW q \in [Node -> Bandwidths],
             \A c \in Node \ {g} : q[c] = r[c], NEW x \in Node, x # g, FitsIn(r, Children(x), x)
      PROVE  FitsIn(q, Children(x)', x)
  <2>1. \A c \in Children(x) \union {x} : q[c] = r[c]
    BY <1>4, <1>6 DEF Node
  <2> QED BY <1>4, <1>6, <2>1, FitsSame
<1>7. RtSumsFit'
  <2> SUFFICES ASSUME NEW x \in Node, InTree(x)'
               PROVE  FitsIn(rt', Children(x)', x)
    BY FitsChildren DEF RtSumsFit, InTree, Linked, Node, FitsIn, sum_of_children, Ratios
  <2>1. FitsIn(rt, Children(x), x) /\ x # g
    BY <1>2 DEF SumsOK, RtSumsFit, InTree, FitsIn, sum_of_children, Ratios
  <2> QED BY <1>5, <1>6, <2>1
<1>8. ChecksOK'
  <2> DEFINE w == walk["rt"]
  <2> SUFFICES ASSUME w.at # None, ~Sysctl(w), NEW f \in Targets(w)'
               PROVE  (Fits(proposed(w), f) \/ WillVisit("rt", w, f))'
    BY <1>1 DEF ChecksOK, Sysctl
  <2>1. w \in Places /\ w.tg \in Node /\ InTree(w.tg) /\ w.tg # g
    BY <1>2 DEF SumsOK, TreeOK, TypeOK, WalkOK, Names, Places, Walking, Sysctl
  <2>2. f \in Targets(w) /\ f \in Node /\ InTree(f) /\ f # g
    BY <1>1, <1>2, <2>1, NameAssumption DEF Targets, InTree, SumsOK, TreeOK, TypeOK, ListsOK
  <2>3. CASE Fits(proposed(w), f)
    <3>1. /\ proposed(w) \in [Node -> Bandwidths] /\ proposed(w)' \in [Node -> Bandwidths]
          /\ \A c \in Node \ {g} : proposed(w)'[c] = proposed(w)[c]
      <4>1. w.new \in Bandwidths
        BY <2>1, BandwidthAssumption DEF Places, Bandwidths, SumsOK, RatesOK
      <4> QED BY <1>1, <1>5, <4>1 DEF proposed
    <3>2. FitsIn(proposed(w), Children(f), f)
      BY <2>3, FitsChildren
    <3>3. FitsIn(proposed(w)', Children(f)', f)
      BY <1>6, <2>2, <3>1, <3>2
    <3> QED BY <3>3 DEF Fits, FitsIn, sum_of_children, Ratios
  <2>4. CASE WillVisit("rt", w, f)
    BY <1>1, <2>4, FreedVisits DEF SumsOK
  <2>5. Fits(proposed(w), f) \/ WillVisit("rt", w, f)
    BY <2>2 DEF SumsOK, ChecksOK
  <2> QED BY <2>3, <2>4, <2>5
<1> QED BY <1>3, <1>7, <1>8

\* A write: the walk is to visit the group and the one above it.
LEMMA WriteSums ==
    ASSUME SumsOK, WritersOK, NEW g, NEW b, g = pending["rt"][1], b = pending["rt"][2],
           tg_set_rt_bandwidth
    PROVE  Reached' /\ ChecksOK' /\ RtSumsFit'
<1>1. /\ InTree(g) /\ g \in Node /\ walk' = [walk EXCEPT !["rt"] = walk_tg_tree(g, b)]
      /\ UNCHANGED <<mem, parent, first, next, readers, rt>>
  BY DEF tg_set_rt_bandwidth, mutex_lock, tree, bandwidths, WritersOK, Names
<1>2. Linked' = Linked /\ (\A x : InTree(x)' <=> InTree(x)) /\ \A x : Safe("rt", x)' <=> Safe("rt", x)
  BY <1>1 DEF Linked, InTree, Safe, Held
<1>3. \A D, U, f : Trap(D, U, f)' <=> Trap(D, U, f)
  BY <1>1 DEF Trap, Leaves
<1>4. Reached'
  BY <1>2, <1>3 DEF SumsOK, Reached
<1>5. RtSumsFit'
  BY <1>1, <1>2 DEF SumsOK, RtSumsFit, sum_of_children, Children
<1>6. ChecksOK'
  <2>1. PICK w : w = walk_tg_tree(g, b)
    OBVIOUS
  <2>2. walk'["rt"] = w /\ w.at = Root /\ w.up = FALSE /\ w.tg = g
    BY <1>1, <2>1 DEF SumsOK, TreeOK, TypeOK, Names, walk_tg_tree
  <2> SUFFICES ASSUME NEW f \in Targets(w)'
               PROVE  WillVisit("rt", w, f)'
    BY <2>2 DEF ChecksOK, Targets, WillVisit
  <2>3. f \in Node /\ InTree(f)
    BY <1>1, <2>2, NameAssumption DEF Targets, InTree, SumsOK, TreeOK, TypeOK, ListsOK
  <2>4. WillVisit("rt", w, f)
    BY <2>2, <2>3, StartVisits DEF SumsOK
  <2> QED BY <1>2, <1>3, <2>4 DEF WillVisit
<1> QED BY <1>4, <1>5, <1>6

\* A step of the walk that is not refused: what it was to visit it has visited,
\* or will.
LEMMA StepChecks ==
    ASSUME SumsOK, NEW w, w = walk["rt"], w.at # None, ~Sysctl(w),
           w.up \/ tg_rt_schedulable(w.at, w),
           NEW on, on = walk_on(w, w.at, IF w.up THEN None ELSE first[w.at]), NEW f \in Targets(w)
    PROVE  Fits(proposed(w), f) \/ (on # idle /\ WillVisit("rt", on, f))
<1>1. w \in Places /\ w.at \in Node /\ (w.at = Root \/ w.at \in Group)
  BY DEF SumsOK, TreeOK, TypeOK, Names, Places, Node
<1>2. CASE Fits(proposed(w), f)
  BY <1>2
<1>3. CASE ~w.up /\ w.at = f
  <2>1. children_fit(f, w)
    BY <1>3 DEF tg_rt_schedulable
  <2>2. /\ proposed(w) \in [Node -> Bandwidths] /\ Children(f) \in SUBSET Group /\ f \in Node
    <3>1. w.new \in Bandwidths
      BY <1>1, BandwidthAssumption DEF Places, Bandwidths, SumsOK, RatesOK
    <3> QED BY <1>1, <1>3, <3>1 DEF proposed, SumsOK, RatesOK, Children, Linked
  <2>3. SumFunctionOnSet(Ratios(proposed(w)), Children(f)) \in Nat /\ to_ratio(proposed(w)[f]) \in Nat
    BY <2>2, RatioSums, Ratio
  <2>4. sum_of_children(proposed(w), f) = SumFunctionOnSet(Ratios(proposed(w)), Children(f))
    BY DEF sum_of_children, Ratios
  <2>5. to_ratio(proposed(w)[f]) >= sum_of_children(proposed(w), f)
    BY <2>1 DEF children_fit
  <2> QED BY <2>3, <2>4, <2>5 DEF Fits
<1>4. CASE WillVisit("rt", w, f) /\ (w.up \/ w.at # f)
  BY <1>1, <1>4, StepVisits DEF SumsOK
<1> QED BY <1>2, <1>3, <1>4 DEF SumsOK, ChecksOK

\* A step of __rt_schedulable: a bandwidth is stored when the group and the one
\* above it have been found to fit.
LEMMA RtWalkSums ==
    ASSUME SumsOK, RtWalk
    PROVE  Reached' /\ ChecksOK' /\ RtSumsFit'
<1>1. PICK w : w = walk["rt"]
  OBVIOUS
<1>2. /\ w \in Places /\ w.at # None /\ w.at \in Node /\ w.new \in Bandwidths
      /\ UNCHANGED <<mem, parent, first, next>>
  BY <1>1, BandwidthAssumption DEF RtWalk, SumsOK, RatesOK, TreeOK, TypeOK, Names, Places, Bandwidths
<1>3. Linked' = Linked /\ (\A x : InTree(x)' <=> InTree(x)) /\ \A x : Children(x)' = Children(x)
  BY <1>2 DEF Linked, InTree, Children
<1>4. \A D, U, f : Trap(D, U, f)' <=> Trap(D, U, f)
  BY <1>2 DEF Trap, Leaves
<1>5. Reached'
  BY <1>3, <1>4 DEF SumsOK, Reached
<1>6. \A r, x : Fits(r, x)' <=> Fits(r, x)
  BY <1>3 DEF Fits, sum_of_children
<1>7. UNCHANGED rt => RtSumsFit'
  BY <1>3 DEF SumsOK, RtSumsFit, sum_of_children
<1>8. walk'["rt"] = idle => ChecksOK'
  BY Idle DEF ChecksOK
<1>9. PICK on : on = walk_on(w, w.at, IF w.up THEN None ELSE first[w.at])
  OBVIOUS
<1>10. \/ walk'["rt"] = idle /\ UNCHANGED rt
       \/ /\ w.up \/ tg_rt_schedulable(w.at, w)
          /\ walk'["rt"] = on
          /\ IF on # idle THEN UNCHANGED <<rt, readers>>
             ELSE rt' = IF Sysctl(w) THEN rt ELSE [rt EXCEPT ![w.tg] = w.new]
  <2>1. CASE w.up \/ tg_rt_schedulable(w.at, w)
    <3>1. walk' = [walk EXCEPT !["rt"] = on] /\ (on # idle => UNCHANGED readers)
      BY <1>1, <1>9, <2>1 DEF RtWalk, Moves
    <3>2. walk'["rt"] = on
      BY <3>1 DEF SumsOK, TreeOK, TypeOK, Names
    <3>3. on # idle => UNCHANGED rt
      BY <3>2 DEF RtWalk
    <3>4. on = idle => rt' = IF Sysctl(w) THEN rt ELSE [rt EXCEPT ![w.tg] = w.new]
      BY <1>1, <2>1, <3>2 DEF RtWalk
    <3> QED BY <2>1, <3>1, <3>2, <3>3, <3>4
  <2>2. CASE ~(w.up \/ tg_rt_schedulable(w.at, w))
    <3>1. walk'["rt"] = idle
      BY <1>1, <2>2 DEF RtWalk, Stops, SumsOK, TreeOK, TypeOK, Names
    <3>2. UNCHANGED rt
      BY <1>1, <2>2, <3>1 DEF RtWalk
    <3> QED BY <3>1, <3>2
  <2> QED BY <2>1, <2>2
<1>11. CASE walk'["rt"] = idle /\ UNCHANGED rt
  BY <1>5, <1>7, <1>8, <1>11
<1>12. CASE walk'["rt"] = on /\ on # idle /\ UNCHANGED <<rt, readers>> /\ (w.up \/ tg_rt_schedulable(w.at, w))
  <2>1. on.tg = w.tg /\ on.new = w.new
    <3>1. PICK child \in Group \union {None} : child = IF w.up THEN None ELSE first[w.at]
      BY <1>2 DEF SumsOK, TreeOK, TypeOK
    <3> QED BY <1>2, <1>9, <1>12, <3>1, Onwards DEF SumsOK, TreeOK
  <2>2. \A x : Safe("rt", x)' <=> Safe("rt", x)
    BY <1>2, <1>3, <1>12 DEF Safe, Held
  <2>3. \A f : WillVisit("rt", on, f)' <=> WillVisit("rt", on, f)
    BY <1>4, <2>2 DEF WillVisit
  <2>4. proposed(on) = proposed(w) /\ proposed(on)' = proposed(w) /\ Targets(on)' = Targets(w)
    BY <1>2, <1>12, <2>1 DEF proposed, Targets
  <2>5. ASSUME ~Sysctl(w), NEW f \in Targets(w)
        PROVE  Fits(proposed(on), f)' \/ WillVisit("rt", on, f)'
    <3>1. Fits(proposed(w), f) \/ WillVisit("rt", on, f)
      BY <1>1, <1>2, <1>9, <1>12, <2>5, StepChecks
    <3>2. Fits(proposed(w), f) => Fits(proposed(on), f)'
      BY <1>3, <2>4 DEF Fits, sum_of_children
    <3> QED BY <2>3, <3>1, <3>2
  <2>6. ChecksOK'
    BY <1>12, <2>1, <2>4, <2>5 DEF ChecksOK, Sysctl, Fits, WillVisit, proposed, Targets, sum_of_children
  <2> QED BY <1>5, <1>7, <1>12, <2>6
<1>13. CASE walk'["rt"] = idle /\ on = idle /\ ~Sysctl(w) /\ rt' = [rt EXCEPT ![w.tg] = w.new]
            /\ (w.up \/ tg_rt_schedulable(w.at, w))
  <2>1. w.tg \in Node /\ InTree(w.tg)
    BY <1>1, <1>2, <1>13 DEF Places, Sysctl, SumsOK, TreeOK, WalkOK, Walking
  <2>2. /\ rt \in [Node -> Bandwidths] /\ proposed(w) \in [Node -> Bandwidths]
        /\ rt' = proposed(w)
    BY <1>2, <1>13, <2>1 DEF proposed, SumsOK, RatesOK
  <2>3. \A f \in Targets(w) : Fits(proposed(w), f)
    BY <1>1, <1>2, <1>9, <1>13, StepChecks
  <2>4. ASSUME NEW x \in Node, InTree(x)
        PROVE  FitsIn(proposed(w), Children(x), x)
    <3>1. CASE x \in Targets(w)
      BY <2>3, <3>1, FitsChildren
    <3>2. CASE x \notin Targets(w)
      <4>1. w.tg \notin Children(x) /\ w.tg # x /\ Children(x) \in SUBSET Group
        BY <3>2 DEF Targets, Children, Linked
      <4>2. \A c \in Children(x) \union {x} : proposed(w)[c] = rt[c]
        BY <2>4, <4>1 DEF proposed, Node
      <4>3. FitsIn(rt, Children(x), x)
        BY <2>4 DEF SumsOK, RtSumsFit, InTree, FitsIn, sum_of_children, Ratios
      <4> QED BY <2>2, <4>1, <4>2, <4>3, FitsSame
    <3> QED BY <3>1, <3>2
  <2>5. RtSumsFit'
    <3> SUFFICES ASSUME NEW x \in Node, InTree(x)'
                 PROVE  FitsIn(rt', Children(x)', x)
      BY FitsChildren DEF RtSumsFit, InTree, Linked, Node, FitsIn, sum_of_children, Ratios
    <3> QED BY <1>3, <2>2, <2>4
  <2> QED BY <1>5, <1>8, <1>13, <2>5
<1> QED BY <1>10, <1>11, <1>12, <1>13


\* The root alone.
LEMMA InitSums == Init => SumsOK
<1> SUFFICES ASSUME Init PROVE SumsOK
  OBVIOUS
<1>1. Linked = {} /\ \A x : InTree(x) <=> x = Root
  BY DEF Init, Linked, InTree
<1>2. RatesOK
  <2>1. sysctl \in Bandwidths /\ sysctl \in Nat \X (Nat \union {Inf}) /\ <<1, 0>> \in Bandwidths /\ sysctl[1] \in Nat \ {0}
    BY BandwidthAssumption DEF Init, Bandwidths
  <2>2. walk["rt"].at = None
    BY Idle DEF Init
  <2> QED BY <2>1, <2>2 DEF Init, RatesOK
<1>3. Reached
  <2>1. Trap({Root}, {}, Root) /\ {Root} \in SUBSET {x \in Node : InTree(x)} /\ Root \in Node
    BY <1>1 DEF Trap, Node
  <2> QED BY <1>1, <2>1 DEF Reached
<1>4. ChecksOK
  BY Idle DEF Init, ChecksOK
<1>5. RtSumsFit
  <2>1. FitsIn(rt, {}, Root)
    BY <1>2, FitsAlone DEF RatesOK, Node
  <2>2. Children(Root) = {}
    BY <1>1 DEF Children
  <2> QED BY <1>1, <2>1, <2>2 DEF RtSumsFit, FitsIn, sum_of_children, Ratios
<1> QED BY <1>2, <1>3, <1>4, <1>5, InitTree DEF SumsOK

\* What any step keeps.
LEMMA NextSums == WritersOK /\ SumsOK /\ [Next]_vars => SumsOK'
<1> SUFFICES ASSUME WritersOK, SumsOK, [Next]_vars PROVE SumsOK'
  OBVIOUS
<1>1. TreeOK' /\ RatesOK'
  BY NextTree, RatesKept DEF SumsOK
<1> DEFINE Rest == Reached /\ ChecksOK /\ RtSumsFit
<1> SUFFICES Rest'
  BY <1>1 DEF SumsOK
<1>2. ASSUME NEW g \in Group, NEW up \in Node, Create(g, up)
      PROVE  Rest'
  BY <1>1, <1>2, CreateSums
<1>3. ASSUME NEW g \in Group, Destroy(g)
      PROVE  Rest'
  BY <1>3, DestroySums
<1>4. ASSUME NEW g \in Group, FreeRcu(g)
      PROVE  Rest'
  BY <1>4, FreedSums
<1>5. CASE RtWalk
  BY <1>5, RtWalkSums
<1>6. CASE tg_set_rt_bandwidth
  BY <1>6, WriteSums
<1>7. CASE CfsWalk
  <2>1. /\ walk'["rt"] = walk["rt"] /\ UNCHANGED <<mem, parent, first, next, rt>>
        /\ Ends("cfs") \/ UNCHANGED readers
    BY <1>7 DEF CfsWalk, Moves, Stops, SumsOK, TreeOK, TypeOK, Names
  <2>2. \A x \in Group : "rt" \in readers'[x] <=> "rt" \in readers[x]
    BY <2>1 DEF Ends
  <2> QED BY <2>1, <2>2, SumsUntouched
<1>8. CASE tg_set_cfs_bandwidth
  <2>1. walk'["rt"] = walk["rt"] /\ UNCHANGED <<mem, parent, first, next, readers, rt>>
    BY <1>8 DEF tg_set_cfs_bandwidth, mutex_lock, tree, bandwidths, SumsOK, TreeOK, TypeOK, Names
  <2> QED BY <2>1, SumsUntouched
<1>9. CASE CheckSysctl
  <2>1. UNCHANGED <<mem, parent, first, next, readers, rt>>
    BY <1>9 DEF CheckSysctl, tree, bandwidths
  <2>2. walk'["rt"] = walk["rt"] \/ Sysctl(walk["rt"])'
    <3>1. walk_tg_tree(None, <<1, 0>>).tg = None
      BY DEF walk_tg_tree
    <3>2. CASE sysctl[1] > 0 /\ valid(sysctl)
      BY <1>9, <3>1, <3>2 DEF CheckSysctl, Sysctl, SumsOK, TreeOK, TypeOK, Names
    <3>3. CASE ~(sysctl[1] > 0 /\ valid(sysctl))
      BY <1>9, <3>3 DEF CheckSysctl
    <3> QED BY <3>2, <3>3
  <2> QED BY <2>1, <2>2, SumsUntouched
<1>10. CASE \/ \E b \in Sysctls : WriteSysctl(b)
            \/ \E b \in bounds.shares :
                  (\E g \in Node : WriteRt(g, b)) \/ (\E g \in Group : WriteCfs(g, b))
            \/ \E p \in Task : (\E g \in Node : CanAttach(p, g)) \/ SetPolicy(p)
            \/ Attach \/ UNCHANGED vars
  <2>1. UNCHANGED <<mem, parent, first, next, readers, rt, walk>>
    BY <1>10 DEF WriteSysctl, WriteRt, WriteCfs, waits_for_mutex, CanAttach, SetPolicy, Attach, vars, tree, bandwidths
  <2> QED BY <2>1, SumsUntouched
<1> QED BY <1>2, <1>3, <1>4, <1>5, <1>6, <1>7, <1>8, <1>9, <1>10 DEF Next

\* "The sum of our children's runtime should not exceed our own"
\* (tg_rt_schedulable), at every moment and for any number of groups: the walk
\* comes to the group written to and to the one above it whatever groups are
\* created or destroyed beside it, and those change no sum for the worse.
THEOREM ChildrenFit == Spec => []RtSumsFit
BY InitSums, NextSums, InitWriters, NextWriters, PTL DEF Spec, SumsOK

-----------------------------------------------------------------------------
(* The quotas. *)

\* What lies above a group is in any set that goes up with it.
LEMMA AncestorsWithin ==
    ASSUME NEW g, NEW S \in SUBSET Node, parent[g] \in S, \A s \in S \ {Root} : parent[s] \in S
    PROVE  Ancestors(g) \subseteq S
BY DEF Ancestors

\* What is not in the tree is above no group.
LEMMA AncestorsShrink ==
    ASSUME ListsOK, \A y \in Linked : parent'[y] = parent[y], NEW x \in Linked
    PROVE  Ancestors(x)' \subseteq Ancestors(x)
<1> SUFFICES ASSUME NEW a \in Ancestors(x)', NEW S \in SUBSET Node, parent[x] \in S,
                    \A s \in S \ {Root} : parent[s] \in S
             PROVE  a \in S
  BY DEF Ancestors
<1> DEFINE T == {y \in S : InTree(y)}
<1>1. T \in SUBSET Node /\ parent'[x] \in T /\ \A s \in T \ {Root} : parent'[s] \in T
  BY DEF ListsOK, InTree
<1> HIDE DEF T
<1>2. a \in T
  BY <1>1 DEF Ancestors
<1> QED BY <1>2 DEF T

\* normalize_cfs_quota
LEMMA Normalized ==
    ASSUME NEW c \in [Node -> Bandwidths], NEW w, w.new \in Bandwidths, NEW g \in Node,
           NEW b, b = IF g = w.tg THEN w.new ELSE c[g],
           NEW n, n = IF b[2] = Inf THEN Inf ELSE to_ratio(b)
    PROVE  n \in Nat \union {Inf} /\ (b[2] # Inf => n # Inf /\ n = to_ratio(b))
<1>1. b \in Bandwidths
  OBVIOUS
<1> QED BY <1>1, Ratio, BandwidthAssumption

\* With the quotas h in effect and the limits n: when each is at most the one
\* above it, it is at most every one above it.
LEMMA Descends ==
    ASSUME NEW h \in [Node -> Nat \union {Inf}], NEW n \in [Node -> Nat \union {Inf}],
           NEW V \in SUBSET Node,
           \A v \in V \ {Root} : /\ parent[v] \in V
                                 /\ h[v] = IF n[v] = Inf THEN h[parent[v]] ELSE n[v]
                                 /\ n[v] = Inf \/ h[parent[v]] = Inf \/ n[v] <= h[parent[v]],
           NEW g \in V \ {Root}, n[g] # Inf, NEW a \in Ancestors(g), a # Root, n[a] # Inf
    PROVE  n[g] <= n[a]
<1> DEFINE S == {x \in V : h[x] = Inf \/ n[g] <= h[x]}
<1>1. parent[g] \in S
  OBVIOUS
<1>2. ASSUME NEW x \in S \ {Root}
      PROVE  parent[x] \in S
  <2>1. /\ x \in V \ {Root} /\ parent[x] \in V /\ n[g] \in Nat
        /\ n[x] \in Nat \union {Inf} /\ h[x] \in Nat \union {Inf} /\ h[parent[x]] \in Nat \union {Inf}
    OBVIOUS
  <2>2. CASE n[x] = Inf
    BY <2>1, <2>2
  <2>3. CASE n[x] # Inf
    <3>1. h[x] = n[x] /\ n[g] <= n[x] /\ n[x] \in Nat
      BY <2>1, <2>3, BandwidthAssumption
    <3>2. h[parent[x]] = Inf \/ n[x] <= h[parent[x]]
      BY <2>1, <2>3
    <3> QED BY <2>1, <3>1, <3>2
  <2> QED BY <2>2, <2>3
<1>3. S \in SUBSET Node
  OBVIOUS
<1> HIDE DEF S
<1>4. a \in S
  BY <1>1, <1>2, <1>3, AncestorsWithin
<1> QED BY <1>4, BandwidthAssumption DEF S

\* The quotas of what was visited stay.
LEMMA VisitedKept ==
    ASSUME NEW V \in SUBSET Node, NEW w, Visited(V, w),
           \A v \in V : /\ cfs'[v] = cfs[v] /\ hierarchal_quota'[v] = hierarchal_quota[v]
                        /\ v # Root => parent'[v] = parent[v]
    PROVE  Visited(V, w)'
BY DEF Visited, effective_quota, tg_cfs_schedulable_down, normalize_cfs_quota

\* What does not concern the tree or the quotas.
LEMMA QuotasUntouched ==
    ASSUME QuotasOK, UNCHANGED <<mem, parent, first, next, cfs, hierarchal_quota>>,
           walk'["cfs"] = walk["cfs"],
           \A x \in Group : "cfs" \in readers'[x] <=> "cfs" \in readers[x]
    PROVE  QuotaTypes' /\ QuotaChecks' /\ QuotasFit'
<1>1. Linked' = Linked /\ \A x : Safe("cfs", x)' <=> Safe("cfs", x)
  BY DEF Linked, InTree, Safe, Held
<1>2. QuotaTypes'
  BY DEF QuotasOK, QuotaTypes
<1>3. QuotasFit'
  BY <1>1 DEF QuotasOK, QuotasFit, Ancestors
<1>4. \A w, f : WillVisit("cfs", w, f)' <=> WillVisit("cfs", w, f)
  BY <1>1 DEF WillVisit, Trap, Leaves
<1>5. \A V, w, f : (Visited(V, w)' <=> Visited(V, w)) /\ (Limited(w, f)' <=> Limited(w, f))
  BY DEF Visited, effective_quota, tg_cfs_schedulable_down, normalize_cfs_quota, Limited
<1>6. QuotaChecks'
  <2> SUFFICES ASSUME NEW w, w = walk["cfs"], w.at # None
               PROVE  \E V \in SUBSET {x \in Node : Safe("cfs", x)'} :
                          /\ Visited(V, w)'
                          /\ IF w.up THEN w.at \in V ELSE w.at # Root => parent'[w.at] \in V
                          /\ \A f \in Linked' : Limited(w, f)' => f \in V \/ WillVisit("cfs", w, f)'
    BY DEF QuotaChecks
  <2> QED BY <1>1, <1>4, <1>5 DEF QuotasOK, QuotaChecks
<1> QED BY <1>2, <1>3, <1>6

\* A new group has no limit.
LEMMA CreateQuotas ==
    ASSUME QuotasOK, NEW g \in Group, NEW up \in Node, Create(g, up)
    PROVE  QuotaTypes' /\ QuotaChecks' /\ QuotasFit'
<1>1. /\ InTree(up) /\ g # up /\ g # Root /\ g \notin Linked /\ ~InTree(g)
      /\ Linked' = Linked \union {g}
      /\ \A v : ~Safe(v, g) /\ \A x : Safe(v, x) \/ x = g => Safe(v, x)'
      /\ \A x \in Group : x # g => parent'[x] = parent[x]
  BY Created DEF QuotasOK, SumsOK
<1>2. /\ walk' = walk /\ cfs' = [cfs EXCEPT ![g] = <<1, Inf>>]
      /\ hierarchal_quota' = [hierarchal_quota EXCEPT ![g] = 0]
  BY DEF Create
<1>3. /\ cfs \in [Node -> Bandwidths] /\ hierarchal_quota \in [Node -> Nat \union {Inf}]
      /\ <<1, Inf>> \in Bandwidths /\ g \in Node
  BY DEF QuotasOK, QuotaTypes, Bandwidths, Node
<1>4. /\ \A x \in Node \ {g} : cfs'[x] = cfs[x] /\ hierarchal_quota'[x] = hierarchal_quota[x]
      /\ cfs'[g][2] = Inf
  BY <1>2, <1>3
<1>5. QuotaTypes'
  BY <1>1, <1>2, <1>3, <1>4 DEF QuotasOK, QuotaTypes, Node
<1>6. QuotasFit'
  <2> SUFFICES ASSUME NEW x \in Linked', NEW a \in Ancestors(x)', cfs'[x][2] # Inf, cfs'[a][2] # Inf
               PROVE  to_ratio(cfs'[x]) <= to_ratio(cfs'[a])
    BY DEF QuotasFit, to_ratio
  <2>1. x \in Linked /\ a # g /\ x # g
    BY <1>1, <1>4
  <2>2. Ancestors(x)' \subseteq Ancestors(x)
    BY <1>1, <2>1, AncestorsShrink DEF QuotasOK, SumsOK, TreeOK, Linked
  <2>3. cfs'[x] = cfs[x] /\ cfs'[a] = cfs[a]
    BY <1>4, <2>1 DEF Ancestors, Linked, Node
  <2> QED BY <2>1, <2>2, <2>3 DEF QuotasOK, QuotasFit
<1>7. QuotaChecks'
  <2> SUFFICES ASSUME NEW w, w = walk["cfs"], w.at # None
               PROVE  \E V \in SUBSET {x \in Node : Safe("cfs", x)'} :
                          /\ Visited(V, w)'
                          /\ IF w.up THEN w.at \in V ELSE w.at # Root => parent'[w.at] \in V
                          /\ \A f \in Linked' : Limited(w, f)' => f \in V \/ WillVisit("cfs", w, f)'
    BY <1>2 DEF QuotaChecks
  <2>1. PICK V \in SUBSET {x \in Node : Safe("cfs", x)} :
             /\ Visited(V, w)
             /\ IF w.up THEN w.at \in V ELSE w.at # Root => parent[w.at] \in V
             /\ \A f \in Linked : Limited(w, f) => f \in V \/ WillVisit("cfs", w, f)
    BY DEF QuotasOK, QuotaChecks
  <2>2. g \notin V /\ V \in SUBSET Node /\ V \in SUBSET {x \in Node : Safe("cfs", x)'}
    BY <1>1
  <2>3. w.at \in Node /\ w.at # g /\ w.tg # g
    <3>1. w \in Places /\ Safe("cfs", w.at) /\ (w.tg = None \/ InTree(w.tg))
      BY DEF QuotasOK, SumsOK, TreeOK, TypeOK, WalkOK, Names, Walking
    <3> QED BY <1>1, <3>1, NameAssumption DEF Places
  <2>4. Visited(V, w)'
    BY <1>1, <1>4, <2>1, <2>2, VisitedKept DEF Node
  <2>5. w.at # Root => parent'[w.at] = parent[w.at]
    BY <1>1, <2>3 DEF Node
  <2>6. ASSUME NEW f \in Linked', Limited(w, f)'
        PROVE  f \in V \/ WillVisit("cfs", w, f)'
    <3>1. f # g
      BY <1>4, <2>3, <2>6 DEF Limited, normalize_cfs_quota
    <3>2. f \in Linked /\ f \in Node /\ Limited(w, f)
      BY <1>1, <1>4, <2>6, <3>1 DEF Limited, normalize_cfs_quota, Linked, Node
    <3> QED BY <2>1, <3>1, <3>2, CreateVisits DEF QuotasOK, SumsOK
  <2> QED BY <2>1, <2>2, <2>4, <2>5, <2>6
<1> QED BY <1>5, <1>6, <1>7

\* A walk that stands on a group that is unlinked knows what is above it.
LEMMA DestroyQuotas ==
    ASSUME QuotasOK, NEW g \in Group, Destroy(g)
    PROVE  QuotaTypes' /\ QuotaChecks' /\ QuotasFit'
<1>1. /\ Linked' = Linked \ {g}
      /\ \A v \in Walking : walk[v].tg # g /\ \A x : Safe(v, x) => Safe(v, x)'
  BY Destroyed DEF QuotasOK, SumsOK
<1>2. UNCHANGED <<walk, parent, cfs, hierarchal_quota>>
  BY DEF Destroy, bandwidths
<1>3. QuotaTypes'
  BY <1>2 DEF QuotasOK, QuotaTypes
<1>4. QuotasFit'
  BY <1>1, <1>2 DEF QuotasOK, QuotasFit, Ancestors
<1>5. QuotaChecks'
  <2> SUFFICES ASSUME NEW w, w = walk["cfs"], w.at # None
               PROVE  \E V \in SUBSET {x \in Node : Safe("cfs", x)'} :
                          /\ Visited(V, w)'
                          /\ IF w.up THEN w.at \in V ELSE w.at # Root => parent'[w.at] \in V
                          /\ \A f \in Linked' : Limited(w, f)' => f \in V \/ WillVisit("cfs", w, f)'
    BY <1>2 DEF QuotaChecks
  <2>1. PICK V \in SUBSET {x \in Node : Safe("cfs", x)} :
             /\ Visited(V, w)
             /\ IF w.up THEN w.at \in V ELSE w.at # Root => parent[w.at] \in V
             /\ \A f \in Linked : Limited(w, f) => f \in V \/ WillVisit("cfs", w, f)
    BY DEF QuotasOK, QuotaChecks
  <2>2. "cfs" \in Walking
    BY DEF Walking
  <2>3. V \in SUBSET {x \in Node : Safe("cfs", x)'} /\ V \in SUBSET Node
    BY <1>1, <2>2
  <2>4. Visited(V, w)'
    BY <1>2, <2>1, <2>3, VisitedKept
  <2>5. ASSUME NEW f \in Linked', Limited(w, f)'
        PROVE  f \in V \/ WillVisit("cfs", w, f)'
    <3>1. f \in Linked /\ f # g /\ Limited(w, f)
      BY <1>1, <1>2, <2>5 DEF Limited, normalize_cfs_quota
    <3> QED BY <2>1, <2>2, <3>1, DestroyVisits DEF QuotasOK, SumsOK
  <2> QED BY <1>2, <2>1, <2>3, <2>4, <2>5
<1> QED BY <1>3, <1>4, <1>5

\* What is freed is above no group.
LEMMA FreedQuotas ==
    ASSUME QuotasOK, NEW g \in Group, FreeRcu(g)
    PROVE  QuotaTypes' /\ QuotaChecks' /\ QuotasFit'
<1>1. /\ Linked' = Linked /\ g \notin Linked /\ g # Root
      /\ \A v : ~Safe(v, g) /\ \A x : Safe(v, x)' <=> Safe(v, x)
      /\ \A x \in Group \ {g} : parent'[x] = parent[x]
  BY Freed DEF QuotasOK, SumsOK
<1>2. /\ walk' = walk /\ cfs' = [cfs EXCEPT ![g] = <<1, Inf>>]
      /\ hierarchal_quota' = [hierarchal_quota EXCEPT ![g] = 0]
  BY DEF FreeRcu
<1>3. /\ cfs \in [Node -> Bandwidths] /\ hierarchal_quota \in [Node -> Nat \union {Inf}]
      /\ <<1, Inf>> \in Bandwidths /\ g \in Node
  BY DEF QuotasOK, QuotaTypes, Bandwidths, Node
<1>4. /\ \A x \in Node \ {g} : cfs'[x] = cfs[x] /\ hierarchal_quota'[x] = hierarchal_quota[x]
      /\ cfs'[g][2] = Inf
  BY <1>2, <1>3
<1>5. QuotaTypes'
  BY <1>1, <1>2, <1>3, <1>4 DEF QuotasOK, QuotaTypes, Node
<1>6. QuotasFit'
  <2> SUFFICES ASSUME NEW x \in Linked', NEW a \in Ancestors(x)', cfs'[x][2] # Inf, cfs'[a][2] # Inf
               PROVE  to_ratio(cfs'[x]) <= to_ratio(cfs'[a])
    BY DEF QuotasFit, to_ratio
  <2>1. x \in Linked /\ a # g /\ x # g
    BY <1>1, <1>4
  <2>2. Ancestors(x)' \subseteq Ancestors(x)
    BY <1>1, <2>1, AncestorsShrink DEF QuotasOK, SumsOK, TreeOK, Linked
  <2>3. cfs'[x] = cfs[x] /\ cfs'[a] = cfs[a]
    BY <1>4, <2>1 DEF Ancestors, Linked, Node
  <2> QED BY <2>1, <2>2, <2>3 DEF QuotasOK, QuotasFit
<1>7. QuotaChecks'
  <2> SUFFICES ASSUME NEW w, w = walk["cfs"], w.at # None
               PROVE  \E V \in SUBSET {x \in Node : Safe("cfs", x)'} :
                          /\ Visited(V, w)'
                          /\ IF w.up THEN w.at \in V ELSE w.at # Root => parent'[w.at] \in V
                          /\ \A f \in Linked' : Limited(w, f)' => f \in V \/ WillVisit("cfs", w, f)'
    BY <1>2 DEF QuotaChecks
  <2>1. PICK V \in SUBSET {x \in Node : Safe("cfs", x)} :
             /\ Visited(V, w)
             /\ IF w.up THEN w.at \in V ELSE w.at # Root => parent[w.at] \in V
             /\ \A f \in Linked : Limited(w, f) => f \in V \/ WillVisit("cfs", w, f)
    BY DEF QuotasOK, QuotaChecks
  <2>2. g \notin V /\ V \in SUBSET Node /\ V \in SUBSET {x \in Node : Safe("cfs", x)'}
    BY <1>1
  <2>3. /\ w.at \in Node /\ w.at # g
    BY <1>1 DEF QuotasOK, SumsOK, TreeOK, TypeOK, WalkOK, Names, Places, Walking
  <2>4. Visited(V, w)'
    BY <1>1, <1>4, <2>1, <2>2, VisitedKept DEF Node
  <2>5. w.at # Root => parent'[w.at] = parent[w.at]
    BY <1>1, <2>3 DEF Node
  <2>6. ASSUME NEW f \in Linked', Limited(w, f)'
        PROVE  f \in V \/ WillVisit("cfs", w, f)'
    <3>1. f \in Linked /\ Limited(w, f)
      BY <1>1, <1>4, <2>6 DEF Limited, normalize_cfs_quota, Linked, Node
    <3> QED BY <2>1, <3>1, FreedVisits DEF QuotasOK, SumsOK
  <2> QED BY <2>1, <2>2, <2>4, <2>5, <2>6
<1> QED BY <1>5, <1>6, <1>7

\* A write: the walk is to visit every group.
LEMMA WriteQuotas ==
    ASSUME QuotasOK, WritersOK, NEW g, NEW b, g = pending["cfs"][1], b = pending["cfs"][2],
           tg_set_cfs_bandwidth
    PROVE  QuotaTypes' /\ QuotaChecks' /\ QuotasFit'
<1>1. /\ g \in Group /\ walk' = [walk EXCEPT !["cfs"] = walk_tg_tree(g, b)]
      /\ UNCHANGED <<mem, parent, first, next, readers, cfs, hierarchal_quota>>
  BY DEF tg_set_cfs_bandwidth, mutex_lock, tree, bandwidths, WritersOK, Names, Node
<1>2. PICK w : w = walk_tg_tree(g, b)
  OBVIOUS
<1>3. walk'["cfs"] = w /\ w.at = Root /\ w.up = FALSE /\ w.tg = g
  BY <1>1, <1>2 DEF QuotasOK, SumsOK, TreeOK, TypeOK, Names, walk_tg_tree
<1>4. QuotaTypes'
  BY <1>1, <1>3 DEF QuotasOK, QuotaTypes
<1>5. Linked' = Linked /\ \A x : Safe("cfs", x)' <=> Safe("cfs", x)
  BY <1>1 DEF Linked, InTree, Safe, Held
<1>6. QuotasFit'
  BY <1>1, <1>5 DEF QuotasOK, QuotasFit, Ancestors
<1>7. ASSUME NEW f \in Linked
      PROVE  WillVisit("cfs", w, f)'
  <2>1. WillVisit("cfs", w, f)
    BY <1>3, <1>7, StartVisits DEF QuotasOK, SumsOK, InTree, Linked, Node
  <2>2. \A D, U : Trap(D, U, f)' <=> Trap(D, U, f)
    BY <1>1 DEF Trap, Leaves
  <2> QED BY <1>5, <2>1, <2>2 DEF WillVisit
<1>8. Visited({}, w)' /\ {} \in SUBSET {x \in Node : Safe("cfs", x)'}
  BY DEF Visited
<1>9. QuotaChecks'
  BY <1>3, <1>5, <1>7, <1>8 DEF QuotaChecks
<1> QED BY <1>4, <1>6, <1>9

\* A step of __cfs_schedulable that is not refused: the group is visited, and
\* the walk goes on below one that was.
LEMMA CfsStep ==
    ASSUME QuotasOK, CfsWalk, NEW w, w = walk["cfs"], w.up \/ tg_cfs_schedulable_down(w.at, w),
           NEW on, on = walk_on(w, w.at, IF w.up THEN None ELSE first[w.at])
    PROVE  \E V \in SUBSET {x \in Node : Safe("cfs", x)} :
               /\ \A v \in V \ {Root} :
                     /\ parent[v] \in V
                     /\ hierarchal_quota'[v] = inherited(normalize_cfs_quota(v, w), hierarchal_quota'[parent[v]])
                     /\ \/ normalize_cfs_quota(v, w) = Inf \/ hierarchal_quota'[parent[v]] = Inf
                        \/ normalize_cfs_quota(v, w) <= hierarchal_quota'[parent[v]]
               /\ Root \in V => hierarchal_quota'[Root] = Inf
               /\ on # idle => IF on.up THEN on.at \in V ELSE on.at # Root => parent[on.at] \in V
               /\ \A f \in Linked : Limited(w, f) => f \in V \/ (on # idle /\ WillVisit("cfs", on, f))
<1>1. /\ w \in Places /\ w.at # None /\ w.at \in Node /\ Safe("cfs", w.at) /\ TreeOK
      /\ hierarchal_quota \in [Node -> Nat \union {Inf}]
  BY DEF CfsWalk, QuotasOK, QuotaTypes, SumsOK, TreeOK, TypeOK, WalkOK, Names, Places, Walking
<1>2. PICK V \in SUBSET {x \in Node : Safe("cfs", x)} :
           /\ Visited(V, w)
           /\ IF w.up THEN w.at \in V ELSE w.at # Root => parent[w.at] \in V
           /\ \A f \in Linked : Limited(w, f) => f \in V \/ WillVisit("cfs", w, f)
  BY <1>1 DEF QuotasOK, QuotaChecks
<1> DEFINE V2 == V \union {w.at}
           n(v) == normalize_cfs_quota(v, w)
<1>3. V2 \in SUBSET {x \in Node : Safe("cfs", x)}
  BY <1>1
<1>4. w.at # Root => parent[w.at] \in V
  BY <1>2 DEF Visited
<1>5. \A v \in V2 \ {Root} : parent[v] \in V
  BY <1>2, <1>4 DEF Visited
<1>6. hierarchal_quota' = IF ~w.up THEN [hierarchal_quota EXCEPT ![w.at] = effective_quota(w.at, w)]
                          ELSE hierarchal_quota
  BY DEF CfsWalk
\* What was visited keeps its quota, and the group it stands on gets its own.
<1>7. /\ \A v \in V : hierarchal_quota'[v] = hierarchal_quota[v]
      /\ \A v \in V2 : hierarchal_quota'[v] = effective_quota(v, w)
  <2>1. CASE w.up
    BY <1>2, <1>6, <2>1 DEF Visited
  <2>2. CASE ~w.up
    <3>1. hierarchal_quota' = [hierarchal_quota EXCEPT ![w.at] = effective_quota(w.at, w)]
      BY <1>6, <2>2
    <3>2. \A v \in V : hierarchal_quota[v] = effective_quota(v, w) /\ v \in Node
      BY <1>2 DEF Visited
    <3> HIDE DEF V2
    <3>3. \A v \in Node : hierarchal_quota'[v] = IF v = w.at THEN effective_quota(w.at, w)
                                                  ELSE hierarchal_quota[v]
      BY <1>1, <3>1
    <3> QED BY <1>1, <3>2, <3>3 DEF V2
  <2> QED BY <2>1, <2>2
<1>8. ASSUME NEW v \in V2 \ {Root}
      PROVE  /\ parent[v] \in V2
             /\ hierarchal_quota'[v] = inherited(n(v), hierarchal_quota'[parent[v]])
             /\ n(v) = Inf \/ hierarchal_quota'[parent[v]] = Inf \/ n(v) <= hierarchal_quota'[parent[v]]
  <2>1. parent[v] \in V /\ hierarchal_quota'[parent[v]] = hierarchal_quota[parent[v]]
    BY <1>5, <1>7
  <2>2. hierarchal_quota'[v] = effective_quota(v, w)
    BY <1>7
  <2>3. tg_cfs_schedulable_down(v, w)
    BY <1>2 DEF Visited
  <2> QED BY <2>1, <2>2, <2>3 DEF effective_quota, tg_cfs_schedulable_down
<1>9. Root \in V2 => hierarchal_quota'[Root] = Inf
  BY <1>7 DEF effective_quota
<1>10. on # idle => IF on.up THEN on.at \in V2 ELSE on.at # Root => parent[on.at] \in V2
  <2> SUFFICES ASSUME on # idle
               PROVE  IF on.up THEN on.at \in V2 ELSE on.at # Root => parent[on.at] \in V2
    OBVIOUS
  <2>1. PICK child : child = (IF w.up THEN None ELSE first[w.at]) /\ child \in Group \union {None}
    BY <1>1 DEF TreeOK, TypeOK
  <2>2. \/ child # None /\ on.at = child /\ ~on.up
        \/ /\ w.at \in Group
           /\ IF next[w.at] # None THEN on.at = next[w.at] /\ ~on.up
                                   ELSE on.at = parent[w.at] /\ on.up
    BY <1>1, <2>1, Onwards DEF TreeOK
  <2>3. ASSUME child # None
        PROVE  parent[child] = w.at
    <3>1. child = first[w.at] /\ first[w.at] # None
      BY <2>1, <2>3
    <3>2. InTree(w.at)
      BY <1>1, <3>1 DEF Safe, TreeOK, HeldOK, Held, Names
    <3> QED BY <1>1, <3>1, <3>2 DEF TreeOK, ListsOK
  <2>4. ASSUME w.at \in Group, next[w.at] # None
        PROVE  parent[next[w.at]] = parent[w.at]
    <3>1. CASE InTree(w.at)
      BY <1>1, <2>4, <3>1, NameAssumption DEF TreeOK, ListsOK, InTree
    <3>2. CASE Held("cfs", w.at)
      BY <1>1, <2>4, <3>2 DEF TreeOK, HeldOK, Names
    <3> QED BY <1>1, <3>1, <3>2 DEF Safe
  <2>5. w.at \in Group => parent[w.at] \in V2
    BY <1>4, NameAssumption
  <2> QED BY <2>2, <2>3, <2>4, <2>5
<1>11. ASSUME NEW f \in Linked, Limited(w, f), f \notin V2
       PROVE  on # idle /\ WillVisit("cfs", on, f)
  <2>1. WillVisit("cfs", w, f) /\ w.at # f
    BY <1>2, <1>11
  <2> QED BY <1>1, <2>1, StepVisits
<1> HIDE DEF V2
<1> QED BY <1>3, <1>8, <1>9, <1>10, <1>11

\* A step of __cfs_schedulable: a bandwidth is stored when every group with a
\* limit has been visited.
LEMMA CfsWalkQuotas ==
    ASSUME QuotasOK, CfsWalk
    PROVE  QuotaTypes' /\ QuotaChecks' /\ QuotasFit'
<1>1. PICK w : w = walk["cfs"]
  OBVIOUS
<1>2. PICK on : on = walk_on(w, w.at, IF w.up THEN None ELSE first[w.at])
  OBVIOUS
<1>3. /\ w \in Places /\ w.at # None /\ w.at \in Node /\ w.new \in Bandwidths /\ w.tg \in Group /\ TreeOK
      /\ cfs \in [Node -> Bandwidths] /\ cfs[Root][2] = Inf
      /\ hierarchal_quota \in [Node -> Nat \union {Inf}]
      /\ UNCHANGED <<mem, parent, first, next>>
  BY <1>1, BandwidthAssumption DEF CfsWalk, QuotasOK, QuotaTypes, SumsOK, RatesOK, TreeOK, TypeOK, Names, Places, Bandwidths
<1>4. Linked' = Linked /\ (\A x : InTree(x)' <=> InTree(x)) /\ \A x : Ancestors(x)' = Ancestors(x)
  BY <1>3 DEF Linked, InTree, Ancestors
<1>5. UNCHANGED cfs => QuotasFit'
  BY <1>4 DEF QuotasOK, QuotasFit
\* The limits, with the new one.
<1>6. \A g \in Node : LET b == IF g = w.tg THEN w.new ELSE cfs[g]
                      IN  /\ normalize_cfs_quota(g, w) \in Nat \union {Inf}
                          /\ b[2] # Inf => /\ normalize_cfs_quota(g, w) # Inf
                                           /\ normalize_cfs_quota(g, w) = to_ratio(b)
  BY <1>3, Normalized DEF normalize_cfs_quota
<1>7. \/ walk'["cfs"] = idle /\ UNCHANGED <<cfs, hierarchal_quota>>
      \/ /\ w.up \/ tg_cfs_schedulable_down(w.at, w)
         /\ walk'["cfs"] = on
         /\ IF on # idle THEN UNCHANGED <<cfs, readers>> ELSE cfs' = [cfs EXCEPT ![w.tg] = w.new]
  <2>1. CASE w.up \/ tg_cfs_schedulable_down(w.at, w)
    <3>1. walk' = [walk EXCEPT !["cfs"] = on] /\ (on # idle => UNCHANGED readers)
      BY <1>1, <1>2, <2>1 DEF CfsWalk, Moves
    <3>2. walk'["cfs"] = on
      BY <1>3, <3>1 DEF TreeOK, TypeOK, Names
    <3>3. cfs' = IF on = idle THEN [cfs EXCEPT ![w.tg] = w.new] ELSE cfs
      BY <1>1, <2>1, <3>2 DEF CfsWalk
    <3> QED BY <2>1, <3>1, <3>2, <3>3
  <2>2. CASE ~(w.up \/ tg_cfs_schedulable_down(w.at, w))
    <3>1. walk'["cfs"] = idle
      BY <1>1, <1>3, <2>2 DEF CfsWalk, Stops, TreeOK, TypeOK, Names
    <3>2. UNCHANGED <<cfs, hierarchal_quota>>
      BY <1>1, <2>2 DEF CfsWalk
    <3> QED BY <3>1, <3>2
  <2> QED BY <2>1, <2>2
<1>8. hierarchal_quota' \in [Node -> Nat \union {Inf}]
  <2>1. effective_quota(w.at, w) \in Nat \union {Inf}
    <3>1. CASE w.at = Root
      BY <3>1 DEF effective_quota
    <3>2. CASE w.at # Root
      <4>1. hierarchal_quota[parent[w.at]] \in Nat \union {Inf}
        BY <1>3, <3>2 DEF TreeOK, TypeOK, Node
      <4> QED BY <1>3, <1>6, <3>2, <4>1 DEF effective_quota, inherited
    <3> QED BY <3>1, <3>2
  <2> QED BY <1>1, <1>3, <2>1 DEF CfsWalk
<1>9. CASE walk'["cfs"] = idle /\ UNCHANGED <<cfs, hierarchal_quota>>
  <2>1. QuotaTypes' /\ QuotaChecks'
    BY <1>3, <1>9, Idle DEF QuotaTypes, QuotaChecks
  <2> QED BY <1>5, <1>9, <2>1
<1>10. CASE /\ w.up \/ tg_cfs_schedulable_down(w.at, w)
            /\ walk'["cfs"] = on
            /\ on # idle /\ UNCHANGED <<cfs, readers>>
  <2>1. on.tg = w.tg /\ on.new = w.new
    <3>1. PICK child : child = (IF w.up THEN None ELSE first[w.at]) /\ child \in Group \union {None}
      BY <1>3 DEF TreeOK, TypeOK
    <3> QED BY <1>2, <1>3, <1>10, <3>1, Onwards DEF TreeOK
  <2>2. QuotaTypes'
    BY <1>3, <1>8, <1>10, <2>1 DEF QuotaTypes
  <2>3. \A x : Safe("cfs", x)' <=> Safe("cfs", x)
    BY <1>3, <1>4, <1>10 DEF Safe, Held
  <2>4. PICK V \in SUBSET {x \in Node : Safe("cfs", x)} :
             /\ \A v \in V \ {Root} :
                   /\ parent[v] \in V
                   /\ hierarchal_quota'[v] = inherited(normalize_cfs_quota(v, w), hierarchal_quota'[parent[v]])
                   /\ \/ normalize_cfs_quota(v, w) = Inf \/ hierarchal_quota'[parent[v]] = Inf
                      \/ normalize_cfs_quota(v, w) <= hierarchal_quota'[parent[v]]
             /\ Root \in V => hierarchal_quota'[Root] = Inf
             /\ on # idle => IF on.up THEN on.at \in V ELSE on.at # Root => parent[on.at] \in V
             /\ \A f \in Linked : Limited(w, f) => f \in V \/ (on # idle /\ WillVisit("cfs", on, f))
    BY <1>1, <1>2, <1>10, CfsStep
  <2>5. \A v : normalize_cfs_quota(v, on)' = normalize_cfs_quota(v, w)
    BY <1>10, <2>1 DEF normalize_cfs_quota
  <2>6. Visited(V, on)'
    BY <1>3, <2>4, <2>5 DEF Visited, effective_quota, tg_cfs_schedulable_down
  <2>7. \A f : (WillVisit("cfs", on, f)' <=> WillVisit("cfs", on, f)) /\ (Limited(on, f)' <=> Limited(w, f))
    <3>1. \A D, U, f : Trap(D, U, f)' <=> Trap(D, U, f)
      BY <1>3 DEF Trap, Leaves
    <3>2. \A f : WillVisit("cfs", on, f)' <=> WillVisit("cfs", on, f)
      BY <2>3, <3>1 DEF WillVisit
    <3>3. \A f : Limited(on, f)' <=> Limited(w, f)
      BY <2>5 DEF Limited
    <3> QED BY <3>2, <3>3
  <2>8. QuotaChecks'
    BY <1>3, <1>4, <1>10, <2>3, <2>4, <2>6, <2>7 DEF QuotaChecks
  <2> QED BY <1>5, <1>10, <2>2, <2>8
<1>11. CASE /\ w.up \/ tg_cfs_schedulable_down(w.at, w)
            /\ walk'["cfs"] = idle /\ on = idle /\ cfs' = [cfs EXCEPT ![w.tg] = w.new]
  <2>1. QuotaTypes' /\ QuotaChecks'
    <3>1. cfs' \in [Node -> Bandwidths] /\ cfs'[Root] = cfs[Root]
      BY <1>3, <1>11, NameAssumption DEF Node
    <3> QED BY <1>3, <1>8, <1>11, <3>1, Idle DEF QuotaTypes, QuotaChecks
  <2>2. PICK V \in SUBSET {x \in Node : Safe("cfs", x)} :
             /\ \A v \in V \ {Root} :
                   /\ parent[v] \in V
                   /\ hierarchal_quota'[v] = inherited(normalize_cfs_quota(v, w), hierarchal_quota'[parent[v]])
                   /\ \/ normalize_cfs_quota(v, w) = Inf \/ hierarchal_quota'[parent[v]] = Inf
                      \/ normalize_cfs_quota(v, w) <= hierarchal_quota'[parent[v]]
             /\ \A f \in Linked : Limited(w, f) => f \in V
    BY <1>1, <1>2, <1>11, CfsStep
  <2>3. PICK n \in [Node -> Nat \union {Inf}] : \A v \in Node : n[v] = normalize_cfs_quota(v, w)
    <3>1. [v \in Node |-> normalize_cfs_quota(v, w)] \in [Node -> Nat \union {Inf}]
      BY <1>6
    <3> QED BY <3>1
  <2>4. PICK h \in [Node -> Nat \union {Inf}] : h = hierarchal_quota'
    BY <1>8
  <2>5. \A v \in V \ {Root} : /\ parent[v] \in V
                              /\ h[v] = IF n[v] = Inf THEN h[parent[v]] ELSE n[v]
                              /\ n[v] = Inf \/ h[parent[v]] = Inf \/ n[v] <= h[parent[v]]
    BY <2>2, <2>3, <2>4 DEF inherited
  <2>6. ASSUME NEW g \in Linked, NEW a \in Ancestors(g), cfs'[g][2] # Inf, cfs'[a][2] # Inf
        PROVE  to_ratio(cfs'[g]) <= to_ratio(cfs'[a])
    <3>1. g \in Node /\ a \in Node /\ g # Root /\ a # Root
      BY <1>3, <1>11, <2>6, NameAssumption DEF Ancestors, Linked, Node
    <3>2. /\ cfs'[g] = IF g = w.tg THEN w.new ELSE cfs[g]
          /\ cfs'[a] = IF a = w.tg THEN w.new ELSE cfs[a]
      BY <1>3, <1>11, <3>1
    <3>3. n[g] # Inf /\ n[g] = to_ratio(cfs'[g]) /\ n[a] # Inf /\ n[a] = to_ratio(cfs'[a])
      BY <1>6, <2>3, <2>6, <3>1, <3>2
    <3>4. g \in V
      BY <2>2, <2>3, <3>1, <3>3 DEF Limited
    <3>5. n[g] <= n[a]
      BY <2>5, <2>6, <3>1, <3>3, <3>4, Descends
    <3> QED BY <3>3, <3>5
  <2>7. QuotasFit'
    BY <1>4, <2>6 DEF QuotasFit, to_ratio
  <2> QED BY <2>1, <2>7
<1> QED BY <1>7, <1>9, <1>10, <1>11

\* Nothing is linked.
LEMMA InitQuotas == Init => QuotasOK
<1> SUFFICES ASSUME Init PROVE QuotasOK
  OBVIOUS
<1>1. <<1, Inf>> \in Bandwidths /\ walk["cfs"].at = None /\ Linked = {}
  BY Idle DEF Init, Bandwidths, Linked
<1>2. QuotaTypes /\ QuotaChecks /\ QuotasFit
  BY <1>1 DEF Init, QuotaTypes, QuotaChecks, QuotasFit, Node
<1> QED BY <1>2, InitSums DEF QuotasOK

\* What any step keeps.
LEMMA NextQuotas == WritersOK /\ QuotasOK /\ [Next]_vars => QuotasOK'
<1> SUFFICES ASSUME WritersOK, QuotasOK, [Next]_vars PROVE QuotasOK'
  OBVIOUS
<1>1. SumsOK'
  BY NextSums DEF QuotasOK
<1> DEFINE Rest == QuotaTypes /\ QuotaChecks /\ QuotasFit
<1> SUFFICES Rest'
  BY <1>1 DEF QuotasOK
<1>2. ASSUME NEW g \in Group, NEW up \in Node, Create(g, up)
      PROVE  Rest'
  BY <1>2, CreateQuotas
<1>3. ASSUME NEW g \in Group, Destroy(g)
      PROVE  Rest'
  BY <1>3, DestroyQuotas
<1>4. ASSUME NEW g \in Group, FreeRcu(g)
      PROVE  Rest'
  BY <1>4, FreedQuotas
<1>5. CASE CfsWalk
  BY <1>5, CfsWalkQuotas
<1>6. CASE tg_set_cfs_bandwidth
  BY <1>6, WriteQuotas
<1>7. CASE RtWalk
  <2>1. /\ walk'["cfs"] = walk["cfs"] /\ UNCHANGED <<mem, parent, first, next, cfs, hierarchal_quota>>
        /\ Ends("rt") \/ UNCHANGED readers
    BY <1>7 DEF RtWalk, Moves, Stops, QuotasOK, SumsOK, TreeOK, TypeOK, Names
  <2>2. \A x \in Group : "cfs" \in readers'[x] <=> "cfs" \in readers[x]
    BY <2>1 DEF Ends
  <2> QED BY <2>1, <2>2, QuotasUntouched
<1>8. CASE tg_set_rt_bandwidth
  <2>1. /\ walk'["cfs"] = walk["cfs"]
        /\ UNCHANGED <<mem, parent, first, next, readers, cfs, hierarchal_quota>>
    BY <1>8 DEF tg_set_rt_bandwidth, mutex_lock, tree, bandwidths, QuotasOK, SumsOK, TreeOK, TypeOK, Names
  <2> QED BY <2>1, QuotasUntouched
<1>9. CASE CheckSysctl
  <2>1. /\ walk'["cfs"] = walk["cfs"]
        /\ UNCHANGED <<mem, parent, first, next, readers, cfs, hierarchal_quota>>
    <3>1. CASE sysctl[1] > 0 /\ valid(sysctl)
      BY <1>9, <3>1 DEF CheckSysctl, tree, bandwidths, QuotasOK, SumsOK, TreeOK, TypeOK, Names
    <3>2. CASE ~(sysctl[1] > 0 /\ valid(sysctl))
      BY <1>9, <3>2 DEF CheckSysctl, tree, bandwidths
    <3> QED BY <3>1, <3>2
  <2> QED BY <2>1, QuotasUntouched
<1>10. CASE \/ \E b \in Sysctls : WriteSysctl(b)
            \/ \E b \in bounds.shares :
                  (\E g \in Node : WriteRt(g, b)) \/ (\E g \in Group : WriteCfs(g, b))
            \/ \E p \in Task : (\E g \in Node : CanAttach(p, g)) \/ SetPolicy(p)
            \/ Attach \/ UNCHANGED vars
  <2>1. UNCHANGED <<mem, parent, first, next, readers, cfs, hierarchal_quota, walk>>
    BY <1>10 DEF WriteSysctl, WriteRt, WriteCfs, waits_for_mutex, CanAttach, SetPolicy, Attach, vars, tree, bandwidths
  <2> QED BY <2>1, QuotasUntouched
<1> QED BY <1>2, <1>3, <1>4, <1>5, <1>6, <1>7, <1>8, <1>9, <1>10 DEF Next

\* A group never has more of the CPU than any group it is in, also where groups
\* without a limit lie between: hierarchal_quota, which tg_cfs_schedulable_down
\* leaves in the groups it comes through, is what the least of those above
\* allows, whatever groups are created or destroyed beside the walk.
THEOREM QuotasNested == Spec => []QuotasFit
BY InitQuotas, NextQuotas, InitWriters, NextWriters, PTL DEF Spec, QuotasOK, SumsOK

=============================================================================
