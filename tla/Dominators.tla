----------------------------- MODULE Dominators ------------------------------
(***************************************************************************)
(* DominatorTree::build of ir/mem2reg/dominator_tree.rs: the algorithm of  *)
(* Lengauer and Tarjan with path compression.  Vertices are handled in     *)
(* decreasing depth-first number; a step is one iteration of that loop.    *)
(* DFS numbers start at 1 here and 0 stands for SENTINEL.                  *)
(***************************************************************************)
EXTENDS Cfg

VARIABLES
  cfg,     \* successor lists of the function's blocks
  dfs,     \* DfsResult: vertex, parent, dfnum
  forest,  \* UnionFind: semi, label and ancestor of each DFS number
  bucket,  \* vertices with a given semidominator, until its children are done
  dom,     \* dom_dfs
  d,       \* the next vertex, 0 once the loop is over
  idom     \* immediate dominator of each block, <<>> until it is known

tree == <<dfs, forest, bucket, dom, d, idom>>

-----------------------------------------------------------------------------
(* dfs_from_entry.  A step descends to the first successor not visited yet *)
(* or leaves the block on top of the stack, which is kept by its number.   *)
Descend(s) ==
  LET succs == cfg[s.vertex[Last(s.stack)]]
      fresh == {k \in DOMAIN succs : succs[k] \notin Range(s.vertex)}
      first == CHOOSE k \in fresh : \A j \in fresh : k <= j
  IN  IF fresh = {} THEN [s EXCEPT !.stack = Front(@)]
      ELSE [vertex |-> Append(s.vertex, succs[first]),
            parent |-> Append(s.parent, Last(s.stack)),
            stack |-> Append(s.stack, Len(s.vertex) + 1)]

Search ==
  LET after[k \in 0..(2 * Len(cfg))] ==
        IF k = 0 THEN [vertex |-> <<1>>, parent |-> <<0>>, stack |-> <<1>>]
        ELSE LET s == after[k - 1] IN IF s.stack = <<>> THEN s ELSE Descend(s)
  IN  after[2 * Len(cfg)]

Numbering ==
  LET end == Search IN
  [vertex |-> end.vertex, parent |-> end.parent,
   dfnum |-> [b \in DOMAIN cfg |->
                IF b \in Range(end.vertex)
                THEN CHOOSE i \in DOMAIN end.vertex : end.vertex[i] = b ELSE 0]]

(* UnionFind::eval: the path from v to below its root is compressed, from  *)
(* the root's side, each label becoming the one of least semidominator.    *)
ShortcutOnly(f, w) ==  \* mutant: the label of the ancestor is not taken over
  [f EXCEPT !.ancestor[w] = f.ancestor[@]]
Shortcut(f, w) ==
  LET a == f.ancestor[w] IN
  [f EXCEPT !.ancestor[w] = f.ancestor[a],
            !.label[w] = IF f.semi[f.label[a]] < f.semi[@] THEN f.label[a] ELSE @]

IsRoot(f, w) == f.ancestor[w] = 0

Path(f, v) ==
  LET up[k \in 0..v] ==
        IF k = 0 THEN v
        ELSE LET u == up[k - 1] IN IF IsRoot(f, u) THEN u ELSE f.ancestor[u]
  IN  up

Compress(f, v) ==
  LET path == Path(f, v)
      after[k \in 0..v] ==
        IF k = 0 THEN f
        ELSE LET g == after[k - 1]
                 w == path[v - k]
             IN  IF IsRoot(g, w) \/ IsRoot(g, g.ancestor[w]) THEN g ELSE Shortcut(g, w)
  IN  after[v]

\* UnionFind::link: p becomes the ancestor of w.
Link(f, p, w) == [f EXCEPT !.ancestor[w] = p]

\* The semidominator of n, from the predecessors that were reached.
Lower(f, n, p) ==
  LET g == Compress(f, p)
      s == g.semi[g.label[p]]
  IN  [g EXCEPT !.semi[n] = IF s < @ THEN s ELSE @]

Semidominator(n) ==
  LET after[b \in 0..Len(cfg)] ==
        IF b = 0 THEN forest
        ELSE IF b \in Preds(cfg, dfs.vertex[n]) /\ dfs.dfnum[b] # 0
             THEN Lower(after[b - 1], n, dfs.dfnum[b])
             ELSE after[b - 1]
  IN  after[Len(cfg)]

\* Every vertex of a bucket is evaluated, the last one numbered first.
Evaluated(f, vs) ==
  LET count == Len(dfs.vertex)
      after[k \in 0..count] ==
        IF k = 0 THEN f
        ELSE IF count + 1 - k \in vs THEN Compress(after[k - 1], count + 1 - k)
             ELSE after[k - 1]
  IN  after[count]

Fill == [b \in DOMAIN cfg |-> 0]

TreeInit ==
  /\ dfs = <<>> /\ forest = <<>> /\ bucket = <<>> /\ dom = <<>> /\ d = 0
  /\ idom = <<>>

\* An entry with no successor is its own dominator and there is nothing to do.
Number ==
  /\ dfs = <<>>
  /\ dfs' = Numbering
  /\ LET count == Len(dfs'.vertex) IN
     /\ forest' = [semi |-> [i \in 1..count |-> i], label |-> [i \in 1..count |-> i],
                   ancestor |-> [i \in 1..count |-> 0]]
     /\ bucket' = [i \in 1..count |-> {}]
     /\ dom' = [i \in 1..count |-> 0]
     /\ IF count = 1 THEN d' = 0 /\ idom' = [Fill EXCEPT ![1] = 1]
                     ELSE d' = count /\ UNCHANGED idom
  /\ UNCHANGED cfg

\* One vertex: its semidominator, its link, and the bucket of its parent.
Vertex ==
  /\ d > 1
  /\ LET p == dfs.parent[d]
         linked == Link(Semidominator(d), p, d)
         filled == [bucket EXCEPT ![linked.semi[d]] = @ \cup {d}]
         done == Evaluated(linked, filled[p])
     IN  /\ forest' = done
         /\ bucket' = [filled EXCEPT ![p] = {}]
         /\ dom' = [v \in DOMAIN dom |->
                      IF v \notin filled[p] THEN dom[v]
                      ELSE IF done.semi[done.label[v]] < done.semi[v]
                           THEN done.label[v] ELSE p]
  /\ d' = d - 1
  /\ UNCHANGED <<cfg, dfs, idom>>

\* In increasing number, a vertex whose dominator was left implicit takes
\* the one of the vertex noted for it; then numbers become blocks.
Explicit ==
  /\ d = 1
  /\ LET after[v \in 0..Len(dfs.vertex)] ==
           IF v = 0 THEN [dom EXCEPT ![1] = 1]
           ELSE LET sofar == after[v - 1]
                IN  IF sofar[v] # forest.semi[v]
                    THEN [sofar EXCEPT ![v] = sofar[sofar[v]]] ELSE sofar
         final == after[Len(dfs.vertex)]
     IN  /\ dom' = final
         /\ idom' = [b \in DOMAIN cfg |->
                       IF dfs.dfnum[b] = 0 THEN 0
                       ELSE dfs.vertex[final[dfs.dfnum[b]]]]
  /\ d' = 0
  /\ UNCHANGED <<cfg, dfs, forest, bucket>>

TreeNext == Number \/ Vertex \/ Explicit

-----------------------------------------------------------------------------
(* finalize and idom: the tree's children, and the parent of a block, 0    *)
(* for the entry and for blocks never reached.                             *)
Children(b) == {c \in DOMAIN cfg : idom[c] = b /\ c # b}
Idom(b) == IF idom[b] = b THEN 0 ELSE idom[b]

(* dominance_frontier.rs: from each predecessor of a join, up the tree to  *)
(* the join's immediate dominator, which is left out.                      *)
Chain(b, stop) ==
  LET up[k \in 0..Len(cfg)] ==
        IF k = 0 THEN b
        ELSE IF up[k - 1] \in {0, stop} THEN 0 ELSE Idom(up[k - 1])
  IN  {up[k] : k \in DOMAIN up} \ {0, stop}

Frontier ==
  LET joins == {b \in DOMAIN cfg : Cardinality(Preds(cfg, b)) >= 2} IN
  [a \in DOMAIN cfg |->
     {b \in joins : \E p \in Preds(cfg, b) : a \in Chain(p, Idom(b))}]

IteratedFrontier(frontier, defBlocks) ==
  LET grow[k \in 0..Len(cfg)] ==
        IF k = 0 THEN {}
        ELSE grow[k - 1] \cup UNION {frontier[b] : b \in defBlocks \cup grow[k - 1]}
  IN  grow[Len(cfg)]
=============================================================================
