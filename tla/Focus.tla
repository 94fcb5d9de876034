------------------------------- MODULE Focus --------------------------------
(***************************************************************************)
(* The tree walks of crates/core/src/focus.rs over the process table.      *)
(***************************************************************************)
EXTENDS ProcessTable

CONSTANT SessionRoots   \* SESSION_ROOTS: commands of compositors, sessions, init

IsSessionRoot(t, p) == p \in Tracked(t) /\ t.entries[p].info.comm \in SessionRoots

(* find_app_root stops at p: the table does not know p, its parent is a     *)
(* boundary (pid 0 or 1, itself, unknown, a session root) or sits in the    *)
(* rt tier.                                                                 *)
TopOfApp(t, p) ==
  \/ p \notin Tracked(t)
  \/ LET up == t.entries[p].info.ppid IN
       \/ up \in {0, 1, p}
       \/ up \notin Tracked(t)
       \/ IsSessionRoot(t, up)
       \/ t.entries[up].info.path = "rt"

(* The walk of find_app_root from hint: the node the loop is at after k     *)
(* turns, staying where it stops.  The loop ends if one of the nodes is a   *)
(* stop, which it reaches within as many turns as there are processes or    *)
(* never.                                                                   *)
Walk(t, hint) ==
  LET at[k \in 0..Cardinality(Pid)] ==
        IF k = 0 THEN hint
        ELSE LET p == at[k - 1] IN
             IF IsSessionRoot(t, p) \/ TopOfApp(t, p) THEN p
                                                     ELSE t.entries[p].info.ppid
  IN  at[Cardinality(Pid)]

WalkEnds(t, hint) ==
  LET last == Walk(t, hint) IN IsSessionRoot(t, last) \/ TopOfApp(t, last)

(* set_foreground falls back on the hint when the walk ends on a session    *)
(* root.                                                                    *)
AppRoot(t, hint) ==
  LET last == Walk(t, hint) IN IF IsSessionRoot(t, last) THEN hint ELSE last

(* collect_tree: everything the edges reach from root.                      *)
CollectTree(t, root) ==
  LET reach[k \in 0..Cardinality(Pid)] ==
        IF k = 0 THEN {root}
        ELSE reach[k - 1] \cup UNION {t.children[p] : p \in reach[k - 1]}
  IN  reach[Cardinality(Pid)]

(* The processes set_foreground boosts for this hint.                       *)
Boosted(t, hint) ==
  {p \in Tracked(t) : p \in CollectTree(t, AppRoot(t, hint)) /\ ~IsSessionRoot(t, p)}

(* A bug to detect: the loop over the levels makes one turn too few.        *)
CollectOneLess(t, root, depth) ==
  LET reach[k \in 0..depth] ==
        IF k \in {0, 1} THEN {root}
        ELSE reach[k - 1] \cup UNION {t.children[p] : p \in reach[k - 1]}
  IN  reach[depth]

(* forkbomb.rs collect_subtree: the edges again, at most depth levels down. *)
CollectSubtree(t, root, depth) ==
  LET reach[k \in 0..depth] ==
        IF k = 0 THEN {root}
        ELSE reach[k - 1] \cup UNION {t.children[p] : p \in reach[k - 1]}
  IN  reach[depth]
=============================================================================
