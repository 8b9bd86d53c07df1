------------------------------- MODULE Tiling -------------------------------
(***************************************************************************)
(* gui.c and twm.c: the pool of tiles of the tiling desktop, the tree they *)
(* are linked into, the focus, and the keys that change them.  A tile      *)
(* keeps its fields when it is freed: only type says whether it is in use. *)
(* Left out: what is drawn and the rectangles (the neighbour in a          *)
(* direction is some other leaf, or none).                                 *)
(***************************************************************************)
EXTENDS Integers, Sequences, FiniteSets

CONSTANTS TILE_MAX,   \* tiles of the pool (16)
          NULL        \* the null pointer, no tile

Tile == 0..TILE_MAX-1

FREE == -1
TILE_LEAF == 0
TILE_SPLIT_H == 1
TILE_SPLIT_V == 2

VARIABLES
  type, parent, child, ratio, id,    \* the pool: a field of every tile; ratio in twentieths
  root, focused, zoomed, zoom_tile,  \* gui.c; the tile with the focus flags is focused
  next_panel_id,                     \* gui_widgets.c
  running, alt_held, redraw_pending, uart_slash,   \* twm.c
  hung                               \* a loop of the code never ends

pool  == <<type, parent, child, ratio, id>>
tree  == <<pool, root, focused, next_panel_id>>
zoom  == <<zoomed, zoom_tile>>
input == <<running, alt_held, redraw_pending, uart_slash>>
vars  == <<tree, zoom, input, hung>>

-----------------------------------------------------------------------------
(***************************************************************************)
(* The tree as the code walks it: down to the leaves, up the parents.      *)
(***************************************************************************)
Children(t) == IF t = NULL \/ type[t] = TILE_LEAF THEN {}
                                                  ELSE {child[t][0], child[t][1]} \ {NULL}

Below[n \in Nat, t \in Tile] ==        \* the tiles at most n links below t
  IF n = 0 THEN {t} ELSE {t} \cup UNION {Below[n-1, c] : c \in Children(t)}

Leaves == {t \in Below[TILE_MAX, root] : type[t] = TILE_LEAF}

node_contains(a, d) == a # NULL /\ d \in Below[TILE_MAX, a]

Above[n \in Nat, t \in Tile] ==        \* the parents met from t in n steps, in order
  IF n = 0 \/ parent[t] = NULL THEN << >> ELSE <<parent[t]>> \o Above[n-1, parent[t]]

\* The lowest free tile of the pool, or NULL.
alloc_node(ty) ==
  LET free == {i \in Tile : ty[i] = FREE}
  IN  IF free = {} THEN NULL ELSE CHOOSE i \in free : \A j \in free : i <= j

gui_widgets_next_id == IF next_panel_id >= 3 THEN 1 ELSE next_panel_id + 1

-----------------------------------------------------------------------------
(***************************************************************************)
(* The calls of gui.c.                                                     *)
(***************************************************************************)
tile_init ==
  /\ type' = [i \in Tile |-> IF i = 0 THEN TILE_LEAF ELSE FREE]
  /\ parent' = [i \in Tile |-> NULL]
  /\ child' = [i \in Tile |-> [c \in {0, 1} |-> NULL]]
  /\ ratio' = [i \in Tile |-> IF i = 0 THEN 10 ELSE 0]
  /\ id' = [i \in Tile |-> IF i = 0 THEN 1 ELSE 0]
  /\ root' = 0 /\ focused' = 0
  /\ UNCHANGED <<next_panel_id, zoom, hung>>

\* Both tiles come from alloc_node, which leaves the tile it returns free:
\* type is written after the second call.
tile_split(dir) ==
  LET split   == alloc_node(type)
      sibling == alloc_node(type)
      p       == parent[focused]
      pair    == [c \in {0, 1} |-> IF c = 0 THEN focused ELSE sibling]
      typed   == [type EXCEPT ![split] = IF dir = 0 THEN TILE_SPLIT_H ELSE TILE_SPLIT_V]
      linked  == [child EXCEPT ![split] = pair]
  IN  IF Cardinality(Leaves) >= TILE_MAX - 1 \/ split = NULL
      THEN UNCHANGED <<tree, zoom, hung>>
      ELSE /\ type' = [typed EXCEPT ![sibling] = TILE_LEAF]
           /\ ratio' = [ratio EXCEPT ![split] = 10, ![sibling] = 10]
           /\ parent' = [parent EXCEPT ![split] = p, ![sibling] = split, ![focused] = split]
           /\ child' = IF p = NULL THEN linked
                       ELSE [linked EXCEPT ![p][IF linked[p][0] = focused THEN 0 ELSE 1] = split]
           /\ root' = IF p = NULL THEN split ELSE root
           /\ id' = [id EXCEPT ![sibling] = next_panel_id]
           /\ next_panel_id' = gui_widgets_next_id
           /\ focused' = sibling
           /\ UNCHANGED <<zoom, hung>>

tile_close ==
  LET p       == parent[focused]
      sibling == child[p][IF child[p][0] = focused THEN 1 ELSE 0]
      gp      == parent[p]
  IN  IF Cardinality(Leaves) <= 1
      THEN UNCHANGED <<tree, zoom, hung>>
      ELSE /\ parent' = [parent EXCEPT ![sibling] = gp]
           /\ child' = IF gp = NULL THEN child
                       ELSE [child EXCEPT ![gp][IF child[gp][0] = p THEN 0 ELSE 1] = sibling]
           /\ root' = IF gp = NULL THEN sibling ELSE root
           /\ type' = [type EXCEPT ![focused] = FREE, ![p] = FREE]
           /\ focused' = sibling
           /\ UNCHANGED <<ratio, id, next_panel_id, zoom, hung>>

\* find_neighbor: a leaf beside the focused one, or none.
tile_focus_dir ==
  /\ focused' \in {focused} \cup (Leaves \ {focused})
  /\ UNCHANGED <<pool, root, next_panel_id, zoom, hung>>

\* The leaves are visited in turn; an order of theirs is not kept.
tile_focus_cycle ==
  /\ IF Cardinality(Leaves) <= 1 THEN UNCHANGED focused ELSE focused' \in Leaves \ {focused}
  /\ UNCHANGED <<pool, root, next_panel_id, zoom, hung>>

tile_toggle_fullscreen ==
  /\ zoomed' = ~zoomed
  /\ zoom_tile' = IF zoomed THEN NULL ELSE focused
  /\ UNCHANGED <<tree, hung>>

\* The walk to the root ends at the first split of the axis, or at a null
\* parent; among TILE_MAX + 1 tiles in a row one comes twice, and it never ends.
tile_resize(axis, sign) ==
  LET up     == Above[TILE_MAX + 1, focused]
      target == {i \in DOMAIN up : type[up[i]] = IF axis = 0 THEN TILE_SPLIT_H ELSE TILE_SPLIT_V}
      node   == up[CHOOSE i \in target : \A j \in target : i <= j]
      step   == IF node_contains(child[node][0], focused) THEN sign ELSE -sign
      clamp(r) == IF r < 2 THEN 2 ELSE IF r > 18 THEN 18 ELSE r
  IN  /\ ratio' = IF target = {} THEN ratio ELSE [ratio EXCEPT ![node] = clamp(@ + step)]
      /\ hung' = (target = {} /\ Len(up) = TILE_MAX + 1)
      /\ UNCHANGED <<type, parent, child, id, root, focused, next_panel_id, zoom>>

-----------------------------------------------------------------------------
(***************************************************************************)
(* twm.c.  A command of the desktop and the call it makes; Alt+Return is h *)
(* or v by the longer side.  The constants 1 and 2 are passed where        *)
(* tile_split tells 0 from the rest.  The SDL build reports Alt and Shift; *)
(* the UART has the commands after a slash instead.                        *)
(***************************************************************************)
Command(c) ==
  \/ c = "h" /\ tile_split(TILE_SPLIT_H)
  \/ c = "v" /\ tile_split(TILE_SPLIT_V)
  \/ c = "w" /\ tile_close
  \/ c = "f" /\ tile_toggle_fullscreen
  \/ c = "focus" /\ tile_focus_dir
  \/ c = "resize" /\ \E axis \in {0, 1}, sign \in {-1, 1} : tile_resize(axis, sign)

\* tiling_init: the statics of gui.c and gui_widgets.c that tile_init does not
\* write keep their values.
tiling_init ==
  /\ ~running /\ ~hung
  /\ tile_init
  /\ running' = TRUE /\ alt_held' = FALSE /\ redraw_pending' = FALSE /\ uart_slash' = FALSE

Runs == running /\ ~hung

\* process_key: Alt itself, a command with Alt held, Tab, Esc.
alt_key ==
  /\ Runs
  /\ alt_held' \in BOOLEAN
  /\ UNCHANGED <<tree, zoom, running, redraw_pending, uart_slash, hung>>

process_key ==
  /\ Runs
  /\ \/ alt_held /\ \E c \in {"h", "v", "w", "f", "focus", "resize"} : Command(c)
     \/ tile_focus_cycle
  /\ redraw_pending' = TRUE
  /\ UNCHANGED <<running, alt_held, uart_slash>>

\* tiling_input: the slash, the command after it (or any other key), Tab.
slash ==
  /\ Runs /\ ~uart_slash
  /\ uart_slash' = TRUE
  /\ UNCHANGED <<tree, zoom, running, alt_held, redraw_pending, hung>>

slash_command ==
  /\ Runs /\ uart_slash
  /\ \/ \E c \in {"h", "v", "w", "f", "focus", "resize"} : Command(c)
     \/ UNCHANGED <<tree, zoom, hung>>
  /\ uart_slash' = FALSE /\ redraw_pending' = TRUE
  /\ UNCHANGED <<running, alt_held>>

tab ==
  /\ Runs /\ ~uart_slash
  /\ tile_focus_cycle
  /\ redraw_pending' = TRUE
  /\ UNCHANGED <<running, alt_held, uart_slash>>

\* Esc or F10, and tiling_finish.  ESC from the keyboard needs Alt released.
quit ==
  /\ Runs
  /\ running' = FALSE
  /\ UNCHANGED <<tree, zoom, alt_held, redraw_pending, uart_slash, hung>>

tiling_update ==
  /\ Runs /\ redraw_pending
  /\ redraw_pending' = FALSE
  /\ UNCHANGED <<tree, zoom, running, alt_held, uart_slash, hung>>

Init ==
  /\ type = [i \in Tile |-> 0] /\ parent = [i \in Tile |-> NULL]
  /\ child = [i \in Tile |-> [c \in {0, 1} |-> NULL]]
  /\ ratio = [i \in Tile |-> 0] /\ id = [i \in Tile |-> 0]
  /\ root = NULL /\ focused = NULL /\ zoomed = FALSE /\ zoom_tile = NULL
  /\ next_panel_id = 1
  /\ running = FALSE /\ alt_held = FALSE /\ redraw_pending = FALSE /\ uart_slash = FALSE
  /\ hung = FALSE

Next == \/ tiling_init \/ alt_key \/ process_key \/ slash \/ slash_command \/ tab \/ quit
        \/ tiling_update

Spec == Init /\ [][Next]_vars

-----------------------------------------------------------------------------
InUse == {t \in Tile : type[t] # FREE}

\* "Binary tree of containers: SPLIT_H, SPLIT_V, or LEAF" (gui.h:3) and "Binary
\* tree of tile nodes" (gui.c:3): every tile in use hangs from the root, the
\* children of a split name it as their parent, the root has none, and the
\* focus is on a leaf.
IsBinaryTree ==
  running =>
    /\ parent[root] = NULL
    /\ InUse = Below[TILE_MAX, root]
    /\ focused \in Leaves
    /\ \A s \in InUse : type[s] # TILE_LEAF =>
         /\ child[s][0] # child[s][1]
         /\ \A c \in {0, 1} : child[s][c] \in InUse /\ parent[child[s][c]] = s
=============================================================================
