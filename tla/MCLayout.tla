------------------------------ MODULE MCLayout ------------------------------
(* Layout for model checking, one scene at a time.                          *)
EXTENDS Layout

CONSTANTS f, g, d, e, v     \* two files, two directories, a virtual buffer

Scene(features, paths, lens, maxId) ==
    [features |-> features, paths |-> paths, names |-> {}, lens |-> lens, maxId |-> maxId]

FocusScenes == {Scene({}, {f}, {0, 1}, 1)}
CloseScenes == { Scene({"delete", "status_click"}, {f}, {0}, 2),
                 [Scene({"scratch", "output"}, {d}, {0}, 1) EXCEPT !.names = {v}] }

(* What the filesystem believes has no influence on the editor: a scene     *)
(* without deletions need not tell such states apart.                       *)
EditorView == <<ed, scene, IF "delete" \in scene.features THEN fsys ELSE {}>>

----------------------------------------------------------------------------
\* scenes of the runs that show what does not hold
OutputScenes      == {Scene({"output"}, {f}, {0}, 2)}
DeleteScenes      == {Scene({"delete", "output"}, {f}, {0}, 3)}
DragScenes        == {Scene({"output"}, {f}, {0}, 1)}
JumpScenes        == {Scene({"output"}, {f}, {0, 1}, 2)}
PathScenes        == {Scene({"output"}, {f, d, e}, {0}, 3)}
ShrinkScenes      == {Scene({"shrink", "output"}, {}, {0, 1}, 1)}
StaleScenes       == {Scene({"delete", "shrink", "output"}, {f, g}, {0, 1}, 4)}
StatusClickScenes == {Scene({"status_click", "output"}, {f}, {0}, 2)}
=============================================================================
