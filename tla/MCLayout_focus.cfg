SPECIFICATION Spec
VIEW EditorView
CONSTANTS
    f = f
    g = g
    d = d
    e = e
    v = v
    Files = {f, g}
    Dirs = {d, e}
    Names = {v}
    Scenes <- FocusScenes
    MaxWindows = 2
    MaxViews = 1
    MaxJumps = 1
    Usize = 3
CHECK_DEADLOCK FALSE
INVARIANTS FocusMatches LayoutInv
