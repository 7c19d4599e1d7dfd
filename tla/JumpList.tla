------------------------------ MODULE JumpList ------------------------------
(***************************************************************************)
(* The jump list of Buffers (src/src/buffer/buffers.rs): positions to come *)
(* back to, and the index of the current one.  Its index is a usize and    *)
(* the release profile does not check for overflow, so that subtracting    *)
(* one from zero wraps around.                                             *)
(***************************************************************************)
EXTENDS Integers, Sequences, SequencesExt

CONSTANTS
    MaxJumps,   \* MAX_JUMPS, 100 in the code
    Usize       \* the number of values of a usize

ASSUME JumpListAssumption == MaxJumps \in Nat \ {0} /\ Usize \in Nat /\ Usize > MaxJumps + 1

NoJumps == [idx |-> 0, jumps |-> <<>>]

(* VecDeque::get, as a sequence of at most one jump *)
JumpAt(jl) == IF jl.idx < Len(jl.jumps) THEN <<jl.jumps[jl.idx + 1]>> ELSE <<>>

JumpPush(jl, jump) ==
    LET kept == IF jl.idx < Len(jl.jumps) THEN SubSeq(jl.jumps, 1, jl.idx) ELSE jl.jumps
        room == IF Len(kept) = MaxJumps THEN Tail(kept) ELSE kept
    IN  IF kept # <<>> /\ Last(kept) = jump
        THEN [jl EXCEPT !.jumps = kept]
        ELSE [idx |-> Len(room) + 1, jumps |-> Append(room, jump)]

JumpForward(jl) ==
    IF (jl.idx + 1) % Usize >= Len(jl.jumps) THEN [jl |-> jl, to |-> <<>>]
    ELSE LET next == [jl EXCEPT !.idx = (@ + 1) % Usize] IN [jl |-> next, to |-> JumpAt(next)]

JumpBackward(jl, here) ==
    IF jl.idx = 0 THEN [jl |-> jl, to |-> <<>>]
    ELSE LET marked == IF jl.idx # Len(jl.jumps) THEN jl
                       ELSE [JumpPush(jl, here) EXCEPT !.idx = (@ - 1) % Usize]
             prev   == [marked EXCEPT !.idx = (@ - 1) % Usize]
         IN  [jl |-> prev, to |-> JumpAt(prev)]

JumpsClearedFor(jl, id) ==
    LET kept == SelectSeq(jl.jumps, LAMBDA j : j.id # id)
    IN  [idx |-> Len(kept), jumps |-> kept]
=============================================================================
