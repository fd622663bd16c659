------------------------------ MODULE VMStack ------------------------------
(***************************************************************************)
(* The stack of the langlang virtual machine (go/vm_stack.go): the frames, *)
(* the arena that holds the captures of every frame, and the top-level     *)
(* captures.  A frame owns the slice arena[lo+1 .. hi] of the shared       *)
(* arena, so pushing a frame never allocates and discarding its captures   *)
(* is one truncation.  Everything here is a pure operator on the value of  *)
(* the Go struct `stack`; the machine that uses them is module VM.         *)
(***************************************************************************)
EXTENDS Symbols, Integers, Sequences

LeftRec == -1   \* lrResultLeftRec: no iteration has succeeded yet
FrameType == {"Backtracking", "Call", "Capture", "LRCall"}

(***************************************************************************)
(* One record for the Go struct `frame` and the lrFrameData an LRCall      *)
(* frame points to.  `result` is LeftRec in the initial state of a         *)
(* left-recursive call and the position its last successful iteration      *)
(* reached afterwards.                                                     *)
(***************************************************************************)
Frame == [t : FrameType, pc : Nat, cursor : Nat, capId : NameOrNone,
          lo : Nat, hi : Nat, predicate : BOOLEAN,
          addr : Nat, prec : Nat, result : Nat \cup {LeftRec}]

NodeID == Nat
Stack == [frames : Seq(Frame), arena : Seq(NodeID), nodes : Seq(NodeID)]

\* A field the code does not set is zero; address zero is the first one.
FirstAddress == 1
EmptyFrame == [t |-> "Call", pc |-> FirstAddress, cursor |-> 0, capId |-> NoName,
               lo |-> 0, hi |-> 0, predicate |-> FALSE,
               addr |-> 0, prec |-> 0, result |-> LeftRec]
BacktrackFrame(to, cur, pred) ==
    [EmptyFrame EXCEPT !.t = "Backtracking", !.pc = to, !.cursor = cur,
                       !.predicate = pred]
CallFrame(ret) == [EmptyFrame EXCEPT !.pc = ret]
CaptureFrame(id, cur) ==
    [EmptyFrame EXCEPT !.t = "Capture", !.capId = id, !.cursor = cur]
LRCallFrame(ret, cur, addr, prec) ==
    [EmptyFrame EXCEPT !.t = "LRCall", !.pc = ret, !.cursor = cur,
                       !.addr = addr, !.prec = prec]

EmptyStack == [frames |-> <<>>, arena |-> <<>>, nodes |-> <<>>]

Height(s) == Len(s.frames)
Top(s) == s.frames[Height(s)]
FrameNodes(s, f) == SubSeq(s.arena, f.lo + 1, f.hi)

\* Mutation: the new frame takes over no end of the arena, but its beginning.
PushAtZero(s, f) == [s EXCEPT !.frames = Append(@, f)]
Push(s, f) ==
    [s EXCEPT !.frames = Append(@, [f EXCEPT !.lo = Len(s.arena),
                                             !.hi = Len(s.arena)])]
Pop(s) == [s EXCEPT !.frames = SubSeq(@, 1, Len(@) - 1)]
\* Mutation: the captures of a discarded frame stay.
TruncateNothing(s, pos) == s
Truncate(s, pos) == [s EXCEPT !.arena = SubSeq(@, 1, pos)]

\* Overwrites the top frame.
SetTop(s, f) == [s EXCEPT !.frames = [@ EXCEPT ![Len(@)] = f]]

\* New nodes go to the end of the arena, which becomes the end of the top
\* frame's slice, or to the top-level captures when there is no frame.
Capture(s, ids) ==
    IF ids = <<>> THEN s
    ELSE IF Height(s) = 0 THEN [s EXCEPT !.nodes = @ \o ids]
    ELSE LET grown == [s EXCEPT !.arena = @ \o ids]
         IN SetTop(grown, [Top(s) EXCEPT !.hi = Len(grown.arena)])

\* Hands the captures of frame f, already off the stack s, to the new top.
GiveTo(s, f) ==
    IF f.lo = f.hi THEN s
    ELSE IF Height(s) = 0 THEN [s EXCEPT !.nodes = @ \o FrameNodes(s, f)]
    ELSE SetTop(s, [Top(s) EXCEPT !.hi = f.hi])

PopAndCapture(s) == GiveTo(Pop(s), Top(s))

\* collectCaptures, and the caller's reset of the top frame to an empty
\* slice at the end of the arena.
CollectCaptures(s) == Push(GiveTo(Pop(s), Top(s)), Top(s))

-----------------------------------------------------------------------------
(***************************************************************************)
(* The slices of the frames are ordered and disjoint, and lie in the arena:*)
(* no frame can see, extend or drop the captures of a frame below it.      *)
(***************************************************************************)
SlicesInArena(s) ==
    \A i \in 1..Height(s) : /\ s.frames[i].lo <= s.frames[i].hi
                            /\ s.frames[i].hi <= Len(s.arena)
SlicesOrdered(s) ==
    \A i, j \in 1..Height(s) : i < j => s.frames[i].hi <= s.frames[j].lo
WellNested(s) == SlicesInArena(s) /\ SlicesOrdered(s)

\* Every node the stack refers to is one of the n nodes of the tree.
RefersBelow(s, n) ==
    /\ \A i \in 1..Len(s.arena) : s.arena[i] < n
    /\ \A i \in 1..Len(s.nodes) : s.nodes[i] < n
=============================================================================
