------------------------------ MODULE VMProofs ------------------------------
(***************************************************************************)
(* The invariants of the machine (module VM) hold for every set of         *)
(* programs, inputs and numbers of matches.                                *)
(***************************************************************************)
EXTENDS VM, TLAPS

(***************************************************************************)
(* A stack as the machine keeps it: well nested, with references to the    *)
(* first n nodes of the tree and positions of an input of length m.        *)
(***************************************************************************)
FrameWithin(f, m) == f.cursor <= m /\ f.result <= m
GoodStack(s, n, m) ==
    /\ s \in Stack
    /\ WellNested(s)
    /\ RefersBelow(s, n)
    /\ \A i \in 1..Height(s) : FrameWithin(s.frames[i], m)

LEMMA FrameFields ==
    ASSUME NEW f \in Frame
    PROVE  /\ f.t \in FrameType /\ f.pc \in Nat /\ f.cursor \in Nat
           /\ f.capId \in NameOrNone /\ f.lo \in Nat /\ f.hi \in Nat
           /\ f.predicate \in BOOLEAN /\ f.addr \in Nat /\ f.prec \in Nat
           /\ f.result \in Nat \cup {LeftRec}
BY DEF Frame

\* The frames the machine makes are frames, with a cursor where it is given.
LEMMA EmptyFrameOK ==
    EmptyFrame \in Frame /\ EmptyFrame.cursor = 0 /\ EmptyFrame.result = LeftRec
BY DEF EmptyFrame, Frame, FrameType, LeftRec, FirstAddress, NameOrNone
LEMMA BacktrackFrameOK ==
    ASSUME NEW to \in Nat, NEW cur \in Nat, NEW pred \in BOOLEAN, NEW m \in Nat, cur <= m
    PROVE  BacktrackFrame(to, cur, pred) \in Frame /\ FrameWithin(BacktrackFrame(to, cur, pred), m)
<1>1. BacktrackFrame(to, cur, pred) \in Frame
  BY EmptyFrameOK DEF BacktrackFrame, Frame, FrameType
<1>2. FrameWithin(BacktrackFrame(to, cur, pred), m)
  BY EmptyFrameOK DEF BacktrackFrame, Frame, FrameWithin, LeftRec
<1> QED BY <1>1, <1>2
LEMMA CallFrameOK ==
    ASSUME NEW ret \in Nat, NEW m \in Nat
    PROVE  CallFrame(ret) \in Frame /\ FrameWithin(CallFrame(ret), m)
BY EmptyFrameOK DEF CallFrame, Frame, FrameWithin, FrameType, LeftRec
LEMMA CaptureFrameOK ==
    ASSUME NEW id \in NameOrNone, NEW cur \in Nat, NEW m \in Nat, cur <= m
    PROVE  CaptureFrame(id, cur) \in Frame /\ FrameWithin(CaptureFrame(id, cur), m)
<1>1. CaptureFrame(id, cur) \in Frame
  BY EmptyFrameOK DEF CaptureFrame, Frame, FrameType
<1>2. FrameWithin(CaptureFrame(id, cur), m)
  BY EmptyFrameOK DEF CaptureFrame, Frame, FrameWithin, LeftRec
<1> QED BY <1>1, <1>2
LEMMA LRCallFrameOK ==
    ASSUME NEW ret \in Nat, NEW cur \in Nat, NEW addr \in Nat, NEW prec \in Nat,
           NEW m \in Nat, cur <= m
    PROVE  LRCallFrame(ret, cur, addr, prec) \in Frame
           /\ FrameWithin(LRCallFrame(ret, cur, addr, prec), m)
<1>1. LRCallFrame(ret, cur, addr, prec) \in Frame
  BY EmptyFrameOK DEF LRCallFrame, Frame, FrameType
<1>2. FrameWithin(LRCallFrame(ret, cur, addr, prec), m)
  BY EmptyFrameOK DEF LRCallFrame, Frame, FrameWithin, LeftRec
<1> QED BY <1>1, <1>2

\* Changes of one field of a frame, of the kinds the machine makes.
LEMMA WithHi ==
    ASSUME NEW f \in Frame, NEW x \in Nat, NEW g, g = [f EXCEPT !.hi = x]
    PROVE  /\ g \in Frame /\ g.hi = x /\ g.lo = f.lo /\ g.cursor = f.cursor
           /\ g.result = f.result
BY DEF Frame
LEMMA WithCursor ==
    ASSUME NEW f \in Frame, NEW x \in Nat, NEW g, g = [f EXCEPT !.cursor = x]
    PROVE  /\ g \in Frame /\ g.cursor = x /\ g.lo = f.lo /\ g.hi = f.hi
           /\ g.result = f.result
BY DEF Frame
LEMMA WithResult ==
    ASSUME NEW f \in Frame, NEW x \in Nat, NEW g, g = [f EXCEPT !.result = x]
    PROVE  /\ g \in Frame /\ g.result = x /\ g.lo = f.lo /\ g.hi = f.hi
           /\ g.cursor = f.cursor
BY DEF Frame

\* Sequences of nodes below n, put together and cut.
LEMMA ConcatBelow ==
    ASSUME NEW n \in Nat, NEW a \in Seq(Nat), NEW b \in Seq(Nat),
           \A i \in 1..Len(a) : a[i] < n, \A i \in 1..Len(b) : b[i] < n
    PROVE  /\ a \o b \in Seq(Nat) /\ Len(a \o b) = Len(a) + Len(b)
           /\ \A i \in 1..Len(a \o b) : (a \o b)[i] < n
<1>1. a \o b \in Seq(Nat) /\ Len(a \o b) = Len(a) + Len(b) /\ Len(a) \in Nat /\ Len(b) \in Nat
  OBVIOUS
<1>2. ASSUME NEW i \in 1..Len(a) + Len(b) PROVE (a \o b)[i] < n
  <2>1. CASE i <= Len(a)
    <3>1. (a \o b)[i] = a[i] /\ i \in 1..Len(a)
      BY <1>1, <2>1
    <3> QED BY <3>1
  <2>2. CASE ~(i <= Len(a))
    <3>1. (a \o b)[i] = b[i - Len(a)] /\ i - Len(a) \in 1..Len(b)
      BY <1>1, <2>2
    <3> QED BY <3>1
  <2> QED BY <2>1, <2>2
<1> QED BY <1>1, <1>2
LEMMA SliceBelow ==
    ASSUME NEW n \in Nat, NEW a \in Seq(Nat), \A i \in 1..Len(a) : a[i] < n,
           NEW lo \in Nat, NEW hi \in Nat, lo <= hi, hi <= Len(a)
    PROVE  /\ SubSeq(a, lo + 1, hi) \in Seq(Nat)
           /\ \A i \in 1..Len(SubSeq(a, lo + 1, hi)) : SubSeq(a, lo + 1, hi)[i] < n
<1>1. Len(SubSeq(a, lo + 1, hi)) = hi - lo /\ Len(a) \in Nat
  OBVIOUS
<1>2. SubSeq(a, lo + 1, hi) \in Seq(Nat)
  BY <1>1
<1>3. ASSUME NEW i \in 1..hi - lo PROVE SubSeq(a, lo + 1, hi)[i] < n
  <2>1. lo + i \in 1..Len(a)
    BY <1>1
  <2>2. SubSeq(a, lo + 1, hi)[i] = a[lo + i]
    BY <1>1
  <2> QED BY <2>1, <2>2
<1> QED BY <1>1, <1>2, <1>3

\* Replacing one field of a stack.
LEMMA StackFields ==
    ASSUME NEW s \in Stack
    PROVE  /\ s.frames \in Seq(Frame) /\ s.arena \in Seq(NodeID) /\ s.nodes \in Seq(NodeID)
           /\ Len(s.frames) \in Nat /\ Len(s.arena) \in Nat /\ Len(s.nodes) \in Nat
           /\ \A i \in 1..Len(s.frames) : s.frames[i] \in Frame
           /\ \A i \in 1..Len(s.arena) : s.arena[i] \in Nat
           /\ \A i \in 1..Len(s.nodes) : s.nodes[i] \in Nat
BY DEF Stack, NodeID
LEMMA WithFrames ==
    ASSUME NEW s \in Stack, NEW x \in Seq(Frame), NEW p, p = [s EXCEPT !.frames = x]
    PROVE  /\ p \in Stack
           /\ p.frames = x /\ p.arena = s.arena /\ p.nodes = s.nodes
BY DEF Stack
LEMMA WithArena ==
    ASSUME NEW s \in Stack, NEW x \in Seq(NodeID), NEW p, p = [s EXCEPT !.arena = x]
    PROVE  /\ p \in Stack
           /\ p.arena = x /\ p.frames = s.frames /\ p.nodes = s.nodes
BY DEF Stack
LEMMA WithNodes ==
    ASSUME NEW s \in Stack, NEW x \in Seq(NodeID), NEW p, p = [s EXCEPT !.nodes = x]
    PROVE  /\ p \in Stack
           /\ p.nodes = x /\ p.frames = s.frames /\ p.arena = s.arena
BY DEF Stack

LEMMA EmptyStackGood ==
    ASSUME NEW n \in Nat, NEW m \in Nat
    PROVE  GoodStack(EmptyStack, n, m)
BY DEF GoodStack, EmptyStack, Stack, WellNested, SlicesInArena, SlicesOrdered, RefersBelow,
       Height, NodeID

LEMMA GoodStackGrows ==
    ASSUME NEW s, NEW n \in Nat, NEW k \in Nat, NEW m \in Nat, n <= k, GoodStack(s, n, m)
    PROVE  GoodStack(s, k, m)
BY DEF GoodStack, Stack, RefersBelow, NodeID

LEMMA PushGood ==
    ASSUME NEW n \in Nat, NEW m \in Nat, NEW s, GoodStack(s, n, m),
           NEW f \in Frame, FrameWithin(f, m)
    PROVE  GoodStack(Push(s, f), n, m)
<1> DEFINE g == [f EXCEPT !.lo = Len(s.arena), !.hi = Len(s.arena)]
           p == Push(s, f)
<1>1. s \in Stack /\ s.frames \in Seq(Frame) /\ s.arena \in Seq(NodeID) /\ Len(s.arena) \in Nat
  BY DEF GoodStack, Stack
<1>2. g \in Frame /\ g.lo = Len(s.arena) /\ g.hi = Len(s.arena) /\ FrameWithin(g, m)
  BY <1>1 DEF Frame, FrameWithin
<1>3. /\ p.frames = Append(s.frames, g) /\ p.arena = s.arena /\ p.nodes = s.nodes
      /\ p \in Stack
  <2>1. Append(s.frames, g) \in Seq(Frame)
    BY <1>1, <1>2
  <2>2. p = [s EXCEPT !.frames = Append(s.frames, g)]
    BY DEF Push
  <2> DEFINE longer == Append(s.frames, g)
  <2>3. longer \in Seq(Frame) /\ p = [s EXCEPT !.frames = longer]
    BY <2>1, <2>2
  <2> HIDE DEF g, p, longer
  <2>4. p.frames = longer /\ p.arena = s.arena /\ p.nodes = s.nodes /\ p \in Stack
    BY <1>1, <2>3, WithFrames
  <2> QED BY <2>4 DEF longer
<1>4. /\ Len(p.frames) = Len(s.frames) + 1
      /\ p.frames[Len(s.frames) + 1] = g
      /\ \A i \in 1..Len(s.frames) : p.frames[i] = s.frames[i]
  BY <1>1, <1>2, <1>3
<1>5. \A i \in 1..Height(p) : i \in 1..Height(s) \/ i = Len(s.frames) + 1
  BY <1>1, <1>4 DEF Height
<1>6. \A i \in 1..Height(s) : s.frames[i] \in Frame
  BY <1>1 DEF Height
<1>7. WellNested(p)
  <2>1. SlicesInArena(p)
    BY <1>1, <1>2, <1>3, <1>4, <1>5, <1>6, FrameFields
    DEF GoodStack, WellNested, SlicesInArena, Height
  <2>2. SlicesOrdered(p)
    BY <1>1, <1>2, <1>3, <1>4, <1>5, <1>6, FrameFields
    DEF GoodStack, WellNested, SlicesInArena, SlicesOrdered, Height
  <2> QED BY <2>1, <2>2 DEF WellNested
<1>8. RefersBelow(p, n)
  BY <1>3 DEF GoodStack, RefersBelow
<1>9. \A i \in 1..Height(p) : FrameWithin(p.frames[i], m)
  BY <1>2, <1>4, <1>5 DEF GoodStack, Height
<1> QED BY <1>3, <1>7, <1>8, <1>9 DEF GoodStack

\* Pop, and what is known of the popped frame.
LEMMA PopGood ==
    ASSUME NEW n \in Nat, NEW m \in Nat, NEW s, GoodStack(s, n, m), s.frames # <<>>
    PROVE  /\ GoodStack(Pop(s), n, m)
           /\ Top(s) \in Frame /\ FrameWithin(Top(s), m)
           /\ Top(s).lo <= Top(s).hi /\ Top(s).hi <= Len(s.arena)
           /\ Pop(s).arena = s.arena /\ Pop(s).nodes = s.nodes
           /\ Height(s) \in Nat \ {0} /\ Height(Pop(s)) = Height(s) - 1
           /\ \A i \in 1..Height(Pop(s)) : Pop(s).frames[i] = s.frames[i]
           /\ \A i \in 1..Height(Pop(s)) : Pop(s).frames[i].hi <= Top(s).lo
<1> DEFINE p == Pop(s)
<1>1. /\ s \in Stack /\ s.frames \in Seq(Frame) /\ s.arena \in Seq(NodeID)
      /\ Len(s.frames) \in Nat \ {0}
  BY DEF GoodStack, Stack
<1>2. /\ p.frames = SubSeq(s.frames, 1, Len(s.frames) - 1)
      /\ p.arena = s.arena /\ p.nodes = s.nodes /\ p \in Stack
  <2> DEFINE rest == SubSeq(s.frames, 1, Len(s.frames) - 1)
  <2>1. rest \in Seq(Frame)
    BY <1>1
  <2>2. p = [s EXCEPT !.frames = rest]
    BY DEF Pop
  <2> HIDE DEF p, rest
  <2>3. p.frames = rest /\ p.arena = s.arena /\ p.nodes = s.nodes /\ p \in Stack
    BY <1>1, <2>1, <2>2, WithFrames
  <2> QED BY <2>3 DEF rest
<1>3. /\ Len(p.frames) = Len(s.frames) - 1
      /\ \A i \in 1..Len(s.frames) - 1 : p.frames[i] = s.frames[i]
  BY <1>1, <1>2
<1>4. Top(s) \in Frame /\ FrameWithin(Top(s), m) /\ Top(s).lo <= Top(s).hi
      /\ Top(s).hi <= Len(s.arena)
  BY <1>1 DEF Top, Height, GoodStack, WellNested, SlicesInArena
<1>5. \A i \in 1..Height(p) : p.frames[i].hi <= Top(s).lo
  <2> SUFFICES ASSUME NEW i \in 1..Height(p)
               PROVE  p.frames[i].hi <= Top(s).lo
    OBVIOUS
  <2>1. i \in 1..Height(s) /\ Height(s) \in 1..Height(s) /\ i < Height(s)
    BY <1>1, <1>3 DEF Height
  <2>2. s.frames[i].hi <= s.frames[Height(s)].lo
    BY <2>1 DEF GoodStack, WellNested, SlicesOrdered
  <2> QED BY <1>1, <1>3, <2>1, <2>2 DEF Top, Height
<1>6. GoodStack(p, n, m)
  BY <1>1, <1>2, <1>3
  DEF GoodStack, WellNested, SlicesInArena, SlicesOrdered, RefersBelow, Height
<1> QED BY <1>1, <1>2, <1>3, <1>4, <1>5, <1>6 DEF Height

\* Dropping the end of the arena is safe where no frame's slice reaches.
LEMMA TruncateGood ==
    ASSUME NEW n \in Nat, NEW m \in Nat, NEW s, GoodStack(s, n, m),
           NEW pos \in Nat, pos <= Len(s.arena),
           \A i \in 1..Height(s) : s.frames[i].hi <= pos
    PROVE  GoodStack(Truncate(s, pos), n, m) /\ Len(Truncate(s, pos).arena) = pos
<1> DEFINE q == Truncate(s, pos)
<1>1. /\ s \in Stack /\ s.arena \in Seq(NodeID) /\ Len(s.arena) \in Nat
  BY DEF GoodStack, Stack
<1>2. /\ q.arena = SubSeq(s.arena, 1, pos)
      /\ q.frames = s.frames /\ q.nodes = s.nodes
  BY <1>1 DEF Truncate, Stack
<1>3. q.arena \in Seq(NodeID) /\ Len(q.arena) = pos
      /\ \A i \in 1..pos : q.arena[i] = s.arena[i]
  BY <1>1, <1>2
<1>4. q \in Stack
  BY <1>1, <1>2, <1>3 DEF Truncate, Stack
<1> QED BY <1>1, <1>2, <1>3, <1>4
        DEF GoodStack, WellNested, SlicesInArena, SlicesOrdered, RefersBelow, Height

\* The top frame may take any slice that begins where its own does.
LEMMA SetTopGood ==
    ASSUME NEW n \in Nat, NEW m \in Nat, NEW s, GoodStack(s, n, m), s.frames # <<>>,
           NEW f \in Frame, FrameWithin(f, m),
           f.lo = Top(s).lo, f.lo <= f.hi, f.hi <= Len(s.arena)
    PROVE  /\ GoodStack(SetTop(s, f), n, m)
           /\ SetTop(s, f).arena = s.arena /\ Height(SetTop(s, f)) = Height(s)
           /\ SetTop(s, f).frames # <<>> /\ Top(SetTop(s, f)) = f
           /\ \A i \in 1..Height(s) : i # Height(s) => SetTop(s, f).frames[i] = s.frames[i]
<1> DEFINE frames == [s.frames EXCEPT ![Len(s.frames)] = f]
           p == SetTop(s, f)
<1>1. /\ s \in Stack /\ s.frames \in Seq(Frame) /\ Len(s.frames) \in Nat \ {0}
      /\ Len(s.arena) \in Nat
  BY DEF GoodStack, Stack
<1>2. frames \in Seq(Frame) /\ Len(frames) = Len(s.frames)
      /\ frames[Len(s.frames)] = f
      /\ \A i \in 1..Len(s.frames) : i # Len(s.frames) => frames[i] = s.frames[i]
  BY <1>1
<1>3. p.frames = frames /\ p.arena = s.arena /\ p.nodes = s.nodes /\ p \in Stack
  <2>1. p = [s EXCEPT !.frames = frames]
    BY DEF SetTop
  <2> HIDE DEF p, frames
  <2> QED BY <1>1, <1>2, <2>1, WithFrames
<1> HIDE DEF p, frames
<1>4. Height(p) = Height(s) /\ Top(p) = f /\ Height(s) \in Nat \ {0}
      /\ Height(s) = Len(s.frames) /\ p.frames # <<>>
  BY <1>1, <1>2, <1>3 DEF Height, Top
<1>5. \A i \in 1..Height(s) : s.frames[i] \in Frame
  BY <1>1 DEF Height
<1>6. SlicesInArena(p)
  BY <1>1, <1>2, <1>3, <1>4 DEF GoodStack, WellNested, SlicesInArena
<1>7. SlicesOrdered(p)
  <2> SUFFICES ASSUME NEW i \in 1..Height(s), NEW j \in 1..Height(s), i < j
               PROVE  p.frames[i].hi <= p.frames[j].lo
    BY <1>4 DEF SlicesOrdered
  <2>1. s.frames[i].hi <= s.frames[j].lo
    BY DEF GoodStack, WellNested, SlicesOrdered
  <2>2. p.frames[i] = s.frames[i]
    BY <1>2, <1>3, <1>4
  <2>3. CASE j = Height(s)
    BY <1>2, <1>3, <1>4, <2>1, <2>2, <2>3 DEF Top
  <2>4. CASE j # Height(s)
    BY <1>2, <1>3, <1>4, <2>1, <2>2, <2>4
  <2> QED BY <2>3, <2>4
<1>8. RefersBelow(p, n)
  BY <1>3 DEF GoodStack, RefersBelow
<1>9. \A i \in 1..Height(p) : FrameWithin(p.frames[i], m)
  BY <1>2, <1>3, <1>4 DEF GoodStack
<1>10. GoodStack(p, n, m)
  BY <1>3, <1>6, <1>7, <1>8, <1>9 DEF GoodStack, WellNested
<1> QED BY <1>2, <1>3, <1>4, <1>10 DEF p

\* Nodes of the tree may be appended to the top-level captures.
LEMMA AppendNodesGood ==
    ASSUME NEW n \in Nat, NEW m \in Nat, NEW s, GoodStack(s, n, m),
           NEW ids \in Seq(Nat), \A i \in 1..Len(ids) : ids[i] < n,
           NEW nodes, nodes = s.nodes \o ids, NEW p, p = [s EXCEPT !.nodes = nodes]
    PROVE  GoodStack(p, n, m)
<1>1. s \in Stack /\ s.nodes \in Seq(Nat)
  BY DEF GoodStack, Stack, NodeID
<1>2. nodes \in Seq(Nat) /\ \A i \in 1..Len(nodes) : nodes[i] < n
  BY <1>1, ConcatBelow DEF GoodStack, RefersBelow
<1>3. p.nodes = nodes /\ p.frames = s.frames /\ p.arena = s.arena /\ p \in Stack
  BY <1>1, <1>2, WithNodes DEF NodeID
<1> QED
  BY <1>2, <1>3
  DEF GoodStack, WellNested, SlicesInArena, SlicesOrdered, RefersBelow, Height

\* The arena may grow by nodes of the tree.
LEMMA AppendArenaGood ==
    ASSUME NEW n \in Nat, NEW m \in Nat, NEW s, GoodStack(s, n, m),
           NEW ids \in Seq(Nat), \A i \in 1..Len(ids) : ids[i] < n
    PROVE  /\ GoodStack([s EXCEPT !.arena = @ \o ids], n, m)
           /\ [s EXCEPT !.arena = @ \o ids].frames = s.frames
           /\ Len([s EXCEPT !.arena = @ \o ids].arena) = Len(s.arena) + Len(ids)
<1> DEFINE arena == s.arena \o ids
           p == [s EXCEPT !.arena = arena]
<1>1. s \in Stack /\ s.arena \in Seq(Nat) /\ Len(s.arena) \in Nat /\ Len(ids) \in Nat
  BY DEF GoodStack, Stack, NodeID
<1>2. arena \in Seq(Nat) /\ Len(arena) = Len(s.arena) + Len(ids)
      /\ \A i \in 1..Len(arena) : arena[i] < n
  BY <1>1, ConcatBelow DEF GoodStack, RefersBelow
<1> HIDE DEF arena
<1>4. p.arena = arena /\ p.frames = s.frames /\ p.nodes = s.nodes /\ p \in Stack
  BY <1>1, <1>2 DEF Stack, NodeID
<1> HIDE DEF p
<1>5. SlicesInArena(p)
  <2> SUFFICES ASSUME NEW i \in 1..Height(s)
               PROVE  s.frames[i].lo <= s.frames[i].hi /\ s.frames[i].hi <= Len(arena)
    BY <1>4 DEF SlicesInArena, Height
  <2>1. s.frames[i].lo <= s.frames[i].hi /\ s.frames[i].hi <= Len(s.arena)
    BY DEF GoodStack, WellNested, SlicesInArena
  <2>2. s.frames[i].hi \in Nat
    BY <1>1, StackFields, FrameFields DEF Height
  <2> QED BY <1>1, <1>2, <2>1, <2>2
<1>6. SlicesOrdered(p) /\ RefersBelow(p, n)
      /\ \A i \in 1..Height(p) : FrameWithin(p.frames[i], m)
  BY <1>2, <1>4 DEF GoodStack, WellNested, SlicesOrdered, RefersBelow, Height
<1> QED BY <1>2, <1>4, <1>5, <1>6 DEF GoodStack, WellNested, p, arena

LEMMA CaptureGood ==
    ASSUME NEW n \in Nat, NEW m \in Nat, NEW s, GoodStack(s, n, m),
           NEW ids \in Seq(Nat), \A i \in 1..Len(ids) : ids[i] < n
    PROVE  GoodStack(Capture(s, ids), n, m)
<1>1. CASE ids = <<>>
  BY <1>1 DEF Capture
<1>2. CASE ids # <<>> /\ Height(s) = 0
  <2> DEFINE nodes == s.nodes \o ids
  <2>1. Capture(s, ids) = [s EXCEPT !.nodes = nodes]
    BY <1>2 DEF Capture
  <2> QED BY <2>1, AppendNodesGood
<1>3. CASE ids # <<>> /\ Height(s) # 0
  <2> DEFINE grown == [s EXCEPT !.arena = @ \o ids]
             f == Top(s)
             g == [f EXCEPT !.hi = Len(grown.arena)]
  <2>1. /\ GoodStack(grown, n, m) /\ grown.frames = s.frames
        /\ Len(grown.arena) = Len(s.arena) + Len(ids)
    BY AppendArenaGood
  <2>2. Capture(s, ids) = SetTop(grown, g)
    BY <1>3 DEF Capture
  <2>3. s.frames # <<>> /\ s \in Stack
    BY <1>3 DEF Height, GoodStack
  <2>4. /\ f \in Frame /\ FrameWithin(f, m) /\ f.lo <= f.hi
        /\ f.hi <= Len(s.arena) /\ Len(s.arena) \in Nat /\ Len(ids) \in Nat
    BY <2>3, PopGood, StackFields
  <2>4b. g = [f EXCEPT !.hi = Len(grown.arena)] /\ Len(grown.arena) \in Nat
    BY <2>1, <2>4
  <2> HIDE DEF grown, f, g
  <2>5. /\ g \in Frame /\ g.lo = f.lo /\ g.hi = Len(s.arena) + Len(ids)
        /\ FrameWithin(g, m)
    BY <2>4b, <2>1, <2>4, WithHi DEF FrameWithin
  <2>6. g.lo <= g.hi /\ g.hi <= Len(grown.arena)
    BY <2>1, <2>4, <2>5, FrameFields
  <2>7. Top(grown) = f
    BY <2>1 DEF Top, Height, f
  <2> QED BY <2>1, <2>2, <2>3, <2>5, <2>6, <2>7, SetTopGood
<1> QED BY <1>1, <1>2, <1>3

\* Captures given to the frame below, or to the top level, stay well nested.
LEMMA GiveToGood ==
    ASSUME NEW n \in Nat, NEW m \in Nat, NEW s, GoodStack(s, n, m),
           NEW f \in Frame, f.lo <= f.hi, f.hi <= Len(s.arena),
           \A i \in 1..Height(s) : s.frames[i].hi <= f.lo
    PROVE  GoodStack(GiveTo(s, f), n, m)
<1>1. CASE f.lo = f.hi
  BY <1>1 DEF GiveTo
<1>2. CASE f.lo # f.hi /\ Height(s) = 0
  <2> DEFINE ids == FrameNodes(s, f)
  <2>1. /\ s.arena \in Seq(Nat) /\ f.lo \in Nat /\ f.hi \in Nat
        /\ Len(s.arena) \in Nat /\ \A i \in 1..Len(s.arena) : s.arena[i] < n
    BY StackFields, FrameFields DEF GoodStack, RefersBelow, NodeID
  <2>2. ids \in Seq(Nat) /\ \A i \in 1..Len(ids) : ids[i] < n
    BY <2>1, SliceBelow DEF FrameNodes
  <2> HIDE DEF ids
  <2> DEFINE nodes == s.nodes \o ids
  <2>3. GiveTo(s, f) = [s EXCEPT !.nodes = nodes]
    BY <1>2 DEF GiveTo, ids
  <2> QED BY <2>2, <2>3, AppendNodesGood
<1>3. CASE f.lo # f.hi /\ Height(s) # 0
  <2> DEFINE h == Top(s)
             g == [h EXCEPT !.hi = f.hi]
  <2>1. GiveTo(s, f) = SetTop(s, g)
    BY <1>3 DEF GiveTo
  <2>2. s.frames # <<>> /\ s \in Stack
    BY <1>3 DEF Height, GoodStack
  <2>3. h \in Frame /\ FrameWithin(h, m) /\ h.lo <= h.hi /\ Height(s) \in Nat \ {0}
    BY <2>2, PopGood
  <2>4. h.hi <= f.lo
    BY <2>3 DEF Top
  <2> HIDE DEF h
  <2>5. g \in Frame /\ FrameWithin(g, m) /\ g.lo = h.lo /\ g.hi = f.hi
    BY <2>3, FrameFields, WithHi DEF FrameWithin
  <2>6. g.lo <= g.hi /\ g.hi <= Len(s.arena)
    BY <2>3, <2>4, <2>5, FrameFields
  <2> HIDE DEF g
  <2> QED BY <2>1, <2>2, <2>5, <2>6, SetTopGood DEF h
<1> QED BY <1>1, <1>2, <1>3

LEMMA PopAndCaptureGood ==
    ASSUME NEW n \in Nat, NEW m \in Nat, NEW s, GoodStack(s, n, m), s.frames # <<>>
    PROVE  GoodStack(PopAndCapture(s), n, m)
BY PopGood, GiveToGood DEF PopAndCapture

LEMMA CollectCapturesGood ==
    ASSUME NEW n \in Nat, NEW m \in Nat, NEW s, GoodStack(s, n, m), s.frames # <<>>
    PROVE  GoodStack(CollectCaptures(s), n, m)
BY PopGood, PopAndCaptureGood, PushGood DEF CollectCaptures, PopAndCapture

\* A frame taken off the stack with its captures.
LEMMA UnwoundGood ==
    ASSUME NEW n \in Nat, NEW m \in Nat, NEW s, GoodStack(s, n, m), s.frames # <<>>
    PROVE  GoodStack(Truncate(Pop(s), Top(s).lo), n, m)
<1>1. Top(s).lo \in Nat /\ Top(s).hi \in Nat /\ Len(s.arena) \in Nat
  BY PopGood, FrameFields, StackFields DEF GoodStack
<1>2. Top(s).lo <= Len(Pop(s).arena)
  BY <1>1, PopGood
<1> QED BY <1>1, <1>2, PopGood, TruncateGood

-----------------------------------------------------------------------------
(***************************************************************************)
(* The inductive invariant.  The type of the machine's state cannot be     *)
(* proved alone: a capture is typed only because the slice it reads lies in*)
(* the arena, a slice lies there because the slices are nested, and the    *)
(* fail path drops the right part of the arena for the same reason.        *)
(***************************************************************************)
JobOK == IsProgram(prog) /\ input \in Seq(Char) /\ rule \in {0} \cup prog.rules
RegistersOK ==
    /\ mode \in Modes /\ pc \in Nat /\ root \in NodeID
    /\ predicate \in BOOLEAN /\ capOffset \in [id : NameOrNone, start : Nat]
CursorOK == cursor \in Nat /\ cursor <= Len(input)
FfpOK == ffp \in Nat \cup {-1} /\ ffp <= Len(input)
ExpectedOK == expected \subseteq [what : SUBSET Char, at : Nat]
ResultOK ==
    /\ result \in [kind : {"none", "match", "error"}, cursor : Nat,
                   label : NameOrNone, ffp : Nat \cup {-1}]
    /\ matches \in 0..MaxMatches
TreeOK(t) ==
    /\ t \in Seq(TreeNode)
    /\ \A n \in 1..Len(t) : \A i \in 1..Len(t[n].kids) : t[n].kids[i] < n - 1
MemoOK(mm, n, m) ==
    /\ DOMAIN mm \subseteq Nat \X Nat
    /\ mm \in [DOMAIN mm -> MemoEntry]
    /\ \A k \in DOMAIN mm : /\ mm[k].cursor <= m
                            /\ \A i \in 1..Len(mm[k].captures) : mm[k].captures[i] < n
IInv ==
    /\ JobOK /\ RegistersOK /\ CursorOK /\ FfpOK /\ ExpectedOK /\ ResultOK
    /\ TreeOK(tree)
    /\ MemoOK(memo, Len(tree), Len(input))
    /\ GoodStack(stack, Len(tree), Len(input))

LEMMA Lengths ==
    ASSUME IInv
    PROVE  Len(tree) \in Nat /\ Len(input) \in Nat
BY DEF IInv, TreeOK, JobOK

-----------------------------------------------------------------------------
\* What the operands of an instruction are.
LEMMA Operands ==
    ASSUME JobOK, pc \in DOMAIN Code
    PROVE  /\ I.op \in Jumps => I.to \in Nat
           /\ I.op = "callLR" => I.prec \in Nat
           /\ I.op \in {"set", "span"} => I.cs \subseteq Char
           /\ I.op = "throw" => I.label \in Names
           /\ I.op \in {"capBegin", "capBeginOffset", "capTerm"} => I.id \in NameOrNone
           /\ I.op = "capTerm" => I.size \in Nat
<1>1. I \in Instruction
  BY DEF JobOK, IsProgram, Code, I
<1> HIDE DEF I
<1> QED BY <1>1 DEF Instruction, Jumps, Plain, Address

LEMMA RecoveryAddress ==
    ASSUME JobOK, NEW l \in DOMAIN Recovery
    PROVE  Recovery[l] \in Nat
BY DEF JobOK, IsProgram, Recovery, Address

\* The end of a match.
LEMMA FinishOK ==
    ASSUME IInv, NEW kind \in {"match", "error"}, NEW label \in NameOrNone,
           Finish(kind, label), matches' = matches
    PROVE  mode' \in Modes /\ root' \in NodeID /\ ResultOK'
<1>1. NewRoot \in NodeID
  BY StackFields DEF IInv, GoodStack, NewRoot, RegistersOK, NodeID
<1>2. Outcome(kind, cursor, label) \in [kind : {"none", "match", "error"}, cursor : Nat,
                                        label : NameOrNone, ffp : Nat \cup {-1}]
  BY DEF IInv, CursorOK, FfpOK, Outcome
<1> QED BY <1>1, <1>2 DEF Finish, Modes, IInv, ResultOK

LEMMA FarthestOK ==
    ASSUME IInv, ffp' = FarthestOf(cursor) \/ ffp' = FarthestOf(0), input' = input
    PROVE  FfpOK' /\ ffp <= ffp'
BY Lengths DEF IInv, FfpOK, CursorOK, FarthestOf

-----------------------------------------------------------------------------
LEMMA InitOK == Init => IInv
<1> SUFFICES ASSUME Init PROVE IInv
  OBVIOUS
<1>1. JobOK /\ CursorOK /\ FfpOK /\ ExpectedOK
  BY ProgramsAssumption DEF Init, JobOK, CursorOK, FfpOK, ExpectedOK
<1>1a. RegistersOK
  BY DEF Init, RegistersOK, Modes, FirstAddress, NodeID, NameOrNone
<1>1b. ResultOK
  BY MaxMatchesAssumption DEF Init, ResultOK, NoResult, NameOrNone
<1>2. TreeOK(tree) /\ MemoOK(memo, 0, 0) /\ Len(tree) = 0 /\ Len(input) = 0
  BY DEF Init, TreeOK, MemoOK
<1>3. GoodStack(stack, 0, 0)
  BY EmptyStackGood DEF Init
<1> QED BY <1>1, <1>1a, <1>1b, <1>2, <1>3 DEF IInv

LEMMA MatchRuleOK ==
    ASSUME IInv, NEW in \in Inputs, NEW addr \in {0} \cup prog.rules, MatchRule(in, addr)
    PROVE  IInv'
<1>1. in \in Seq(Char) /\ Len(in) \in Nat /\ addr \in Nat /\ IsProgram(prog)
  BY InputsAssumption DEF IInv, JobOK, IsProgram, Address
<1>2. JobOK' /\ RegistersOK' /\ CursorOK' /\ FfpOK' /\ ExpectedOK'
  BY <1>1 DEF IInv, MatchRule, JobOK, RegistersOK, CursorOK, FfpOK, ExpectedOK, Modes,
     FirstAddress, NodeID, StartFfp
<1>3. ResultOK'
  BY MaxMatchesAssumption DEF IInv, MatchRule, ResultOK, NoResult, NameOrNone
<1>4. TreeOK(tree') /\ Len(tree') = 0 /\ MemoOK(memo', 0, Len(in)) /\ Len(input') = Len(in)
  BY DEF MatchRule, TreeOK, MemoOK
<1>5. GoodStack(stack', 0, Len(in))
  <2>1. GoodStack(EmptyStack, 0, Len(in))
    BY <1>1, EmptyStackGood
  <2>2. CallFrame(HaltAddress) \in Frame /\ FrameWithin(CallFrame(HaltAddress), Len(in))
    BY <1>1, CallFrameOK DEF HaltAddress
  <2> QED BY <1>1, <2>1, <2>2, PushGood DEF MatchRule, StartStack
<1> QED BY <1>2, <1>3, <1>4, <1>5 DEF IInv

-----------------------------------------------------------------------------
(***************************************************************************)
(* Actions that leave the stack, the tree and the memo table as they are.  *)
(***************************************************************************)
LEMMA KeptOK ==
    ASSUME IInv, UNCHANGED <<job, stack, tree, memo>>
    PROVE  /\ JobOK' /\ TreeOK(tree') /\ MemoOK(memo', Len(tree'), Len(input'))
           /\ GoodStack(stack', Len(tree'), Len(input'))
BY DEF IInv, job, JobOK

LEMMA ControlOK ==
    ASSUME IInv, Halt \/ MatchChar \/ MismatchChar \/ Span \/ Jump \/ ThrowInPredicate
                 \/ ThrowError \/ CapBeginOffset \/ CallLRFail \/ FailEmpty \/ Panic
    PROVE  IInv' /\ ffp <= ffp'
<1> USE DEF Running
<1>0. Len(input) \in Nat /\ JobOK /\ CursorOK /\ FfpOK /\ ExpectedOK /\ RegistersOK /\ ResultOK
  BY Lengths DEF IInv
<1>1. CASE Halt \/ ThrowError \/ FailEmpty
  <2>1. \E kind \in {"match", "error"}, label \in NameOrNone : Finish(kind, label)
    BY <1>0, <1>1, Operands DEF Halt, ThrowError, FailEmpty, NameOrNone
  <2>2. mode' \in Modes /\ root' \in NodeID /\ ResultOK'
    BY <1>1, <2>1, FinishOK DEF Halt, ThrowError, FailEmpty
  <2>3. UNCHANGED <<job, stack, tree, memo, pc, cursor, ffp, expected, predicate, capOffset>>
    BY <1>1 DEF Halt, ThrowError, FailEmpty
  <2>4. RegistersOK' /\ CursorOK' /\ FfpOK' /\ ExpectedOK' /\ ffp <= ffp'
    BY <1>0, <2>2, <2>3 DEF RegistersOK, CursorOK, FfpOK, ExpectedOK, job
  <2> QED BY <2>2, <2>3, <2>4, KeptOK DEF IInv
<1>2. CASE MatchChar \/ Span \/ Jump \/ CapBeginOffset \/ Panic
  <2>1. UNCHANGED <<job, stack, tree, memo, root, ffp, expected, predicate, result, matches>>
        /\ input' = input
    BY <1>2 DEF MatchChar, Span, Jump, CapBeginOffset, Panic, job
  <2>2. CursorOK'
    <3>1. CASE MatchChar
      BY <1>0, <2>1, <3>1 DEF CursorOK, MatchChar, Accepts, AtEnd
    <3>2. CASE Span
      BY <1>0, <2>1, <3>2 DEF CursorOK, Span
    <3>3. CASE Jump \/ CapBeginOffset \/ Panic
      BY <1>0, <2>1, <3>3 DEF CursorOK, Jump, CapBeginOffset, Panic
    <3> QED BY <1>2, <3>1, <3>2, <3>3
  <2>3. mode' \in Modes /\ pc' \in Nat
    BY <1>0, <1>2, Operands
    DEF MatchChar, Span, Jump, CapBeginOffset, Panic, Advance, Goto, RegistersOK, Jumps, Modes
  <2>4. capOffset' \in [id : NameOrNone, start : Nat]
    BY <1>0, <1>2, Operands
    DEF MatchChar, Span, Jump, CapBeginOffset, Panic, RegistersOK, CursorOK
  <2>5. RegistersOK' /\ FfpOK' /\ ExpectedOK' /\ ResultOK' /\ ffp <= ffp'
    BY <1>0, <2>1, <2>3, <2>4 DEF RegistersOK, FfpOK, ExpectedOK, ResultOK
  <2> QED BY <2>1, <2>2, <2>5, KeptOK DEF IInv
<1>3. CASE MismatchChar \/ ThrowInPredicate \/ CallLRFail
  <2>1. UNCHANGED <<job, stack, tree, memo, root, predicate, capOffset, result, matches>>
        /\ input' = input
    BY <1>3 DEF MismatchChar, ThrowInPredicate, CallLRFail, job
  <2>2. FfpOK' /\ ffp <= ffp'
    BY <1>3, <2>1, FarthestOK DEF MismatchChar, ThrowInPredicate, CallLRFail, Fail
  <2>3. CursorOK' /\ mode' \in Modes /\ pc' \in Nat
    BY <1>0, <1>3, <2>1 DEF CursorOK, RegistersOK, MismatchChar, ThrowInPredicate,
       CallLRFail, Fail, Advance, Modes, FirstAddress
  <2>4. ExpectedOK'
    <3>1. CASE expected' = expected
      BY <1>0, <3>1 DEF ExpectedOK
    <3>2. CASE MismatchChar /\ ~AtEnd /\ UpdateExpected(I.cs)
      <4>1. input[cursor + 1] \in Char
        BY <1>0, <3>2 DEF JobOK, CursorOK, AtEnd
      <4>2. I.op = "set"
        BY <3>2, <4>1 DEF MismatchChar, Accepts, Wanted
      <4>3. I.cs \subseteq Char
        BY <1>0, <3>2, <4>2, Operands DEF MismatchChar
      <4> QED BY <1>0, <3>2, <4>3 DEF UpdateExpected, ExpectedOK, CursorOK
    <3> QED BY <1>3, <3>1, <3>2 DEF MismatchChar, ThrowInPredicate, CallLRFail
  <2>5. RegistersOK' /\ ResultOK'
    BY <1>0, <2>1, <2>3 DEF RegistersOK, ResultOK
  <2> QED BY <2>1, <2>2, <2>3, <2>4, <2>5, KeptOK DEF IInv
<1> QED BY <1>1, <1>2, <1>3

-----------------------------------------------------------------------------
(***************************************************************************)
(* Actions that change the stack, and the memo table with it.              *)
(***************************************************************************)
LEMMA TopFacts ==
    ASSUME IInv, HasFrame
    PROVE  LET f == Top(stack)
           IN /\ f \in Frame /\ FrameWithin(f, Len(input))
              /\ f.pc \in Nat /\ f.cursor \in Nat /\ f.cursor <= Len(input)
              /\ f.addr \in Nat /\ f.prec \in Nat /\ f.predicate \in BOOLEAN
              /\ f.result \in Nat \cup {LeftRec} /\ f.result <= Len(input)
              /\ f.capId \in NameOrNone
              /\ f.lo \in Nat /\ f.hi \in Nat /\ f.lo <= f.hi /\ f.hi <= Len(stack.arena)
              /\ GoodStack(stack, Len(tree), Len(input))
BY Lengths, PopGood, FrameFields DEF IInv, HasFrame, FrameWithin

LEMMA StackStep ==
    ASSUME IInv, UNCHANGED <<job, tree, expected, result, matches>>,
           GoodStack(stack', Len(tree), Len(input)), MemoOK(memo', Len(tree), Len(input)),
           CursorOK', FfpOK', ffp <= ffp', UNCHANGED <<root, capOffset>>,
           mode' \in Modes, pc' \in Nat, predicate' \in BOOLEAN
    PROVE  IInv' /\ ffp <= ffp'
BY DEF IInv, job, JobOK, RegistersOK, ExpectedOK, ResultOK

LEMMA MemoEntryOK ==
    ASSUME IInv, NEW k \in DOMAIN memo
    PROVE  /\ memo[k].cursor \in Nat \cup {LeftRec} /\ memo[k].cursor <= Len(input)
           /\ memo[k].captures \in Seq(Nat)
           /\ \A i \in 1..Len(memo[k].captures) : memo[k].captures[i] < Len(tree)
BY DEF IInv, MemoOK, MemoEntry, NodeID
LEMMA MemoWithOK ==
    ASSUME IInv, NEW k \in Nat \X Nat, NEW cur \in Nat \cup {LeftRec}, cur <= Len(input),
           NEW prec \in Nat, NEW ids \in Seq(Nat), \A i \in 1..Len(ids) : ids[i] < Len(tree)
    PROVE  MemoOK(MemoWith(k, [cursor |-> cur, prec |-> prec, captures |-> ids]),
                  Len(tree), Len(input))
<1> DEFINE e == [cursor |-> cur, prec |-> prec, captures |-> ids]
           mm == MemoWith(k, e)
<1>1. e \in MemoEntry /\ e.cursor = cur /\ e.captures = ids
  BY DEF MemoEntry, NodeID
<1> HIDE DEF e
<1>2. /\ DOMAIN memo \subseteq Nat \X Nat /\ memo \in [DOMAIN memo -> MemoEntry]
      /\ \A x \in DOMAIN memo : /\ memo[x].cursor <= Len(input)
                                /\ \A i \in 1..Len(memo[x].captures) :
                                       memo[x].captures[i] < Len(tree)
  BY DEF IInv, MemoOK
<1>3. DOMAIN mm = DOMAIN memo \cup {k}
      /\ \A x \in DOMAIN mm : mm[x] = IF x = k THEN e ELSE memo[x]
  BY DEF MemoWith
<1>4. mm = [x \in DOMAIN mm |-> mm[x]]
  BY DEF MemoWith
<1> HIDE DEF mm
<1>5. MemoOK(mm, Len(tree), Len(input))
  BY <1>1, <1>2, <1>3, <1>4 DEF MemoOK
<1> QED BY <1>5 DEF mm, e
LEMMA MemoWithoutOK ==
    ASSUME IInv, NEW k
    PROVE  MemoOK(MemoWithout(k), Len(tree), Len(input))
BY DEF IInv, MemoOK, MemoWithout

LEMMA StackOK ==
    ASSUME IInv, Throwaway \/ Choice \/ Commit \/ Call \/ Return
                 \/ ThrowRecover \/ CapBegin \/ CallLRMemo \/ FailResume
    PROVE  IInv' /\ ffp <= ffp'
<1> DEFINE n == Len(tree)
           m == Len(input)
<1> USE DEF Running
<1>0. /\ n \in Nat /\ m \in Nat /\ JobOK /\ CursorOK /\ FfpOK /\ RegistersOK
      /\ MemoOK(memo, n, m) /\ GoodStack(stack, n, m)
      /\ cursor \in Nat /\ cursor <= m /\ pc \in Nat /\ predicate \in BOOLEAN
      /\ pc + 1 \in Nat /\ mode \in Modes
  BY Lengths DEF IInv, CursorOK, RegistersOK
<1>1. CASE Throwaway
  <2>1. GoodStack(stack', n, m)
    BY <1>0, <1>1, PopGood DEF Throwaway, HasFrame
  <2>2. FfpOK' /\ ffp <= ffp'
    BY <1>1, FarthestOK DEF Throwaway, Fail, job
  <2> QED BY <1>0, <1>1, <2>1, <2>2, StackStep DEF Throwaway, Fail, Modes, CursorOK, job
<1>2. CASE Choice
  <2> DEFINE f == BacktrackFrame(I.to, cursor, I.op = "choicePred")
  <2>1. I.to \in Nat
    BY <1>0, <1>2, Operands DEF Choice, Jumps
  <2>2. f \in Frame /\ FrameWithin(f, m)
    BY <1>0, <2>1, BacktrackFrameOK
  <2>3. stack' = Push(stack, f)
    BY <1>2 DEF Choice
  <2> HIDE DEF f
  <2>4. GoodStack(stack', n, m)
    BY <1>0, <2>2, <2>3, PushGood
  <2> QED BY <1>0, <1>2, <2>4, StackStep DEF Choice, Advance, CursorOK, FfpOK, job
<1>3. CASE Commit
  <2>1. GoodStack(stack', n, m)
    BY <1>0, <1>3, PopGood, PopAndCaptureGood DEF Commit, HasFrame
  <2>2. pc' \in Nat
    BY <1>0, <1>3, Operands DEF Commit, Goto, Jumps
  <2>3. cursor' \in Nat /\ cursor' <= m
    BY <1>0, <1>3, TopFacts DEF Commit
  <2> QED BY <1>0, <1>3, <2>1, <2>2, <2>3, StackStep DEF Commit, CursorOK, FfpOK, job
<1>4. CASE Call \/ ThrowRecover
  <2>1. stack' = Push(stack, CallFrame(pc + 1))
    BY <1>4 DEF Call, ThrowRecover
  <2>2. GoodStack(stack', n, m)
    BY <1>0, <2>1, CallFrameOK, PushGood
  <2>3. pc' \in Nat
    BY <1>0, <1>4, Operands, RecoveryAddress DEF Call, ThrowRecover, Goto, Jumps
  <2> QED BY <1>0, <1>4, <2>2, <2>3, StackStep DEF Call, ThrowRecover, CursorOK, FfpOK, job
<1>5. CASE Return
  <2>1. GoodStack(stack', n, m)
    BY <1>0, <1>5, PopGood, PopAndCaptureGood DEF Return, HasFrame
  <2>2. pc' \in Nat
    BY <1>5, TopFacts DEF Return, Goto
  <2> QED BY <1>0, <1>5, <2>1, <2>2, StackStep DEF Return, CursorOK, FfpOK, job
<1>6. CASE CapBegin
  <2>1. I.id \in NameOrNone
    BY <1>0, <1>6, Operands DEF CapBegin
  <2>2. GoodStack(stack', n, m)
    BY <1>0, <1>6, <2>1, CaptureFrameOK, PushGood DEF CapBegin
  <2> QED BY <1>0, <1>6, <2>2, StackStep DEF CapBegin, Advance, CursorOK, FfpOK, job
<1>7. CASE CallLRMemo
  <2> DEFINE e == memo[CallKey]
  <2>1. /\ e.cursor \in Nat \cup {LeftRec} /\ e.cursor <= m /\ e.captures \in Seq(Nat)
        /\ \A i \in 1..Len(e.captures) : e.captures[i] < n
    BY <1>7, MemoEntryOK DEF CallLRMemo
  <2>2. e.cursor # LeftRec /\ stack' = Capture(stack, e.captures) /\ cursor' = e.cursor
    BY <1>7 DEF CallLRMemo, Barred
  <2> HIDE DEF e
  <2>3. GoodStack(stack', n, m)
    BY <1>0, <2>1, <2>2, CaptureGood
  <2>4. cursor' \in Nat /\ cursor' <= m
    BY <2>1, <2>2
  <2> QED BY <1>0, <1>7, <2>3, <2>4, StackStep DEF CallLRMemo, Advance, CursorOK, FfpOK, job
<1>8. CASE FailResume
  <2>1. GoodStack(stack', n, m)
    BY <1>0, <1>8, UnwoundGood DEF FailResume, Unwound, HasFrame
  <2>2. pc' \in Nat /\ cursor' \in Nat /\ cursor' <= m /\ predicate' \in BOOLEAN
    BY <1>8, TopFacts DEF FailResume
  <2> QED BY <1>0, <1>8, <2>1, <2>2, StackStep DEF FailResume, Modes, CursorOK, FfpOK, job
<1> QED BY <1>1, <1>2, <1>3, <1>4, <1>5, <1>6, <1>7, <1>8

LEMMA PartialCommitOK ==
    ASSUME IInv, PartialCommit
    PROVE  IInv' /\ ffp <= ffp'
<1> DEFINE n == Len(tree)
           m == Len(input)
           f == Top(stack)
           g == [f EXCEPT !.cursor = cursor]
           s == SetTop(stack, g)
<1>1. /\ n \in Nat /\ m \in Nat /\ cursor \in Nat /\ cursor <= m
      /\ stack.frames # <<>> /\ GoodStack(stack, n, m)
  BY Lengths DEF IInv, CursorOK, PartialCommit, HasFrame
<1>2. /\ f \in Frame /\ FrameWithin(f, m) /\ f.lo <= f.hi /\ f.hi <= Len(stack.arena)
  BY TopFacts DEF PartialCommit
<1>3. stack' = IF I.op = "capPartialCommit" THEN CollectCaptures(s) ELSE s
  BY DEF PartialCommit
<1>4. g = [f EXCEPT !.cursor = cursor]
  OBVIOUS
<1> HIDE DEF g
<1>5. g \in Frame /\ FrameWithin(g, m) /\ g.lo = f.lo /\ g.hi = f.hi
  <2> HIDE DEF f
  <2> QED BY <1>1, <1>2, <1>4, WithCursor DEF FrameWithin
<1>6. GoodStack(s, n, m) /\ s.frames # <<>>
  BY <1>1, <1>2, <1>5, SetTopGood
<1> HIDE DEF s
<1>7. GoodStack(stack', n, m)
  BY <1>1, <1>3, <1>6, CollectCapturesGood
<1>8. pc' \in Nat
  BY Operands DEF IInv, PartialCommit, Running, Goto, Jumps
<1> QED
  BY <1>7, <1>8, StackStep DEF IInv, PartialCommit, CursorOK, FfpOK, RegistersOK, job

LEMMA CallLRFirstOK ==
    ASSUME IInv, CallLRFirst
    PROVE  IInv' /\ ffp <= ffp'
<1> DEFINE n == Len(tree)
           m == Len(input)
           f == LRCallFrame(pc + 1, cursor, I.to, I.prec)
<1>1. /\ n \in Nat /\ m \in Nat /\ cursor \in Nat /\ cursor <= m /\ pc + 1 \in Nat
      /\ GoodStack(stack, n, m) /\ I.to \in Nat /\ I.prec \in Nat
  BY Lengths, Operands DEF IInv, CursorOK, RegistersOK, CallLRFirst, Running, Jumps
<1>2. f \in Frame /\ FrameWithin(f, m)
  BY <1>1, LRCallFrameOK
<1>3. stack' = Push(stack, f)
  BY DEF CallLRFirst
<1> HIDE DEF f
<1>4. GoodStack(stack', n, m)
  BY <1>1, <1>2, <1>3, PushGood
<1>5. CallKey \in Nat \X Nat /\ LeftRec \in Nat \cup {LeftRec} /\ LeftRec <= m
      /\ <<>> \in Seq(Nat) /\ \A i \in 1..Len(<<>>) : <<>>[i] < n
  BY <1>1 DEF CallKey, LeftRec
<1>6. MemoOK(memo', n, m)
  BY <1>1, <1>5, MemoWithOK DEF CallLRFirst
<1> QED
  BY <1>1, <1>4, <1>6, StackStep DEF CallLRFirst, Goto, IInv, CursorOK, FfpOK, RegistersOK, job

LEMMA ReturnLRGrowOK ==
    ASSUME IInv, ReturnLRGrow
    PROVE  IInv' /\ ffp <= ffp'
<1> DEFINE n == Len(tree)
           m == Len(input)
           f == Top(stack)
           kept == IF I.op = "capReturnLR" THEN FrameNodes(stack, f) ELSE memo[Key(f)].captures
           g == [f EXCEPT !.result = cursor]
           h == [g EXCEPT !.hi = f.lo]
           s == SetTop(stack, h)
<1>1. /\ n \in Nat /\ m \in Nat /\ cursor \in Nat /\ cursor <= m /\ stack.frames # <<>>
      /\ GoodStack(stack, n, m) /\ Key(f) \in DOMAIN memo
  BY Lengths DEF IInv, CursorOK, ReturnLRGrow, LRReady, HasFrame
<1>2. /\ f \in Frame /\ FrameWithin(f, m) /\ f.cursor \in Nat /\ f.cursor <= m
      /\ f.lo \in Nat /\ f.hi \in Nat /\ f.lo <= f.hi /\ f.hi <= Len(stack.arena)
      /\ f.addr \in Nat /\ f.prec \in Nat
  BY TopFacts DEF ReturnLRGrow, LRReady
<1>3. /\ stack' = IF I.op = "capReturnLR" THEN Truncate(s, f.lo) ELSE SetTop(stack, g)
      /\ memo' = MemoWith(Key(f), [cursor |-> cursor, prec |-> f.prec, captures |-> kept])
      /\ cursor' = f.cursor /\ pc' = f.addr
  BY DEF ReturnLRGrow, Goto
<1>4. kept \in Seq(Nat) /\ \A i \in 1..Len(kept) : kept[i] < n
  <2>1. FrameNodes(stack, f) \in Seq(Nat)
        /\ \A i \in 1..Len(FrameNodes(stack, f)) : FrameNodes(stack, f)[i] < n
    BY <1>1, <1>2, StackFields, SliceBelow DEF FrameNodes, GoodStack, RefersBelow, NodeID
  <2>2. memo[Key(f)].captures \in Seq(Nat)
        /\ \A i \in 1..Len(memo[Key(f)].captures) : memo[Key(f)].captures[i] < n
    BY <1>1, MemoEntryOK
  <2> QED BY <2>1, <2>2
<1> HIDE DEF kept
<1>5. MemoOK(memo', n, m)
  BY <1>1, <1>2, <1>3, <1>4, MemoWithOK DEF Key
<1>6. g \in Frame /\ FrameWithin(g, m) /\ g.lo = f.lo /\ g.hi = f.hi
  <2>1. g = [f EXCEPT !.result = cursor]
    OBVIOUS
  <2> HIDE DEF f, g
  <2> QED BY <1>1, <1>2, <2>1, WithResult DEF FrameWithin
<1>7. h \in Frame /\ FrameWithin(h, m) /\ h.lo = f.lo /\ h.hi = f.lo
  <2>1. h = [g EXCEPT !.hi = f.lo]
    OBVIOUS
  <2> HIDE DEF f, g, h
  <2> QED BY <1>2, <1>6, <2>1, WithHi DEF FrameWithin
<1>8. GoodStack(SetTop(stack, g), n, m)
  <2> HIDE DEF g
  <2> QED BY <1>1, <1>2, <1>6, SetTopGood
<1>9. GoodStack(Truncate(s, f.lo), n, m)
  <2> HIDE DEF g, h
  <2>1. f.lo <= h.hi /\ h.hi <= Len(stack.arena) /\ Len(stack.arena) \in Nat
    BY <1>1, <1>2, <1>7, StackFields DEF GoodStack
  <2>2. /\ GoodStack(s, n, m) /\ s.arena = stack.arena /\ Height(s) = Height(stack)
        /\ Top(s) = h
        /\ \A i \in 1..Height(stack) : i # Height(stack) => s.frames[i] = stack.frames[i]
    BY <1>1, <1>2, <1>7, <2>1, SetTopGood
  <2>3. ASSUME NEW i \in 1..Height(s) PROVE s.frames[i].hi <= f.lo
    <3>1. CASE i = Height(s)
      BY <1>2, <1>7, <2>2, <3>1 DEF Top
    <3>2. CASE i # Height(s)
      <4>1. i \in 1..Height(Pop(stack)) /\ s.frames[i] = Pop(stack).frames[i]
        BY <1>1, <2>2, <3>2, PopGood
      <4> QED BY <1>1, <4>1, PopGood
    <3> QED BY <3>1, <3>2
  <2>4. f.lo \in Nat /\ f.lo <= Len(s.arena) /\ \A i \in 1..Height(s) : s.frames[i].hi <= f.lo
    BY <1>2, <2>2, <2>3
  <2>5. n \in Nat /\ m \in Nat /\ GoodStack(s, n, m)
    BY <1>1, <2>2
  <2> HIDE DEF s, n, m, f
  <2> QED BY <2>4, <2>5, TruncateGood
<1>10. GoodStack(stack', n, m)
  BY <1>3, <1>8, <1>9
<1> QED
  BY <1>2, <1>3, <1>5, <1>10, StackStep
  DEF ReturnLRGrow, Goto, IInv, CursorOK, FfpOK, RegistersOK, job

LEMMA LRExitOK ==
    ASSUME IInv, ReturnLRDone \/ FailResumeLR
    PROVE  IInv' /\ ffp <= ffp'
<1> DEFINE n == Len(tree)
           m == Len(input)
           f == Top(stack)
           ids == memo[Key(f)].captures
<1>1. n \in Nat /\ m \in Nat /\ stack.frames # <<>> /\ GoodStack(stack, n, m)
  BY Lengths DEF IInv, ReturnLRDone, FailResumeLR, LRReady, HasFrame
<1>2. f.pc \in Nat /\ f.result \in Nat \cup {LeftRec} /\ f.result <= m
  BY <1>1, TopFacts DEF HasFrame
<1>3. Key(f) \in DOMAIN memo => ids \in Seq(Nat) /\ \A i \in 1..Len(ids) : ids[i] < n
  BY <1>1, MemoEntryOK
<1>4. /\ memo' = MemoWithout(Key(f)) /\ pc' = f.pc /\ cursor' = f.result
      /\ f.result # LeftRec
      /\ \/ stack' = Pop(stack)
         \/ Key(f) \in DOMAIN memo /\ stack' = Capture(Truncate(Pop(stack), f.lo), ids)
  BY DEF ReturnLRDone, FailResumeLR, LRReady, Goto, Grew, HasIteration, Unwound, LeftRec
<1> HIDE DEF ids
<1>5. GoodStack(Pop(stack), n, m) /\ GoodStack(Truncate(Pop(stack), f.lo), n, m)
  BY <1>1, PopGood, UnwoundGood
<1>6. GoodStack(stack', n, m)
  BY <1>1, <1>3, <1>4, <1>5, CaptureGood
<1>7. MemoOK(memo', n, m)
  BY <1>4, MemoWithoutOK
<1>8. cursor' \in Nat /\ cursor' <= m
  BY <1>2, <1>4
<1> HIDE DEF f
<1> QED
  BY <1>2, <1>4, <1>6, <1>7, <1>8, StackStep
  DEF ReturnLRDone, FailResumeLR, Running, Modes, IInv, CursorOK, FfpOK, RegistersOK, job

LEMMA FailPopOK ==
    ASSUME IInv, FailPop
    PROVE  IInv' /\ ffp <= ffp'
<1>1. GoodStack(stack', Len(tree), Len(input))
  BY Lengths, UnwoundGood DEF IInv, FailPop, Unwound, HasFrame
<1>2. MemoOK(memo', Len(tree), Len(input))
  BY MemoWithoutOK DEF IInv, FailPop
<1>3. pc' \in Nat /\ cursor' \in Nat /\ cursor' <= Len(input)
  BY Lengths DEF FailPop, FirstAddress, IInv, RegistersOK, CursorOK
<1> QED
  BY <1>1, <1>2, <1>3, StackStep
  DEF FailPop, IInv, CursorOK, FfpOK, RegistersOK, job

-----------------------------------------------------------------------------
(***************************************************************************)
(* Actions that add nodes to the tree.                                     *)
(***************************************************************************)
\* Nodes of a tree of n nodes.
Below(ids, n) == ids \in Seq(Nat) /\ \A i \in 1..Len(ids) : ids[i] < n

\* The nodes of t, and one more that refers to older nodes only.
LEMMA AppendNode ==
    ASSUME NEW t, TreeOK(t), NEW typ \in NodeType, NEW name \in NameOrNone,
           NEW from \in Int, NEW to \in Nat, NEW kids, Below(kids, Len(t))
    PROVE  LET u == Append(t, MkNode(typ, name, from, to, kids))
           IN TreeOK(u) /\ Len(t) \in Nat /\ Len(u) = Len(t) + 1
<1> DEFINE x == MkNode(typ, name, from, to, kids)
           u == Append(t, x)
<1>1. x \in TreeNode /\ x.kids = kids /\ \A i \in 1..Len(kids) : kids[i] < Len(t)
  BY DEF MkNode, TreeNode, NodeID, Below
<1>2. u = Append(t, x)
  OBVIOUS
<1>3. t \in Seq(TreeNode) /\ \A k \in 1..Len(t) : \A i \in 1..Len(t[k].kids) : t[k].kids[i] < k - 1
  BY DEF TreeOK
<1> HIDE DEF x, u
<1>4. /\ u \in Seq(TreeNode) /\ Len(t) \in Nat /\ Len(u) = Len(t) + 1
      /\ \A k \in 1..Len(t) : u[k] = t[k]
      /\ u[Len(t) + 1] = x
  BY <1>1, <1>2, <1>3
<1>5. ASSUME NEW k \in 1..Len(u), NEW i \in 1..Len(u[k].kids) PROVE u[k].kids[i] < k - 1
  <2>1. CASE k = Len(u)
    BY <1>1, <1>4, <2>1
  <2>2. CASE k # Len(u)
    <3>1. k \in 1..Len(t) /\ u[k] = t[k]
      BY <1>4, <2>2
    <3> QED BY <1>3, <3>1
  <2> QED BY <2>1, <2>2
<1>6. TreeOK(u) /\ Len(t) \in Nat /\ Len(u) = Len(t) + 1
  BY <1>4, <1>5 DEF TreeOK
<1> QED BY <1>6 DEF u, x

LEMMA AddStringOK ==
    ASSUME NEW t, TreeOK(t), NEW from \in Int, NEW to \in Nat
    PROVE  /\ TreeOK(AddString(t, from, to))
           /\ Len(t) \in Nat /\ Len(AddString(t, from, to)) = Len(t) + 1
<1>1. "String" \in NodeType /\ NoName \in NameOrNone /\ Below(<<>>, Len(t))
  BY DEF NodeType, NameOrNone, Below
<1>2. AddString(t, from, to) = Append(t, MkNode("String", NoName, from, to, <<>>))
  BY DEF AddString
<1> QED BY <1>1, <1>2, AppendNode

LEMMA OneID ==
    ASSUME NEW n \in Nat, NEW k \in Nat, k < n
    PROVE  Below(<<k>>, n)
BY DEF Below

LEMMA AddTextOK ==
    ASSUME NEW t, TreeOK(t), NEW name \in NameOrNone, NEW from \in Int, NEW to \in Nat
    PROVE  LET u == AddText(t, name, from, to)
           IN /\ TreeOK(u) /\ Len(u) \in Nat /\ Len(t) < Len(u)
              /\ LastID(u) \in Nat /\ LastID(u) < Len(u)
<1> DEFINE u == AddText(t, name, from, to)
           b == AddString(t, from, to)
<1>1. TreeOK(b) /\ Len(t) \in Nat /\ Len(b) = Len(t) + 1
  BY AddStringOK
<1>2. CASE name = NoName
  BY <1>1, <1>2 DEF AddText, LastID
<1>3. CASE name # NoName
  <2>1. u = Append(b, MkNode("Node", name, from, to, <<Len(t)>>))
    BY <1>3 DEF AddText
  <2>2. Below(<<Len(t)>>, Len(b))
    BY <1>1, OneID
  <2>3. "Node" \in NodeType
    BY DEF NodeType
  <2> HIDE DEF b, u
  <2>4. TreeOK(u) /\ Len(u) = Len(b) + 1
    BY <1>1, <2>1, <2>2, <2>3, AppendNode
  <2>5. TreeOK(u) /\ Len(u) = Len(t) + 2
    BY <1>1, <2>4
  <2> QED BY <1>1, <2>5 DEF u, LastID
<1> QED BY <1>2, <1>3

\* The node of a capture, or the nodes it passes on, refer to the tree that
\* newNode leaves, which only grows.
LEMMA NewNodeOK ==
    ASSUME NEW t, TreeOK(t), NEW f \in Frame, NEW ids \in Seq(Nat),
           Below(ids, Len(t)), NEW to \in Nat
    PROVE  LET new == NewNode(t, f, ids, to)
           IN /\ TreeOK(new.tree) /\ Len(t) <= Len(new.tree)
              /\ Below(new.ids, Len(new.tree))
<1> DEFINE body == Body(t, f, ids, to)
           kids == BodyIDs(t, f, ids, to)
           new == NewNode(t, f, ids, to)
<1>1. /\ f.cursor \in Nat /\ f.capId \in NameOrNone /\ NoName \in NameOrNone
      /\ ids \in Seq(Nat) /\ Len(ids) \in Nat /\ Len(t) \in Nat
  BY FrameFields DEF TreeOK, NameOrNone, Below
<1>1a. /\ Len(ids) = 1 \/ Len(ids) > 1 \/ Len(ids) = 0
       /\ Len(ids) > 1 => Len(ids) # 1 /\ Len(ids) # 0
  <2> DEFINE len == Len(ids)
  <2>1. len \in Nat
    OBVIOUS
  <2> HIDE DEF len
  <2>2. (len = 1 \/ len > 1 \/ len = 0) /\ (len > 1 => len # 1 /\ len # 0)
    BY <2>1
  <2> QED BY <2>2 DEF len
<1>2. /\ TreeOK(body) /\ Len(body) \in Nat /\ Len(t) <= Len(body)
      /\ Below(kids, Len(body))
  <2>1. CASE Len(ids) = 1
    BY <1>1, <2>1 DEF Body, BodyIDs
  <2>2. CASE Len(ids) > 1
    <3>1. body = Append(t, MkNode("Sequence", NoName, f.cursor, to, ids)) /\ kids = <<Len(t)>>
      <4>1. Len(ids) # 1 /\ Len(ids) # 0
        BY <1>1a, <2>2
      <4> QED BY <2>2, <4>1 DEF Body, BodyIDs
    <3>2. "Sequence" \in NodeType
      BY DEF NodeType
    <3> HIDE DEF body, kids
    <3>3. TreeOK(body) /\ Len(body) = Len(t) + 1
      BY <1>1, <3>1, <3>2, AppendNode
    <3> QED BY <1>1, <3>1, <3>3, OneID
  <2>3. CASE Len(ids) = 0 /\ to > f.cursor
    <3>1. body = AddString(t, f.cursor, to) /\ kids = <<Len(t)>>
      BY <2>3 DEF Body, BodyIDs
    <3> HIDE DEF body, kids
    <3>2. TreeOK(body) /\ Len(body) = Len(t) + 1
      BY <1>1, <3>1, AddStringOK
    <3> QED BY <1>1, <3>1, <3>2, OneID
  <2>4. CASE Len(ids) = 0 /\ ~(to > f.cursor)
    BY <1>1, <2>4 DEF Body, BodyIDs, Below
  <2> HIDE DEF body, kids
  <2> QED BY <1>1a, <2>1, <2>2, <2>3, <2>4
<1> HIDE DEF body, kids
<1>3. \/ new = [tree |-> body, ids |-> kids]
      \/ \E typ \in NodeType :
            new = [tree |-> Append(body, MkNode(typ, f.capId, f.cursor, to, kids)),
                   ids |-> <<Len(body)>>]
  BY DEF NewNode, NodeType, body, kids
<1> HIDE DEF new
<1>4. CASE new = [tree |-> body, ids |-> kids]
  BY <1>2, <1>4 DEF new
<1>5. ASSUME NEW typ \in NodeType,
             new = [tree |-> Append(body, MkNode(typ, f.capId, f.cursor, to, kids)),
                    ids |-> <<Len(body)>>]
      PROVE  /\ TreeOK(new.tree) /\ Len(t) <= Len(new.tree)
             /\ Below(new.ids, Len(new.tree))
  <2>1. new.tree = Append(body, MkNode(typ, f.capId, f.cursor, to, kids))
        /\ new.ids = <<Len(body)>>
    BY <1>5
  <2>2. TreeOK(new.tree) /\ Len(new.tree) = Len(body) + 1
    BY <1>1, <1>2, <2>1, AppendNode
  <2> QED BY <1>1, <1>2, <2>1, <2>2, OneID
<1> QED BY <1>3, <1>4, <1>5 DEF new

LEMMA MemoGrows ==
    ASSUME NEW mm, NEW n \in Nat, NEW k \in Nat, n <= k, NEW m \in Nat, MemoOK(mm, n, m)
    PROVE  MemoOK(mm, k, m)
BY DEF MemoOK, MemoEntry, NodeID

LEMMA TreeStep ==
    ASSUME IInv, TreeOK(tree'), Len(tree) <= Len(tree'),
           GoodStack(stack', Len(tree'), Len(input)),
           Advance, pc \in Nat,
           UNCHANGED <<job, mode, cursor, root, ffp, expected, predicate, capOffset, memo,
                       result, matches>>
    PROVE  IInv' /\ ffp <= ffp'
<1>1. Len(tree) \in Nat /\ Len(tree') \in Nat /\ Len(input) \in Nat
  BY Lengths DEF TreeOK
<1>2. MemoOK(memo, Len(tree'), Len(input))
  BY <1>1, MemoGrows DEF IInv
<1>3. JobOK' /\ RegistersOK' /\ CursorOK' /\ FfpOK' /\ ExpectedOK' /\ ResultOK' /\ ffp <= ffp'
  BY DEF IInv, job, JobOK, RegistersOK, CursorOK, FfpOK, ExpectedOK, ResultOK, Advance
<1> QED BY <1>2, <1>3 DEF IInv, job

LEMMA CaptureTextOK ==
    ASSUME IInv, NEW id \in NameOrNone, NEW k \in Nat, CaptureText(id, k)
    PROVE  /\ TreeOK(tree') /\ Len(tree) <= Len(tree')
           /\ GoodStack(stack', Len(tree'), Len(input))
<1>1. /\ Len(tree) \in Nat /\ Len(input) \in Nat /\ TreeOK(tree) /\ cursor \in Nat
      /\ GoodStack(stack, Len(tree), Len(input))
  BY Lengths DEF IInv, CursorOK
<1>2. CASE k = 0
  BY <1>1, <1>2 DEF CaptureText
<1>3. CASE k # 0
  <2>1. tree' = AddText(tree, id, cursor - k, cursor) /\ stack' = Capture(stack, <<LastID(tree')>>)
    BY <1>3 DEF CaptureText
  <2>2. /\ TreeOK(tree') /\ Len(tree') \in Nat /\ Len(tree) < Len(tree')
        /\ LastID(tree') \in Nat /\ LastID(tree') < Len(tree')
    BY <1>1, <2>1, AddTextOK
  <2>3. GoodStack(stack, Len(tree'), Len(input))
    BY <1>1, <2>2, GoodStackGrows
  <2>4. GoodStack(stack', Len(tree'), Len(input))
    BY <1>1, <2>1, <2>2, <2>3, OneID, CaptureGood DEF Below
  <2> QED BY <1>1, <2>2, <2>4
<1> QED BY <1>2, <1>3

LEMMA CaptureOK ==
    ASSUME IInv, CapEnd \/ CapTerm \/ CapEndOffset
    PROVE  IInv' /\ ffp <= ffp'
<1>1. /\ Len(tree) \in Nat /\ Len(input) \in Nat /\ TreeOK(tree) /\ cursor \in Nat
      /\ GoodStack(stack, Len(tree), Len(input)) /\ JobOK
      /\ pc \in Nat /\ capOffset.id \in NameOrNone /\ capOffset.start \in Nat
  BY Lengths DEF IInv, CursorOK, RegistersOK
<1>2. /\ TreeOK(tree') /\ Len(tree) <= Len(tree')
      /\ GoodStack(stack', Len(tree'), Len(input))
  <2>1. CASE CapEnd
    <3> DEFINE f == Top(stack)
               ids == FrameNodes(stack, f)
               new == NewNode(tree, f, ids, cursor)
               s == Truncate(Pop(stack), f.lo)
    <3>1. /\ f \in Frame /\ f.lo \in Nat /\ f.hi \in Nat /\ f.lo <= f.hi
          /\ f.hi <= Len(stack.arena) /\ stack.frames # <<>>
      BY <2>1, TopFacts DEF CapEnd, HasFrame
    <3>2. ids \in Seq(Nat) /\ Below(ids, Len(tree))
      BY <1>1, <3>1, StackFields, SliceBelow DEF FrameNodes, GoodStack, RefersBelow, NodeID, Below
    <3>3. tree' = new.tree /\ stack' = Capture(s, new.ids)
      BY <2>1 DEF CapEnd
    <3>4. GoodStack(s, Len(tree), Len(input))
      BY <1>1, <3>1, UnwoundGood
    <3> HIDE DEF f, ids, s
    <3>5. /\ TreeOK(new.tree) /\ Len(tree) <= Len(new.tree)
          /\ Below(new.ids, Len(new.tree))
      BY <1>1, <3>1, <3>2, NewNodeOK
    <3> HIDE DEF new
    <3>6. Len(tree') \in Nat /\ GoodStack(s, Len(tree'), Len(input))
      BY <1>1, <3>3, <3>4, <3>5, GoodStackGrows DEF TreeOK
    <3> QED BY <1>1, <3>3, <3>5, <3>6, CaptureGood DEF Below
  <2>2. CASE CapTerm
    <3>1. I.id \in NameOrNone /\ I.size \in Nat
      BY <1>1, <2>2, Operands DEF CapTerm, Running
    <3> QED BY <2>2, <3>1, CaptureTextOK DEF CapTerm
  <2>3. CASE CapEndOffset
    <3>1. CASE cursor > capOffset.start
      <4>1. cursor - capOffset.start \in Nat
        BY <1>1, <3>1
      <4> QED BY <1>1, <2>3, <3>1, <4>1, CaptureTextOK DEF CapEndOffset
    <3>2. CASE ~(cursor > capOffset.start)
      BY <1>1, <2>3, <3>2 DEF CapEndOffset
    <3> QED BY <3>1, <3>2
  <2> QED BY <2>1, <2>2, <2>3
<1> QED BY <1>1, <1>2, TreeStep DEF CapEnd, CapTerm, CapEndOffset

-----------------------------------------------------------------------------
LEMMA StepOK ==
    ASSUME IInv, Step
    PROVE  IInv' /\ ffp <= ffp'
BY ControlOK, StackOK, PartialCommitOK, CallLRFirstOK, ReturnLRGrowOK, LRExitOK, FailPopOK,
   CaptureOK DEF Step

LEMMA NextOK ==
    ASSUME IInv, [Next]_vars
    PROVE  IInv' /\ (matches' = matches => ffp <= ffp')
<1>1. CASE Step
  BY <1>1, StepOK
<1>2. CASE \E in \in Inputs, addr \in {0} \cup prog.rules : MatchRule(in, addr)
  <2>1. PICK in \in Inputs, addr \in {0} \cup prog.rules : MatchRule(in, addr)
    BY <1>2
  <2>2. matches' # matches
    BY <2>1 DEF MatchRule, IInv, ResultOK
  <2> QED BY <2>1, <2>2, MatchRuleOK
<1>3. CASE UNCHANGED vars
  <2>1. UNCHANGED <<job, stack, tree, memo>>
    BY <1>3 DEF vars, job
  <2>2. JobOK' /\ TreeOK(tree') /\ MemoOK(memo', Len(tree'), Len(input'))
        /\ GoodStack(stack', Len(tree'), Len(input'))
    BY <2>1, KeptOK
  <2>3. RegistersOK' /\ CursorOK' /\ FfpOK' /\ ExpectedOK' /\ ResultOK' /\ ffp <= ffp'
    BY <1>3 DEF vars, IInv, RegistersOK, CursorOK, FfpOK, ExpectedOK, ResultOK
  <2> QED BY <2>2, <2>3 DEF IInv
<1> QED BY <1>1, <1>2, <1>3 DEF Next

-----------------------------------------------------------------------------
\* What holds of every state of the machine: the strengthening from which the
\* theorems below follow.
THEOREM InductiveInvariant == Spec => []IInv
<1>1. Init => IInv
  BY InitOK
<1>2. IInv /\ [Next]_vars => IInv'
  BY NextOK
<1> QED BY <1>1, <1>2, PTL DEF Spec

\* The machine's state has its type whatever bytecode it is given.
THEOREM TypeCorrect == Spec => []TypeOK
<1>1. IInv => TypeOK
  BY StackFields DEF IInv, JobOK, RegistersOK, CursorOK, FfpOK, ExpectedOK, ResultOK, TreeOK,
     MemoOK, GoodStack, TypeOK
<1> QED BY <1>1, InductiveInvariant, PTL

\* The slices of the shared arena that the frames own are ordered and
\* disjoint: one frame never sees, extends or drops another's captures.
THEOREM FramesKeepTheirCaptures == Spec => []SlicesNested
<1>1. IInv => SlicesNested
  BY DEF IInv, GoodStack, SlicesNested
<1> QED BY <1>1, InductiveInvariant, PTL

\* Truncating the arena never leaves a NodeID without its node, and the tree
\* has no cycle.
THEOREM NodesExist == Spec => []NoDangling
<1>1. IInv => NoDangling
  BY DEF IInv, GoodStack, TreeOK, MemoOK, NoDangling
<1> QED BY <1>1, InductiveInvariant, PTL

\* The cursor never leaves the input, however it is moved or restored.
THEOREM CursorStaysInInput == Spec => []CursorInInput
<1>1. IInv => CursorInInput
  BY DEF IInv, CursorOK, FfpOK, GoodStack, FrameWithin, MemoOK, CursorInInput, Height
<1> QED BY <1>1, InductiveInvariant, PTL

\* Backtracking never moves the farthest failure position back.
THEOREM FfpMonotone == Spec => FfpNeverMovesBack
<1>1. IInv /\ [Next]_vars => [matches' = matches => ffp <= ffp']_vars
  BY NextOK
<1> QED BY <1>1, InductiveInvariant, PTL DEF Spec, FfpNeverMovesBack
=============================================================================
