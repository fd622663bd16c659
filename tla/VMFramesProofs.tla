--------------------------- MODULE VMFramesProofs ---------------------------
(***************************************************************************)
(* On programs that fit their frames (module VMFrames) the machine finds   *)
(* the frame it expects, keeps the memo table in step with the calls in    *)
(* progress, and never panics.                                             *)
(***************************************************************************)
EXTENDS VMFrames, VMProofs

(***************************************************************************)
(* The inductive invariant.  The code says what shapes the stack may have  *)
(* at each address, but a frame that is popped long after it was pushed    *)
(* takes the machine to an address of its own: so what is kept is that the *)
(* address of every frame fits the stack below it, that of a choice where  *)
(* it goes on when the choice fails, that of a call where it returns.      *)
(***************************************************************************)
Shapes == ShapesOf(prog)

\* s is the shape of the lowest n frames.
Matches(fs, n, s) ==
    /\ Len(s) <= n
    /\ \A i \in 1..Len(s) : fs[n - Len(s) + i].t = s[i]
    /\ Len(s) = n \/ (s # <<>> /\ s[1] \in CallTypes)

\* The match may go on at address a with the lowest n frames, by T.
Fits(T, fs, n, a) == \E x \in T : x[1] = a /\ Matches(fs, n, x[2])

FrameFits(T, fs, i) ==
    /\ fs[i].t # "Capture" => Fits(T, fs, i - 1, fs[i].pc)
    /\ fs[i].t = "LRCall" => <<fs[i].addr, <<"LRCall">>>> \in T
FramesFit(T, fs) == \A i \in 1..Len(fs) : FrameFits(T, fs, i)

(***************************************************************************)
(* The memo table has an entry for each left-recursive call in progress,   *)
(* with the result of its last iteration, and no other.                    *)
(***************************************************************************)
InProgress(fs) == {i \in 1..Len(fs) : fs[i].t = "LRCall"}
MemoFits(fs, mm) ==
    /\ \A i \in InProgress(fs) : /\ Key(fs[i]) \in DOMAIN mm
                                 /\ mm[Key(fs[i])].cursor = fs[i].result
    /\ \A i, j \in InProgress(fs) : Key(fs[i]) = Key(fs[j]) => i = j
    /\ \A k \in DOMAIN mm : \E i \in InProgress(fs) : Key(fs[i]) = k

FInv ==
    /\ prog \in Programs
    /\ FramesFit(Shapes, stack.frames)
    /\ MemoFits(stack.frames, memo)
    /\ mode = "run" => Fits(Shapes, stack.frames, Len(stack.frames), pc)
    /\ NoPanic
    /\ MatchLeavesNothing

-----------------------------------------------------------------------------
(***************************************************************************)
(* What the stack's operations do to the frames, captures aside: frames    *)
(* are kept, one is taken off, or one is put on.                           *)
(***************************************************************************)
SameFrame(f, g) ==
    /\ g.t = f.t /\ g.pc = f.pc /\ g.addr = f.addr
    /\ f.t = "LRCall" => g.cursor = f.cursor /\ g.result = f.result
Kept(fs, gs) == Len(gs) = Len(fs) /\ \A i \in 1..Len(fs) : SameFrame(fs[i], gs[i])
Lowered(fs, gs) ==
    /\ Len(fs) \in Nat \ {0} /\ Len(gs) = Len(fs) - 1
    /\ \A i \in 1..Len(fs) - 1 : SameFrame(fs[i], gs[i])
Raised(fs, gs, f) ==
    /\ Len(gs) = Len(fs) + 1 /\ SameFrame(f, gs[Len(fs) + 1])
    /\ \A i \in 1..Len(fs) : SameFrame(fs[i], gs[i])

LEMMA KeptItself == ASSUME NEW fs PROVE Kept(fs, fs)
BY DEF Kept, SameFrame

LEMMA KeptTwice ==
    ASSUME NEW fs, NEW gs, NEW hs, Kept(gs, hs)
    PROVE  /\ Kept(fs, gs) => Kept(fs, hs)
           /\ Lowered(fs, gs) => Lowered(fs, hs)
<1>1. ASSUME Kept(fs, gs) PROVE Kept(fs, hs)
  BY <1>1 DEF Kept, SameFrame
<1>2. ASSUME Lowered(fs, gs) PROVE Lowered(fs, hs)
  BY <1>2 DEF Kept, Lowered, SameFrame
<1> QED BY <1>1, <1>2

LEMMA PushFrames ==
    ASSUME NEW s \in Stack, NEW f \in Frame
    PROVE  Raised(s.frames, Push(s, f).frames, f)
<1> DEFINE g == [f EXCEPT !.lo = Len(s.arena), !.hi = Len(s.arena)]
<1>1. s.frames \in Seq(Frame) /\ Len(s.frames) \in Nat
  BY StackFields
<1>2. SameFrame(f, g)
  BY DEF SameFrame, Frame
<1>3. Push(s, f).frames = Append(s.frames, g)
  BY DEF Push, Stack
<1> HIDE DEF g
<1>4. /\ Len(Append(s.frames, g)) = Len(s.frames) + 1
      /\ Append(s.frames, g)[Len(s.frames) + 1] = g
      /\ \A i \in 1..Len(s.frames) : Append(s.frames, g)[i] = s.frames[i]
  BY <1>1
<1> QED BY <1>2, <1>3, <1>4 DEF Raised, SameFrame

LEMMA PopFrames ==
    ASSUME NEW s \in Stack, s.frames # <<>>
    PROVE  /\ Lowered(s.frames, Pop(s).frames) /\ Pop(s) \in Stack
           /\ Height(s) \in Nat \ {0} /\ Top(s) \in Frame /\ Top(s) = s.frames[Len(s.frames)]
<1> DEFINE rest == SubSeq(s.frames, 1, Len(s.frames) - 1)
<1>1. s.frames \in Seq(Frame) /\ Len(s.frames) \in Nat \ {0}
  BY StackFields
<1>2. /\ rest \in Seq(Frame) /\ Len(rest) = Len(s.frames) - 1
      /\ \A i \in 1..Len(s.frames) - 1 : rest[i] = s.frames[i]
  BY <1>1
<1>3. Pop(s) = [s EXCEPT !.frames = rest]
  BY DEF Pop
<1> HIDE DEF rest
<1>4. Pop(s).frames = rest /\ Pop(s) \in Stack
  BY <1>2, <1>3, WithFrames
<1> QED BY <1>1, <1>2, <1>4 DEF Lowered, SameFrame, Height, Top

LEMMA TruncateFrames == ASSUME NEW s \in Stack, NEW pos PROVE Truncate(s, pos).frames = s.frames
BY DEF Truncate, Stack

\* The top frame is replaced.
LEMMA SetTopFrames ==
    ASSUME NEW s \in Stack, s.frames # <<>>, NEW f
    PROVE  /\ Len(SetTop(s, f).frames) = Len(s.frames)
           /\ SetTop(s, f).frames[Len(s.frames)] = f
           /\ \A i \in 1..Len(s.frames) : i # Len(s.frames) => SetTop(s, f).frames[i] = s.frames[i]
           /\ SameFrame(Top(s), f) => Kept(s.frames, SetTop(s, f).frames)
<1> DEFINE frames == [s.frames EXCEPT ![Len(s.frames)] = f]
<1>1. s.frames \in Seq(Frame) /\ Len(s.frames) \in Nat \ {0}
  BY StackFields
<1>2. /\ Len(frames) = Len(s.frames) /\ frames[Len(s.frames)] = f
      /\ \A i \in 1..Len(s.frames) : i # Len(s.frames) => frames[i] = s.frames[i]
  BY <1>1
<1>3. SetTop(s, f).frames = frames
  BY DEF SetTop, Stack
<1> HIDE DEF frames
<1>4. Top(s) = s.frames[Len(s.frames)]
  BY DEF Top, Height
<1> QED BY <1>2, <1>3, <1>4 DEF Kept, SameFrame

\* New captures change the end of the top frame's slice only.
LEMMA CaptureFrames ==
    ASSUME NEW s \in Stack, NEW ids
    PROVE  Kept(s.frames, Capture(s, ids).frames)
<1>1. CASE ids = <<>> \/ Height(s) = 0
  <2>1. Capture(s, ids).frames = s.frames
    BY <1>1 DEF Capture, Stack
  <2> QED BY <2>1, KeptItself
<1>2. CASE ids # <<>> /\ Height(s) # 0
  <2> DEFINE arena == s.arena \o ids
             grown == [s EXCEPT !.arena = arena]
             f == Top(s)
             g == [f EXCEPT !.hi = Len(grown.arena)]
             u == Capture(s, ids)
  <2>1. s.frames \in Seq(Frame) /\ Len(s.frames) \in Nat \ {0} /\ s.frames # <<>>
    BY <1>2, StackFields DEF Height
  <2>2. f \in Frame /\ f = s.frames[Len(s.frames)]
    BY <2>1, PopFrames
  <2>3. SameFrame(f, g)
    BY <2>2 DEF SameFrame, Frame
  <2>4. u = SetTop(grown, g) /\ grown.frames = s.frames
    BY <1>2 DEF Capture, Stack
  <2>5. u.frames = [s.frames EXCEPT ![Len(s.frames)] = g]
    BY <2>4 DEF SetTop, Stack
  <2> HIDE DEF g, f, u, grown
  <2>6. /\ Len(u.frames) = Len(s.frames) /\ u.frames[Len(s.frames)] = g
        /\ \A i \in 1..Len(s.frames) : i # Len(s.frames) => u.frames[i] = s.frames[i]
    BY <2>1, <2>5
  <2>7. Kept(s.frames, u.frames)
    BY <2>2, <2>3, <2>6 DEF Kept, SameFrame
  <2> QED BY <2>7 DEF u
<1> QED BY <1>1, <1>2

LEMMA GiveToFrames ==
    ASSUME NEW s \in Stack, NEW f
    PROVE  Kept(s.frames, GiveTo(s, f).frames)
<1>1. CASE f.lo = f.hi \/ Height(s) = 0
  <2>1. GiveTo(s, f).frames = s.frames
    BY <1>1 DEF GiveTo, Stack
  <2> QED BY <2>1, KeptItself
<1>2. CASE f.lo # f.hi /\ Height(s) # 0
  <2> DEFINE h == Top(s)
             g == [h EXCEPT !.hi = f.hi]
  <2>1. s.frames # <<>>
    BY <1>2 DEF Height
  <2>2. h \in Frame
    BY <2>1, PopFrames
  <2>3. SameFrame(h, g)
    BY <2>2 DEF SameFrame, Frame
  <2>4. GiveTo(s, f) = SetTop(s, g)
    BY <1>2 DEF GiveTo
  <2> HIDE DEF g
  <2> QED BY <2>1, <2>3, <2>4, SetTopFrames
<1> QED BY <1>1, <1>2

\* A frame is taken off, with its captures or without.
LEMMA PopAndCaptureFrames ==
    ASSUME NEW s \in Stack, s.frames # <<>>
    PROVE  Lowered(s.frames, PopAndCapture(s).frames)
BY PopFrames, GiveToFrames, KeptTwice DEF PopAndCapture
LEMMA UnwoundFrames ==
    ASSUME NEW s \in Stack, s.frames # <<>>, NEW pos
    PROVE  Lowered(s.frames, Truncate(Pop(s), pos).frames)
BY PopFrames, TruncateFrames

\* The top frame is taken off and put back.
LEMMA CollectFrames ==
    ASSUME NEW n \in Nat, NEW m \in Nat, NEW s, GoodStack(s, n, m), s.frames # <<>>
    PROVE  Kept(s.frames, CollectCaptures(s).frames)
<1> DEFINE f == Top(s)
           r == PopAndCapture(s)
           u == Push(r, f)
<1>1. s \in Stack /\ r \in Stack /\ CollectCaptures(s) = u
  BY PopAndCaptureGood DEF GoodStack, CollectCaptures, PopAndCapture
<1>2. Lowered(s.frames, r.frames)
  BY <1>1, PopAndCaptureFrames
<1>3. f \in Frame /\ f = s.frames[Len(s.frames)] /\ Len(s.frames) \in Nat \ {0}
  BY <1>1, PopFrames DEF Height
<1>4. Raised(r.frames, u.frames, f)
  BY <1>1, <1>3, PushFrames
<1> HIDE DEF r, u, f
<1>5. Len(u.frames) = Len(s.frames)
  BY <1>2, <1>3, <1>4 DEF Lowered, Raised
<1>6. ASSUME NEW i \in 1..Len(s.frames) PROVE SameFrame(s.frames[i], u.frames[i])
  <2>1. CASE i = Len(s.frames)
    BY <1>2, <1>3, <1>4, <2>1 DEF Lowered, Raised
  <2>2. CASE i # Len(s.frames)
    <3>1. i \in 1..Len(s.frames) - 1 /\ i \in 1..Len(r.frames)
      BY <1>2, <1>3, <2>2 DEF Lowered
    <3>2. SameFrame(s.frames[i], r.frames[i]) /\ SameFrame(r.frames[i], u.frames[i])
      BY <1>2, <1>4, <3>1 DEF Lowered, Raised
    <3> QED BY <3>2 DEF SameFrame
  <2> QED BY <2>1, <2>2
<1> QED BY <1>1, <1>5, <1>6 DEF Kept

-----------------------------------------------------------------------------
(***************************************************************************)
(* Shapes and the stacks they are shapes of.                               *)
(***************************************************************************)
LEMMA MatchesFewer ==
    ASSUME NEW fs, NEW gs, NEW n \in Nat, NEW s \in Shape, Matches(fs, n, s),
           \A i \in 1..n : gs[i].t = fs[i].t
    PROVE  Matches(gs, n, s)
<1>1. Len(s) \in Nat /\ Len(s) <= n
  BY DEF Matches, Shape
<1>2. ASSUME NEW i \in 1..Len(s) PROVE gs[n - Len(s) + i].t = s[i]
  <2>1. n - Len(s) + i \in 1..n
    BY <1>1
  <2> QED BY <2>1 DEF Matches
<1> QED BY <1>1, <1>2 DEF Matches

LEMMA FitsFewer ==
    ASSUME NEW T, T \subseteq Nat \X Shape, NEW fs, NEW gs, NEW n \in Nat, NEW a,
           Fits(T, fs, n, a), \A i \in 1..n : gs[i].t = fs[i].t
    PROVE  Fits(T, gs, n, a)
<1>1. PICK x \in T : x[1] = a /\ Matches(fs, n, x[2])
  BY DEF Fits
<1>2. x[2] \in Shape
  OBVIOUS
<1> QED BY <1>1, <1>2, MatchesFewer DEF Fits

\* What fits the lowest n frames of a stack fits those of another.
LEMMA FramesFitFewer ==
    ASSUME NEW T, T \subseteq Nat \X Shape, NEW fs, NEW gs, NEW n \in Nat,
           n <= Len(fs), Len(fs) \in Nat, FramesFit(T, fs),
           \A i \in 1..n : SameFrame(fs[i], gs[i])
    PROVE  \A i \in 1..n : FrameFits(T, gs, i)
<1> SUFFICES ASSUME NEW i \in 1..n PROVE FrameFits(T, gs, i)
  OBVIOUS
<1>1. FrameFits(T, fs, i) /\ SameFrame(fs[i], gs[i])
  BY DEF FramesFit
<1>2. i - 1 \in Nat /\ \A j \in 1..i - 1 : gs[j].t = fs[j].t
  BY DEF SameFrame
<1>3. gs[i].t # "Capture" => Fits(T, gs, i - 1, gs[i].pc)
  BY <1>1, <1>2, FitsFewer DEF FrameFits, SameFrame
<1>4. gs[i].t = "LRCall" => <<gs[i].addr, <<"LRCall">>>> \in T
  BY <1>1 DEF FrameFits, SameFrame
<1> QED BY <1>3, <1>4 DEF FrameFits

LEMMA FramesFitKept ==
    ASSUME NEW T, T \subseteq Nat \X Shape, NEW fs, NEW gs, Len(fs) \in Nat,
           FramesFit(T, fs), Kept(fs, gs)
    PROVE  FramesFit(T, gs)
BY FramesFitFewer DEF Kept, FramesFit

LEMMA FramesFitLowered ==
    ASSUME NEW T, T \subseteq Nat \X Shape, NEW fs, NEW gs, FramesFit(T, fs), Lowered(fs, gs)
    PROVE  FramesFit(T, gs)
<1>1. Len(fs) \in Nat /\ Len(fs) - 1 \in Nat /\ Len(gs) = Len(fs) - 1
  BY DEF Lowered
<1>2. \A i \in 1..Len(fs) - 1 : FrameFits(T, gs, i)
  BY <1>1, FramesFitFewer DEF Lowered
<1> QED BY <1>1, <1>2 DEF FramesFit

LEMMA FramesFitRaised ==
    ASSUME NEW T, T \subseteq Nat \X Shape, NEW fs, NEW gs, NEW f, Len(fs) \in Nat,
           FramesFit(T, fs), Raised(fs, gs, f),
           f.t # "Capture" => Fits(T, fs, Len(fs), f.pc),
           f.t = "LRCall" => <<f.addr, <<"LRCall">>>> \in T
    PROVE  FramesFit(T, gs)
<1> DEFINE n == Len(fs)
<1>1. \A i \in 1..n : FrameFits(T, gs, i)
  BY FramesFitFewer DEF Raised
<1>2. FrameFits(T, gs, n + 1)
  <2>1. SameFrame(f, gs[n + 1]) /\ \A i \in 1..n : gs[i].t = fs[i].t
    BY DEF Raised, SameFrame
  <2>2. gs[n + 1].t # "Capture" => Fits(T, gs, n, gs[n + 1].pc)
    BY <2>1, FitsFewer DEF SameFrame
  <2>3. gs[n + 1].t = "LRCall" => <<gs[n + 1].addr, <<"LRCall">>>> \in T
    BY <2>1 DEF SameFrame
  <2> QED BY <2>2, <2>3 DEF FrameFits
<1>3. Len(gs) = n + 1
  BY DEF Raised
<1> QED BY <1>1, <1>2, <1>3 DEF FramesFit

\* The shape under a frame that is taken off, when it is not a call.
LEMMA MatchesLower ==
    ASSUME NEW fs, NEW n \in Nat, NEW s \in Shape, NEW t, Matches(fs, n, s), TopIs(s, t),
           t \notin CallTypes
    PROVE  n \in Nat \ {0} /\ fs[n].t = t /\ Lower(s) \in Shape /\ Matches(fs, n - 1, Lower(s))
<1> DEFINE k == Len(s)
           r == Lower(s)
<1>1. s \in Seq(FrameType) /\ k \in Nat \ {0} /\ k <= n /\ s[k] = t
  BY DEF TopIs, Matches, Shape
<1>2. n \in Nat \ {0} /\ fs[n].t = t
  <2>1. fs[n - k + k].t = s[k]
    BY <1>1 DEF Matches
  <2> QED BY <1>1, <2>1
<1>3. r \in Shape /\ Len(r) = k - 1 /\ \A i \in 1..k - 1 : r[i] = s[i]
  <2>1. r = SubSeq(s, 1, k - 1) /\ k - 1 \in Nat
    BY <1>1 DEF Lower
  <2>2. \A q \in Seq(FrameType), j \in Nat :
           j <= Len(q) => /\ SubSeq(q, 1, j) \in Seq(FrameType) /\ Len(SubSeq(q, 1, j)) = j
                          /\ \A i \in 1..j : SubSeq(q, 1, j)[i] = q[i]
    OBVIOUS
  <2>3. k - 1 <= Len(s)
    BY <1>1
  <2> HIDE DEF k, r
  <2>4. /\ SubSeq(s, 1, k - 1) \in Seq(FrameType) /\ Len(SubSeq(s, 1, k - 1)) = k - 1
        /\ \A i \in 1..k - 1 : SubSeq(s, 1, k - 1)[i] = s[i]
    BY <1>1, <2>1, <2>2, <2>3
  <2> QED BY <2>1, <2>4 DEF Shape
<1> HIDE DEF r
<1>4. ASSUME NEW i \in 1..Len(r) PROVE fs[n - 1 - Len(r) + i].t = r[i]
  <2>1. i \in 1..k /\ n - 1 - Len(r) + i = n - k + i
    BY <1>1, <1>2, <1>3
  <2> QED BY <1>3, <2>1 DEF Matches
<1>5. Len(r) = n - 1 \/ (r # <<>> /\ r[1] \in CallTypes)
  <2>1. CASE k = n
    BY <1>2, <1>3, <2>1
  <2>2. CASE k # n
    <3>1. s[1] \in CallTypes
      BY <2>2 DEF Matches
    <3>2. k # 1
      BY <1>1, <3>1
    <3>3. Len(r) \in Nat \ {0} /\ r[1] = s[1]
      BY <1>1, <1>3, <3>2
    <3>4. r # <<>>
      BY <3>3
    <3> QED BY <3>1, <3>3, <3>4
  <2> QED BY <2>1, <2>2
<1>6. Len(r) <= n - 1
  BY <1>1, <1>2, <1>3
<1> QED BY <1>2, <1>3, <1>4, <1>5, <1>6 DEF Matches, r

\* The shape over a frame that is put on.
LEMMA MatchesRaised ==
    ASSUME NEW fs, NEW gs, NEW f, Len(fs) \in Nat, NEW s \in Shape, f.t \in FrameType,
           Matches(fs, Len(fs), s), Raised(fs, gs, f)
    PROVE  Append(s, f.t) \in Shape /\ Matches(gs, Len(fs) + 1, Append(s, f.t))
<1> DEFINE n == Len(fs)
           k == Len(s)
           r == Append(s, f.t)
<1>1. s \in Seq(FrameType) /\ k \in Nat /\ k <= n /\ n \in Nat
  BY DEF Matches, Shape
<1>2. /\ r \in Shape /\ Len(r) = k + 1 /\ r[k + 1] = f.t
      /\ \A i \in 1..k : r[i] = s[i]
  BY <1>1 DEF Shape
<1>3. \A i \in 1..n : gs[i].t = fs[i].t
  BY DEF Raised, SameFrame
<1>4. gs[n + 1].t = f.t
  BY DEF Raised, SameFrame
<1> HIDE DEF r
<1>5. ASSUME NEW i \in 1..Len(r) PROVE gs[n + 1 - Len(r) + i].t = r[i]
  <2>1. CASE i = k + 1
    BY <1>1, <1>2, <1>4, <2>1
  <2>2. CASE i # k + 1
    <3>1. i \in 1..k /\ n + 1 - Len(r) + i = n - k + i /\ n - k + i \in 1..n
      BY <1>1, <1>2, <2>2
    <3>2. fs[n - k + i].t = s[i]
      BY <3>1 DEF Matches
    <3> QED BY <1>2, <1>3, <3>1, <3>2
  <2> QED BY <2>1, <2>2
<1>6. Len(r) = n + 1 \/ (r # <<>> /\ r[1] \in CallTypes)
  <2>1. CASE k = n
    BY <1>2, <2>1
  <2>2. CASE k # n
    <3>1. s # <<>> /\ s[1] \in CallTypes
      BY <2>2 DEF Matches
    <3>2. 1 \in 1..k /\ r # <<>>
      BY <1>1, <1>2, <3>1
    <3> QED BY <1>2, <3>1, <3>2
  <2> QED BY <2>1, <2>2
<1>7. Len(r) <= n + 1
  BY <1>1, <1>2
<1> QED BY <1>2, <1>5, <1>6, <1>7 DEF Matches, r

\* Over a call the shape begins anew.
LEMMA MatchesCall ==
    ASSUME NEW fs, NEW n \in Nat, NEW t \in CallTypes
    PROVE  /\ <<t>> \in Shape
           /\ fs[n + 1].t = t => Matches(fs, n + 1, <<t>>)
           /\ Matches(fs, n, <<t>>) => n \in Nat \ {0} /\ fs[n].t = t
<1>1. <<t>> \in Shape /\ Len(<<t>>) = 1 /\ <<t>>[1] = t /\ <<t>> # <<>>
  BY DEF Shape, CallTypes, FrameType
<1>2. ASSUME fs[n + 1].t = t PROVE Matches(fs, n + 1, <<t>>)
  BY <1>1, <1>2 DEF Matches
<1>3. ASSUME Matches(fs, n, <<t>>) PROVE n \in Nat \ {0} /\ fs[n].t = t
  <2>1. 1 <= n /\ fs[n - 1 + 1].t = t
    BY <1>1, <1>3 DEF Matches
  <2> QED BY <2>1
<1> QED BY <1>1, <1>2, <1>3

LEMMA MatchesNothing ==
    ASSUME NEW fs, NEW n \in Nat, Matches(fs, n, <<>>)
    PROVE  n = 0
BY DEF Matches

-----------------------------------------------------------------------------
(***************************************************************************)
(* The memo table and the calls in progress.                               *)
(***************************************************************************)
LEMMA SameCall ==
    ASSUME NEW f, NEW g, SameFrame(f, g)
    PROVE  /\ g.t = "LRCall" <=> f.t = "LRCall"
           /\ f.t = "LRCall" => Key(g) = Key(f) /\ g.result = f.result
BY DEF SameFrame, Key

LEMMA MemoFitsKept ==
    ASSUME NEW fs, NEW gs, NEW mm, MemoFits(fs, mm), Kept(fs, gs)
    PROVE  MemoFits(gs, mm)
<1>1. InProgress(gs) = InProgress(fs)
      /\ \A i \in InProgress(fs) : Key(gs[i]) = Key(fs[i]) /\ gs[i].result = fs[i].result
  BY SameCall DEF Kept, InProgress
<1> QED BY <1>1 DEF MemoFits

LEMMA MemoFitsLowered ==
    ASSUME NEW fs, NEW gs, NEW mm, MemoFits(fs, mm), Lowered(fs, gs),
           fs[Len(fs)].t # "LRCall"
    PROVE  MemoFits(gs, mm)
<1>1. Len(fs) \in Nat \ {0} /\ Len(gs) = Len(fs) - 1
      /\ \A i \in 1..Len(fs) - 1 : SameFrame(fs[i], gs[i])
  BY DEF Lowered
<1>2. InProgress(gs) = InProgress(fs)
  <2>1. \A i \in 1..Len(fs) : i \in 1..Len(fs) - 1 \/ i = Len(fs)
    BY <1>1
  <2>2. \A i \in 1..Len(fs) - 1 : i \in 1..Len(fs)
    BY <1>1
  <2> QED BY <1>1, <2>1, <2>2, SameCall DEF InProgress
<1>3. \A i \in InProgress(fs) : Key(gs[i]) = Key(fs[i]) /\ gs[i].result = fs[i].result
  BY <1>1, <1>2, SameCall DEF InProgress
<1> QED BY <1>2, <1>3 DEF MemoFits

LEMMA MemoFitsRaised ==
    ASSUME NEW fs, NEW gs, NEW mm, NEW f, MemoFits(fs, mm), Len(fs) \in Nat,
           Raised(fs, gs, f), f.t # "LRCall"
    PROVE  MemoFits(gs, mm)
<1>1. /\ Len(gs) = Len(fs) + 1 /\ gs[Len(fs) + 1].t # "LRCall"
      /\ \A i \in 1..Len(fs) : SameFrame(fs[i], gs[i])
  BY DEF Raised, SameFrame
<1>2. InProgress(gs) = InProgress(fs)
  <2>1. \A i \in 1..Len(gs) : i \in 1..Len(fs) \/ i = Len(fs) + 1
    BY <1>1
  <2>2. \A i \in 1..Len(fs) : i \in 1..Len(gs)
    BY <1>1
  <2> QED BY <1>1, <2>1, <2>2, SameCall DEF InProgress
<1>3. \A i \in InProgress(fs) : Key(gs[i]) = Key(fs[i]) /\ gs[i].result = fs[i].result
  BY <1>1, SameCall DEF InProgress
<1> QED BY <1>2, <1>3 DEF MemoFits

\* A call begins, with its entry.
LEMMA MemoFitsBegun ==
    ASSUME NEW fs, NEW gs, NEW mm, NEW nn, NEW f, MemoFits(fs, mm), Len(fs) \in Nat,
           Raised(fs, gs, f), f.t = "LRCall", Key(f) \notin DOMAIN mm,
           DOMAIN nn = DOMAIN mm \cup {Key(f)}, nn[Key(f)].cursor = f.result,
           \A k \in DOMAIN mm : nn[k] = mm[k]
    PROVE  MemoFits(gs, nn)
<1> DEFINE n == Len(fs) + 1
<1>1. /\ Len(gs) = n /\ SameFrame(f, gs[n]) /\ n \in Nat /\ n \notin 1..Len(fs)
      /\ \A i \in 1..Len(fs) : SameFrame(fs[i], gs[i])
  BY DEF Raised
<1>2. InProgress(gs) = InProgress(fs) \cup {n} /\ n \notin InProgress(fs)
  <2>1. \A i \in 1..Len(gs) : i \in 1..Len(fs) \/ i = n
    BY <1>1
  <2>2. \A i \in 1..Len(fs) : i \in 1..Len(gs)
    BY <1>1
  <2>3. n \in 1..Len(gs)
    BY <1>1
  <2> QED BY <1>1, <2>1, <2>2, <2>3, SameCall DEF InProgress
<1>3. /\ Key(gs[n]) = Key(f) /\ gs[n].result = f.result
      /\ \A i \in InProgress(fs) : Key(gs[i]) = Key(fs[i]) /\ gs[i].result = fs[i].result
  BY <1>1, SameCall DEF InProgress
<1>4. \A i \in InProgress(fs) : Key(fs[i]) \in DOMAIN mm /\ Key(fs[i]) # Key(f)
  BY DEF MemoFits
<1>5. \A i \in InProgress(gs) : /\ Key(gs[i]) \in DOMAIN nn
                                /\ nn[Key(gs[i])].cursor = gs[i].result
  BY <1>2, <1>3, <1>4 DEF MemoFits
<1>6. \A i, j \in InProgress(gs) : Key(gs[i]) = Key(gs[j]) => i = j
  BY <1>2, <1>3, <1>4 DEF MemoFits
<1>7. \A k \in DOMAIN nn : \E i \in InProgress(gs) : Key(gs[i]) = k
  BY <1>2, <1>3 DEF MemoFits
<1> QED BY <1>5, <1>6, <1>7 DEF MemoFits

\* A call is over, and its entry is gone.
LEMMA MemoFitsOver ==
    ASSUME NEW fs, NEW gs, NEW mm, NEW nn, MemoFits(fs, mm), Lowered(fs, gs),
           fs[Len(fs)].t = "LRCall", DOMAIN nn = DOMAIN mm \ {Key(fs[Len(fs)])},
           \A k \in DOMAIN nn : nn[k] = mm[k]
    PROVE  MemoFits(gs, nn)
<1> DEFINE n == Len(fs)
<1>1. n \in Nat \ {0} /\ Len(gs) = n - 1 /\ \A i \in 1..n - 1 : SameFrame(fs[i], gs[i])
  BY DEF Lowered
<1>2. n \in InProgress(fs) /\ InProgress(gs) = InProgress(fs) \ {n}
  <2>1. n \in 1..n /\ n \notin 1..n - 1
        /\ \A i \in 1..n : i \in 1..n - 1 \/ i = n
    BY <1>1
  <2>2. \A i \in 1..n - 1 : i \in 1..n
    BY <1>1
  <2> QED BY <1>1, <2>1, <2>2, SameCall DEF InProgress
<1>3. \A i \in InProgress(gs) : Key(gs[i]) = Key(fs[i]) /\ gs[i].result = fs[i].result
  BY <1>1, <1>2, SameCall DEF InProgress
<1>4. \A i \in InProgress(gs) : Key(fs[i]) # Key(fs[n])
  BY <1>2 DEF MemoFits
<1>5. \A i \in InProgress(gs) : /\ Key(gs[i]) \in DOMAIN nn
                                /\ nn[Key(gs[i])].cursor = gs[i].result
  BY <1>2, <1>3, <1>4 DEF MemoFits
<1>6. \A i, j \in InProgress(gs) : Key(gs[i]) = Key(gs[j]) => i = j
  BY <1>2, <1>3 DEF MemoFits
<1>7. \A k \in DOMAIN nn : \E i \in InProgress(gs) : Key(gs[i]) = k
  BY <1>2, <1>3 DEF MemoFits
<1> QED BY <1>5, <1>6, <1>7 DEF MemoFits

\* An iteration of the call on top leaves its result in the frame and the entry.
LEMMA MemoFitsGrown ==
    ASSUME NEW fs, NEW gs, NEW mm, NEW nn, MemoFits(fs, mm), Len(gs) = Len(fs),
           Len(fs) \in Nat \ {0},
           \A i \in 1..Len(fs) : i # Len(fs) => gs[i] = fs[i],
           fs[Len(fs)].t = "LRCall", gs[Len(fs)].t = "LRCall",
           Key(gs[Len(fs)]) = Key(fs[Len(fs)]),
           DOMAIN nn = DOMAIN mm, nn[Key(fs[Len(fs)])].cursor = gs[Len(fs)].result,
           \A k \in DOMAIN mm : k # Key(fs[Len(fs)]) => nn[k] = mm[k]
    PROVE  MemoFits(gs, nn)
<1> DEFINE n == Len(fs)
<1>1. InProgress(gs) = InProgress(fs) /\ n \in InProgress(fs)
  BY DEF InProgress
<1>2. \A i \in InProgress(fs) : Key(gs[i]) = Key(fs[i]) /\ (i # n => gs[i] = fs[i])
  BY DEF InProgress
<1>3. \A i \in InProgress(fs) : i # n => Key(fs[i]) # Key(fs[n])
  BY <1>1 DEF MemoFits
<1>4. \A i \in InProgress(gs) : /\ Key(gs[i]) \in DOMAIN nn
                                /\ nn[Key(gs[i])].cursor = gs[i].result
  BY <1>1, <1>2, <1>3 DEF MemoFits
<1>5. \A i, j \in InProgress(gs) : Key(gs[i]) = Key(gs[j]) => i = j
  BY <1>1, <1>2 DEF MemoFits
<1>6. \A k \in DOMAIN nn : \E i \in InProgress(gs) : Key(gs[i]) = k
  BY <1>1, <1>2 DEF MemoFits
<1> QED BY <1>4, <1>5, <1>6 DEF MemoFits

-----------------------------------------------------------------------------
(***************************************************************************)
(* The machine at an instruction.                                          *)
(***************************************************************************)
\* What is known of every state.
LEMMA Known ==
    ASSUME ProgramsFitFrames, IInv, FInv
    PROVE  /\ stack \in Stack /\ stack.frames \in Seq(Frame) /\ Len(stack.frames) \in Nat
           /\ Shapes \subseteq Nat \X Shape /\ Respects(prog, Shapes)
           /\ FramesFit(Shapes, stack.frames) /\ MemoFits(stack.frames, memo)
           /\ HasFrame => /\ Len(stack.frames) \in Nat \ {0} /\ Top(stack) \in Frame
                          /\ Top(stack) = stack.frames[Len(stack.frames)]
<1>1. stack \in Stack /\ stack.frames \in Seq(Frame) /\ Len(stack.frames) \in Nat
  BY StackFields DEF IInv, GoodStack
<1>2. Respects(prog, Shapes)
  BY DEF FInv, ProgramsFitFrames, FitsFrames, Shapes
<1>3. Shapes \subseteq Nat \X Shape
  <2>1. DOMAIN prog.code \subseteq Nat
    BY DEF IInv, JobOK, IsProgram
  <2> QED BY <1>2, <2>1 DEF Respects
<1>4. HasFrame => /\ Len(stack.frames) \in Nat \ {0} /\ Top(stack) \in Frame
                  /\ Top(stack) = stack.frames[Len(stack.frames)]
  BY <1>1, PopFrames DEF HasFrame, Height
<1> QED BY <1>1, <1>2, <1>3, <1>4 DEF FInv

\* The instruction is met with shape s.
At(s) ==
    /\ s \in Shape /\ pc \in DOMAIN Code /\ Matches(stack.frames, Len(stack.frames), s)
    /\ Expects(I.op, s) /\ Follows(prog, pc, s) \subseteq Shapes

LEMMA AtShape ==
    ASSUME ProgramsFitFrames, IInv, FInv, mode = "run"
    PROVE  \E s : At(s)
<1>1. PICK x \in Shapes : x[1] = pc /\ Matches(stack.frames, Len(stack.frames), x[2])
  BY DEF FInv, Fits
<1>2. /\ x[2] \in Shape /\ x[1] \in DOMAIN prog.code
      /\ Expects(prog.code[x[1]].op, x[2]) /\ Follows(prog, x[1], x[2]) \subseteq Shapes
  BY Known DEF Respects
<1> QED BY <1>1, <1>2 DEF At, I, Code

LEMMA FollowsFrom ==
    ASSUME NEW s, At(s)
    PROVE  /\ I.op \in Steps => <<pc + 1, s>> \in Shapes
           /\ I.op \in {"choice", "choicePred"} =>
                 <<pc + 1, Append(s, "Backtracking")>> \in Shapes /\ <<I.to, s>> \in Shapes
           /\ I.op \in {"jump", "partialCommit", "capPartialCommit"} => <<I.to, s>> \in Shapes
           /\ I.op \in {"commit", "backCommit", "capCommit", "capBackCommit"} =>
                 <<I.to, Lower(s)>> \in Shapes
           /\ I.op = "call" => <<I.to, <<"Call">>>> \in Shapes
           /\ I.op = "callLR" => <<I.to, <<"LRCall">>>> \in Shapes
           /\ I.op = "capBegin" => <<pc + 1, Append(s, "Capture")>> \in Shapes
           /\ I.op = "capEnd" => <<pc + 1, Lower(s)>> \in Shapes
           /\ I.op = "throw" /\ I.label \in DOMAIN Recovery =>
                 <<Recovery[I.label], <<"Call">>>> \in Shapes /\ <<pc + 1, s>> \in Shapes
<1>1. Follows(prog, pc, s) \subseteq Shapes /\ prog.code[pc] = I
  BY DEF At, I, Code
<1> HIDE DEF I
<1> QED BY <1>1 DEF Follows, Recovery

\* An instruction finds the frame it was meant for.
LEMMA FrameFound ==
    ASSUME ProgramsFitFrames, IInv, FInv
    PROVE  FrameKindExpected
<1>1. CASE mode = "run"
  <2> DEFINE n == Len(stack.frames)
  <2>1. PICK s : At(s)
    BY <1>1, AtShape
  <2>2. n \in Nat /\ Matches(stack.frames, n, s) /\ s \in Shape /\ Expects(I.op, s)
    BY <2>1, Known DEF At
  <2>3. ASSUME NEW t \in FrameType, TopIs(s, t) \/ (t \in CallTypes /\ s = <<t>>)
        PROVE  HasFrame /\ Top(stack).t = t
    <3>1. n \in Nat \ {0} /\ stack.frames[n].t = t
      <4>1. CASE t \in CallTypes /\ s = <<t>>
        BY <2>2, <4>1, MatchesCall
      <4>2. CASE TopIs(s, t) /\ t \notin CallTypes
        BY <2>2, <4>2, MatchesLower
      <4>3. CASE TopIs(s, t)
        <5>1. Len(s) \in Nat \ {0} /\ s[Len(s)] = t /\ Len(s) <= n
          BY <2>2, <4>3 DEF TopIs, Shape, Matches
        <5>2. stack.frames[n - Len(s) + Len(s)].t = s[Len(s)]
          BY <2>2, <5>1 DEF Matches
        <5> QED BY <2>2, <5>1, <5>2
      <4> QED BY <2>3, <4>1, <4>2, <4>3
    <3>2. HasFrame
      BY <3>1 DEF HasFrame
    <3> QED BY <3>1, <3>2, Known
  <2>4. /\ I.op \in Closers => HasFrame /\ Top(stack).t = "Backtracking"
        /\ I.op = "capEnd" => HasFrame /\ Top(stack).t = "Capture"
        /\ I.op \in {"return", "capReturn"} => HasFrame /\ Top(stack).t = "Call"
        /\ I.op \in {"returnLR", "capReturnLR"} => HasFrame /\ Top(stack).t = "LRCall"
    BY <2>2, <2>3 DEF Expects, FrameType, CallTypes
  <2> QED BY <2>4 DEF FrameKindExpected, Running, Closers
<1>2. CASE mode # "run"
  BY <1>2 DEF FrameKindExpected, Running
<1> QED BY <1>1, <1>2

LEMMA CallHasEntry ==
    ASSUME ProgramsFitFrames, IInv, FInv, HasFrame, Top(stack).t = "LRCall"
    PROVE  Key(Top(stack)) \in DOMAIN memo /\ memo[Key(Top(stack))].cursor = Top(stack).result
<1>1. Len(stack.frames) \in InProgress(stack.frames)
      /\ Top(stack) = stack.frames[Len(stack.frames)]
  BY Known DEF InProgress
<1> QED BY <1>1, Known DEF MemoFits

-----------------------------------------------------------------------------
(***************************************************************************)
(* What the machine goes on to.                                            *)
(***************************************************************************)
LEMMA GoesOn ==
    ASSUME NEW T, NEW a, NEW s, <<a, s>> \in T, NEW fs, NEW n, Matches(fs, n, s)
    PROVE  Fits(T, fs, n, a)
BY DEF Fits

LEMMA StepFits ==
    ASSUME FInv, prog' = prog, mode' \in {"run", "fail"},
           FramesFit(Shapes, stack'.frames), MemoFits(stack'.frames, memo'),
           mode' = "run" => Fits(Shapes, stack'.frames, Len(stack'.frames), pc')
    PROVE  FInv'
<1>1. Shapes' = Shapes
  BY DEF Shapes
<1>2. ~Done' /\ NoPanic'
  BY DEF Done, NoPanic
<1> QED BY <1>1, <1>2 DEF FInv, MatchLeavesNothing, Matched

\* The frames are kept; where the match goes on has the shape it had.
LEMMA KeptFits ==
    ASSUME ProgramsFitFrames, IInv, FInv, prog' = prog, mode' \in {"run", "fail"}, memo' = memo,
           Kept(stack.frames, stack'.frames),
           mode' = "run" => \E s : At(s) /\ <<pc', s>> \in Shapes
    PROVE  FInv'
<1>1. FramesFit(Shapes, stack'.frames) /\ MemoFits(stack'.frames, memo)
  BY Known, FramesFitKept, MemoFitsKept
<1>2. ASSUME NEW s, At(s), <<pc', s>> \in Shapes
      PROVE  Fits(Shapes, stack'.frames, Len(stack'.frames), pc')
  <2>1. /\ Len(stack'.frames) = Len(stack.frames)
        /\ \A i \in 1..Len(stack.frames) : stack'.frames[i].t = stack.frames[i].t
    BY DEF Kept, SameFrame
  <2>2. Matches(stack'.frames, Len(stack.frames), s)
    BY <1>2, <2>1, Known, MatchesFewer DEF At
  <2> QED BY <1>2, <2>1, <2>2, GoesOn
<1> QED BY <1>1, <1>2, StepFits

\* A frame that is not a left-recursive call is put on.
LEMMA RaisedFits ==
    ASSUME ProgramsFitFrames, IInv, FInv, prog' = prog, mode' = "run", memo' = memo,
           NEW f \in Frame, Raised(stack.frames, stack'.frames, f), f.t # "LRCall",
           NEW s, At(s), f.t # "Capture" => <<f.pc, s>> \in Shapes,
           <<pc', Append(s, f.t)>> \in Shapes \/ (f.t = "Call" /\ <<pc', <<"Call">>>> \in Shapes)
    PROVE  FInv'
<1> DEFINE fs == stack.frames
           gs == stack'.frames
           n == Len(stack.frames)
<1>1. n \in Nat /\ Len(gs) = n + 1 /\ gs[n + 1].t = f.t /\ f.t \in FrameType
  BY Known, FrameFields DEF Raised, SameFrame
<1>2. s \in Shape /\ Matches(fs, n, s)
  BY DEF At
<1>3. FramesFit(Shapes, gs)
  <2>1. f.t # "Capture" => Fits(Shapes, fs, n, f.pc)
    BY <1>2, GoesOn
  <2> QED BY <2>1, Known, FramesFitRaised
<1>4. MemoFits(gs, memo')
  BY Known, MemoFitsRaised
<1>5. Fits(Shapes, gs, n + 1, pc')
  <2>1. CASE <<pc', Append(s, f.t)>> \in Shapes
    <3>1. Matches(gs, n + 1, Append(s, f.t))
      BY <1>1, <1>2, MatchesRaised
    <3> QED BY <2>1, <3>1, GoesOn
  <2>2. CASE f.t = "Call" /\ <<pc', <<"Call">>>> \in Shapes
    <3>1. Matches(gs, n + 1, <<"Call">>)
      BY <1>1, <2>2, MatchesCall DEF CallTypes
    <3> QED BY <2>2, <3>1, GoesOn
  <2> QED BY <2>1, <2>2
<1> QED BY <1>1, <1>3, <1>4, <1>5, StepFits

\* The frame on top is taken off, and the match goes on below.
LEMMA FitsBelow ==
    ASSUME ProgramsFitFrames, IInv, FInv, HasFrame, NEW gs, Lowered(stack.frames, gs)
    PROVE  /\ FramesFit(Shapes, gs) /\ Len(gs) \in Nat
           /\ Top(stack).t # "LRCall" => MemoFits(gs, memo)
           /\ Top(stack).t # "Capture" => Fits(Shapes, gs, Len(gs), Top(stack).pc)
           /\ \A s : At(s) /\ ~(Top(stack).t \in CallTypes) /\ TopIs(s, Top(stack).t)
                     => Matches(gs, Len(gs), Lower(s))
<1> DEFINE fs == stack.frames
           n == Len(stack.frames)
<1>1. /\ n \in Nat \ {0} /\ Top(stack) = fs[n] /\ n - 1 \in Nat /\ Len(gs) = n - 1
      /\ \A i \in 1..n - 1 : SameFrame(fs[i], gs[i])
  BY Known DEF Lowered
<1>2. FramesFit(Shapes, gs)
  BY Known, FramesFitLowered
<1>3. Top(stack).t # "LRCall" => MemoFits(gs, memo)
  BY <1>1, Known, MemoFitsLowered
<1>4. \A i \in 1..n - 1 : gs[i].t = fs[i].t
  BY <1>1 DEF SameFrame
<1>5. ASSUME Top(stack).t # "Capture" PROVE Fits(Shapes, gs, n - 1, Top(stack).pc)
  <2>1. FrameFits(Shapes, fs, n)
    BY <1>1, Known DEF FramesFit
  <2>2. Fits(Shapes, fs, n - 1, Top(stack).pc)
    BY <1>1, <1>5, <2>1 DEF FrameFits
  <2> QED BY <1>1, <1>4, <2>2, Known, FitsFewer
<1>6. ASSUME NEW s, At(s), ~(Top(stack).t \in CallTypes), TopIs(s, Top(stack).t)
      PROVE  Matches(gs, n - 1, Lower(s))
  <2>1. Lower(s) \in Shape /\ Matches(fs, n - 1, Lower(s))
    BY <1>1, <1>6, MatchesLower DEF At
  <2> QED BY <1>1, <1>4, <2>1, MatchesFewer
<1> QED BY <1>1, <1>2, <1>3, <1>5, <1>6

-----------------------------------------------------------------------------
(***************************************************************************)
(* The actions.                                                            *)
(***************************************************************************)
LEMMA InitFits ==
    ASSUME ProgramsFitFrames, Init
    PROVE  FInv
BY DEF Init, FInv, FramesFit, MemoFits, InProgress, EmptyStack, NoPanic, MatchLeavesNothing,
       Matched, Done

LEMMA MatchRuleFits ==
    ASSUME ProgramsFitFrames, IInv, FInv,
           NEW in, NEW addr \in {0} \cup prog.rules, MatchRule(in, addr)
    PROVE  FInv'
<1> DEFINE f == CallFrame(HaltAddress)
<1>1. /\ prog' = prog /\ mode' = "run" /\ memo' = <<>> /\ stack' = StartStack(addr)
      /\ pc' = IF addr = 0 THEN FirstAddress ELSE addr
  BY DEF MatchRule
<1>2. Starts(prog) \subseteq Shapes /\ Shapes \subseteq Nat \X Shape
  BY Known DEF Respects
<1>3. CASE addr = 0
  <2>1. stack'.frames = <<>> /\ Len(stack'.frames) = 0
    BY <1>1, <1>3 DEF StartStack, EmptyStack
  <2>2. FramesFit(Shapes, stack'.frames) /\ MemoFits(stack'.frames, memo')
    BY <1>1, <2>1 DEF FramesFit, MemoFits, InProgress
  <2>3. <<pc', <<>>>> \in Shapes
    BY <1>1, <1>2, <1>3 DEF Starts
  <2>4. Matches(stack'.frames, 0, <<>>)
    BY DEF Matches
  <2> QED BY <1>1, <2>1, <2>2, <2>3, <2>4, GoesOn, StepFits
<1>4. CASE addr # 0
  <2>1. EmptyStack \in Stack /\ EmptyStack.frames = <<>> /\ f \in Frame
    BY CallFrameOK DEF EmptyStack, Stack, HaltAddress
  <2>2. f.t = "Call" /\ f.pc = HaltAddress
    BY DEF CallFrame, EmptyFrame
  <2>3. stack' = Push(EmptyStack, f)
    BY <1>1, <1>4 DEF StartStack
  <2> HIDE DEF f
  <2>4. Raised(<<>>, stack'.frames, f)
    BY <2>1, <2>3, PushFrames
  <2>5. Matches(<<>>, 0, <<>>) /\ <<HaltAddress, <<>>>> \in Shapes
    BY <1>2 DEF Matches, Starts
  <2>6. FramesFit(Shapes, stack'.frames)
    <3>1. FramesFit(Shapes, <<>>) /\ Len(<<>>) = 0
      BY DEF FramesFit
    <3>2. Fits(Shapes, <<>>, 0, f.pc)
      BY <2>2, <2>5, GoesOn
    <3> QED BY <1>2, <2>2, <2>4, <3>1, <3>2, FramesFitRaised
  <2>7. MemoFits(stack'.frames, memo')
    <3>1. MemoFits(<<>>, <<>>)
      BY DEF MemoFits, InProgress
    <3> QED BY <1>1, <2>2, <2>4, <3>1, MemoFitsRaised
  <2>8. Len(stack'.frames) = 0 + 1 /\ stack'.frames[0 + 1].t = "Call"
    BY <2>2, <2>4 DEF Raised, SameFrame
  <2>9. Fits(Shapes, stack'.frames, 0 + 1, pc')
    <3>1. <<pc', <<"Call">>>> \in Shapes
      BY <1>1, <1>2, <1>4 DEF Starts
    <3>2. Matches(stack'.frames, 0 + 1, <<"Call">>)
      BY <2>8, MatchesCall DEF CallTypes
    <3> QED BY <3>1, <3>2, GoesOn
  <2> QED BY <1>1, <2>6, <2>7, <2>8, <2>9, StepFits
<1> QED BY <1>3, <1>4

\* Instructions that keep the frames, and what fails at an instruction.
LEMMA KeepingFits ==
    ASSUME ProgramsFitFrames, IInv, FInv,
           MatchChar \/ MismatchChar \/ Span \/ Jump \/ ThrowInPredicate \/ CapTerm
           \/ CapBeginOffset \/ CapEndOffset \/ CallLRFail \/ CallLRMemo \/ PartialCommit
    PROVE  FInv'
<1>1. prog' = prog /\ memo' = memo /\ mode' \in {"run", "fail"}
  BY DEF MatchChar, MismatchChar, Span, Jump, ThrowInPredicate, CapTerm, CapBeginOffset,
     CapEndOffset, CallLRFail, CallLRMemo, PartialCommit, Running, Fail, job
<1>2. stack \in Stack
  BY Known
<1>3. Kept(stack.frames, stack'.frames)
  <2>1. CASE stack' = stack
    BY <2>1, KeptItself
  <2>2. CASE CapTerm \/ CapEndOffset \/ CallLRMemo
    <3>1. stack' = stack \/ \E ids : stack' = Capture(stack, ids)
      BY <2>2 DEF CapTerm, CapEndOffset, CallLRMemo, CaptureText
    <3> QED BY <1>2, <2>1, <3>1, CaptureFrames
  <2>3. CASE PartialCommit
    <3> DEFINE f == Top(stack)
               g == [f EXCEPT !.cursor = cursor]
               s == SetTop(stack, g)
               n == Len(tree)
               m == Len(input)
    <3>1. HasFrame /\ f.t = "Backtracking" /\ f \in Frame
      BY <2>3, FrameFound, Known DEF PartialCommit, Running, FrameKindExpected
    <3>2. SameFrame(f, g)
      BY <3>1 DEF SameFrame, Frame
    <3>3. /\ n \in Nat /\ m \in Nat /\ cursor \in Nat /\ cursor <= m
          /\ GoodStack(stack, n, m) /\ FrameWithin(f, m) /\ f.lo <= f.hi /\ f.hi <= Len(stack.arena)
      BY <3>1, Lengths, TopFacts DEF IInv, CursorOK
    <3>4. g \in Frame /\ FrameWithin(g, m) /\ g.lo = f.lo /\ g.hi = f.hi
      <4> HIDE DEF f
      <4> QED BY <3>1, <3>3, WithCursor DEF FrameWithin
    <3>5. stack' = IF I.op = "capPartialCommit" THEN CollectCaptures(s) ELSE s
      BY <2>3 DEF PartialCommit
    <3> HIDE DEF g
    <3>6. Kept(stack.frames, s.frames) /\ GoodStack(s, n, m) /\ s.frames # <<>>
      BY <1>2, <3>1, <3>2, <3>3, <3>4, SetTopFrames, SetTopGood DEF HasFrame
    <3> HIDE DEF s
    <3>7. Kept(s.frames, CollectCaptures(s).frames)
      BY <3>3, <3>6, CollectFrames
    <3> QED BY <3>5, <3>6, <3>7, KeptTwice
  <2> QED
    BY <2>1, <2>2, <2>3 DEF MatchChar, MismatchChar, Span, Jump, ThrowInPredicate,
       CapBeginOffset, CallLRFail
<1>4. ASSUME mode' = "run" PROVE \E s : At(s) /\ <<pc', s>> \in Shapes
  <2>1. mode = "run" /\ ~(MismatchChar \/ ThrowInPredicate \/ CallLRFail)
    BY <1>4 DEF MatchChar, MismatchChar, Span, Jump, ThrowInPredicate, CapTerm,
       CapBeginOffset, CapEndOffset, CallLRFail, CallLRMemo, PartialCommit, Running, Fail
  <2>2. PICK s : At(s)
    BY <2>1, AtShape
  <2>3. CASE Jump \/ PartialCommit
    BY <2>2, <2>3, FollowsFrom DEF Jump, PartialCommit, Running, Goto
  <2>4. CASE MatchChar \/ Span \/ CapTerm \/ CapBeginOffset \/ CapEndOffset \/ CallLRMemo
    <3>1. I.op \in Steps /\ pc' = pc + 1
      BY <2>4 DEF MatchChar, Span, CapTerm, CapBeginOffset, CapEndOffset, CallLRMemo,
         Running, Steps, Advance
    <3> QED BY <2>2, <3>1, FollowsFrom
  <2> QED BY <2>1, <2>2, <2>3, <2>4
<1> QED BY <1>1, <1>3, <1>4, KeptFits

\* Instructions that put a frame on.
LEMMA RaisingFits ==
    ASSUME ProgramsFitFrames, IInv, FInv, Choice \/ Call \/ ThrowRecover \/ CapBegin
    PROVE  FInv'
<1> USE DEF Running
<1>1. prog' = prog /\ memo' = memo /\ mode' = "run" /\ mode = "run"
  BY DEF Choice, Call, ThrowRecover, CapBegin, job
<1>2. PICK s : At(s)
  BY <1>1, AtShape
<1>3. stack \in Stack /\ JobOK /\ pc \in DOMAIN Code /\ pc + 1 \in Nat /\ cursor \in Nat
      /\ cursor <= Len(input) /\ Len(input) \in Nat
  BY <1>2, Known, Lengths DEF IInv, CursorOK, RegistersOK, At
<1>4. CASE Choice
  <2> DEFINE f == BacktrackFrame(I.to, cursor, I.op = "choicePred")
  <2>1. I.to \in Nat /\ I.op \in {"choice", "choicePred"}
    BY <1>3, <1>4, Operands DEF Choice, Jumps
  <2>2. f \in Frame
    BY <1>3, <2>1, BacktrackFrameOK
  <2>3. f.t = "Backtracking" /\ f.pc = I.to
    BY DEF BacktrackFrame, EmptyFrame
  <2>4. stack' = Push(stack, f) /\ pc' = pc + 1
    BY <1>4 DEF Choice, Advance
  <2> HIDE DEF f
  <2>5. Raised(stack.frames, stack'.frames, f)
    BY <1>3, <2>2, <2>4, PushFrames
  <2>6. <<f.pc, s>> \in Shapes /\ <<pc', Append(s, f.t)>> \in Shapes
    BY <1>2, <2>1, <2>3, <2>4, FollowsFrom
  <2> QED BY <1>1, <1>2, <2>2, <2>3, <2>5, <2>6, RaisedFits
<1>5. CASE Call \/ ThrowRecover
  <2> DEFINE f == CallFrame(pc + 1)
  <2>1. f \in Frame
    BY <1>3, CallFrameOK
  <2>2. f.t = "Call" /\ f.pc = pc + 1
    BY DEF CallFrame, EmptyFrame
  <2>3. stack' = Push(stack, f)
    BY <1>5 DEF Call, ThrowRecover
  <2> HIDE DEF f
  <2>4. Raised(stack.frames, stack'.frames, f)
    BY <1>3, <2>1, <2>3, PushFrames
  <2>5. <<pc + 1, s>> \in Shapes /\ <<pc', <<"Call">>>> \in Shapes
    BY <1>2, <1>5, FollowsFrom DEF Call, ThrowRecover, Goto, Steps
  <2> QED BY <1>1, <1>2, <2>1, <2>2, <2>4, <2>5, RaisedFits
<1>6. CASE CapBegin
  <2> DEFINE f == CaptureFrame(I.id, cursor)
  <2>1. I.id \in NameOrNone /\ I.op = "capBegin"
    BY <1>3, <1>6, Operands DEF CapBegin
  <2>2. f \in Frame
    BY <1>3, <2>1, CaptureFrameOK
  <2>3. f.t = "Capture"
    BY DEF CaptureFrame, EmptyFrame
  <2>4. stack' = Push(stack, f) /\ pc' = pc + 1
    BY <1>6 DEF CapBegin, Advance
  <2> HIDE DEF f
  <2>5. Raised(stack.frames, stack'.frames, f)
    BY <1>3, <2>2, <2>4, PushFrames
  <2>6. <<pc', Append(s, f.t)>> \in Shapes
    BY <1>2, <2>1, <2>3, <2>4, FollowsFrom
  <2> QED BY <1>1, <1>2, <2>2, <2>3, <2>5, <2>6, RaisedFits
<1> QED BY <1>4, <1>5, <1>6

\* Instructions that take a frame off.
LEMMA LoweringFits ==
    ASSUME ProgramsFitFrames, IInv, FInv, Throwaway \/ Commit \/ Return \/ CapEnd
    PROVE  FInv'
<1> USE DEF Running
<1>1. prog' = prog /\ memo' = memo /\ mode' \in {"run", "fail"} /\ mode = "run"
  BY DEF Throwaway, Commit, Return, CapEnd, Fail, job
<1>2. PICK s : At(s)
  BY <1>1, AtShape
<1>3. stack \in Stack
  BY Known
<1>4. CASE Throwaway
  <2>1. mode' = "fail"
    BY <1>4 DEF Throwaway, Fail
  <2>2. CASE I.op = "failTwice"
    <3>1. HasFrame /\ Top(stack).t = "Backtracking" /\ stack' = Pop(stack)
      BY <1>4, <2>2, FrameFound DEF Throwaway, FrameKindExpected
    <3>2. Lowered(stack.frames, stack'.frames)
      BY <1>3, <3>1, PopFrames DEF HasFrame
    <3> QED BY <1>1, <2>1, <3>1, <3>2, FitsBelow, StepFits
  <2>3. CASE I.op # "failTwice"
    <3>1. stack' = stack
      BY <1>4, <2>3 DEF Throwaway
    <3> QED BY <1>1, <2>1, <3>1, KeptItself, KeptFits
  <2> QED BY <2>2, <2>3
<1>5. CASE Commit
  <2>1. HasFrame /\ Top(stack).t = "Backtracking" /\ pc' = I.to
        /\ I.op \in {"commit", "backCommit", "capCommit", "capBackCommit"}
    BY <1>5, FrameFound DEF Commit, FrameKindExpected, Goto
  <2>2. Lowered(stack.frames, stack'.frames)
    BY <1>3, <1>5, <2>1, PopFrames, PopAndCaptureFrames DEF Commit, HasFrame
  <2>3. TopIs(s, "Backtracking") /\ <<pc', Lower(s)>> \in Shapes
    BY <1>2, <2>1, FollowsFrom DEF At, Expects, Closers
  <2>4. Matches(stack'.frames, Len(stack'.frames), Lower(s))
    BY <1>2, <2>1, <2>2, <2>3, FitsBelow DEF CallTypes
  <2> QED BY <1>1, <2>1, <2>2, <2>3, <2>4, FitsBelow, GoesOn, StepFits
<1>6. CASE Return
  <2>1. HasFrame /\ Top(stack).t = "Call" /\ pc' = Top(stack).pc
    BY <1>6, FrameFound DEF Return, FrameKindExpected, Goto
  <2>2. Lowered(stack.frames, stack'.frames)
    BY <1>3, <1>6, <2>1, PopFrames, PopAndCaptureFrames DEF Return, HasFrame
  <2> QED BY <1>1, <2>1, <2>2, FitsBelow, StepFits
<1>7. CASE CapEnd
  <2> DEFINE r == Truncate(Pop(stack), Top(stack).lo)
  <2>1. HasFrame /\ Top(stack).t = "Capture" /\ pc' = pc + 1 /\ I.op = "capEnd"
        /\ \E ids : stack' = Capture(r, ids)
    BY <1>7, FrameFound DEF CapEnd, FrameKindExpected, Advance
  <2>2. Lowered(stack.frames, r.frames) /\ r \in Stack
    <3>1. GoodStack(r, Len(tree), Len(input))
      BY <2>1, Lengths, UnwoundGood DEF IInv, HasFrame
    <3> QED BY <1>3, <2>1, <3>1, UnwoundFrames DEF GoodStack, HasFrame
  <2> HIDE DEF r
  <2>3. Lowered(stack.frames, stack'.frames)
    BY <2>1, <2>2, CaptureFrames, KeptTwice
  <2>4. TopIs(s, "Capture") /\ <<pc', Lower(s)>> \in Shapes
    BY <1>2, <2>1, FollowsFrom DEF At, Expects
  <2>5. Matches(stack'.frames, Len(stack'.frames), Lower(s))
    BY <1>2, <2>1, <2>3, <2>4, FitsBelow DEF CallTypes
  <2> QED BY <1>1, <2>1, <2>3, <2>4, <2>5, FitsBelow, GoesOn, StepFits
<1> QED BY <1>4, <1>5, <1>6, <1>7

\* A left-recursive call begins.
LEMMA CallLRFirstFits ==
    ASSUME ProgramsFitFrames, IInv, FInv, CallLRFirst
    PROVE  FInv'
<1> DEFINE f == LRCallFrame(pc + 1, cursor, I.to, I.prec)
           n == Len(stack.frames)
<1>1. prog' = prog /\ mode' = "run" /\ mode = "run" /\ I.op = "callLR" /\ pc' = I.to
      /\ pc \in DOMAIN Code /\ stack' = Push(stack, f)
  BY DEF CallLRFirst, Running, Goto, job
<1>2. PICK s : At(s)
  BY <1>1, AtShape
<1>3. f \in Frame
  <2>1. pc + 1 \in Nat /\ cursor \in Nat /\ cursor <= Len(input) /\ Len(input) \in Nat
        /\ I.to \in Nat /\ I.prec \in Nat
    BY <1>1, Lengths, Operands DEF IInv, CursorOK, RegistersOK, Jumps
  <2> QED BY <2>1, LRCallFrameOK
<1>4. f.t = "LRCall" /\ f.pc = pc + 1 /\ f.addr = I.to /\ Key(f) = CallKey /\ f.result = LeftRec
  BY DEF LRCallFrame, EmptyFrame, Key, CallKey
<1> HIDE DEF f
<1>5. Raised(stack.frames, stack'.frames, f)
  BY <1>1, <1>3, Known, PushFrames
<1>6. <<f.pc, s>> \in Shapes /\ <<f.addr, <<"LRCall">>>> \in Shapes /\ pc' = f.addr
  BY <1>1, <1>2, <1>4, FollowsFrom DEF Steps
<1>7. FramesFit(Shapes, stack'.frames)
  <2>1. Fits(Shapes, stack.frames, n, f.pc)
    BY <1>2, <1>6, GoesOn DEF At
  <2> QED BY <1>5, <1>6, <2>1, Known, FramesFitRaised
<1>8. MemoFits(stack'.frames, memo')
  <2>1. /\ Key(f) \notin DOMAIN memo
        /\ memo' = MemoWith(Key(f), [cursor |-> LeftRec, prec |-> I.prec, captures |-> <<>>])
    BY <1>4 DEF CallLRFirst
  <2>2. /\ DOMAIN memo' = DOMAIN memo \cup {Key(f)} /\ memo'[Key(f)].cursor = f.result
        /\ \A k \in DOMAIN memo : memo'[k] = memo[k]
    BY <1>4, <2>1 DEF MemoWith
  <2> QED BY <1>4, <1>5, <2>1, <2>2, Known, MemoFitsBegun
<1>9. Fits(Shapes, stack'.frames, Len(stack'.frames), pc')
  <2>1. n \in Nat /\ Len(stack'.frames) = n + 1 /\ stack'.frames[n + 1].t = "LRCall"
    BY <1>4, <1>5, Known DEF Raised, SameFrame
  <2>2. Matches(stack'.frames, n + 1, <<"LRCall">>)
    BY <2>1, MatchesCall DEF CallTypes
  <2> QED BY <1>6, <2>1, <2>2, GoesOn
<1> QED BY <1>1, <1>7, <1>8, <1>9, StepFits

\* An iteration of a left-recursive call ends further on, and the next begins.
LEMMA ReturnLRGrowFits ==
    ASSUME ProgramsFitFrames, IInv, FInv, ReturnLRGrow
    PROVE  FInv'
<1> DEFINE f == Top(stack)
           fs == stack.frames
           gs == stack'.frames
           n == Len(stack.frames)
<1>1. /\ HasFrame /\ f.t = "LRCall" /\ Key(f) \in DOMAIN memo
      /\ prog' = prog /\ mode' = "run" /\ pc' = f.addr
  BY DEF ReturnLRGrow, LRReady, Goto, Running, job
<1>2. n \in Nat \ {0} /\ f \in Frame /\ f = fs[n] /\ stack \in Stack /\ fs # <<>>
  BY <1>1, Known DEF HasFrame
<1>3. PICK g : /\ gs = SetTop(stack, g).frames
               /\ g.t = f.t /\ g.pc = f.pc /\ g.addr = f.addr /\ g.cursor = f.cursor
               /\ g.result = cursor
  <2>1. CASE I.op = "capReturnLR"
    <3> DEFINE g == [f EXCEPT !.result = cursor, !.hi = f.lo]
    <3>1. stack' = Truncate(SetTop(stack, g), f.lo)
      BY <2>1 DEF ReturnLRGrow
    <3>2. gs = SetTop(stack, g).frames
      BY <1>2, <3>1 DEF Truncate, SetTop, Stack
    <3>3. g.t = f.t /\ g.pc = f.pc /\ g.addr = f.addr /\ g.cursor = f.cursor /\ g.result = cursor
      <4> HIDE DEF f
      <4> QED BY <1>2 DEF Frame
    <3> HIDE DEF g
    <3> QED BY <3>2, <3>3
  <2>2. CASE I.op # "capReturnLR"
    <3> DEFINE g == [f EXCEPT !.result = cursor]
    <3>1. stack' = SetTop(stack, g)
      BY <2>2 DEF ReturnLRGrow
    <3>2. g.t = f.t /\ g.pc = f.pc /\ g.addr = f.addr /\ g.cursor = f.cursor /\ g.result = cursor
      <4> HIDE DEF f
      <4> QED BY <1>2 DEF Frame
    <3> HIDE DEF g
    <3> QED BY <3>1, <3>2
  <2> QED BY <2>1, <2>2
<1>4. /\ Len(gs) = n /\ gs[n] = g
      /\ \A i \in 1..n : i # n => gs[i] = fs[i]
  BY <1>2, <1>3, SetTopFrames
<1>5. memo' = MemoWith(Key(f), [cursor |-> cursor, prec |-> f.prec,
                                captures |-> memo'[Key(f)].captures])
  BY DEF ReturnLRGrow, MemoWith
<1>6. /\ DOMAIN memo' = DOMAIN memo /\ memo'[Key(f)].cursor = cursor
      /\ \A k \in DOMAIN memo : k # Key(f) => memo'[k] = memo[k]
  BY <1>1, <1>5 DEF MemoWith
<1> HIDE DEF f, fs, gs
<1>7. MemoFits(gs, memo')
  <2>1. Key(g) = Key(f)
    BY <1>3 DEF Key
  <2> QED BY <1>1, <1>2, <1>3, <1>4, <1>6, <2>1, Known, MemoFitsGrown DEF fs
<1>8. \A i \in 1..n : gs[i].t = fs[i].t /\ gs[i].pc = fs[i].pc /\ gs[i].addr = fs[i].addr
  BY <1>2, <1>3, <1>4
<1>9. FramesFit(Shapes, gs)
  <2> SUFFICES ASSUME NEW i \in 1..n PROVE FrameFits(Shapes, gs, i)
    BY <1>4 DEF FramesFit
  <2>1. FrameFits(Shapes, fs, i)
    BY Known DEF FramesFit, fs
  <2>2. i - 1 \in Nat /\ \A j \in 1..i - 1 : gs[j].t = fs[j].t
    BY <1>2, <1>8
  <2>3. gs[i].t # "Capture" => Fits(Shapes, gs, i - 1, gs[i].pc)
    BY <1>8, <2>1, <2>2, Known, FitsFewer DEF FrameFits
  <2>4. gs[i].t = "LRCall" => <<gs[i].addr, <<"LRCall">>>> \in Shapes
    BY <1>8, <2>1 DEF FrameFits
  <2> QED BY <2>3, <2>4 DEF FrameFits
<1>10. Fits(Shapes, gs, Len(gs), pc')
  <2>1. FrameFits(Shapes, gs, n) /\ gs[n].t = "LRCall" /\ gs[n].addr = pc'
    BY <1>1, <1>2, <1>3, <1>4, <1>9 DEF FramesFit
  <2>2. Matches(gs, n, <<"LRCall">>)
    <3>1. n - 1 \in Nat /\ n - 1 + 1 = n
      BY <1>2
    <3> QED BY <2>1, <3>1, MatchesCall DEF CallTypes
  <2> QED BY <1>4, <2>1, <2>2, GoesOn DEF FrameFits
<1> QED BY <1>1, <1>7, <1>9, <1>10, StepFits DEF gs

\* The fail path, and the end of a left-recursive call.
LEMMA UnwindingFits ==
    ASSUME ProgramsFitFrames, IInv, FInv,
           ReturnLRDone \/ FailResume \/ FailResumeLR \/ FailPop
    PROVE  FInv'
<1> DEFINE f == Top(stack)
           r == Truncate(Pop(stack), Top(stack).lo)
<1>1. prog' = prog /\ mode' \in {"run", "fail"} /\ HasFrame
  BY DEF ReturnLRDone, FailResume, FailResumeLR, FailPop, Running, LRReady, job
<1>2. stack \in Stack /\ stack.frames # <<>> /\ f = stack.frames[Len(stack.frames)]
  BY <1>1, Known DEF HasFrame
<1>3. Lowered(stack.frames, stack'.frames)
  <2>1. Lowered(stack.frames, Pop(stack).frames)
    BY <1>2, PopFrames
  <2>2. Lowered(stack.frames, r.frames) /\ r \in Stack
    <3>1. GoodStack(r, Len(tree), Len(input))
      BY <1>2, Lengths, UnwoundGood DEF IInv
    <3> QED BY <1>2, <3>1, UnwoundFrames DEF GoodStack
  <2>3. stack' = Pop(stack) \/ stack' = r \/ \E ids : stack' = Capture(r, ids)
    BY DEF ReturnLRDone, FailResume, FailResumeLR, FailPop, Unwound
  <2> HIDE DEF r
  <2> QED BY <2>1, <2>2, <2>3, CaptureFrames, KeptTwice
<1>4. /\ f.t = "LRCall" => memo' = MemoWithout(Key(f))
      /\ f.t # "LRCall" => memo' = memo
      /\ mode' = "run" => f.t # "Capture" /\ pc' = f.pc
  BY DEF ReturnLRDone, FailResume, FailResumeLR, FailPop, LRReady, Goto, Running
<1> HIDE DEF f
<1>5. MemoFits(stack'.frames, memo')
  <2>1. CASE f.t = "LRCall"
    <3>1. DOMAIN memo' = DOMAIN memo \ {Key(f)} /\ \A k \in DOMAIN memo' : memo'[k] = memo[k]
      BY <1>4, <2>1 DEF MemoWithout
    <3> QED BY <1>2, <1>3, <2>1, <3>1, Known, MemoFitsOver
  <2>2. CASE f.t # "LRCall"
    BY <1>1, <1>3, <1>4, <2>2, FitsBelow DEF f
  <2> QED BY <2>1, <2>2
<1>6. mode' = "run" => Fits(Shapes, stack'.frames, Len(stack'.frames), pc')
  BY <1>1, <1>3, <1>4, FitsBelow DEF f
<1> QED BY <1>1, <1>3, <1>5, <1>6, FitsBelow, StepFits

\* The end of a match.
LEMMA EndingFits ==
    ASSUME ProgramsFitFrames, IInv, FInv, Halt \/ ThrowError \/ FailEmpty
    PROVE  FInv'
<1>1. UNCHANGED <<prog, stack, memo>> /\ mode' = "done"
  BY DEF Halt, ThrowError, FailEmpty, Finish, job
<1>2. MatchLeavesNothing'
  <2>1. CASE Halt
    <3>1. mode = "run" /\ I.op = "halt"
      BY <2>1 DEF Halt, Running
    <3>2. PICK s : At(s)
      BY <3>1, AtShape
    <3>3. s = <<>>
      BY <3>1, <3>2 DEF At, Expects
    <3>4. Len(stack.frames) = 0
      BY <3>2, <3>3, Known, MatchesNothing DEF At
    <3>5. stack.frames = <<>> /\ InProgress(stack.frames) = {}
      BY <3>4, Known DEF InProgress
    <3>6. memo = <<>>
      <4>1. DOMAIN memo = {}
        BY <3>5, Known DEF MemoFits
      <4>2. memo = [k \in {} |-> memo[k]]
        BY <4>1 DEF IInv, MemoOK
      <4> QED BY <4>2
    <3> QED BY <1>1, <3>5, <3>6 DEF MatchLeavesNothing
  <2>2. CASE ThrowError \/ FailEmpty
    BY <2>2 DEF ThrowError, FailEmpty, Finish, Outcome, MatchLeavesNothing, Matched
  <2> QED BY <2>1, <2>2
<1>3. Shapes' = Shapes /\ NoPanic'
  BY <1>1 DEF Shapes, NoPanic
<1> QED BY <1>1, <1>2, <1>3 DEF FInv

\* There is nothing for the Go runtime to stop with a panic.
LEMMA NoFault ==
    ASSUME ProgramsFitFrames, IInv, FInv
    PROVE  ~Panic
<1> SUFFICES ASSUME Panic PROVE FALSE
  OBVIOUS
<1>1. mode = "run" /\ Faults
  BY DEF Panic
<1>2. PICK s : At(s)
  BY <1>1, AtShape
<1>3. \/ I.op \in Poppers /\ ~HasFrame
      \/ I.op \in {"returnLR", "capReturnLR"} /\ ~LRReady
  BY <1>1, <1>2 DEF Faults, At
<1>4. pc \in DOMAIN Code
  BY <1>2 DEF At
<1>5. /\ I.op \in Poppers => HasFrame
      /\ I.op \in {"returnLR", "capReturnLR"} => HasFrame /\ Top(stack).t = "LRCall"
  BY <1>1, <1>4, FrameFound DEF FrameKindExpected, Running, Poppers
<1> QED BY <1>3, <1>5, CallHasEntry DEF LRReady

LEMMA StepFitsFrames ==
    ASSUME ProgramsFitFrames, IInv, FInv, Step
    PROVE  FInv'
BY KeepingFits, RaisingFits, LoweringFits, CallLRFirstFits, ReturnLRGrowFits, UnwindingFits,
   EndingFits, NoFault DEF Step

LEMMA NextFits ==
    ASSUME ProgramsFitFrames, IInv, FInv, [Next]_vars
    PROVE  FInv'
<1>1. CASE Step
  BY <1>1, StepFitsFrames
<1>2. CASE \E in \in Inputs, addr \in {0} \cup prog.rules : MatchRule(in, addr)
  BY <1>2, MatchRuleFits
<1>3. CASE UNCHANGED vars
  BY <1>3 DEF vars, FInv, Shapes, NoPanic, MatchLeavesNothing, Matched, Done
<1> QED BY <1>1, <1>2, <1>3 DEF Next

-----------------------------------------------------------------------------
\* What holds of every state of the machine on programs that fit their frames.
LEMMA FramesInvariant ==
    ASSUME ProgramsFitFrames
    PROVE  Spec => [](IInv /\ FInv)
<1>1. Init => IInv /\ FInv
  BY InitOK, InitFits
<1>2. (IInv /\ FInv) /\ [Next]_vars => (IInv /\ FInv)'
  BY NextOK, NextFits
<1> QED BY <1>1, <1>2, PTL DEF Spec

\* On every input, however it backtracks, an instruction that takes a frame
\* off finds the frame the compiler meant it for.
THEOREM FramesAreFound ==
    ASSUME ProgramsFitFrames
    PROVE  Spec => []FrameKindExpected
<1>1. IInv /\ FInv => FrameKindExpected
  BY FrameFound
<1> QED BY <1>1, FramesInvariant, PTL

\* The machine never stops with a Go panic: it never leaves the code, pops an
\* empty stack or misses the data of a left-recursive call.
THEOREM NeverPanics ==
    ASSUME ProgramsFitFrames
    PROVE  Spec => []NoPanic
<1>1. IInv /\ FInv => NoPanic
  BY DEF FInv
<1> QED BY <1>1, FramesInvariant, PTL

\* A match that succeeds ends with the stack and the memo table empty.
THEOREM NothingIsLeft ==
    ASSUME ProgramsFitFrames
    PROVE  Spec => []MatchLeavesNothing
<1>1. IInv /\ FInv => MatchLeavesNothing
  BY DEF FInv
<1> QED BY <1>1, FramesInvariant, PTL

\* Every left-recursive call in progress has its memo entry, of its own, with
\* the result of its last iteration.
THEOREM CallsHaveTheirEntries ==
    ASSUME ProgramsFitFrames
    PROVE  Spec => []LRFramesHaveMemo
<1>1. IInv /\ FInv => LRFramesHaveMemo
  BY DEF FInv, MemoFits, InProgress, LRFramesHaveMemo, Height
<1> QED BY <1>1, FramesInvariant, PTL

\* A step replaces the entry of a call in progress by a later one only.
LEMMA ResultGrows ==
    ASSUME ProgramsFitFrames, IInv, FInv, [Next]_vars, matches' = matches,
           NEW k \in DOMAIN memo \cap DOMAIN memo', memo'[k] # memo[k]
    PROVE  memo[k].cursor < memo'[k].cursor
<1>1. CASE ReturnLRGrow
  <2> DEFINE f == Top(stack)
  <2>1. /\ HasFrame /\ f.t = "LRCall" /\ Grew(f)
        /\ \E kept : memo' = MemoWith(Key(f), [cursor |-> cursor, prec |-> f.prec,
                                             captures |-> kept])
    BY <1>1 DEF ReturnLRGrow, LRReady
  <2>2. k = Key(f) /\ memo'[k].cursor = cursor
    BY <2>1 DEF MemoWith
  <2>3. memo[k].cursor = f.result
    BY <2>1, <2>2, CallHasEntry
  <2>4. f.result = LeftRec \/ cursor > f.result
    BY <2>1 DEF Grew
  <2>5. cursor \in Nat /\ f.result \in Nat \cup {LeftRec}
    BY <2>1, TopFacts DEF IInv, CursorOK
  <2> HIDE DEF f
  <2> QED BY <2>2, <2>3, <2>4, <2>5 DEF LeftRec
<1>2. CASE CallLRFirst
  <2>1. CallKey \notin DOMAIN memo /\ k \in DOMAIN memo
        /\ \E e : memo' = MemoWith(CallKey, e)
    BY <1>2 DEF CallLRFirst
  <2>2. memo'[k] = memo[k]
    BY <2>1 DEF MemoWith
  <2> QED BY <2>2
<1>3. CASE ReturnLRDone \/ FailResumeLR \/ FailPop
  <2>1. memo' = memo \/ \E c : memo' = MemoWithout(c)
    BY <1>3 DEF ReturnLRDone, FailResumeLR, FailPop
  <2>2. memo'[k] = memo[k]
    BY <2>1 DEF MemoWithout
  <2> QED BY <2>2
<1>4. CASE memo' = memo
  BY <1>4
<1>5. CASE \E in \in Inputs, addr \in {0} \cup prog.rules : MatchRule(in, addr)
  <2>1. matches' # matches
    BY <1>5 DEF MatchRule, IInv, ResultOK
  <2> QED BY <2>1
<1>6. ASSUME Step PROVE ReturnLRGrow \/ CallLRFirst \/ ReturnLRDone \/ FailResumeLR \/ FailPop
                       \/ memo' = memo
  BY <1>6 DEF Step, Halt, MatchChar, MismatchChar, Span, Throwaway, Choice, Commit,
     PartialCommit, Jump, Call, Return, ThrowInPredicate, ThrowRecover, ThrowError, CapBegin,
     CapEnd, CapTerm, CapBeginOffset, CapEndOffset, CallLRFail, CallLRMemo, FailResume,
     FailEmpty, Panic
<1> QED BY <1>1, <1>2, <1>3, <1>4, <1>5, <1>6 DEF Next, vars

\* The result of a left-recursive call in progress only grows, whatever is
\* called, fails or is backtracked over meanwhile.
THEOREM LRResultsGrow ==
    ASSUME ProgramsFitFrames
    PROVE  Spec => LRResultGrows
<1>1. IInv /\ FInv /\ [Next]_vars
      => [\A k \in DOMAIN memo \cap DOMAIN memo' :
            matches' = matches /\ memo'[k] # memo[k] => memo[k].cursor < memo'[k].cursor]_vars
  BY ResultGrows
<1> QED BY <1>1, FramesInvariant, PTL DEF Spec, LRResultGrows
=============================================================================
