--------------------------------- MODULE VM ---------------------------------
(***************************************************************************)
(* The langlang virtual machine (go/vm.go): a parsing machine that runs    *)
(* the bytecode of a grammar over an input.  One virtual machine is built  *)
(* for one program and matches many inputs; a match starts at the program's*)
(* first instruction (Match) or at the address of a rule (MatchRule) and   *)
(* ends in a match, in a parsing error, or in a Go panic.                  *)
(*                                                                         *)
(* An address is the index of an instruction (the bytecode's byte offsets  *)
(* are the encoder's business), a character is one unit of input, and the  *)
(* five opcodes that test one character differ in the set they carry.      *)
(***************************************************************************)
EXTENDS VMStack

CONSTANTS
    Programs,     \* the programs: see IsProgram
    Inputs,       \* the inputs that are matched
    MaxMatches    \* bound: matches one virtual machine performs

VARIABLES
    prog,         \* vm.bytecode
    input, rule,  \* the arguments of MatchRule; rule 0 is Match
    mode, pc, cursor,
    stack,        \* frames, arena and top-level captures (VMStack)
    tree,         \* the nodes of the parse tree; NodeID n is tree[n + 1]
    root,
    ffp,          \* farthest failure position
    expected,     \* what would have let the parse go on, with the place
                  \* each was collected at (which the code does not keep)
    predicate,
    capOffset,    \* the registers of the Cap*BeginOffset instructions
    memo,         \* left-recursive calls in progress, by address and cursor
    result, matches

job == <<prog, input, rule>>
vars == <<prog, input, rule, mode, pc, cursor, stack, tree, root, ffp, expected,
          predicate, capOffset, memo, result, matches>>

-----------------------------------------------------------------------------
(***************************************************************************)
(* Programs.  `rxps` maps each error label that has a recovery rule to the *)
(* rule's address; rxbs is its domain.  `rules` holds the addresses        *)
(* MatchRule is given.                                                     *)
(***************************************************************************)
Address == Nat
HaltAddress == 2

Jumps == {"choice", "choicePred", "commit", "backCommit", "partialCommit",
          "capCommit", "capBackCommit", "capPartialCommit", "jump", "call",
          "callLR"}
Plain == {"halt", "any", "fail", "failTwice", "return", "returnLR",
          "capReturn", "capReturnLR", "capEnd", "capEndOffset"}
Instruction ==
    [op : Plain] \cup [op : {"set", "span"}, cs : SUBSET Char]
    \cup [op : Jumps \ {"callLR"}, to : Address]
    \cup [op : {"callLR"}, to : Address, prec : Nat]
    \cup [op : {"throw"}, label : Names]
    \cup [op : {"capBegin", "capBeginOffset"}, id : NameOrNone]
    \cup [op : {"capTerm"}, id : NameOrNone, size : Nat]

IsProgram(p) ==
    /\ p.code \in Seq(Instruction)
    /\ p.rules \subseteq Address
    /\ DOMAIN p.rxps \subseteq Names
    /\ p.rxps \in [DOMAIN p.rxps -> Address]

ASSUME ProgramsAssumption == \A p \in Programs : IsProgram(p)
ASSUME InputsAssumption == Inputs \subseteq Seq(Char)
ASSUME MaxMatchesAssumption == MaxMatches \in Nat

Code == prog.code
Recovery == prog.rxps
I == Code[pc]
Running(ops) == mode = "run" /\ pc \in DOMAIN Code /\ I.op \in ops

(***************************************************************************)
(* Parse trees (go/tree.go): nodes are only ever appended.  A Node or Error*)
(* has at most one child, a Sequence several, a String none.               *)
(***************************************************************************)
NodeType == {"String", "Sequence", "Node", "Error"}
TreeNode == [typ : NodeType, name : NameOrNone, start : Int, end : Nat,
             kids : Seq(NodeID)]
MkNode(typ, name, from, to, kids) ==
    [typ |-> typ, name |-> name, start |-> from, end |-> to, kids |-> kids]
AddString(t, from, to) == Append(t, MkNode("String", NoName, from, to, <<>>))
LastIDOffByOne(t) == Len(t)   \* mutation
LastID(t) == Len(t) - 1

\* AddString or AddNamedString: the tree after a capture of input[from+1..to].
AddText(t, name, from, to) ==
    IF name = NoName THEN AddString(t, from, to)
    ELSE Append(AddString(t, from, to), MkNode("Node", name, from, to, <<Len(t)>>))

(***************************************************************************)
(* newNode: the tree after the capture of frame f ends at `to` with the    *)
(* nodes `ids`, and whether there is a node to capture.                    *)
(***************************************************************************)
Body(t, f, ids, to) ==
    CASE Len(ids) = 1 -> t
      [] Len(ids) > 1 -> Append(t, MkNode("Sequence", NoName, f.cursor, to, ids))
      [] Len(ids) = 0 -> IF to > f.cursor THEN AddString(t, f.cursor, to) ELSE t
BodyIDs(t, f, ids, to) ==
    IF Len(ids) = 1 THEN ids
    ELSE IF Len(ids) > 1 \/ to > f.cursor THEN <<Len(t)>> ELSE <<>>
NewNode(t, f, ids, to) ==
    LET body == Body(t, f, ids, to)
        kids == BodyIDs(t, f, ids, to)
    IN CASE f.capId \in DOMAIN Recovery ->
                [tree |-> Append(body, MkNode("Error", f.capId, f.cursor, to, kids)),
                 ids |-> <<Len(body)>>]
         [] f.capId \notin DOMAIN Recovery /\ (kids = <<>> \/ f.capId = NoName) ->
                [tree |-> body, ids |-> kids]
         [] OTHER ->
                [tree |-> Append(body, MkNode("Node", f.capId, f.cursor, to, kids)),
                 ids |-> <<Len(body)>>]

(***************************************************************************)
(* Left-recursion memo table.                                              *)
(***************************************************************************)
MemoEntry == [cursor : Nat \cup {LeftRec}, prec : Nat, captures : Seq(NodeID)]
MemoWith(k, e) ==
    [x \in DOMAIN memo \cup {k} |-> IF x = k THEN e ELSE memo[x]]
MemoWithoutNothing(k) == memo   \* mutation: a call that is over keeps its entry
MemoWithout(k) == [x \in DOMAIN memo \ {k} |-> memo[x]]
KeyAtCursor(f) == <<f.addr, cursor>>   \* mutation: where the call is, not where it began
Key(f) == <<f.addr, f.cursor>>

(***************************************************************************)
(* Results.                                                                *)
(***************************************************************************)
NoResult == [kind |-> "none", cursor |-> 0, label |-> NoName, ffp |-> -1]
Outcome(kind, cur, label) ==
    [kind |-> kind, cursor |-> cur, label |-> label, ffp |-> ffp]

\* SetRoot is called on the last top-level capture, if there is one.
NewRoot == IF stack.nodes = <<>> THEN root ELSE stack.nodes[Len(stack.nodes)]
Finish(kind, label) ==
    /\ mode' = "done"
    /\ result' = Outcome(kind, cursor, label)
    /\ root' = NewRoot

LatestOf(p) == p   \* mutation
FarthestOf(p) == IF p > ffp THEN p ELSE ffp
\* goto fail
Fail == mode' = "fail" /\ ffp' = FarthestOf(cursor)

Goto(a) == pc' = a
Advance == pc' = pc + 1

-----------------------------------------------------------------------------
Init ==
    /\ prog \in Programs
    /\ input = <<>> /\ rule = 0 /\ mode = "idle" /\ pc = FirstAddress /\ cursor = 0
    /\ stack = EmptyStack /\ tree = <<>> /\ root = 0
    /\ ffp = -1 /\ expected = {} /\ predicate = FALSE
    /\ capOffset = [id |-> NoName, start |-> 0] /\ memo = <<>>
    /\ result = NoResult /\ matches = 0

\* What a match starts with: a rule is called by a frame that returns to halt.
\* Mutations: the last match's stack or ffp stays, the frame is missing.
StackNotReset(addr) == IF addr = 0 THEN stack ELSE Push(stack, CallFrame(HaltAddress))
StackWithoutFrame(addr) == EmptyStack
StartStack(addr) ==
    IF addr = 0 THEN EmptyStack ELSE Push(EmptyStack, CallFrame(HaltAddress))
FfpNotReset == ffp
StartFfp == -1

\* MatchRule(data, ruleAddress); Match(data) is MatchRule(data, 0).  The
\* predicate flag and the offset registers keep the values of the last match.
MatchRule(in, addr) ==
    /\ mode \in {"idle", "done"}
    /\ matches < MaxMatches
    /\ matches' = matches + 1
    /\ input' = in /\ rule' = addr /\ mode' = "run" /\ cursor' = 0
    /\ pc' = IF addr = 0 THEN FirstAddress ELSE addr
    /\ stack' = StartStack(addr)
    /\ tree' = <<>> /\ root' = 0 /\ ffp' = StartFfp /\ expected' = {}
    /\ memo' = <<>> /\ result' = NoResult
    /\ UNCHANGED <<prog, predicate, capOffset>>

Halt ==
    /\ Running({"halt"})
    /\ Finish("match", NoName)
    /\ UNCHANGED <<job, pc, cursor, stack, tree, ffp, expected, predicate,
                   capOffset, memo, matches>>

-----------------------------------------------------------------------------
(***************************************************************************)
(* Terminals.                                                              *)
(***************************************************************************)
AtEnd == cursor >= Len(input)
Wanted == IF I.op = "any" THEN Char ELSE I.cs
AcceptsAtEnd == AtEnd \/ input[cursor + 1] \in Wanted   \* mutation
Accepts == ~AtEnd /\ input[cursor + 1] \in Wanted

MatchChar ==
    /\ Running({"any", "set"})
    /\ Accepts
    /\ cursor' = cursor + 1
    /\ Advance
    /\ UNCHANGED <<job, mode, stack, tree, root, ffp, expected, predicate,
                   capOffset, memo, result, matches>>

\* updateExpected, before the fail path moves ffp.
UpdateExpected(what) ==
    LET kept == IF cursor > ffp THEN {} ELSE expected
    IN expected' = IF cursor >= ffp THEN kept \cup {[what |-> what, at |-> cursor]}
                   ELSE kept

MismatchChar ==
    /\ Running({"any", "set"})
    /\ ~Accepts
    /\ IF AtEnd THEN UNCHANGED expected ELSE UpdateExpected(I.cs)
    /\ Fail
    /\ UNCHANGED <<job, pc, cursor, stack, tree, root, predicate, capOffset,
                   memo, result, matches>>

Span ==
    /\ Running({"span"})
    /\ \E end \in cursor..Len(input) :
          /\ \A i \in cursor + 1..end : input[i] \in I.cs
          /\ end < Len(input) => input[end + 1] \notin I.cs
          /\ cursor' = end
    /\ Advance
    /\ UNCHANGED <<job, mode, stack, tree, root, ffp, expected, predicate,
                   capOffset, memo, result, matches>>

-----------------------------------------------------------------------------
(***************************************************************************)
(* Control.  An instruction that pops a frame panics on an empty stack, so *)
(* its action needs a frame; Panic below takes the other case.             *)
(***************************************************************************)
HasFrame == stack.frames # <<>>

Throwaway ==   \* fail and failTwice
    /\ Running({"fail", "failTwice"})
    /\ I.op = "failTwice" => HasFrame
    /\ stack' = IF I.op = "failTwice" THEN Pop(stack) ELSE stack
    /\ Fail
    /\ UNCHANGED <<job, pc, cursor, tree, root, expected, predicate,
                   capOffset, memo, result, matches>>

Choice ==
    /\ Running({"choice", "choicePred"})
    /\ stack' = Push(stack, BacktrackFrame(I.to, cursor, I.op = "choicePred"))
    /\ predicate' = (predicate \/ I.op = "choicePred")
    /\ Advance
    /\ UNCHANGED <<job, mode, cursor, tree, root, ffp, expected, capOffset,
                   memo, result, matches>>

Commit ==
    /\ Running({"commit", "backCommit", "capCommit", "capBackCommit"})
    /\ HasFrame
    /\ stack' = IF I.op \in {"capCommit", "capBackCommit"}
                THEN PopAndCapture(stack) ELSE Pop(stack)
    /\ cursor' = IF I.op \in {"backCommit", "capBackCommit"}
                 THEN Top(stack).cursor ELSE cursor
    /\ Goto(I.to)
    /\ UNCHANGED <<job, mode, tree, root, ffp, expected, predicate,
                   capOffset, memo, result, matches>>

PartialCommit ==
    /\ Running({"partialCommit", "capPartialCommit"})
    /\ HasFrame
    /\ LET s == SetTop(stack, [Top(stack) EXCEPT !.cursor = cursor])
       IN stack' = IF I.op = "capPartialCommit" THEN CollectCaptures(s) ELSE s
    /\ Goto(I.to)
    /\ UNCHANGED <<job, mode, cursor, tree, root, ffp, expected, predicate,
                   capOffset, memo, result, matches>>

Jump ==
    /\ Running({"jump"})
    /\ Goto(I.to)
    /\ UNCHANGED <<job, mode, cursor, stack, tree, root, ffp, expected,
                   predicate, capOffset, memo, result, matches>>

Call ==
    /\ Running({"call"})
    /\ stack' = Push(stack, CallFrame(pc + 1))
    /\ Goto(I.to)
    /\ UNCHANGED <<job, mode, cursor, tree, root, ffp, expected, predicate,
                   capOffset, memo, result, matches>>

Return ==
    /\ Running({"return", "capReturn"})
    /\ HasFrame
    /\ stack' = IF I.op = "capReturn" THEN PopAndCapture(stack) ELSE Pop(stack)
    /\ Goto(Top(stack).pc)
    /\ UNCHANGED <<job, mode, cursor, tree, root, ffp, expected, predicate,
                   capOffset, memo, result, matches>>

\* A label thrown while the predicate flag is up is a plain failure, one with
\* a recovery rule is a call of that rule, any other ends the match.
ThrowInPredicate ==
    /\ Running({"throw"})
    /\ predicate
    /\ Fail
    /\ Advance
    /\ UNCHANGED <<job, cursor, stack, tree, root, expected, predicate,
                   capOffset, memo, result, matches>>
ThrowRecover ==
    /\ Running({"throw"})
    /\ ~predicate
    /\ I.label \in DOMAIN Recovery
    /\ stack' = Push(stack, CallFrame(pc + 1))
    /\ Goto(Recovery[I.label])
    /\ UNCHANGED <<job, mode, cursor, tree, root, ffp, expected, predicate,
                   capOffset, memo, result, matches>>
ThrowError ==
    /\ Running({"throw"})
    /\ ~predicate
    /\ I.label \notin DOMAIN Recovery
    /\ Finish("error", I.label)
    /\ UNCHANGED <<job, pc, cursor, stack, tree, ffp, expected, predicate,
                   capOffset, memo, matches>>

-----------------------------------------------------------------------------
(***************************************************************************)
(* Captures.                                                               *)
(***************************************************************************)
CapBegin ==
    /\ Running({"capBegin"})
    /\ stack' = Push(stack, CaptureFrame(I.id, cursor))
    /\ Advance
    /\ UNCHANGED <<job, mode, cursor, tree, root, ffp, expected, predicate,
                   capOffset, memo, result, matches>>

CapEnd ==
    /\ Running({"capEnd"})
    /\ HasFrame
    /\ LET f == Top(stack)
           new == NewNode(tree, f, FrameNodes(stack, f), cursor)
       IN /\ tree' = new.tree
          /\ stack' = Capture(Truncate(Pop(stack), f.lo), new.ids)
    /\ Advance
    /\ UNCHANGED <<job, mode, cursor, root, ffp, expected, predicate,
                   capOffset, memo, result, matches>>

\* Captures the last n characters as a String, or a Node named id.
CaptureText(id, n) ==
    IF n = 0 THEN UNCHANGED <<tree, stack>>
    ELSE /\ tree' = AddText(tree, id, cursor - n, cursor)
         /\ stack' = Capture(stack, <<LastID(tree')>>)

CapTerm ==   \* CapTerm, CapNonTerm
    /\ Running({"capTerm"})
    /\ CaptureText(I.id, I.size)
    /\ Advance
    /\ UNCHANGED <<job, mode, cursor, root, ffp, expected, predicate,
                   capOffset, memo, result, matches>>

CapBeginOffset ==   \* CapTermBeginOffset, CapNonTermBeginOffset
    /\ Running({"capBeginOffset"})
    /\ capOffset' = [id |-> I.id, start |-> cursor]
    /\ Advance
    /\ UNCHANGED <<job, mode, cursor, stack, tree, root, ffp, expected,
                   predicate, memo, result, matches>>

CapEndOffset ==
    /\ Running({"capEndOffset"})
    /\ IF cursor > capOffset.start
       THEN CaptureText(capOffset.id, cursor - capOffset.start)
       ELSE UNCHANGED <<tree, stack>>
    /\ Advance
    /\ UNCHANGED <<job, mode, cursor, root, ffp, expected, predicate,
                   capOffset, memo, result, matches>>

-----------------------------------------------------------------------------
(***************************************************************************)
(* Bounded left recursion: a call of a left-recursive rule seeds the memo  *)
(* table with a failure and runs the rule again and again, each time with  *)
(* the last result in the table, until the match no longer grows.          *)
(***************************************************************************)
CallKey == <<I.to, cursor>>

CallLRFirst ==
    /\ Running({"callLR"})
    /\ CallKey \notin DOMAIN memo
    /\ memo' = MemoWith(CallKey,
                  [cursor |-> LeftRec, prec |-> I.prec, captures |-> <<>>])
    /\ stack' = Push(stack, LRCallFrame(pc + 1, cursor, I.to, I.prec))
    /\ Goto(I.to)
    /\ UNCHANGED <<job, mode, cursor, tree, root, ffp, expected, predicate,
                   capOffset, result, matches>>

BarredBySeed == memo[CallKey].cursor = LeftRec   \* mutation: no precedence
Barred == memo[CallKey].cursor = LeftRec \/ I.prec < memo[CallKey].prec

CallLRFail ==
    /\ Running({"callLR"})
    /\ CallKey \in DOMAIN memo /\ Barred
    \* doCallLR also returns the first address and cursor 0, so ffp is raised to 0 at most
    /\ pc' = FirstAddress /\ cursor' = 0
    /\ mode' = "fail" /\ ffp' = FarthestOf(0)
    /\ UNCHANGED <<job, stack, tree, root, expected, predicate, capOffset,
                   memo, result, matches>>

CallLRMemo ==
    /\ Running({"callLR"})
    /\ CallKey \in DOMAIN memo /\ ~Barred
    /\ cursor' = memo[CallKey].cursor
    /\ stack' = Capture(stack, memo[CallKey].captures)
    /\ Advance
    /\ UNCHANGED <<job, mode, tree, root, ffp, expected, predicate,
                   capOffset, memo, result, matches>>

GrewOrSame(f) == f.result = LeftRec \/ cursor >= f.result   \* mutation
Grew(f) == f.result = LeftRec \/ cursor > f.result
\* The top frame is an LRCall frame, and its memo entry is there when the code
\* uses it: when the match grew, and for the captures when it did not.  The code
\* panics without one or the other.
LRReady ==
    /\ HasFrame /\ Top(stack).t = "LRCall"
    /\ Grew(Top(stack)) \/ I.op = "capReturnLR" => Key(Top(stack)) \in DOMAIN memo

ReturnLRGrow ==
    /\ Running({"returnLR", "capReturnLR"})
    /\ LRReady
    /\ LET f == Top(stack)
           kept == IF I.op = "capReturnLR" THEN FrameNodes(stack, f)
                   ELSE memo[Key(f)].captures
           s == IF I.op = "capReturnLR"
                THEN Truncate(SetTop(stack, [f EXCEPT !.result = cursor, !.hi = f.lo]), f.lo)
                ELSE SetTop(stack, [f EXCEPT !.result = cursor])
       IN /\ Grew(f)
          /\ memo' = MemoWith(Key(f), [cursor |-> cursor, prec |-> f.prec, captures |-> kept])
          /\ stack' = s
          /\ Goto(f.addr)
          /\ cursor' = f.cursor
    /\ UNCHANGED <<job, mode, tree, root, ffp, expected, predicate, capOffset,
                   result, matches>>

ReturnLRDone ==
    /\ Running({"returnLR", "capReturnLR"})
    /\ LRReady
    /\ LET f == Top(stack)
       IN /\ ~Grew(f)
          /\ memo' = MemoWithout(Key(f))
          /\ stack' = IF I.op = "capReturnLR"
                      THEN Capture(Truncate(Pop(stack), f.lo), memo[Key(f)].captures)
                      ELSE Pop(stack)
          /\ Goto(f.pc)
          /\ cursor' = f.result
    /\ UNCHANGED <<job, mode, tree, root, ffp, expected, predicate, capOffset,
                   result, matches>>

-----------------------------------------------------------------------------
(***************************************************************************)
(* The fail path pops frames, dropping their captures, until one of them   *)
(* resumes the match; one step here is one turn of its loop.               *)
(***************************************************************************)
UnwoundInPlace == Truncate(stack, Top(stack).lo)   \* mutation: the frame stays
Unwound == Truncate(Pop(stack), Top(stack).lo)
\* doFailLR goes back to the last iteration that succeeded, if there is one.
\* Mutation: the seed counts as an iteration.
HasEntry(f) == Key(f) \in DOMAIN memo
HasIteration(f) == f.result > 0 /\ Key(f) \in DOMAIN memo

FailResume ==
    /\ mode = "fail" /\ HasFrame
    /\ Top(stack).t = "Backtracking"
    /\ mode' = "run"
    /\ stack' = Unwound
    /\ pc' = Top(stack).pc
    /\ cursor' = Top(stack).cursor
    /\ predicate' = Top(stack).predicate
    /\ UNCHANGED <<job, tree, root, ffp, expected, capOffset, memo, result,
                   matches>>

FailResumeLR ==
    /\ mode = "fail" /\ HasFrame
    /\ LET f == Top(stack)
       IN /\ f.t = "LRCall" /\ HasIteration(f)
          /\ mode' = "run"
          /\ stack' = Capture(Unwound, memo[Key(f)].captures)
          /\ memo' = MemoWithout(Key(f))
          /\ pc' = f.pc
          /\ cursor' = f.result
    /\ UNCHANGED <<job, tree, root, ffp, expected, predicate, capOffset,
                   result, matches>>

FailPop ==
    /\ mode = "fail" /\ HasFrame
    /\ LET f == Top(stack)
       IN \/ /\ f.t = "LRCall" /\ ~HasIteration(f)
             /\ memo' = MemoWithout(Key(f))
             /\ pc' = FirstAddress /\ cursor' = 0
          \/ /\ f.t \in {"Call", "Capture"}
             /\ UNCHANGED <<memo, pc, cursor>>
    /\ stack' = Unwound
    /\ UNCHANGED <<job, mode, tree, root, ffp, expected, predicate,
                   capOffset, result, matches>>

FailEmpty ==
    /\ mode = "fail" /\ ~HasFrame
    /\ Finish("error", NoName)
    /\ UNCHANGED <<job, pc, cursor, stack, tree, ffp, expected, predicate,
                   capOffset, memo, matches>>

-----------------------------------------------------------------------------
(***************************************************************************)
(* What the Go runtime stops with a panic: an instruction past the end of  *)
(* the code, a pop of the empty stack, an LR return whose top frame has no *)
(* left-recursion data or memo entry.                                      *)
(***************************************************************************)
Poppers == {"failTwice", "commit", "backCommit", "capCommit", "capBackCommit",
            "partialCommit", "capPartialCommit", "return", "capReturn",
            "capEnd"}
Faults ==
    pc \in DOMAIN Code =>
        \/ I.op \in Poppers /\ ~HasFrame
        \/ I.op \in {"returnLR", "capReturnLR"} /\ ~LRReady

Panic ==
    /\ mode = "run"
    /\ Faults
    /\ mode' = "panic"
    /\ UNCHANGED <<job, pc, cursor, stack, tree, root, ffp, expected,
                   predicate, capOffset, memo, result, matches>>

-----------------------------------------------------------------------------
Step ==
    \/ Halt \/ MatchChar \/ MismatchChar \/ Span
    \/ Throwaway \/ Choice \/ Commit \/ PartialCommit \/ Jump
    \/ Call \/ Return
    \/ ThrowInPredicate \/ ThrowRecover \/ ThrowError
    \/ CapBegin \/ CapEnd \/ CapTerm \/ CapBeginOffset \/ CapEndOffset
    \/ CallLRFirst \/ CallLRFail \/ CallLRMemo
    \/ ReturnLRGrow \/ ReturnLRDone
    \/ FailResume \/ FailResumeLR \/ FailPop \/ FailEmpty
    \/ Panic

Next ==
    \/ Step
    \/ \E in \in Inputs, addr \in {0} \cup prog.rules : MatchRule(in, addr)

Spec == Init /\ [][Next]_vars

-----------------------------------------------------------------------------
(***************************************************************************)
(* Properties of the machine, whatever program it runs.                    *)
(***************************************************************************)
Modes == {"idle", "run", "fail", "done", "panic"}
TypeOK ==
    /\ IsProgram(prog)
    /\ input \in Seq(Char) /\ rule \in {0} \cup prog.rules
    /\ mode \in Modes
    /\ pc \in Nat /\ cursor \in Nat
    /\ stack \in Stack
    /\ tree \in Seq(TreeNode) /\ root \in NodeID
    /\ ffp \in Nat \cup {-1}
    /\ expected \subseteq [what : SUBSET Char, at : Nat]
    /\ predicate \in BOOLEAN
    /\ capOffset \in [id : NameOrNone, start : Nat]
    /\ DOMAIN memo \subseteq Nat \X Nat
    /\ memo \in [DOMAIN memo -> MemoEntry]
    /\ result \in [kind : {"none", "match", "error"}, cursor : Nat,
                   label : NameOrNone, ffp : Nat \cup {-1}]
    /\ matches \in 0..MaxMatches

\* The captures of one frame are never seen, extended or dropped through
\* another: the slices of the arena the frames own stay ordered and disjoint
\* over every push, capture, partial commit, backtrack and LR iteration.
SlicesNested == WellNested(stack)

\* No truncation leaves a reference behind it: every NodeID the stack and the
\* memo table hold is a node of this match's tree, and a node's children are
\* older than the node, so the tree has no cycle.
NoDangling ==
    /\ RefersBelow(stack, Len(tree))
    /\ \A k \in DOMAIN memo : \A i \in 1..Len(memo[k].captures) :
           memo[k].captures[i] < Len(tree)
    /\ \A n \in 1..Len(tree) : \A i \in 1..Len(tree[n].kids) :
           tree[n].kids[i] < n - 1

\* The cursor, and every position it can be restored to, lies in the input.
\* The registers of CapBeginOffset may hold a position of an earlier input.
CursorInInput ==
    /\ cursor <= Len(input)
    /\ \A i \in 1..Height(stack) : /\ stack.frames[i].cursor <= Len(input)
                                   /\ stack.frames[i].result <= Len(input)
    /\ \A k \in DOMAIN memo : memo[k].cursor <= Len(input)
    /\ ffp <= Len(input)

\* Within a match the farthest failure position is immune to backtracking:
\* it never moves back.
FfpNeverMovesBack == [][matches' = matches => ffp <= ffp']_vars

(***************************************************************************)
(* Properties of the machine on programs that respect its frames, as the   *)
(* compiler's do: an instruction finds on top of the stack the frame it    *)
(* was meant for (VMFrames says which programs do).                        *)
(***************************************************************************)
\* A commit finds the choice it closes, a return the call, the end of a
\* capture its beginning.
FrameKindExpected ==
    LET Expects(ops, t) == Running(ops) => HasFrame /\ Top(stack).t = t
    IN /\ Expects({"commit", "capCommit", "backCommit", "capBackCommit",
                   "partialCommit", "capPartialCommit", "failTwice"}, "Backtracking")
       /\ Expects({"return", "capReturn"}, "Call")
       /\ Expects({"returnLR", "capReturnLR"}, "LRCall")
       /\ Expects({"capEnd"}, "Capture")

\* The machine never stops with a Go panic.
NoPanic == mode # "panic"

Done == mode = "done"
Matched == Done /\ result.kind = "match"
\* A match that succeeds leaves nothing behind: every frame has been popped,
\* with its captures, and every left-recursive call is over.
MatchLeavesNothing == Matched => stack.frames = <<>> /\ memo = <<>>

\* At most one LR call is in progress per rule and position, and its memo
\* entry is there with the result of its last iteration: doReturnLR and
\* doFailLR never find a missing entry.
LRFramesHaveMemo ==
    \A i \in 1..Height(stack) :
        LET f == stack.frames[i]
        IN f.t = "LRCall" =>
              /\ Key(f) \in DOMAIN memo
              /\ memo[Key(f)].cursor = f.result
              /\ \A j \in 1..Height(stack) :
                    (stack.frames[j].t = "LRCall" /\ Key(stack.frames[j]) = Key(f))
                        => j = i

\* A left-recursive match only grows: while a call is in progress its result
\* is replaced by a later position or not at all (what makes it terminate).
LRResultGrows ==
    [][\A k \in DOMAIN memo \cap DOMAIN memo' :
          matches' = matches /\ memo'[k] # memo[k]
              => memo[k].cursor < memo'[k].cursor]_vars
=============================================================================
