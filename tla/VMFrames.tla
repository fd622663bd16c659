------------------------------ MODULE VMFrames ------------------------------
(***************************************************************************)
(* Which programs respect the frames of the machine (module VM).           *)
(*                                                                         *)
(* The machine pops whatever frame is on top: that a return finds its call *)
(* and a commit its choice is a matter of how the compiler lays out the    *)
(* code.  It can be seen from the code alone.  The shape of the stack at an*)
(* instruction is the sequence of the types of the frames above the last   *)
(* call, that call included; a whole stack without a call is its own shape.*)
(* The shapes every instruction may meet are computed by following the     *)
(* code, and a program fits its frames when each instruction finds on top  *)
(* of all of its shapes the frame it was meant for.                        *)
(***************************************************************************)
EXTENDS VM

Shape == Seq(FrameType)
CallTypes == {"Call", "LRCall"}
TopIs(s, t) == s # <<>> /\ s[Len(s)] = t
Lower(s) == SubSeq(s, 1, Len(s) - 1)

Closers == {"commit", "backCommit", "capCommit", "capBackCommit",
            "partialCommit", "capPartialCommit", "failTwice"}

\* The shapes with which an instruction may be reached.
Expects(op, s) ==
    /\ op \in Closers => TopIs(s, "Backtracking")
    /\ op = "capEnd" => TopIs(s, "Capture")
    /\ op \in {"return", "capReturn"} => s = <<"Call">>
    /\ op \in {"returnLR", "capReturnLR"} => s = <<"LRCall">>
    /\ op = "halt" => s = <<>>

Steps == {"any", "set", "span", "capTerm", "capBeginOffset", "capEndOffset", "call", "callLR"}

\* Where the match may go on from the instruction at a, met with shape s, and
\* the shapes there: next, later, when what it calls returns or when the
\* choice it opens fails.
Follows(p, a, s) ==
    LET i == p.code[a]
        to(ops, next) == IF i.op \in ops THEN {<<i.to, next>>} ELSE {}
        on(ops, next) == IF i.op \in ops THEN {<<a + 1, next>>} ELSE {}
    IN on(Steps, s)
       \cup on({"choice", "choicePred"}, Append(s, "Backtracking"))
       \cup to({"choice", "choicePred", "jump", "partialCommit", "capPartialCommit"}, s)
       \cup to({"commit", "backCommit", "capCommit", "capBackCommit"}, Lower(s))
       \cup to({"call"}, <<"Call">>) \cup to({"callLR"}, <<"LRCall">>)
       \cup on({"capBegin"}, Append(s, "Capture")) \cup on({"capEnd"}, Lower(s))
       \cup IF i.op = "throw" /\ i.label \in DOMAIN p.rxps
            THEN {<<p.rxps[i.label], <<"Call">>>>, <<a + 1, s>>} ELSE {}

\* Match starts at the first instruction, MatchRule at a rule that returns to halt.
Starts(p) ==
    {<<FirstAddress, <<>>>>, <<HaltAddress, <<>>>>} \cup {<<addr, <<"Call">>>> : addr \in p.rules}

\* T holds the starts and all that follows from it, and no instruction of it
\* finds another frame than its own.
Respects(p, T) ==
    /\ T \subseteq (DOMAIN p.code) \X Shape
    /\ Starts(p) \subseteq T
    /\ \A x \in T : Expects(p.code[x[1]].op, x[2]) /\ Follows(p, x[1], x[2]) \subseteq T

\* The shapes reached from the starts: as many rounds as the code is long are
\* enough for code that fits, each address being met with a few shapes.
ShapesOf(p) ==
    LET Known(T) == {x \in T : x[1] \in DOMAIN p.code}
        After[n \in Nat] ==
            IF n = 0 THEN Starts(p)
            ELSE LET T == After[n - 1]
                 IN T \cup UNION {Follows(p, x[1], x[2]) : x \in Known(T)}
    IN After[Len(p.code)]

FitsFrames(p) == Respects(p, ShapesOf(p))
ProgramsFitFrames == \A p \in Programs : FitsFrames(p)
=============================================================================
