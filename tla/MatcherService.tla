--------------------------- MODULE MatcherService ---------------------------
(***************************************************************************)
(* What the worker and its client promise to their callers                 *)
(* (js/web/src/worker): a call is carried out at most once, in one step    *)
(* between the moment it is made and the moment it is answered, or it is   *)
(* refused and changes nothing.  The service holds compiled grammars under *)
(* numbers; it may lose them all, with the calls it has not answered.      *)
(***************************************************************************)
EXTENDS Integers, Sequences

CONSTANTS
    Grammar, Valid,     \* grammars, and those that compile
    Input,
    Matcher             \* the numbers of compiled grammars

VARIABLES
    made,       \* the calls: what was asked, how far each one is, its answer
    matchers    \* the grammar of every matcher that was not freed
svars == <<made, matchers>>

Op == [type : {"compile"}, grammar : Grammar]
      \cup [type : {"match"}, matcher : Matcher, input : Input]
      \cup [type : {"lsp"}, ok : BOOLEAN]

Failed == [type |-> "failed"]

\* The answer to a call carried out on the matchers that are held; `new` is
\* the number a compiled grammar gets.
AnswerTo(op, held, new) ==
    CASE op.type = "compile" ->
            IF op.grammar \in Valid THEN [type |-> "compiled", matcher |-> new] ELSE Failed
      [] op.type = "match" ->
            IF op.matcher \in DOMAIN held
            THEN [type |-> "matched", grammar |-> held[op.matcher], input |-> op.input]
            ELSE Failed
      [] op.type = "lsp" -> IF op.ok THEN [type |-> "done"] ELSE Failed
With(held, op, a) ==
    IF a.type = "compiled"
    THEN [m \in DOMAIN held \cup {a.matcher} |-> IF m = a.matcher THEN op.grammar ELSE held[m]]
    ELSE held

Stage == {"made", "answered", "returned", "lost"}

Init == made = <<>> /\ matchers = <<>>

\* A call may be refused at once.
Invoke(op) ==
    /\ \E s \in {"made", "returned"} :
          made' = Append(made, [op |-> op, stage |-> s, answer |-> Failed])
    /\ UNCHANGED matchers

Becomes(c, stage, answer) ==
    made' = [made EXCEPT ![c] = [op |-> made[c].op, stage |-> stage, answer |-> answer]]

Perform(c) ==
    /\ made[c].stage = "made"
    /\ \E new \in Matcher \ DOMAIN matchers :
          LET a == AnswerTo(made[c].op, matchers, new)
          IN /\ Becomes(c, "answered", a)
             /\ matchers' = With(matchers, made[c].op, a)

Refuse(c) ==
    /\ made[c].stage = "made"
    /\ Becomes(c, "answered", Failed)
    /\ UNCHANGED matchers

Return(c) ==
    /\ made[c].stage = "answered"
    /\ Becomes(c, "returned", made[c].answer)
    /\ UNCHANGED matchers

MoveTo(C, s) ==
    made' = [c \in DOMAIN made |->
               IF c \in C THEN [op |-> made[c].op, stage |-> s, answer |-> Failed] ELSE made[c]]

Reject(C) ==
    /\ \A c \in C : made[c].stage = "made"
    /\ MoveTo(C, "returned")
    /\ UNCHANGED matchers

Free(m) ==
    /\ matchers' = [n \in DOMAIN matchers \ {m} |-> matchers[n]]
    /\ UNCHANGED made

Lose(C) ==
    /\ \A c \in C : made[c].stage \in {"made", "answered"}
    /\ MoveTo(C, "lost")
    /\ matchers' = <<>>

Next ==
    \/ \E op \in Op : Invoke(op)
    \/ \E c \in DOMAIN made : Perform(c) \/ Refuse(c) \/ Return(c)
    \/ \E C \in SUBSET DOMAIN made : Reject(C) \/ Lose(C)
    \/ \E m \in DOMAIN matchers : Free(m)

Spec == Init /\ [][Next]_svars
=============================================================================
