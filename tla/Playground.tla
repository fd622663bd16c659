----------------------------- MODULE Playground -----------------------------
(***************************************************************************)
(* The compile and match effects of the playground (js/web/src/App.tsx)    *)
(* over the worker client (js/web/src/worker): a grammar is compiled and   *)
(* the input matched after pauses in the typing, the matcher before the    *)
(* last is freed, results come back through the worker's queues.           *)
(*                                                                         *)
(* React renders what an event changed, and runs the effects that depend   *)
(* on it, before the next event: a step is an event with its renders.      *)
(* Every edit makes a new version of the project (grammars and settings)   *)
(* or of the input; versions of a project are the worker's grammars.       *)
(***************************************************************************)
EXTENDS WorkerClient

CONSTANTS
    LastProject, LastInput  \* bounds: versions

ASSUME VersionsAssumption ==
    /\ LastProject \in Nat \ {0} /\ LastInput \in Nat \ {0}
    /\ Grammar = 1..LastProject /\ Input = 1..LastInput

Nothing == [grammar |-> 0, input |-> 0]

VARIABLES
    project, input,     \* the versions in the editors
    compileSeq,         \* compileSeqRef
    isCompiling,
    compileTimer,       \* the compilation its timer will start, or 0
    matchTimer,         \* the match its timer will ask for, or 0 for its matcher
    matcherId,          \* matcherIdRef, 0 for null
    result, outputError,
    compiling,          \* the compilation each call was made for, 0 for a match
    mounted
app == <<project, input, compileSeq, isCompiling, compileTimer, matchTimer, matcherId,
         result, outputError, compiling, mounted>>
pvars == <<wvars, app>>

NoTimer == [matcher |-> 0, input |-> 0]

-----------------------------------------------------------------------------
Init ==
    /\ WorkerInit
    /\ project = 1 /\ input = 1 /\ compileSeq = 0 /\ isCompiling = FALSE
    /\ compileTimer = 0 /\ matchTimer = NoTimer /\ matcherId = 0
    /\ result = Nothing /\ outputError = FALSE /\ compiling = <<>> /\ mounted = TRUE

HaveClient == readyPromise = "resolved"

\* The effect on [client, project, settings]: what was to be compiled is not, a
\* new compilation waits 200 ms; the match effect, run again because of
\* setIsCompiling, drops its timer.
ScheduleCompile ==
    /\ compileSeq' = compileSeq + 1
    /\ compileTimer' = compileSeq + 1
    /\ isCompiling' = TRUE
    /\ matchTimer' = NoTimer
    /\ outputError' = FALSE

\* The effect on [client, activeInputContent, matcherVersion, isCompiling].
MatchWhileCompiling(busy, matcher, in) ==      \* mutation
    matchTimer' = IF matcher = 0 THEN NoTimer ELSE [matcher |-> matcher, input |-> in]
MatchOnce(busy, matcher, in) ==     \* mutation: a timer that runs is kept
    matchTimer' = CASE busy \/ matcher = 0 -> NoTimer
                    [] ~busy /\ matcher # 0 /\ matchTimer # NoTimer -> matchTimer
                    [] OTHER -> [matcher |-> matcher, input |-> in]
MatchAfter(busy, matcher, in) ==
    matchTimer' = IF busy \/ matcher = 0 THEN NoTimer ELSE [matcher |-> matcher, input |-> in]

\* useLspWorker calls startSharedWorker when the application mounts.
Start == StartWorker /\ created = 0 /\ UNCHANGED app

EditProject ==
    /\ mounted /\ project < LastProject
    /\ project' = project + 1
    /\ IF HaveClient THEN ScheduleCompile
       ELSE UNCHANGED <<compileSeq, compileTimer, isCompiling, matchTimer, outputError>>
    /\ UNCHANGED <<wvars, input, matcherId, result, compiling, mounted>>

EditInput ==
    /\ mounted /\ input < LastInput
    /\ input' = input + 1
    /\ IF HaveClient THEN MatchAfter(isCompiling, matcherId, input + 1) ELSE UNCHANGED matchTimer
    /\ outputError' = IF isCompiling THEN FALSE ELSE outputError
    /\ UNCHANGED <<wvars, project, compileSeq, isCompiling, compileTimer, matcherId,
                   result, compiling, mounted>>

\* Another example is selected: both change in one render.
SelectExample ==
    /\ mounted /\ project < LastProject /\ input < LastInput
    /\ project' = project + 1 /\ input' = input + 1
    /\ IF HaveClient THEN ScheduleCompile
       ELSE UNCHANGED <<compileSeq, compileTimer, isCompiling, matchTimer, outputError>>
    /\ UNCHANGED <<wvars, matcherId, result, compiling, mounted>>

-----------------------------------------------------------------------------
(***************************************************************************)
(* Timers                                                                  *)
(***************************************************************************)
KeepsMatcher == <<>>    \* mutation: the previous matcher is not freed
FreePrevious == IF matcherId # 0 THEN FreeNow(matcherId) ELSE <<>>

CompileTimeout ==
    /\ compileTimer # 0
    /\ MakeCallAfter(FreePrevious, [type |-> "compile", grammar |-> project])
    /\ compiling' = Append(compiling, compileTimer)
    /\ compileTimer' = 0 /\ matcherId' = 0
    /\ UNCHANGED <<project, input, compileSeq, isCompiling, matchTimer, result, outputError, mounted>>

Rearmed == matchTimer   \* mutation: an interval for a timeout
Expired == NoTimer
MatchTimeout ==
    /\ matchTimer # NoTimer
    /\ MakeCall([type |-> "match", matcher |-> matchTimer.matcher, input |-> matchTimer.input])
    /\ compiling' = Append(compiling, 0)
    /\ matchTimer' = Expired
    /\ UNCHANGED <<project, input, compileSeq, isCompiling, compileTimer, matcherId, result,
                   outputError, mounted>>

-----------------------------------------------------------------------------
(***************************************************************************)
(* The promises of compileFiles and match.                                 *)
(***************************************************************************)
NeverStale(seq) == TRUE     \* mutation
IsLatest(seq) == seq = compileSeq

\* A stale result is freed; otherwise the matcher is the current one and the
\* input is to be matched with it.
Compiled(c, a) ==
    IF IsLatest(compiling[c])
    THEN /\ matcherId' = a.matcher /\ isCompiling' = FALSE /\ outputError' = FALSE
         /\ IF mounted THEN MatchAfter(FALSE, a.matcher, input) ELSE UNCHANGED matchTimer
         /\ UNCHANGED result
    ELSE UNCHANGED <<matcherId, isCompiling, outputError, matchTimer, result>>

CompileFailed(c) ==
    IF IsLatest(compiling[c])
    THEN /\ result' = Nothing /\ outputError' = TRUE /\ isCompiling' = FALSE
         /\ UNCHANGED <<matcherId, matchTimer>>
    ELSE UNCHANGED <<matcherId, isCompiling, outputError, matchTimer, result>>

Matched(a) ==
    /\ result' = [grammar |-> a.grammar, input |-> a.input] /\ outputError' = FALSE
    /\ UNCHANGED <<matcherId, isCompiling, matchTimer>>
MatchFailed ==
    /\ result' = Nothing /\ outputError' = TRUE
    /\ UNCHANGED <<matcherId, isCompiling, matchTimer>>

StaleMatcher(m) ==
    m.answer.type = "compiled" /\ ~IsLatest(compiling[CallOf(m.id)])

ClientAnswers ==
    /\ toClient # <<>> /\ Head(toClient).type = "answer"
    /\ LET m == Head(toClient)
           c == CallOf(m.id)
           free == IF StaleMatcher(m) THEN FreeNow(m.answer.matcher) ELSE <<>>
       IN /\ toClient' = Tail(toClient)
          /\ pending' = WithoutPending(m.id)
          /\ calls' = Returned(c, m.answer)
          /\ toWorker' = Post(free)
          /\ CASE m.answer.type = "compiled" -> Compiled(c, m.answer)
               [] m.answer.type = "matched" -> Matched(m.answer)
               [] OTHER -> IF compiling[c] # 0 THEN CompileFailed(c) ELSE MatchFailed
    /\ UNCHANGED <<worker, created, readyPromise, nextRequestId, inWorker>>
    /\ UNCHANGED <<project, input, compileSeq, compileTimer, compiling, mounted>>

\* The worker is ready, which gives the effects their client, or has failed.
ClientLearns ==
    /\ toClient # <<>> /\ Head(toClient).type # "answer"
    /\ ClientReceives
    /\ IF mounted /\ HaveClient' /\ ~HaveClient THEN ScheduleCompile
       ELSE UNCHANGED <<compileSeq, compileTimer, isCompiling, matchTimer, outputError>>
    /\ UNCHANGED <<project, input, matcherId, result, compiling, mounted>>

\* The cleanups: timers are cleared and the matcher freed.
Unmount ==
    /\ mounted
    /\ mounted' = FALSE
    /\ compileTimer' = 0 /\ matchTimer' = NoTimer /\ matcherId' = 0
    /\ toWorker' = Post(IF HaveClient THEN FreePrevious ELSE <<>>)
    /\ UNCHANGED <<client, toClient, inWorker>>
    /\ UNCHANGED <<project, input, compileSeq, isCompiling, result, outputError, compiling>>

-----------------------------------------------------------------------------
AppNext ==
    \/ Start
    \/ EditProject \/ EditInput \/ SelectExample
    \/ CompileTimeout \/ MatchTimeout
    \/ ClientAnswers \/ ClientLearns
    \/ Unmount
    \/ WorkerSteps /\ UNCHANGED app

Responds == Start \/ CompileTimeout \/ MatchTimeout \/ ClientAnswers \/ ClientLearns
            \/ (WorkerSteps /\ UNCHANGED app)

\* Timers expire, and the event loops of both sides run.
AppSpec == Init /\ [][AppNext]_pvars /\ WF_pvars(Responds)

-----------------------------------------------------------------------------
(***************************************************************************)
(* Properties                                                              *)
(***************************************************************************)
\* Matchers that a message underway, or the application, will deal with.
Freeing == {toWorker[i].matcher : i \in {i \in DOMAIN toWorker : toWorker[i].type = "freeMatcher"}}
Arriving == {toClient[i].answer.matcher : i \in {i \in DOMAIN toClient :
                toClient[i].type = "answer" /\ toClient[i].answer.type = "compiled"}}

(***************************************************************************)
(* The compile effect: no matcher is forgotten in the worker, however      *)
(* edits, timers and results interleave: while the application is mounted  *)
(* each one is the current one, on its way to it, or about to be freed.    *)
(***************************************************************************)
MatchersHeld == mounted => DOMAIN matchers \subseteq {matcherId} \cup Freeing \cup Arriving

(***************************************************************************)
(* The match effect asks with the matcher of its closure after a pause: it *)
(* is never one that was freed meanwhile, so no answer is "unknown matcher *)
(* id".                                                                    *)
(***************************************************************************)
NoUseAfterFree ==
    \A i \in DOMAIN toWorker :
        toWorker[i].type = "request" /\ toWorker[i].op.type = "match" =>
            /\ toWorker[i].op.matcher \in DOMAIN matchers
            /\ \A j \in 1..i - 1 : toWorker[j] # FreeMatcher(toWorker[i].op.matcher)

(***************************************************************************)
(* A match stores its result whatever is in the editors by then, and it    *)
(* is not needed that it looks: a result is never replaced by one of an    *)
(* older project, or of the same project and an older input.               *)
(***************************************************************************)
NeverGoesBack ==
    [][result # Nothing /\ result' # Nothing =>
          \/ result'.grammar > result.grammar
          \/ result'.grammar = result.grammar /\ result'.input >= result.input]_result

(***************************************************************************)
(* When nothing is underway, the page shows the match of what is in the    *)
(* editors, or an error when the project does not compile.                 *)
(***************************************************************************)
Quiet ==
    /\ mounted /\ HaveClient
    /\ toWorker = <<>> /\ toClient = <<>> /\ compileTimer = 0 /\ matchTimer = NoTimer
ShowsCurrent ==
    Quiet => IF project \in Valid
             THEN result = [grammar |-> project, input |-> input] /\ ~outputError
             ELSE result = Nothing /\ outputError

\* And that comes to be, however the edits fell, once they stop, unless a match
\* does not end: the page goes on waiting for it.
BecomesQuiet == HaveClient ~> (Quiet \/ ~mounted \/ Stuck)
=============================================================================
