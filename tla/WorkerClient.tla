---------------------------- MODULE WorkerClient ----------------------------
(***************************************************************************)
(* The client of the worker (js/web/src/worker/lsp.client.ts), the worker  *)
(* (lsp.worker.ts) and the matchers of the Go runtime in it                *)
(* (js/wasm/lib/wasm.go), with one queue of messages in each direction.    *)
(*                                                                         *)
(* JavaScript runs one task at a time, and what awaits a promise goes on   *)
(* before the next task: a step here is a task with everything its         *)
(* promises wake up.  A method that awaits readyPromise waits in the call  *)
(* it made, and all that wait go on in the order they were made.           *)
(***************************************************************************)
EXTENDS Integers, Sequences, FiniteSets

CONSTANTS
    Grammar, Valid,     \* grammars, and those that compile
    Input,              \* what is matched
    Loops,              \* the matches that never end
    Handles,            \* the matchers callers match with and free
    MaxCalls,           \* bound: calls made
    MaxWorkers          \* bound: workers created

ASSUME ValidAssumption == Valid \subseteq Grammar
ASSUME LoopsAssumption == Loops \subseteq Grammar \X Input
ASSUME MaxCallsAssumption == MaxCalls \in Nat /\ MaxWorkers \in Nat \ {0}

Matcher == 1..MaxCalls
ASSUME HandlesAssumption == Handles \subseteq Matcher

VARIABLES
    worker,         \* the number of the current worker, 0 without one
    created,        \* workers created so far
    readyPromise,   \* "pending", "resolved" or "rejected"; made once
    calls,          \* every call: its operation, where it is, its request id
    nextRequestId, pending,
    toWorker, toClient,
    runtime,        \* the worker: "off" (init is not handled), "loading" (it loads and
                    \* fetches), "starting" (go.run), "up" (raw is set) or "failed"
    matchers, nextMatcherID
client == <<worker, created, readyPromise, calls, nextRequestId, pending>>
inWorker == <<runtime, matchers, nextMatcherID>>
wvars == <<client, toWorker, toClient, inWorker>>

\* A call as its caller and the worker see it: made, answered by a message that
\* is underway, settled, or lost with the worker it was sent to.
Numbered(q) == {i \in DOMAIN q : q[i].type \in {"request", "answer"}}
Named(q, id) == {q[i] : i \in {i \in Numbered(q) : q[i].id = id}}
StageOf(c, requests, answers) ==
    CASE c.stage = "waits" -> "made"
      [] c.stage = "returned" -> "returned"
      [] c.stage = "sent" /\ Named(requests, c.id) # {} -> "made"
      [] c.stage = "sent" /\ Named(requests, c.id) = {} ->
            IF Named(answers, c.id) # {} THEN "answered" ELSE "lost"
View(c, requests, answers) ==
    LET stage == StageOf(c, requests, answers)
    IN [op |-> c.op, stage |-> stage,
        answer |-> IF stage = "answered" THEN (CHOOSE m \in Named(answers, c.id) : TRUE).answer
                   ELSE c.answer]
Made == [c \in DOMAIN calls |-> View(calls[c], toWorker, toClient)]
Service == INSTANCE MatcherService WITH made <- Made

Op == Service!Op
Asked == {op \in Op : op.type = "match" => op.matcher \in Handles}
Failed == Service!Failed
Stage == {"waits", "sent", "returned"}
Outcome == {Failed} \cup [type : {"compiled"}, matcher : Matcher]
           \cup [type : {"matched"}, grammar : Grammar, input : Input]
           \cup [type : {"done"}]
Call == [op : Op, stage : Stage, id : 0..MaxCalls, answer : Outcome]
ToWorker == [type : {"init"}] \cup [type : {"freeMatcher"}, matcher : Matcher]
            \cup [type : {"request"}, id : 1..MaxCalls, op : Op]
ToClient == [type : {"ready", "init-error"}]
            \cup [type : {"answer"}, id : 1..MaxCalls, answer : Outcome]

Request(id, op) == [type |-> "request", id |-> id, op |-> op]
FreeMatcher(m) == [type |-> "freeMatcher", matcher |-> m]
InitMessage == [type |-> "init"]
Answer(id, a) == [type |-> "answer", id |-> id, answer |-> a]
Ready == [type |-> "ready"]
InitError == [type |-> "init-error"]

-----------------------------------------------------------------------------
WorkerInit ==
    /\ worker = 0 /\ created = 0 /\ readyPromise = "pending" /\ calls = <<>>
    /\ nextRequestId = 1 /\ pending = {}
    /\ toWorker = <<>> /\ toClient = <<>>
    /\ runtime = "off" /\ matchers = <<>> /\ nextMatcherID = 1

\* start: one worker at a time.
StartWorker ==
    /\ worker = 0 /\ created < MaxWorkers
    /\ created' = created + 1 /\ worker' = created + 1
    /\ toWorker' = <<InitMessage>>
    /\ UNCHANGED <<readyPromise, calls, nextRequestId, pending, toClient, inWorker>>

\* terminate: the worker is gone, and with it the messages underway.  Nobody
\* tells the calls that wait for an answer.
Terminate ==
    /\ worker # 0
    /\ worker' = 0
    /\ toWorker' = <<>> /\ toClient' = <<>>
    /\ runtime' = "off" /\ matchers' = <<>> /\ nextMatcherID' = 1
    /\ UNCHANGED <<created, readyPromise, calls, nextRequestId, pending>>

-----------------------------------------------------------------------------
(***************************************************************************)
(* Calls: request, notify, compile, compileFiles and match await           *)
(* readyPromise, take an id, register the call as pending and post it.     *)
(* Without a worker postMessage throws and the call is rejected; its entry *)
(* stays in pending.                                                       *)
(***************************************************************************)
NewCall(op) ==
    CASE readyPromise = "pending" -> [op |-> op, stage |-> "waits", id |-> 0, answer |-> Failed]
      [] readyPromise = "rejected" -> [op |-> op, stage |-> "returned", id |-> 0, answer |-> Failed]
      [] readyPromise = "resolved" ->
            [op |-> op, stage |-> IF worker = 0 THEN "returned" ELSE "sent",
             id |-> nextRequestId, answer |-> Failed]

PostFirst(messages) == messages \o toWorker     \* mutation: a stack for a queue
Post(messages) == toWorker \o messages

\* The call `op` is made, after the messages `posted`.
MakeCallAfter(posted, op) ==
    LET new == NewCall(op)
        sent == IF new.stage = "sent" THEN <<Request(new.id, op)>> ELSE <<>>
    IN /\ Len(calls) < MaxCalls
       /\ calls' = Append(calls, new)
       /\ pending' = pending \cup ({new.id} \ {0})
       /\ nextRequestId' = IF new.id = 0 THEN nextRequestId ELSE nextRequestId + 1
       /\ toWorker' = Post(posted \o sent)
       /\ UNCHANGED <<worker, created, readyPromise, toClient, inWorker>>

MakeCall(op) == MakeCallAfter(<<>>, op)

\* freeMatcher does not wait and has no answer.  Bound: one message for a matcher
\* at a time.
FreeNow(m) == IF worker = 0 THEN <<>> ELSE <<FreeMatcher(m)>>
CallFree(m) ==
    /\ FreeNow(m) # <<>> /\ \A i \in DOMAIN toWorker : toWorker[i] # FreeMatcher(m)
    /\ toWorker' = Post(FreeNow(m))
    /\ UNCHANGED <<client, toClient, inWorker>>

-----------------------------------------------------------------------------
(***************************************************************************)
(* handleWorkerMessage                                                     *)
(***************************************************************************)
\* Those that waited for readyPromise are sent, in their order.
Waiting == {c \in DOMAIN calls : calls[c].stage = "waits"}
ResumedLastFirst(c) == nextRequestId + Cardinality({d \in Waiting : d > c})  \* mutation
Resumed(c) == nextRequestId + Cardinality({d \in Waiting : d < c})
NthWaiting(n) == CHOOSE c \in Waiting : Cardinality({d \in Waiting : d < c}) = n - 1
SendWaiting ==
    /\ calls' = [c \in DOMAIN calls |->
                   IF c \in Waiting THEN [calls[c] EXCEPT !.stage = "sent", !.id = Resumed(c)]
                   ELSE calls[c]]
    /\ pending' = pending \cup {Resumed(c) : c \in Waiting}
    /\ nextRequestId' = nextRequestId + Cardinality(Waiting)
    /\ toWorker' = Post([n \in 1..Cardinality(Waiting) |->
                            LET c == NthWaiting(n) IN Request(Resumed(c), calls[c].op)])
LeavesWaiting == UNCHANGED <<calls, pending, nextRequestId, toWorker>>   \* mutation
RejectWaiting ==
    /\ calls' = [c \in DOMAIN calls |->
                   IF c \in Waiting THEN [calls[c] EXCEPT !.stage = "returned"] ELSE calls[c]]
    /\ UNCHANGED <<pending, nextRequestId, toWorker>>

\* A promise settles once.
SettleReady(how) ==
    IF readyPromise # "pending" THEN UNCHANGED <<readyPromise, calls, pending, nextRequestId, toWorker>>
    ELSE /\ readyPromise' = how
         /\ IF how = "resolved" THEN SendWaiting ELSE RejectWaiting

\* The call of an answer, which settles when its entry is still pending.
CallOf(id) == CHOOSE c \in DOMAIN calls : calls[c].id = id
KeptPending(id) == pending      \* mutation
WithoutPending(id) == pending \ {id}
Returned(c, a) == [calls EXCEPT ![c].stage = "returned", ![c].answer = a]
Settle(m) ==
    IF m.id \notin pending THEN UNCHANGED <<readyPromise, calls, pending, nextRequestId, toWorker>>
    ELSE /\ pending' = WithoutPending(m.id)
         /\ calls' = Returned(CallOf(m.id), m.answer)
         /\ UNCHANGED <<readyPromise, nextRequestId, toWorker>>

ClientReceives ==
    /\ toClient # <<>>
    /\ toClient' = Tail(toClient)
    /\ LET m == Head(toClient)
       IN CASE m = Ready -> SettleReady("resolved")
            [] m = InitError -> SettleReady("rejected")
            [] OTHER -> Settle(m)
    /\ UNCHANGED <<worker, created, inWorker>>

\* worker.onerror: the script of the worker cannot be loaded, or throws.
WorkerError ==
    /\ worker # 0 /\ runtime \in {"off", "loading", "starting"}
    /\ SettleReady("rejected")
    /\ UNCHANGED <<worker, created, toClient, inWorker>>

-----------------------------------------------------------------------------
(***************************************************************************)
(* The worker.  Only the init message is handled across an await: messages *)
(* that come in meanwhile find no API and are answered with an error.      *)
(***************************************************************************)
AnswerNow(op) ==
    IF runtime = "up" THEN Service!AnswerTo(op, matchers, nextMatcherID) ELSE Failed

NeverAdvances(a) == nextMatcherID   \* mutation
AfterCompile(a) == IF a.type = "compiled" THEN nextMatcherID + 1 ELSE nextMatcherID

HandleRequest(m) ==
    LET a == AnswerNow(m.op)
    IN /\ toClient' = Append(toClient, Answer(m.id, a))
       /\ matchers' = Service!With(matchers, m.op, a)
       /\ nextMatcherID' = AfterCompile(a)
       /\ UNCHANGED runtime

HandleFree(m) ==
    /\ matchers' = IF runtime = "up" THEN [n \in DOMAIN matchers \ {m.matcher} |-> matchers[n]]
                   ELSE matchers
    /\ UNCHANGED <<toClient, runtime, nextMatcherID>>

\* raw.match does not return: a grammar may repeat what matches nothing, and no
\* one interrupts the virtual machine.  The messages behind it wait.
Stuck ==
    /\ runtime = "up" /\ toWorker # <<>>
    /\ LET m == Head(toWorker)
       IN /\ m.type = "request" /\ m.op.type = "match" /\ m.op.matcher \in DOMAIN matchers
          /\ <<matchers[m.op.matcher], m.op.input>> \in Loops

WorkerHandles ==
    /\ toWorker # <<>> /\ ~Stuck
    /\ toWorker' = Tail(toWorker)
    /\ LET m == Head(toWorker)
       IN \/ m.type = "request" /\ HandleRequest(m)
          \/ m.type = "freeMatcher" /\ HandleFree(m)
          \/ m.type = "init" /\ runtime' = "loading" /\ UNCHANGED <<toClient, matchers, nextMatcherID>>
    /\ UNCHANGED client

\* initWasm as far as `await instantiateStreaming`: the runtime is there, or a
\* script, the fetch or the module fails.  Nothing limits how long it takes.
InitLoads ==
    /\ runtime = "loading"
    /\ \/ runtime' = "starting" /\ UNCHANGED toClient
       \/ runtime' = "failed" /\ toClient' = Append(toClient, InitError)
    /\ UNCHANGED <<client, toWorker, matchers, nextMatcherID>>

\* The rest of initWasm: the Go runtime has registered its API, or it exits, or
\* takes more than five seconds (it may register its API after that, but `raw` is
\* not set any more).
InitEnds ==
    /\ runtime = "starting"
    /\ \/ runtime' = "up" /\ toClient' = Append(toClient, Ready)
       \/ runtime' = "failed" /\ toClient' = Append(toClient, InitError)
    /\ UNCHANGED <<client, toWorker, matchers, nextMatcherID>>

WorkerSteps == WorkerHandles \/ InitLoads \/ InitEnds

-----------------------------------------------------------------------------
Next ==
    \/ StartWorker
    \/ Terminate
    \/ \E op \in Asked : MakeCall(op)
    \/ \E m \in Handles : CallFree(m)
    \/ ClientReceives
    \/ WorkerError
    \/ WorkerSteps

\* The event loops of both sides run, the first worker is created by whoever uses
\* the client (startSharedWorker), and a timer limits the start of the Go runtime.
\* What comes from the network may never come: the worker's own script, without
\* which it handles no message, and what InitLoads waits for.
Fairness ==
    /\ WF_wvars(runtime # "off" /\ WorkerHandles) /\ WF_wvars(InitEnds)
    /\ WF_wvars(ClientReceives) /\ WF_wvars(created = 0 /\ StartWorker)
Spec == WorkerInit /\ [][Next]_wvars /\ Fairness

-----------------------------------------------------------------------------
(***************************************************************************)
(* Properties                                                              *)
(***************************************************************************)
\* The type of every variable.
TypeOK ==
    /\ worker \in 0..MaxWorkers /\ created \in 0..MaxWorkers
    /\ readyPromise \in {"pending", "resolved", "rejected"}
    /\ calls \in Seq(Call) /\ Len(calls) <= MaxCalls
    /\ nextRequestId \in 1..MaxCalls + 1 /\ pending \subseteq 1..MaxCalls
    /\ toWorker \in Seq(ToWorker) /\ toClient \in Seq(ToClient)
    /\ runtime \in {"off", "loading", "starting", "up", "failed"}
    /\ nextMatcherID \in 1..MaxCalls + 1
    /\ DOMAIN matchers \subseteq 1..nextMatcherID - 1 /\ matchers \in [DOMAIN matchers -> Grammar]

InOrder(q) == \A i, j \in Numbered(q) : i < j => q[i].id < q[j].id
Awaited(m) == m.id \in pending /\ calls[CallOf(m.id)].stage = "sent"

(***************************************************************************)
(* handleWorkerMessage, postMessage: requests and answers keep the order   *)
(* the calls were made in, through both queues and the worker: the answers *)
(* underway are to calls made before those the worker has not seen yet,    *)
(* each call appears once, and each of them is pending.                    *)
(***************************************************************************)
AnswersInOrder ==
    /\ InOrder(toClient) /\ InOrder(toWorker)
    /\ \A i \in Numbered(toClient), j \in Numbered(toWorker) : toClient[i].id < toWorker[j].id
    /\ \A i \in Numbered(toClient) : Awaited(toClient[i])
    /\ \A i \in Numbered(toWorker) : Awaited(toWorker[i])

(***************************************************************************)
(* The client and its worker are the matcher service: a call takes effect  *)
(* at most once and between its two ends, and its answer is the one the    *)
(* matchers of that moment give, across crashes of the initialization,     *)
(* terminations and new workers.                                           *)
(***************************************************************************)
Serves == Service!Spec

(***************************************************************************)
(* Every call settles, those made before the worker was ready and those of *)
(* a worker that fails to load or gives up after five seconds included,    *)
(* unless terminate was called.  Neither client nor worker limits two      *)
(* things, and after one of them calls wait for ever: a download that      *)
(* stalls (the five seconds are counted from go.run on), and a match that  *)
(* does not end, which keeps everything behind it.                         *)
(***************************************************************************)
Terminated == created # worker \/ created > 1
Stalls == runtime \in {"off", "loading"} \/ Stuck
Settles ==
    \/ <>[]Stalls
    \/ \A c \in 1..MaxCalls :
          c \in DOMAIN calls ~> c \in DOMAIN calls /\ (calls[c].stage = "returned" \/ Terminated)
=============================================================================
