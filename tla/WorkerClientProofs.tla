------------------------- MODULE WorkerClientProofs -------------------------
(***************************************************************************)
(* The client and its worker keep their calls in order and serve them as   *)
(* MatcherService says, for any grammars, any number of calls and any      *)
(* number of workers.                                                      *)
(***************************************************************************)
EXTENDS WorkerClient, SequenceTheorems, FiniteSetTheorems, TLAPS

\* Where the calls are follows the promise, and their ids are their places.
CallsFollowReady ==
    /\ readyPromise # "resolved" => nextRequestId = 1
    /\ readyPromise = "resolved" => nextRequestId = Len(calls) + 1
    /\ \A c \in DOMAIN calls :
          CASE readyPromise = "pending" -> calls[c].stage = "waits" /\ calls[c].id = 0
            [] readyPromise = "rejected" -> calls[c].stage = "returned" /\ calls[c].id = 0
            [] OTHER -> calls[c].stage \in {"sent", "returned"} /\ calls[c].id = c
    /\ \A c \in DOMAIN calls : calls[c].stage = "sent" => c \in pending
    /\ \A c \in DOMAIN calls : calls[c].stage # "returned" => calls[c].answer = Failed

\* A message that carries an id is about a call that was sent; the number of a new
\* matcher is below the ids of the requests to come.
OfSent(m) == m.id \in DOMAIN calls /\ calls[m.id].stage = "sent"
QueuesFollowCalls ==
    /\ \A i \in Numbered(toClient) : OfSent(toClient[i])
    /\ \A i \in Numbered(toWorker) :
          /\ OfSent(toWorker[i])
          /\ toWorker[i].op = calls[toWorker[i].id].op
          /\ nextMatcherID <= toWorker[i].id
    /\ nextMatcherID <= nextRequestId

\* Without a worker nothing is underway.
NothingWithoutWorker ==
    worker = 0 => toWorker = <<>> /\ toClient = <<>> /\ runtime = "off" /\ matchers = <<>>

QueuesInOrder ==
    /\ InOrder(toClient) /\ InOrder(toWorker)
    /\ \A i \in Numbered(toClient), j \in Numbered(toWorker) : toClient[i].id < toWorker[j].id

IInv == TypeOK /\ CallsFollowReady /\ QueuesFollowCalls /\ NothingWithoutWorker /\ QueuesInOrder
-----------------------------------------------------------------------------
(***************************************************************************)
(* Queues: what taking the first message and adding some at the end do to  *)
(* the numbered messages and to their order.                               *)
(***************************************************************************)
LEMMA TailOfQueue ==
    ASSUME NEW M, NEW q \in Seq(M), q # <<>>
    PROVE  /\ Head(q) = q[1] /\ 1 \in DOMAIN q
           /\ Tail(q) \in Seq(M)
           /\ \A i \in DOMAIN Tail(q) : i + 1 \in DOMAIN q /\ Tail(q)[i] = q[i + 1] /\ 1 < i + 1
           /\ \A i \in DOMAIN q : i # 1 => i - 1 \in DOMAIN Tail(q) /\ q[i] = Tail(q)[i - 1]
           /\ \A i \in Numbered(Tail(q)) : i + 1 \in Numbered(q) /\ Tail(q)[i] = q[i + 1]
           /\ InOrder(q) => InOrder(Tail(q))
           /\ InOrder(q) /\ 1 \in Numbered(q) =>
                 \A i \in Numbered(Tail(q)) : q[1].id < Tail(q)[i].id
<1>1. /\ Head(q) = q[1] /\ 1 \in DOMAIN q /\ Tail(q) \in Seq(M)
      /\ Len(q) \in Nat /\ DOMAIN q = 1..Len(q) /\ DOMAIN Tail(q) = 1..(Len(q) - 1)
      /\ \A i \in 1..(Len(q) - 1) : Tail(q)[i] = q[i + 1]
  OBVIOUS
<1>2. \A i \in DOMAIN Tail(q) : i + 1 \in DOMAIN q /\ Tail(q)[i] = q[i + 1] /\ 1 < i + 1
  BY <1>1
<1>3. \A i \in DOMAIN q : i # 1 => i - 1 \in DOMAIN Tail(q) /\ q[i] = Tail(q)[i - 1]
  BY <1>1
<1>4. \A i \in Numbered(Tail(q)) : i + 1 \in Numbered(q) /\ Tail(q)[i] = q[i + 1]
  BY <1>2 DEF Numbered
<1>5. Numbered(q) \subseteq Nat /\ Numbered(Tail(q)) \subseteq Nat
  BY <1>1 DEF Numbered
<1>6. ASSUME InOrder(q)
      PROVE  InOrder(Tail(q))
  <2> SUFFICES ASSUME NEW i \in Numbered(Tail(q)), NEW j \in Numbered(Tail(q)), i < j
               PROVE  Tail(q)[i].id < Tail(q)[j].id
    BY DEF InOrder
  <2>1. i + 1 < j + 1
    BY <1>5
  <2> QED
    BY <1>4, <1>6, <2>1 DEF InOrder
<1>7. InOrder(q) /\ 1 \in Numbered(q) => \A i \in Numbered(Tail(q)) : q[1].id < Tail(q)[i].id
  <2> SUFFICES ASSUME InOrder(q), 1 \in Numbered(q), NEW i \in Numbered(Tail(q))
               PROVE  q[1].id < Tail(q)[i].id
    OBVIOUS
  <2>1. i + 1 \in Numbered(q) /\ 1 < i + 1 /\ Tail(q)[i] = q[i + 1]
    BY <1>2, <1>4 DEF Numbered
  <2> QED
    BY <2>1 DEF InOrder
<1> QED
  BY <1>1, <1>2, <1>3, <1>4, <1>6, <1>7

LEMMA JoinedQueues ==
    ASSUME NEW M, NEW q \in Seq(M), NEW r \in Seq(M)
    PROVE  /\ q \o r \in Seq(M)
           /\ \A i \in DOMAIN q : i \in DOMAIN (q \o r) /\ (q \o r)[i] = q[i]
           /\ \A i \in DOMAIN r : i + Len(q) \in DOMAIN (q \o r) /\ (q \o r)[i + Len(q)] = r[i]
           /\ \A i \in Numbered(q \o r) :
                 \/ i \in Numbered(q) /\ (q \o r)[i] = q[i]
                 \/ i - Len(q) \in Numbered(r) /\ (q \o r)[i] = r[i - Len(q)]
           /\ (/\ InOrder(q) /\ InOrder(r)
               /\ \A i \in Numbered(q), j \in Numbered(r) : q[i].id < r[j].id) => InOrder(q \o r)
<1> DEFINE s == q \o r
<1>1. /\ s \in Seq(M) /\ Len(q) \in Nat /\ Len(r) \in Nat /\ Len(s) = Len(q) + Len(r)
      /\ DOMAIN q = 1..Len(q) /\ DOMAIN r = 1..Len(r) /\ DOMAIN s = 1..Len(s)
      /\ \A i \in 1..Len(s) : s[i] = IF i <= Len(q) THEN q[i] ELSE r[i - Len(q)]
  OBVIOUS
<1> HIDE DEF s
<1>2. \A i \in DOMAIN q : i \in DOMAIN s /\ s[i] = q[i]
  BY <1>1
<1>3. \A i \in DOMAIN r : i + Len(q) \in DOMAIN s /\ s[i + Len(q)] = r[i]
  BY <1>1
<1>4. \A i \in DOMAIN s : \/ i \in DOMAIN q /\ s[i] = q[i]
                          \/ i - Len(q) \in DOMAIN r /\ s[i] = r[i - Len(q)]
  BY <1>1
<1>5. \A i \in Numbered(s) : \/ i \in Numbered(q) /\ s[i] = q[i]
                             \/ i - Len(q) \in Numbered(r) /\ s[i] = r[i - Len(q)]
  BY <1>4 DEF Numbered
<1>6. ASSUME InOrder(q), InOrder(r), \A i \in Numbered(q), j \in Numbered(r) : q[i].id < r[j].id
      PROVE  InOrder(s)
  <2> SUFFICES ASSUME NEW i \in Numbered(s), NEW j \in Numbered(s), i < j
               PROVE  s[i].id < s[j].id
    BY DEF InOrder
  <2>1. i \in 1..Len(s) /\ j \in 1..Len(s)
    BY <1>1 DEF Numbered
  <2>2. Numbered(q) \subseteq 1..Len(q) /\ Numbered(r) \subseteq 1..Len(r)
    BY <1>1 DEF Numbered
  <2>3. CASE i \in Numbered(q) /\ s[i] = q[i]
    BY <1>5, <1>6, <2>3 DEF InOrder
  <2>4. CASE i - Len(q) \in Numbered(r) /\ s[i] = r[i - Len(q)]
    <3>1. j \notin Numbered(q)
      BY <1>1, <2>1, <2>2, <2>4
    <3>2. j - Len(q) \in Numbered(r) /\ s[j] = r[j - Len(q)]
      BY <1>5, <3>1
    <3>3. i - Len(q) < j - Len(q)
      BY <1>1, <2>1
    <3> QED
      BY <1>6, <2>4, <3>2, <3>3 DEF InOrder
  <2> QED
    BY <1>5, <2>3, <2>4
<1> QED
  BY <1>1, <1>2, <1>3, <1>5, <1>6 DEF s

LEMMA OneMessage ==
    ASSUME NEW M, NEW m \in M
    PROVE  /\ <<m>> \in Seq(M) /\ DOMAIN <<m>> = {1} /\ <<m>>[1] = m
           /\ Numbered(<<m>>) \subseteq {1} /\ InOrder(<<m>>)
<1>1. <<m>> \in Seq(M) /\ DOMAIN <<m>> = {1} /\ <<m>>[1] = m
  OBVIOUS
<1>2. Numbered(<<m>>) \subseteq {1}
  BY <1>1 DEF Numbered
<1>3. InOrder(<<m>>)
  BY <1>2 DEF InOrder
<1> QED
  BY <1>1, <1>2, <1>3

LEMMA FunctionIsQueue ==
    ASSUME NEW M, NEW n \in Nat, NEW f \in [1..n -> M]
    PROVE  f \in Seq(M) /\ Len(f) = n /\ DOMAIN f = 1..n
OBVIOUS

LEMMA EmptyQueue ==
    /\ DOMAIN <<>> = {} /\ Numbered(<<>>) = {} /\ InOrder(<<>>) /\ \A M : <<>> \in Seq(M)
<1>1. DOMAIN <<>> = {} /\ \A M : <<>> \in Seq(M)
  OBVIOUS
<1> QED
  BY <1>1 DEF Numbered, InOrder
-----------------------------------------------------------------------------
(***************************************************************************)
(* Calls                                                                   *)
(***************************************************************************)
\* The id of a call that has one is its place.
LEMMA CallOfId ==
    ASSUME IInv, NEW c \in DOMAIN calls, calls[c].stage = "sent"
    PROVE  /\ readyPromise = "resolved" /\ calls[c].id = c /\ CallOf(c) = c
           /\ c \in 1..MaxCalls /\ c < nextRequestId /\ c \in pending
<1>1. readyPromise = "resolved"
  BY DEF IInv, CallsFollowReady, TypeOK
<1>2. \A d \in DOMAIN calls : calls[d].id = d
  BY <1>1 DEF IInv, CallsFollowReady
<1>3. CallOf(c) = c
  BY <1>2 DEF CallOf
<1>4. DOMAIN calls = 1..Len(calls) /\ Len(calls) \in Nat /\ Len(calls) <= MaxCalls
  BY DEF IInv, TypeOK
<1> QED
  BY <1>1, <1>2, <1>3, <1>4, MaxCallsAssumption DEF IInv, CallsFollowReady

\* Before the worker is ready no message has an id.
LEMMA NothingNumbered ==
    ASSUME IInv, readyPromise # "resolved"
    PROVE  Numbered(toWorker) = {} /\ Numbered(toClient) = {}
<1>1. \A c \in DOMAIN calls : calls[c].stage # "sent"
  BY CallOfId
<1> QED
  BY <1>1 DEF IInv, QueuesFollowCalls, OfSent

LEMMA InitKeeps == WorkerInit => IInv
<1> SUFFICES ASSUME WorkerInit
             PROVE  IInv
  OBVIOUS
<1> USE EmptyQueue, MaxCallsAssumption DEF WorkerInit
<1>1. TypeOK
  BY DEF TypeOK
<1>2. CallsFollowReady
  BY DEF CallsFollowReady
<1>3. QueuesFollowCalls /\ NothingWithoutWorker /\ QueuesInOrder
  BY DEF QueuesFollowCalls, NothingWithoutWorker, QueuesInOrder
<1> QED
  BY <1>1, <1>2, <1>3 DEF IInv

LEMMA NewCallType ==
    ASSUME IInv, NEW op \in Op, Len(calls) < MaxCalls
    PROVE  /\ NewCall(op) \in Call /\ NewCall(op).op = op /\ NewCall(op).answer = Failed
           /\ readyPromise = "pending" => NewCall(op).stage = "waits" /\ NewCall(op).id = 0
           /\ readyPromise = "rejected" => NewCall(op).stage = "returned" /\ NewCall(op).id = 0
           /\ readyPromise = "resolved" =>
                 /\ NewCall(op).stage = (IF worker = 0 THEN "returned" ELSE "sent")
                 /\ NewCall(op).id = nextRequestId /\ nextRequestId = Len(calls) + 1
<1>1. /\ readyPromise \in {"pending", "rejected", "resolved"} /\ Len(calls) \in Nat
      /\ readyPromise = "resolved" => nextRequestId = Len(calls) + 1
  BY DEF IInv, TypeOK, CallsFollowReady
<1>2. CASE readyPromise = "pending"
  BY <1>2, MaxCallsAssumption DEF NewCall, Call, Stage, Outcome
<1>3. CASE readyPromise = "rejected"
  BY <1>3, MaxCallsAssumption DEF NewCall, Call, Stage, Outcome
<1>4. CASE readyPromise = "resolved"
  BY <1>1, <1>4, MaxCallsAssumption DEF NewCall, Call, Stage, Outcome
<1> QED
  BY <1>1, <1>2, <1>3, <1>4

\* A call, with the messages posted before its request.
LEMMA MakeCallKeeps ==
    ASSUME IInv, NEW op \in Op, NEW posted \in Seq(ToWorker), Numbered(posted) = {},
           worker = 0 => posted = <<>>, MakeCallAfter(posted, op)
    PROVE  IInv'
<1> DEFINE new == NewCall(op)
           sent == IF new.stage = "sent" THEN <<Request(new.id, op)>> ELSE <<>>
           messages == posted \o sent
<1>1. /\ Len(calls) < MaxCalls /\ calls' = Append(calls, new)
      /\ pending' = pending \cup ({new.id} \ {0})
      /\ nextRequestId' = IF new.id = 0 THEN nextRequestId ELSE nextRequestId + 1
      /\ toWorker' = toWorker \o messages
  BY DEF MakeCallAfter, Post
<1>2. UNCHANGED <<worker, created, readyPromise, toClient, runtime, matchers, nextMatcherID>>
  BY DEF MakeCallAfter, inWorker
<1>3. /\ new \in Call /\ new.op = op /\ new.answer = Failed
      /\ readyPromise = "pending" => new.stage = "waits" /\ new.id = 0
      /\ readyPromise = "rejected" => new.stage = "returned" /\ new.id = 0
      /\ readyPromise = "resolved" =>
            /\ new.stage = (IF worker = 0 THEN "returned" ELSE "sent")
            /\ new.id = nextRequestId /\ nextRequestId = Len(calls) + 1
  BY <1>1, NewCallType
<1> HIDE DEF new
<1>4. readyPromise \in {"pending", "rejected", "resolved"} /\ nextRequestId \in 1..MaxCalls + 1
  BY DEF IInv, TypeOK
<1>5. /\ calls' \in Seq(Call) /\ Len(calls) \in Nat /\ Len(calls') = Len(calls) + 1
      /\ DOMAIN calls = 1..Len(calls) /\ DOMAIN calls' = 1..Len(calls) + 1
      /\ \A c \in DOMAIN calls : calls'[c] = calls[c]
      /\ calls'[Len(calls) + 1] = new
  <2>1. calls \in Seq(Call)
    BY DEF IInv, TypeOK
  <2>2. \A q \in Seq(Call), m \in Call :
           /\ Append(q, m) \in Seq(Call) /\ Len(q) \in Nat /\ Len(Append(q, m)) = Len(q) + 1
           /\ DOMAIN q = 1..Len(q) /\ DOMAIN Append(q, m) = 1..Len(q) + 1
           /\ \A c \in DOMAIN q : Append(q, m)[c] = q[c]
           /\ Append(q, m)[Len(q) + 1] = m
    OBVIOUS
  <2> QED
    BY <1>1, <1>3, <2>1, <2>2
<1>6. /\ sent \in Seq(ToWorker) /\ InOrder(sent)
      /\ \A i \in Numbered(sent) : /\ sent[i] = Request(new.id, op) /\ new.stage = "sent"
                                   /\ readyPromise = "resolved" /\ worker # 0
      /\ worker = 0 => sent = <<>>
  <2>1. CASE new.stage = "sent"
    <3>1. readyPromise = "resolved" /\ new.id = nextRequestId /\ worker # 0
      BY <1>3, <1>4, <2>1
    <3>2. Request(new.id, op) \in ToWorker
      <4>1. new.id \in 1..MaxCalls
        BY <1>1, <1>3, <1>5, <3>1, MaxCallsAssumption
      <4> QED
        BY <4>1 DEF ToWorker, Request
    <3>3. sent = <<Request(new.id, op)>>
      BY <2>1
    <3> QED
      BY <2>1, <3>1, <3>2, <3>3, OneMessage DEF Numbered
  <2>2. CASE new.stage # "sent"
    BY <2>2, EmptyQueue
  <2> QED
    BY <2>1, <2>2
<1> HIDE DEF sent
<1>7. /\ messages \in Seq(ToWorker) /\ InOrder(messages)
      /\ \A i \in Numbered(messages) :
            /\ messages[i] = Request(new.id, op) /\ new.stage = "sent"
            /\ readyPromise = "resolved" /\ worker # 0
      /\ worker = 0 => messages = <<>>
  <2>1. InOrder(posted)
    BY DEF InOrder
  <2>2. /\ posted \o sent \in Seq(ToWorker)
        /\ \A i \in Numbered(posted \o sent) :
              \/ i \in Numbered(posted)
              \/ /\ i - Len(posted) \in Numbered(sent)
                 /\ (posted \o sent)[i] = sent[i - Len(posted)]
        /\ InOrder(posted \o sent)
    BY <1>6, <2>1, JoinedQueues
  <2>3. worker = 0 => messages = <<>>
    BY <1>6, EmptyQueue, ConcatEmptySeq
  <2> QED
    BY <1>6, <2>2, <2>3
<1> HIDE DEF messages
<1>8. toWorker \in Seq(ToWorker)
  BY DEF IInv, TypeOK
<1>9. /\ toWorker' \in Seq(ToWorker)
      /\ \A i \in Numbered(toWorker') :
            \/ i \in Numbered(toWorker) /\ toWorker'[i] = toWorker[i]
            \/ /\ toWorker'[i] = Request(new.id, op) /\ new.stage = "sent"
               /\ readyPromise = "resolved"
  <2>1. /\ toWorker \o messages \in Seq(ToWorker)
        /\ \A i \in Numbered(toWorker \o messages) :
              \/ i \in Numbered(toWorker) /\ (toWorker \o messages)[i] = toWorker[i]
              \/ /\ i - Len(toWorker) \in Numbered(messages)
                 /\ (toWorker \o messages)[i] = messages[i - Len(toWorker)]
    BY <1>7, <1>8, JoinedQueues
  <2> QED
    BY <1>1, <1>7, <2>1
<1>10. TypeOK'
  <2>1. nextRequestId' \in 1..MaxCalls + 1 /\ pending' \subseteq 1..MaxCalls
    <3>1. new.id = 0 \/ (new.id = nextRequestId /\ nextRequestId = Len(calls) + 1)
      BY <1>3, <1>4
    <3>2. MaxCalls \in Nat /\ pending \subseteq 1..MaxCalls
      BY MaxCallsAssumption DEF IInv, TypeOK
    <3>3. Len(calls) \in Nat /\ Len(calls) < MaxCalls
      BY <1>1, <1>5
    <3>4. /\ nextRequestId' = IF new.id = 0 THEN nextRequestId ELSE nextRequestId + 1
          /\ pending' = pending \cup ({new.id} \ {0})
      BY <1>1
    <3>5. nextRequestId' \in 1..MaxCalls + 1
      BY <1>4, <3>1, <3>2, <3>3, <3>4
    <3>6. new.id \in 0..MaxCalls
      BY <3>1, <3>2, <3>3
    <3>7. pending' \subseteq 1..MaxCalls
      <4>1. \A S, k : S \subseteq 1..MaxCalls /\ k \in 0..MaxCalls
                         => S \cup ({k} \ {0}) \subseteq 1..MaxCalls
        BY <3>2
      <4> QED
        BY <3>2, <3>4, <3>6, <4>1
    <3> QED
      BY <3>5, <3>7
  <2>2. calls' \in Seq(Call) /\ Len(calls') <= MaxCalls /\ toWorker' \in Seq(ToWorker)
    BY <1>1, <1>5, <1>9, MaxCallsAssumption
  <2> QED
    BY <1>2, <2>1, <2>2 DEF IInv, TypeOK
<1>11. CallsFollowReady'
  <2>1. readyPromise # "resolved" => nextRequestId' = 1
    BY <1>1, <1>3, <1>4 DEF IInv, CallsFollowReady
  <2>2. readyPromise = "resolved" => nextRequestId' = Len(calls') + 1
    BY <1>1, <1>3, <1>4, <1>5
  <2>3. \A c \in DOMAIN calls' :
            CASE readyPromise = "pending" -> calls'[c].stage = "waits" /\ calls'[c].id = 0
              [] readyPromise = "rejected" -> calls'[c].stage = "returned" /\ calls'[c].id = 0
              [] OTHER -> calls'[c].stage \in {"sent", "returned"} /\ calls'[c].id = c
    <3> SUFFICES ASSUME NEW c \in DOMAIN calls'
                 PROVE  CASE readyPromise = "pending" -> calls'[c].stage = "waits" /\ calls'[c].id = 0
                          [] readyPromise = "rejected" -> calls'[c].stage = "returned" /\ calls'[c].id = 0
                          [] OTHER -> calls'[c].stage \in {"sent", "returned"} /\ calls'[c].id = c
      OBVIOUS
    <3>1. CASE c \in DOMAIN calls
      BY <1>5, <3>1 DEF IInv, CallsFollowReady
    <3>2. CASE c = Len(calls) + 1
      BY <1>3, <1>4, <1>5, <3>2
    <3> QED
      BY <1>5, <3>1, <3>2
  <2>4. \A c \in DOMAIN calls' : calls'[c].stage = "sent" => c \in pending'
    <3>1. new.stage = "sent" => Len(calls) + 1 \in pending'
      BY <1>1, <1>3, <1>4, <1>5
    <3> QED
      BY <1>1, <1>5, <3>1 DEF IInv, CallsFollowReady
  <2>5. \A c \in DOMAIN calls' : calls'[c].stage # "returned" => calls'[c].answer = Failed
    BY <1>3, <1>5 DEF IInv, CallsFollowReady
  <2> QED
    BY <1>2, <2>1, <2>2, <2>3, <2>4, <2>5 DEF CallsFollowReady
<1>12. QueuesFollowCalls'
  <2>1. \A i \in Numbered(toClient) : OfSent(toClient[i])'
    BY <1>2, <1>5 DEF IInv, QueuesFollowCalls, OfSent
  <2>2. nextMatcherID' \in Nat /\ nextMatcherID' <= nextRequestId /\ nextMatcherID' <= nextRequestId'
    BY <1>1, <1>2, <1>4 DEF IInv, TypeOK, QueuesFollowCalls
  <2>3. ASSUME NEW i \in Numbered(toWorker')
        PROVE  /\ OfSent(toWorker[i])' /\ toWorker'[i].op = calls'[toWorker'[i].id].op
               /\ nextMatcherID' <= toWorker'[i].id
    <3>1. CASE i \in Numbered(toWorker) /\ toWorker'[i] = toWorker[i]
      BY <1>2, <1>5, <3>1 DEF IInv, QueuesFollowCalls, OfSent
    <3>2. CASE toWorker'[i] = Request(new.id, op) /\ new.stage = "sent" /\ readyPromise = "resolved"
      BY <1>3, <1>5, <2>2, <3>2 DEF OfSent, Request
    <3> QED
      BY <1>9, <3>1, <3>2
  <2> QED
    BY <1>2, <2>1, <2>2, <2>3 DEF QueuesFollowCalls
<1>13. NothingWithoutWorker'
  BY <1>1, <1>2, <1>7, EmptyQueue, ConcatEmptySeq DEF IInv, NothingWithoutWorker
<1>14. QueuesInOrder'
  <2>1. ASSUME readyPromise = "resolved"
        PROVE  /\ \A i \in Numbered(toWorker) : toWorker[i].id < nextRequestId
               /\ \A i \in Numbered(toClient) : toClient[i].id < nextRequestId
    BY CallOfId DEF IInv, QueuesFollowCalls, OfSent
  <2>2. \A i \in Numbered(toWorker), j \in Numbered(messages) : toWorker[i].id < messages[j].id
    BY <1>3, <1>7, <2>1 DEF Request
  <2>3. InOrder(toWorker')
    BY <1>1, <1>7, <1>8, <2>2, JoinedQueues DEF IInv, QueuesInOrder
  <2>4. \A i \in Numbered(toClient), j \in Numbered(toWorker') : toClient[i].id < toWorker'[j].id
    BY <1>3, <1>9, <2>1 DEF IInv, QueuesInOrder, Request
  <2> QED
    BY <1>2, <2>3, <2>4 DEF IInv, QueuesInOrder
<1> QED
  BY <1>10, <1>11, <1>12, <1>13, <1>14 DEF IInv
\* Messages without an id are posted, and nothing else happens.
LEMMA PostKeeps ==
    ASSUME IInv, NEW posted \in Seq(ToWorker), Numbered(posted) = {},
           worker = 0 => posted = <<>>, toWorker' = Post(posted),
           UNCHANGED <<client, toClient, inWorker>>
    PROVE  IInv'
<1>1. UNCHANGED <<worker, created, readyPromise, calls, nextRequestId, pending, toClient,
                  runtime, matchers, nextMatcherID>>
  BY DEF client, inWorker
<1>2. InOrder(posted) /\ toWorker \in Seq(ToWorker)
  BY DEF InOrder, IInv, TypeOK
<1>3. /\ toWorker \o posted \in Seq(ToWorker)
      /\ \A i \in Numbered(toWorker \o posted) :
            i \in Numbered(toWorker) /\ (toWorker \o posted)[i] = toWorker[i]
      /\ InOrder(toWorker) => InOrder(toWorker \o posted)
  BY <1>2, JoinedQueues
<1>4. /\ toWorker' \in Seq(ToWorker) /\ InOrder(toWorker')
      /\ \A i \in Numbered(toWorker') : i \in Numbered(toWorker) /\ toWorker'[i] = toWorker[i]
  BY <1>3 DEF Post, IInv, QueuesInOrder
<1>5. TypeOK'
  BY <1>1, <1>4 DEF IInv, TypeOK
<1>6. CallsFollowReady'
  BY <1>1 DEF IInv, CallsFollowReady
<1>7. QueuesFollowCalls'
  BY <1>1, <1>4 DEF IInv, QueuesFollowCalls, OfSent
<1>8. NothingWithoutWorker'
  BY <1>1, <1>2, ConcatEmptySeq DEF IInv, NothingWithoutWorker, Post
<1>9. QueuesInOrder'
  BY <1>1, <1>4 DEF IInv, QueuesInOrder
<1> QED
  BY <1>5, <1>6, <1>7, <1>8, <1>9 DEF IInv

LEMMA FreeNowType ==
    ASSUME NEW m \in Matcher
    PROVE  /\ FreeNow(m) \in Seq(ToWorker) /\ Numbered(FreeNow(m)) = {}
           /\ worker = 0 => FreeNow(m) = <<>>
<1>1. CASE worker = 0
  BY <1>1, EmptyQueue DEF FreeNow
<1>2. CASE worker # 0
  <2>1. FreeMatcher(m) \in ToWorker /\ FreeNow(m) = <<FreeMatcher(m)>>
    BY <1>2 DEF FreeMatcher, ToWorker, FreeNow
  <2>2. FreeMatcher(m).type = "freeMatcher"
    BY DEF FreeMatcher
  <2> QED
    BY <1>2, <2>1, <2>2, OneMessage DEF Numbered
<1> QED
  BY <1>1, <1>2

LEMMA StartWorkerKeeps ==
    ASSUME IInv, StartWorker
    PROVE  IInv'
<1>1. /\ worker = 0 /\ created < MaxWorkers /\ created' = created + 1 /\ worker' = created + 1
      /\ toWorker' = <<InitMessage>>
      /\ UNCHANGED <<readyPromise, calls, nextRequestId, pending, toClient, runtime, matchers,
                     nextMatcherID>>
  BY DEF StartWorker, inWorker
<1>2. InitMessage \in ToWorker /\ InitMessage.type = "init"
  BY DEF InitMessage, ToWorker
<1>3. toWorker' \in Seq(ToWorker) /\ Numbered(toWorker') = {} /\ InOrder(toWorker')
  <2>1. <<InitMessage>> \in Seq(ToWorker) /\ InOrder(<<InitMessage>>)
    BY <1>2, OneMessage
  <2>2. DOMAIN <<InitMessage>> = {1} /\ <<InitMessage>>[1] = InitMessage
    BY <1>2, OneMessage
  <2>3. Numbered(<<InitMessage>>) = {}
    BY <1>2, <2>2 DEF Numbered
  <2> QED
    BY <1>1, <2>1, <2>3
<1>4. created \in Nat /\ created' \in 0..MaxWorkers /\ worker' \in 0..MaxWorkers /\ worker' # 0
  BY <1>1, MaxCallsAssumption DEF IInv, TypeOK
<1>5. TypeOK'
  BY <1>1, <1>3, <1>4 DEF IInv, TypeOK
<1>6. CallsFollowReady'
  BY <1>1 DEF IInv, CallsFollowReady
<1>7. QueuesFollowCalls'
  BY <1>1, <1>3 DEF IInv, QueuesFollowCalls, OfSent
<1>8. NothingWithoutWorker'
  BY <1>4 DEF NothingWithoutWorker
<1>9. QueuesInOrder'
  BY <1>1, <1>3 DEF IInv, QueuesInOrder
<1> QED
  BY <1>5, <1>6, <1>7, <1>8, <1>9 DEF IInv

LEMMA TerminateKeeps ==
    ASSUME IInv, Terminate
    PROVE  IInv'
<1>1. /\ worker' = 0 /\ toWorker' = <<>> /\ toClient' = <<>> /\ runtime' = "off"
      /\ matchers' = <<>> /\ nextMatcherID' = 1
      /\ UNCHANGED <<created, readyPromise, calls, nextRequestId, pending>>
  BY DEF Terminate
<1>2. TypeOK'
  BY <1>1, EmptyQueue, MaxCallsAssumption DEF IInv, TypeOK
<1>3. CallsFollowReady'
  BY <1>1 DEF IInv, CallsFollowReady
<1>4. QueuesFollowCalls' /\ NothingWithoutWorker' /\ QueuesInOrder'
  BY <1>1, EmptyQueue DEF IInv, TypeOK, QueuesFollowCalls, NothingWithoutWorker, QueuesInOrder
<1> QED
  BY <1>2, <1>3, <1>4 DEF IInv

-----------------------------------------------------------------------------
(***************************************************************************)
(* What the client receives                                                *)
(***************************************************************************)
LEMMA CountTo ==
    ASSUME NEW n \in Int, 0 <= n
    PROVE  IsFiniteSet(1..n) /\ Cardinality(1..n) = n
<1>1. IsFiniteSet(1..n) /\ Cardinality(1..n) = IF 1 > n THEN 0 ELSE n - 1 + 1
  BY FS_Interval
<1> QED
  BY <1>1

\* While the promise is pending every call waits, and they are numbered from 1.
LEMMA WaitingIsAll ==
    ASSUME IInv, readyPromise = "pending"
    PROVE  /\ Len(calls) \in Nat /\ DOMAIN calls = 1..Len(calls)
           /\ Waiting = 1..Len(calls) /\ Cardinality(Waiting) = Len(calls)
           /\ \A c \in Waiting : Resumed(c) = c
           /\ \A n \in 1..Len(calls) : NthWaiting(n) = n
<1>1. Len(calls) \in Nat /\ DOMAIN calls = 1..Len(calls) /\ nextRequestId = 1
  BY DEF IInv, TypeOK, CallsFollowReady
<1>2. Waiting = 1..Len(calls)
  BY <1>1 DEF IInv, CallsFollowReady, Waiting
<1>3. Cardinality(Waiting) = Len(calls)
  BY <1>1, <1>2, CountTo
<1>4. ASSUME NEW c \in Waiting
      PROVE  Cardinality({d \in Waiting : d < c}) = c - 1
  <2>1. {d \in Waiting : d < c} = 1..(c - 1)
    BY <1>1, <1>2
  <2>2. c - 1 \in Int /\ 0 <= c - 1
    BY <1>1, <1>2
  <2> QED
    BY <2>1, <2>2, CountTo
<1>5. \A c \in Waiting : Resumed(c) = c
  BY <1>1, <1>2, <1>4 DEF Resumed
<1>6. ASSUME NEW n \in 1..Len(calls)
      PROVE  NthWaiting(n) = n
  <2>1. \A c \in Waiting : Cardinality({d \in Waiting : d < c}) = n - 1 <=> c = n
    BY <1>1, <1>2, <1>4
  <2>2. n \in Waiting
    BY <1>2
  <2> QED
    BY <2>1, <2>2 DEF NthWaiting
<1> QED
  BY <1>1, <1>2, <1>3, <1>5, <1>6
LEMMA ClientTail ==
    ASSUME IInv, toClient # <<>>
    PROVE  /\ Tail(toClient) \in Seq(ToClient) /\ InOrder(Tail(toClient))
           /\ \A i \in Numbered(Tail(toClient)) :
                 i + 1 \in Numbered(toClient) /\ Tail(toClient)[i] = toClient[i + 1]
<1>1. toClient \in Seq(ToClient) /\ InOrder(toClient)
  BY DEF IInv, TypeOK, QueuesInOrder
<1> QED
  BY <1>1, TailOfQueue

\* The client's queue is as it was, or lost its first message.
ClientQueueShrinks == toClient' = toClient \/ (toClient # <<>> /\ toClient' = Tail(toClient))

LEMMA ShrunkQueue ==
    ASSUME IInv, ClientQueueShrinks
    PROVE  /\ toClient' \in Seq(ToClient) /\ InOrder(toClient')
           /\ \A i \in Numbered(toClient') : \E j \in Numbered(toClient) : toClient'[i] = toClient[j]
<1>1. toClient \in Seq(ToClient) /\ InOrder(toClient)
  BY DEF IInv, TypeOK, QueuesInOrder
<1>2. CASE toClient' = toClient
  BY <1>1, <1>2
<1>3. CASE toClient # <<>> /\ toClient' = Tail(toClient)
  BY <1>3, ClientTail
<1> QED
  BY <1>2, <1>3 DEF ClientQueueShrinks

\* The promise settles: the calls that waited are sent in their order.
LEMMA SendWaitingKeeps ==
    ASSUME IInv, worker # 0, readyPromise = "pending", readyPromise' = "resolved", SendWaiting,
           ClientQueueShrinks, UNCHANGED <<worker, created, inWorker>>
    PROVE  IInv'
<1> DEFINE requests == [n \in 1..Len(calls) |-> Request(n, calls[n].op)]
<1>1. /\ Len(calls) \in Nat /\ Len(calls) <= MaxCalls /\ DOMAIN calls = 1..Len(calls)
      /\ \A c \in DOMAIN calls : calls[c] \in Call
      /\ Waiting = 1..Len(calls) /\ Cardinality(Waiting) = Len(calls)
      /\ \A c \in Waiting : Resumed(c) = c
      /\ \A n \in 1..Len(calls) : NthWaiting(n) = n
      /\ nextRequestId = 1 /\ pending \subseteq 1..MaxCalls
      /\ \A c \in DOMAIN calls : calls[c].answer = Failed
  <2>1. /\ Len(calls) \in Nat /\ Len(calls) <= MaxCalls /\ pending \subseteq 1..MaxCalls
        /\ calls \in Seq(Call)
    BY DEF IInv, TypeOK
  <2>2. nextRequestId = 1 /\ \A c \in DOMAIN calls : calls[c].answer = Failed
    BY DEF IInv, CallsFollowReady
  <2>3. DOMAIN calls = 1..Len(calls) /\ \A c \in DOMAIN calls : calls[c] \in Call
    BY <2>1
  <2> QED
    BY <2>1, <2>2, <2>3, WaitingIsAll
<1>2. calls' = [c \in 1..Len(calls) |-> [calls[c] EXCEPT !.stage = "sent", !.id = c]]
  BY <1>1 DEF SendWaiting
<1>3. pending' = pending \cup 1..Len(calls) /\ nextRequestId' = Len(calls) + 1
  <2>1. {Resumed(c) : c \in Waiting} = 1..Len(calls)
    BY <1>1
  <2>2. pending' = pending \cup {Resumed(c) : c \in Waiting}
    BY DEF SendWaiting
  <2>3. nextRequestId' = nextRequestId + Cardinality(Waiting)
    BY DEF SendWaiting
  <2> QED
    BY <1>1, <2>1, <2>2, <2>3
<1>4. toWorker' = toWorker \o requests
  <2>1. [n \in 1..Cardinality(Waiting) |->
            LET c == NthWaiting(n) IN Request(Resumed(c), calls[c].op)] = requests
    BY <1>1
  <2> QED
    BY <2>1 DEF SendWaiting, Post
<1>5. \A c \in 1..Len(calls) :
          /\ calls'[c] \in Call /\ calls'[c].stage = "sent" /\ calls'[c].id = c
          /\ calls'[c].op = calls[c].op /\ calls'[c].answer = Failed
  <2> SUFFICES ASSUME NEW c \in 1..Len(calls)
               PROVE  /\ calls'[c] \in Call /\ calls'[c].stage = "sent" /\ calls'[c].id = c
                      /\ calls'[c].op = calls[c].op /\ calls'[c].answer = Failed
    OBVIOUS
  <2>1. calls[c] \in Call /\ calls[c].answer = Failed /\ c \in 0..MaxCalls
    BY <1>1, MaxCallsAssumption
  <2>2. calls'[c] = [calls[c] EXCEPT !.stage = "sent", !.id = c]
    BY <1>2
  <2> QED
    BY <2>1, <2>2 DEF Call, Stage
<1>6. calls' \in Seq(Call) /\ Len(calls') = Len(calls) /\ DOMAIN calls' = 1..Len(calls)
  <2>1. calls' \in [1..Len(calls) -> Call]
    BY <1>2, <1>5
  <2> QED
    BY <1>1, <2>1, FunctionIsQueue
<1>7. /\ requests \in Seq(ToWorker) /\ DOMAIN requests = 1..Len(calls)
      /\ \A n \in 1..Len(calls) : requests[n] = Request(n, calls[n].op)
  <2>1. \A n \in 1..Len(calls) : Request(n, calls[n].op) \in ToWorker
    BY <1>1, MaxCallsAssumption DEF Request, ToWorker, Call
  <2> QED
    BY <1>1, <2>1
<1> HIDE DEF requests
<1>8. InOrder(requests)
  BY <1>7 DEF InOrder, Numbered, Request
<1>9. toWorker \in Seq(ToWorker) /\ InOrder(toWorker) /\ Numbered(toWorker) = {} /\ Numbered(toClient) = {}
  BY NothingNumbered DEF IInv, TypeOK, QueuesInOrder
<1>10. /\ toWorker \o requests \in Seq(ToWorker) /\ InOrder(toWorker \o requests)
       /\ \A i \in Numbered(toWorker \o requests) :
             /\ i - Len(toWorker) \in Numbered(requests)
             /\ (toWorker \o requests)[i] = requests[i - Len(toWorker)]
  <2>1. \A i \in Numbered(toWorker), j \in Numbered(requests) : toWorker[i].id < requests[j].id
    BY <1>9
  <2>2. \A i \in Numbered(toWorker \o requests) :
           \/ i \in Numbered(toWorker) /\ (toWorker \o requests)[i] = toWorker[i]
           \/ /\ i - Len(toWorker) \in Numbered(requests)
              /\ (toWorker \o requests)[i] = requests[i - Len(toWorker)]
    <3>1. toWorker \in Seq(ToWorker) /\ requests \in Seq(ToWorker)
      BY <1>7, <1>9
    <3> QED
      BY <3>1, JoinedQueues
  <2>3. toWorker \o requests \in Seq(ToWorker) /\ InOrder(toWorker \o requests)
    BY <1>7, <1>8, <1>9, <2>1, JoinedQueues
  <2> QED
    BY <1>9, <2>2, <2>3
<1>11. /\ toWorker' \in Seq(ToWorker) /\ InOrder(toWorker')
       /\ \A i \in Numbered(toWorker') : \E n \in 1..Len(calls) :
             toWorker'[i] = Request(n, calls[n].op)
  BY <1>4, <1>7, <1>10 DEF Numbered
<1>12. toClient' \in Seq(ToClient) /\ InOrder(toClient') /\ Numbered(toClient') = {}
  BY <1>9, ShrunkQueue
<1>13. UNCHANGED <<worker, created, runtime, matchers, nextMatcherID>>
  BY DEF inWorker
<1>14. TypeOK'
  <2>1. TypeOK /\ MaxCalls \in Nat
    BY MaxCallsAssumption DEF IInv
  <2>2. nextRequestId' \in 1..MaxCalls + 1 /\ pending' \subseteq 1..MaxCalls
    <3>1. Len(calls) \in Nat /\ Len(calls) <= MaxCalls /\ pending \subseteq 1..MaxCalls
      BY <1>1
    <3>2. 1..Len(calls) \subseteq 1..MaxCalls /\ Len(calls) + 1 \in 1..MaxCalls + 1
      BY <2>1, <3>1
    <3> QED
      BY <1>3, <3>1, <3>2
  <2>3. calls' \in Seq(Call) /\ Len(calls') <= MaxCalls
    BY <1>6, <2>1 DEF TypeOK
  <2>4. toWorker' \in Seq(ToWorker) /\ toClient' \in Seq(ToClient)
    BY <1>11, <1>12
  <2> QED
    BY <1>3, <1>13, <2>1, <2>2, <2>3, <2>4 DEF TypeOK
<1>15. CallsFollowReady'
  BY <1>3, <1>5, <1>6 DEF CallsFollowReady
<1>16. QueuesFollowCalls'
  <2>1. nextMatcherID' \in Nat /\ nextMatcherID' = 1 /\ nextMatcherID' <= nextRequestId'
    BY <1>1, <1>3, <1>13 DEF IInv, TypeOK, QueuesFollowCalls
  <2>2. ASSUME NEW i \in Numbered(toWorker')
        PROVE  /\ OfSent(toWorker[i])' /\ toWorker'[i].op = calls'[toWorker'[i].id].op
               /\ nextMatcherID' <= toWorker'[i].id
    <3>1. PICK n \in 1..Len(calls) : toWorker'[i] = Request(n, calls[n].op)
      BY <1>11
    <3> QED
      BY <1>5, <1>6, <2>1, <3>1 DEF OfSent, Request
  <2> QED
    BY <1>12, <2>1, <2>2 DEF QueuesFollowCalls
<1>17. NothingWithoutWorker'
  BY <1>13 DEF NothingWithoutWorker
<1>18. QueuesInOrder'
  BY <1>11, <1>12 DEF QueuesInOrder
<1> QED
  BY <1>14, <1>15, <1>16, <1>17, <1>18 DEF IInv

\* The worker cannot start: the calls that waited are rejected.
LEMMA RejectWaitingKeeps ==
    ASSUME IInv, worker # 0, readyPromise = "pending", readyPromise' = "rejected", RejectWaiting,
           ClientQueueShrinks, UNCHANGED <<worker, created, inWorker>>
    PROVE  IInv'
<1>1. /\ Len(calls) \in Nat /\ DOMAIN calls = 1..Len(calls) /\ Waiting = 1..Len(calls)
      /\ \A c \in DOMAIN calls : calls[c] \in Call /\ calls[c].id = 0
  BY WaitingIsAll DEF IInv, TypeOK, CallsFollowReady
<1>2. /\ calls' = [c \in 1..Len(calls) |-> [calls[c] EXCEPT !.stage = "returned"]]
      /\ UNCHANGED <<pending, nextRequestId, toWorker>>
  BY <1>1 DEF RejectWaiting
<1>3. \A c \in 1..Len(calls) : /\ calls'[c] \in Call /\ calls'[c].id = 0
                               /\ calls'[c].stage = "returned"
  <2> SUFFICES ASSUME NEW c \in 1..Len(calls)
               PROVE  calls'[c] \in Call /\ calls'[c].id = 0 /\ calls'[c].stage = "returned"
    OBVIOUS
  <2>1. calls[c] \in Call /\ calls[c].id = 0
    BY <1>1
  <2>2. calls'[c] = [calls[c] EXCEPT !.stage = "returned"]
    BY <1>2
  <2> QED
    BY <2>1, <2>2 DEF Call, Stage
<1>4. calls' \in Seq(Call) /\ Len(calls') = Len(calls) /\ DOMAIN calls' = 1..Len(calls)
  <2>1. calls' \in [1..Len(calls) -> Call]
    BY <1>2, <1>3
  <2> QED
    BY <1>1, <2>1, FunctionIsQueue
<1>5. Numbered(toWorker) = {} /\ Numbered(toClient) = {}
  BY NothingNumbered
<1>6. toClient' \in Seq(ToClient) /\ InOrder(toClient') /\ Numbered(toClient') = {}
  BY <1>5, ShrunkQueue
<1>7. UNCHANGED <<worker, created, runtime, matchers, nextMatcherID>>
  BY DEF inWorker
<1>8. TypeOK'
  BY <1>2, <1>4, <1>6, <1>7 DEF IInv, TypeOK
<1>9. CallsFollowReady'
  BY <1>2, <1>3, <1>4 DEF IInv, CallsFollowReady
<1>10. QueuesFollowCalls'
  BY <1>2, <1>5, <1>6, <1>7 DEF IInv, QueuesFollowCalls
<1>11. NothingWithoutWorker'
  BY <1>7 DEF NothingWithoutWorker
<1>12. QueuesInOrder'
  BY <1>2, <1>5, <1>6 DEF IInv, QueuesInOrder
<1> QED
  BY <1>8, <1>9, <1>10, <1>11, <1>12 DEF IInv

LEMMA SettleReadyKeeps ==
    ASSUME IInv, worker # 0, NEW how \in {"resolved", "rejected"}, SettleReady(how),
           ClientQueueShrinks, UNCHANGED <<worker, created, inWorker>>
    PROVE  IInv'
<1>1. CASE readyPromise # "pending"
  <2>1. UNCHANGED <<worker, created, readyPromise, calls, nextRequestId, pending, toWorker,
                    runtime, matchers, nextMatcherID>>
    BY <1>1 DEF SettleReady, inWorker
  <2>2. TypeOK'
    BY <2>1, ShrunkQueue DEF IInv, TypeOK
  <2>3. CallsFollowReady'
    BY <2>1 DEF IInv, CallsFollowReady
  <2>4. QueuesFollowCalls'
    BY <2>1, ShrunkQueue DEF IInv, QueuesFollowCalls, OfSent
  <2>5. NothingWithoutWorker'
    BY <2>1 DEF NothingWithoutWorker
  <2>6. QueuesInOrder'
    BY <2>1, ShrunkQueue DEF IInv, QueuesInOrder
  <2> QED
    BY <2>2, <2>3, <2>4, <2>5, <2>6 DEF IInv
<1>2. CASE readyPromise = "pending" /\ how = "resolved"
  BY <1>2, SendWaitingKeeps DEF SettleReady
<1>3. CASE readyPromise = "pending" /\ how = "rejected"
  BY <1>3, RejectWaitingKeeps DEF SettleReady
<1> QED
  BY <1>1, <1>2, <1>3
\* The answer the client takes is to a call that is pending, and to no other message.
LEMMA HeadAnswer ==
    ASSUME IInv, toClient # <<>>, Head(toClient).type = "answer"
    PROVE  /\ 1 \in Numbered(toClient) /\ toClient[1] = Head(toClient)
           /\ Head(toClient) \in [type : {"answer"}, id : 1..MaxCalls, answer : Outcome]
           /\ Head(toClient).id \in DOMAIN calls /\ Head(toClient).id \in pending
           /\ CallOf(Head(toClient).id) = Head(toClient).id
           /\ calls[Head(toClient).id].stage = "sent" /\ readyPromise = "resolved"
           /\ \A i \in Numbered(Tail(toClient)) : Tail(toClient)[i].id # Head(toClient).id
           /\ \A i \in Numbered(toWorker) : toWorker[i].id # Head(toClient).id
<1>1. toClient \in Seq(ToClient) /\ InOrder(toClient)
  BY DEF IInv, TypeOK, QueuesInOrder
<1>2. 1 \in DOMAIN toClient /\ toClient[1] = Head(toClient) /\ Head(toClient) \in ToClient
  BY <1>1
<1>3. 1 \in Numbered(toClient)
  BY <1>2 DEF Numbered
<1>4. Head(toClient) \in [type : {"answer"}, id : 1..MaxCalls, answer : Outcome]
  BY <1>2 DEF ToClient
<1>5. Head(toClient).id \in DOMAIN calls /\ calls[Head(toClient).id].stage = "sent"
  BY <1>2, <1>3 DEF IInv, QueuesFollowCalls, OfSent
<1>6. \A i \in Numbered(Tail(toClient)) : Head(toClient).id < Tail(toClient)[i].id
  BY <1>1, <1>2, <1>3, TailOfQueue
<1>7. \A i \in Numbered(toWorker) : Head(toClient).id < toWorker[i].id
  BY <1>2, <1>3 DEF IInv, QueuesInOrder
<1>8. \A x : Head(toClient).id < x => x # Head(toClient).id
  BY <1>4
<1> QED
  BY <1>2, <1>3, <1>4, <1>5, <1>6, <1>7, <1>8, CallOfId

LEMMA SettleKeeps ==
    ASSUME IInv, toClient # <<>>, Head(toClient).type = "answer",
           NEW posted \in Seq(ToWorker), Numbered(posted) = {},
           toClient' = Tail(toClient),
           pending' = pending \ {Head(toClient).id},
           calls' = Returned(Head(toClient).id, Head(toClient).answer),
           toWorker' = Post(posted),
           UNCHANGED <<worker, created, readyPromise, nextRequestId, inWorker>>
    PROVE  IInv'
<1> DEFINE id == Head(toClient).id
           answer == Head(toClient).answer
<1>1. /\ id \in DOMAIN calls /\ calls[id].stage = "sent" /\ readyPromise = "resolved"
      /\ answer \in Outcome
      /\ \A i \in Numbered(toClient') : toClient'[i].id # id
      /\ \A i \in Numbered(toWorker) : toWorker[i].id # id
  BY HeadAnswer
<1>2. /\ calls \in Seq(Call) /\ toClient \in Seq(ToClient) /\ toWorker \in Seq(ToWorker)
      /\ DOMAIN calls = 1..Len(calls) /\ Len(calls) \in Nat
      /\ \A c \in DOMAIN calls : calls[c] \in Call
  BY DEF IInv, TypeOK
<1>3. /\ DOMAIN calls' = DOMAIN calls /\ calls' = [c \in DOMAIN calls |-> calls'[c]]
      /\ \A c \in DOMAIN calls : c # id => calls'[c] = calls[c]
      /\ calls'[id] = [calls[id] EXCEPT !.stage = "returned", !.answer = answer]
  BY <1>1 DEF Returned
<1>4. /\ calls'[id] \in Call /\ calls'[id].stage = "returned"
      /\ calls'[id].op = calls[id].op /\ calls'[id].id = calls[id].id
  <2>1. calls[id] \in Call
    BY <1>1, <1>2
  <2> QED
    BY <1>1, <1>3, <2>1 DEF Call, Stage
<1>5. calls' \in Seq(Call) /\ Len(calls') = Len(calls)
  <2>1. \A c \in DOMAIN calls : calls'[c] \in Call
    BY <1>2, <1>3, <1>4
  <2>2. calls' \in [DOMAIN calls -> Call]
    BY <1>3, <2>1
  <2> QED
    BY <1>2, <2>2, FunctionIsQueue
<1> HIDE DEF id, answer
<1>6. /\ toClient' \in Seq(ToClient) /\ InOrder(toClient')
      /\ \A i \in Numbered(toClient') : i + 1 \in Numbered(toClient) /\ toClient'[i] = toClient[i + 1]
  BY ClientTail
<1>7. /\ toWorker \o posted \in Seq(ToWorker)
      /\ \A i \in Numbered(toWorker \o posted) :
            i \in Numbered(toWorker) /\ (toWorker \o posted)[i] = toWorker[i]
      /\ InOrder(toWorker) => InOrder(toWorker \o posted)
  <2>1. InOrder(posted)
    BY DEF InOrder
  <2> QED
    BY <1>2, <2>1, JoinedQueues
<1>8. /\ toWorker' \in Seq(ToWorker) /\ InOrder(toWorker')
      /\ \A i \in Numbered(toWorker') : i \in Numbered(toWorker) /\ toWorker'[i] = toWorker[i]
  BY <1>7 DEF Post, IInv, QueuesInOrder
<1>9. UNCHANGED <<worker, created, readyPromise, nextRequestId, runtime, matchers, nextMatcherID>>
  BY DEF inWorker
<1>10. worker # 0
  BY DEF IInv, NothingWithoutWorker
<1>11. pending' = pending \ {id}
  BY DEF id
<1>12. TypeOK'
  BY <1>5, <1>6, <1>8, <1>9, <1>11 DEF IInv, TypeOK
<1>13. CallsFollowReady'
  <2>1. \A c \in DOMAIN calls' : calls'[c].stage \in {"sent", "returned"} /\ calls'[c].id = c
    BY <1>1, <1>3, <1>4 DEF IInv, CallsFollowReady
  <2>2. \A c \in DOMAIN calls' : calls'[c].stage = "sent" => c \in pending'
    BY <1>3, <1>4, <1>11 DEF IInv, CallsFollowReady
  <2>3. \A c \in DOMAIN calls' : calls'[c].stage # "returned" => calls'[c].answer = Failed
    BY <1>3, <1>4 DEF IInv, CallsFollowReady
  <2>4. nextRequestId' = Len(calls') + 1
    BY <1>1, <1>5, <1>9 DEF IInv, CallsFollowReady
  <2> QED
    BY <1>1, <1>9, <2>1, <2>2, <2>3, <2>4 DEF CallsFollowReady
<1>14. QueuesFollowCalls'
  <2>4. ASSUME NEW i \in Numbered(toClient')
        PROVE  OfSent(toClient[i])'
    <3>1. i + 1 \in Numbered(toClient) /\ toClient'[i] = toClient[i + 1] /\ OfSent(toClient[i + 1])
      BY <1>6 DEF IInv, QueuesFollowCalls
    <3>2. toClient'[i].id \in DOMAIN calls /\ calls[toClient'[i].id].stage = "sent"
      BY <3>1 DEF OfSent
    <3>3. toClient'[i].id # id
      BY <1>1
    <3> QED
      BY <1>3, <3>2, <3>3 DEF OfSent
  <2>5. ASSUME NEW i \in Numbered(toWorker')
        PROVE  /\ OfSent(toWorker[i])' /\ toWorker'[i].op = calls'[toWorker'[i].id].op
               /\ nextMatcherID' <= toWorker'[i].id
    <3>1. /\ i \in Numbered(toWorker) /\ toWorker'[i] = toWorker[i] /\ OfSent(toWorker[i])
          /\ toWorker[i].op = calls[toWorker[i].id].op /\ nextMatcherID <= toWorker[i].id
      BY <1>8 DEF IInv, QueuesFollowCalls
    <3>2. toWorker[i].id # id
      BY <1>1, <3>1
    <3> QED
      BY <1>3, <1>9, <3>1, <3>2 DEF OfSent
  <2> QED
    BY <1>9, <2>4, <2>5 DEF IInv, QueuesFollowCalls
<1>15. NothingWithoutWorker'
  BY <1>9, <1>10 DEF NothingWithoutWorker
<1>16. QueuesInOrder'
  BY <1>6, <1>8 DEF IInv, QueuesInOrder
<1> QED
  BY <1>12, <1>13, <1>14, <1>15, <1>16 DEF IInv

LEMMA ClientReceivesKeeps ==
    ASSUME IInv, ClientReceives
    PROVE  IInv'
<1>1. toClient # <<>> /\ toClient' = Tail(toClient) /\ UNCHANGED <<worker, created, inWorker>>
  BY DEF ClientReceives
<1>2. worker # 0 /\ ClientQueueShrinks
  BY <1>1 DEF IInv, NothingWithoutWorker, ClientQueueShrinks
<1>3. Head(toClient) \in ToClient
  BY <1>1 DEF IInv, TypeOK
<1>4. CASE Head(toClient) = Ready
  BY <1>1, <1>2, <1>4, SettleReadyKeeps DEF ClientReceives
<1>5. CASE Head(toClient) = InitError
  <2>1. Head(toClient) # Ready
    BY <1>5 DEF Ready, InitError
  <2> QED
    BY <1>1, <1>2, <1>5, <2>1, SettleReadyKeeps DEF ClientReceives
<1>6. CASE Head(toClient) # Ready /\ Head(toClient) # InitError
  <2>1. Head(toClient).type = "answer"
    BY <1>3, <1>6 DEF ToClient, Ready, InitError
  <2>2. Settle(Head(toClient))
    BY <1>6 DEF ClientReceives
  <2>3. Head(toClient).id \in pending /\ CallOf(Head(toClient).id) = Head(toClient).id
    BY <1>1, <2>1, HeadAnswer
  <2>4. /\ pending' = pending \ {Head(toClient).id}
        /\ calls' = Returned(Head(toClient).id, Head(toClient).answer)
        /\ UNCHANGED <<readyPromise, nextRequestId, toWorker>>
    BY <2>2, <2>3 DEF Settle, WithoutPending
  <2>5. toWorker' = Post(<<>>)
    BY <2>4, ConcatEmptySeq DEF Post, IInv, TypeOK
  <2> QED
    BY <1>1, <2>1, <2>4, <2>5, EmptyQueue, SettleKeeps
<1> QED
  BY <1>4, <1>5, <1>6

LEMMA WorkerErrorKeeps ==
    ASSUME IInv, WorkerError
    PROVE  IInv'
BY SettleReadyKeeps DEF WorkerError, ClientQueueShrinks
-----------------------------------------------------------------------------
(***************************************************************************)
(* The worker                                                              *)
(***************************************************************************)
LEMMA WorkerTail ==
    ASSUME IInv, toWorker # <<>>
    PROVE  /\ Tail(toWorker) \in Seq(ToWorker) /\ InOrder(Tail(toWorker))
           /\ \A i \in Numbered(Tail(toWorker)) :
                 i + 1 \in Numbered(toWorker) /\ Tail(toWorker)[i] = toWorker[i + 1]
           /\ 1 \in DOMAIN toWorker /\ toWorker[1] = Head(toWorker) /\ Head(toWorker) \in ToWorker
           /\ 1 \in Numbered(toWorker) =>
                 \A i \in Numbered(Tail(toWorker)) : Head(toWorker).id < Tail(toWorker)[i].id
<1>1. toWorker \in Seq(ToWorker) /\ InOrder(toWorker)
  BY DEF IInv, TypeOK, QueuesInOrder
<1>2. toWorker[1] = Head(toWorker) /\ Head(toWorker) \in ToWorker
  BY <1>1
<1> QED
  BY <1>1, <1>2, TailOfQueue

LEMMA RequestIds ==
    ASSUME IInv
    PROVE  \A i \in Numbered(toWorker) : toWorker[i].id \in Nat
<1> SUFFICES ASSUME NEW i \in Numbered(toWorker)
             PROVE  toWorker[i].id \in Nat
  OBVIOUS
<1>1. toWorker \in Seq(ToWorker) /\ i \in DOMAIN toWorker /\ toWorker[i].type \in {"request", "answer"}
  BY DEF IInv, TypeOK, Numbered
<1>2. toWorker[i] \in ToWorker
  BY <1>1
<1>3. toWorker[i].id \in 1..MaxCalls
  BY <1>1, <1>2 DEF ToWorker
<1> QED
  BY <1>3

\* The worker takes a message and sends none; what it holds may change.
LEMMA TakesKeeps ==
    ASSUME IInv, toWorker # <<>>, toWorker' = Tail(toWorker), UNCHANGED <<client, toClient>>,
           runtime' \in {"off", "loading", "starting", "up", "failed"}, UNCHANGED nextMatcherID,
           DOMAIN matchers' \subseteq DOMAIN matchers, matchers' \in [DOMAIN matchers' -> Grammar]
    PROVE  IInv'
<1>1. UNCHANGED <<worker, created, readyPromise, calls, nextRequestId, pending, toClient,
                  nextMatcherID>>
  BY DEF client
<1>2. /\ toWorker' \in Seq(ToWorker) /\ InOrder(toWorker')
      /\ \A i \in Numbered(toWorker') :
            i + 1 \in Numbered(toWorker) /\ toWorker'[i] = toWorker[i + 1]
  BY WorkerTail
<1>3. worker # 0
  BY DEF IInv, NothingWithoutWorker
<1>4. TypeOK'
  BY <1>1, <1>2 DEF IInv, TypeOK
<1>5. CallsFollowReady'
  BY <1>1 DEF IInv, CallsFollowReady
<1>6. QueuesFollowCalls'
  BY <1>1, <1>2 DEF IInv, QueuesFollowCalls, OfSent
<1>7. NothingWithoutWorker'
  BY <1>1, <1>3 DEF NothingWithoutWorker
<1>8. QueuesInOrder'
  BY <1>1, <1>2 DEF IInv, QueuesInOrder
<1> QED
  BY <1>4, <1>5, <1>6, <1>7, <1>8 DEF IInv

\* The request the worker takes is of a call that was sent.
LEMMA HeadRequest ==
    ASSUME IInv, toWorker # <<>>, Head(toWorker).type = "request"
    PROVE  /\ 1 \in Numbered(toWorker) /\ toWorker[1] = Head(toWorker)
           /\ Head(toWorker) \in [type : {"request"}, id : 1..MaxCalls, op : Op]
           /\ OfSent(Head(toWorker)) /\ Head(toWorker).op = calls[Head(toWorker).id].op
           /\ nextMatcherID \in 1..MaxCalls /\ nextMatcherID <= Head(toWorker).id
           /\ Head(toWorker).id < nextRequestId
           /\ \A i \in Numbered(Tail(toWorker)) : Head(toWorker).id < Tail(toWorker)[i].id
           /\ \A i \in Numbered(toClient) : toClient[i].id < Head(toWorker).id
<1>1. toWorker[1] = Head(toWorker) /\ Head(toWorker) \in ToWorker /\ 1 \in Numbered(toWorker)
  BY WorkerTail DEF Numbered
<1>2. Head(toWorker) \in [type : {"request"}, id : 1..MaxCalls, op : Op]
  BY <1>1 DEF ToWorker
<1>3. /\ OfSent(Head(toWorker)) /\ Head(toWorker).op = calls[Head(toWorker).id].op
      /\ nextMatcherID <= Head(toWorker).id /\ nextMatcherID \in 1..MaxCalls + 1
  BY <1>1 DEF IInv, QueuesFollowCalls, TypeOK
<1>4. Head(toWorker).id < nextRequestId
  BY <1>3, CallOfId DEF OfSent
<1>5. \A i \in Numbered(toClient) : toClient[i].id < Head(toWorker).id
  BY <1>1 DEF IInv, QueuesInOrder
<1>6. nextMatcherID \in 1..MaxCalls
  BY <1>2, <1>3, MaxCallsAssumption
<1> QED
  BY <1>1, <1>2, <1>3, <1>4, <1>5, <1>6, WorkerTail

\* What the matchers answer, and which they hold then.
LEMMA AnswerType ==
    ASSUME NEW op \in Op, NEW held, held \in [DOMAIN held -> Grammar],
           NEW new \in Matcher
    PROVE  /\ Service!AnswerTo(op, held, new) \in Outcome
           /\ Service!AnswerTo(op, held, new).type = "compiled" =>
                 /\ op.type = "compile" /\ op.grammar \in Grammar
                 /\ Service!AnswerTo(op, held, new).matcher = new
<1> USE DEF Op, Service!Op, Outcome, Failed, Service!Failed, Service!AnswerTo
<1>1. CASE op \in [type : {"compile"}, grammar : Grammar]
  BY <1>1
<1>2. CASE op \in [type : {"match"}, matcher : Matcher, input : Input]
  BY <1>2
<1>3. CASE op \in [type : {"lsp"}, ok : BOOLEAN]
  BY <1>3
<1> QED
  BY <1>1, <1>2, <1>3

LEMMA NextIsAtMost ==
    ASSUME NEW k \in Nat, NEW id \in Nat, NEW next \in Nat, k <= id + 1, id < next
    PROVE  k <= next
OBVIOUS

LEMMA HandleRequestKeeps ==
    ASSUME IInv, toWorker # <<>>, toWorker' = Tail(toWorker), UNCHANGED client,
           Head(toWorker).type = "request", HandleRequest(Head(toWorker))
    PROVE  IInv'
<1> DEFINE m == Head(toWorker)
           a == AnswerNow(m.op)
           answer == Answer(m.id, a)
<1>1. /\ m \in [type : {"request"}, id : 1..MaxCalls, op : Op]
      /\ m.id \in DOMAIN calls /\ calls[m.id].stage = "sent"
      /\ nextMatcherID \in Matcher /\ nextMatcherID <= m.id /\ m.id < nextRequestId
      /\ \A i \in Numbered(Tail(toWorker)) : m.id < Tail(toWorker)[i].id
      /\ \A i \in Numbered(toClient) : toClient[i].id < m.id
  BY HeadRequest DEF OfSent, Matcher
<1>2. /\ toClient' = Append(toClient, answer) /\ nextMatcherID' = AfterCompile(a)
      /\ matchers' = Service!With(matchers, m.op, a) /\ runtime' = runtime
  BY DEF HandleRequest
<1>3. /\ toClient \in Seq(ToClient) /\ InOrder(toClient) /\ nextMatcherID \in 1..MaxCalls + 1
      /\ nextRequestId \in 1..MaxCalls + 1 /\ matchers \in [DOMAIN matchers -> Grammar]
      /\ DOMAIN matchers \subseteq 1..nextMatcherID - 1
  BY DEF IInv, TypeOK, QueuesInOrder
<1>4. /\ a \in Outcome
      /\ a.type = "compiled" => m.op.grammar \in Grammar /\ a.matcher = nextMatcherID
  <2>1. CASE runtime = "up"
    BY <1>1, <1>3, <2>1, AnswerType DEF AnswerNow
  <2>2. CASE runtime # "up"
    BY <2>2 DEF AnswerNow, Outcome, Failed, Service!Failed
  <2> QED
    BY <2>1, <2>2
<1>5. answer \in ToClient /\ answer.type = "answer" /\ answer.id = m.id
  BY <1>1, <1>4 DEF Answer, ToClient
<1> HIDE DEF a, answer
<1>6. /\ toClient' \in Seq(ToClient) /\ InOrder(toClient')
      /\ \A i \in Numbered(toClient') :
            \/ i \in Numbered(toClient) /\ toClient'[i] = toClient[i]
            \/ toClient'[i] = answer
  <2>1. <<answer>> \in Seq(ToClient) /\ Numbered(<<answer>>) \subseteq {1} /\ <<answer>>[1] = answer
        /\ InOrder(<<answer>>)
    BY <1>5, OneMessage
  <2>2. \A i \in Numbered(toClient), j \in Numbered(<<answer>>) : toClient[i].id < <<answer>>[j].id
    BY <1>1, <1>5, <2>1
  <2>3. /\ toClient \o <<answer>> \in Seq(ToClient) /\ InOrder(toClient \o <<answer>>)
        /\ \A i \in Numbered(toClient \o <<answer>>) :
              \/ i \in Numbered(toClient) /\ (toClient \o <<answer>>)[i] = toClient[i]
              \/ /\ i - Len(toClient) \in Numbered(<<answer>>)
                 /\ (toClient \o <<answer>>)[i] = <<answer>>[i - Len(toClient)]
    BY <1>3, <2>1, <2>2, JoinedQueues
  <2>4. toClient' = toClient \o <<answer>>
    BY <1>2, <1>3, <1>5, AppendIsConcat
  <2> QED
    BY <2>1, <2>3, <2>4
<1>7. /\ toWorker' \in Seq(ToWorker) /\ InOrder(toWorker')
      /\ \A i \in Numbered(toWorker') :
            /\ i + 1 \in Numbered(toWorker) /\ toWorker'[i] = toWorker[i + 1]
            /\ m.id < toWorker'[i].id
  BY <1>1, WorkerTail
<1>8. /\ DOMAIN matchers' \subseteq 1..nextMatcherID' - 1
      /\ matchers' \in [DOMAIN matchers' -> Grammar]
      /\ nextMatcherID' \in 1..MaxCalls + 1 /\ nextMatcherID' <= m.id + 1
  <2>1. CASE a.type = "compiled"
    <3>1. nextMatcherID' = nextMatcherID + 1
      BY <1>2, <2>1 DEF AfterCompile
    <3>2. matchers' = [n \in DOMAIN matchers \cup {nextMatcherID} |->
                         IF n = nextMatcherID THEN m.op.grammar ELSE matchers[n]]
      BY <1>2, <1>4, <2>1 DEF Service!With
    <3>3. DOMAIN matchers' = DOMAIN matchers \cup {nextMatcherID}
      BY <3>2
    <3>4. matchers' \in [DOMAIN matchers' -> Grammar]
      BY <1>3, <1>4, <2>1, <3>2
    <3>5. DOMAIN matchers' \subseteq 1..nextMatcherID' - 1
      BY <1>3, <3>1, <3>3
    <3>6. nextMatcherID' \in 1..MaxCalls + 1 /\ nextMatcherID' <= m.id + 1
      BY <1>1, <3>1, MaxCallsAssumption DEF Matcher
    <3> QED
      BY <3>4, <3>5, <3>6
  <2>2. CASE a.type # "compiled"
    BY <1>1, <1>2, <1>3, <2>2 DEF AfterCompile, Service!With
  <2> QED
    BY <2>1, <2>2
<1>9. UNCHANGED <<worker, created, readyPromise, calls, nextRequestId, pending, runtime>>
  BY <1>2 DEF client
<1>10. worker # 0
  BY DEF IInv, NothingWithoutWorker
<1>11. TypeOK'
  BY <1>6, <1>7, <1>8, <1>9 DEF IInv, TypeOK
<1>12. CallsFollowReady'
  BY <1>9 DEF IInv, CallsFollowReady
<1>13. QueuesFollowCalls'
  <2>1. \A i \in Numbered(toClient') : OfSent(toClient[i])'
    BY <1>1, <1>5, <1>6, <1>9 DEF IInv, QueuesFollowCalls, OfSent
  <2>2. ASSUME NEW i \in Numbered(toWorker')
        PROVE  /\ OfSent(toWorker[i])' /\ toWorker'[i].op = calls'[toWorker'[i].id].op
               /\ nextMatcherID' <= toWorker'[i].id
    <3>1. /\ toWorker'[i] = toWorker[i + 1] /\ i + 1 \in Numbered(toWorker) /\ m.id < toWorker'[i].id
      BY <1>7
    <3>2. OfSent(toWorker[i])' /\ toWorker'[i].op = calls'[toWorker'[i].id].op
      BY <1>9, <3>1 DEF IInv, QueuesFollowCalls, OfSent
    <3>3. toWorker[i + 1].id \in Nat
      BY <3>1, RequestIds
    <3>4. m.id \in Nat /\ nextMatcherID' \in Nat /\ nextMatcherID' <= m.id + 1
      BY <1>1, <1>8
    <3>5. nextMatcherID' <= toWorker'[i].id
      <4> HIDE DEF m
      <4> QED
        BY <3>1, <3>3, <3>4, NextIsAtMost
    <3> QED
      BY <3>2, <3>5
  <2>3. nextMatcherID' <= nextRequestId'
    BY <1>1, <1>3, <1>8, <1>9
  <2> QED
    BY <2>1, <2>2, <2>3 DEF QueuesFollowCalls
<1>14. NothingWithoutWorker'
  BY <1>9, <1>10 DEF NothingWithoutWorker
<1>15. QueuesInOrder'
  <2>1. ASSUME NEW i \in Numbered(toClient'), NEW j \in Numbered(toWorker')
        PROVE  toClient'[i].id < toWorker'[j].id
    <3>1. j + 1 \in Numbered(toWorker) /\ toWorker'[j] = toWorker[j + 1] /\ m.id < toWorker'[j].id
      BY <1>7
    <3>2. CASE i \in Numbered(toClient) /\ toClient'[i] = toClient[i]
      BY <3>1, <3>2 DEF IInv, QueuesInOrder
    <3>3. CASE toClient'[i] = answer
      BY <1>5, <3>1, <3>3
    <3> QED
      BY <1>6, <3>2, <3>3
  <2> QED
    BY <1>6, <1>7, <2>1 DEF QueuesInOrder
<1> QED
  BY <1>11, <1>12, <1>13, <1>14, <1>15 DEF IInv

LEMMA WorkerHandlesKeeps ==
    ASSUME IInv, WorkerHandles
    PROVE  IInv'
<1>1. toWorker # <<>> /\ toWorker' = Tail(toWorker) /\ UNCHANGED client
  BY DEF WorkerHandles
<1>2. runtime \in {"off", "loading", "starting", "up", "failed"} /\ matchers \in [DOMAIN matchers -> Grammar]
  BY DEF IInv, TypeOK
<1>3. CASE Head(toWorker).type = "request" /\ HandleRequest(Head(toWorker))
  BY <1>1, <1>3, HandleRequestKeeps
<1>4. CASE HandleFree(Head(toWorker))
  <2>1. UNCHANGED <<toClient, runtime, nextMatcherID>>
    BY <1>4 DEF HandleFree
  <2>2. DOMAIN matchers' \subseteq DOMAIN matchers /\ matchers' \in [DOMAIN matchers' -> Grammar]
    BY <1>2, <1>4 DEF HandleFree
  <2> QED
    BY <1>1, <1>2, <2>1, <2>2, TakesKeeps
<1>5. CASE runtime' = "loading" /\ UNCHANGED <<toClient, matchers, nextMatcherID>>
  BY <1>1, <1>2, <1>5, TakesKeeps
<1> QED
  BY <1>3, <1>4, <1>5 DEF WorkerHandles

\* Initialization goes on to the Go runtime, or it ends and says so.
Starts ==
    /\ runtime = "loading" /\ runtime' = "starting"
    /\ UNCHANGED <<client, toWorker, toClient, matchers, nextMatcherID>>
Reports(m) ==
    /\ runtime \in {"loading", "starting"} /\ runtime' \in {"up", "failed"}
    /\ m = Ready => runtime' = "up"
    /\ toClient' = Append(toClient, m)
    /\ UNCHANGED <<client, toWorker, matchers, nextMatcherID>>

LEMMA InitSteps ==
    ASSUME InitLoads \/ InitEnds
    PROVE  Starts \/ \E m \in {Ready, InitError} : Reports(m)
<1>1. Ready # InitError
  BY DEF Ready, InitError
<1>2. CASE InitLoads
  BY <1>1, <1>2 DEF InitLoads, Starts, Reports
<1>3. CASE InitEnds
  BY <1>1, <1>3 DEF InitEnds, Reports
<1> QED
  BY <1>2, <1>3

LEMMA StartsKeeps ==
    ASSUME IInv, Starts
    PROVE  IInv'
<1> USE DEF Starts, client
<1>1. TypeOK'
  BY DEF IInv, TypeOK
<1>2. CallsFollowReady'
  BY DEF IInv, CallsFollowReady
<1>3. QueuesFollowCalls'
  BY DEF IInv, QueuesFollowCalls, OfSent
<1>4. NothingWithoutWorker' /\ QueuesInOrder'
  BY DEF IInv, NothingWithoutWorker, QueuesInOrder
<1> QED
  BY <1>1, <1>2, <1>3, <1>4 DEF IInv

LEMMA ReportsKeeps ==
    ASSUME IInv, NEW m \in {Ready, InitError}, Reports(m)
    PROVE  IInv'
<1>1. toClient' = Append(toClient, m) /\ runtime' \in {"up", "failed"}
  BY DEF Reports
<1>2. m \in ToClient /\ m.type # "answer" /\ m.type # "request"
  BY DEF Ready, InitError, ToClient
<1>3. toClient \in Seq(ToClient) /\ InOrder(toClient)
  BY DEF IInv, TypeOK, QueuesInOrder
<1>4. <<m>> \in Seq(ToClient) /\ Numbered(<<m>>) = {} /\ InOrder(<<m>>)
  <2>1. <<m>> \in Seq(ToClient) /\ DOMAIN <<m>> = {1} /\ <<m>>[1] = m /\ InOrder(<<m>>)
    BY <1>2, OneMessage
  <2> QED
    BY <1>2, <2>1 DEF Numbered
<1>5. /\ toClient \o <<m>> \in Seq(ToClient) /\ InOrder(toClient \o <<m>>)
      /\ \A i \in Numbered(toClient \o <<m>>) :
            i \in Numbered(toClient) /\ (toClient \o <<m>>)[i] = toClient[i]
  BY <1>3, <1>4, JoinedQueues
<1>6. /\ toClient' \in Seq(ToClient) /\ InOrder(toClient')
      /\ \A i \in Numbered(toClient') : i \in Numbered(toClient) /\ toClient'[i] = toClient[i]
  BY <1>1, <1>2, <1>3, <1>5, AppendIsConcat
<1>7. UNCHANGED <<worker, created, readyPromise, calls, nextRequestId, pending, toWorker,
                  matchers, nextMatcherID>>
  BY DEF Reports, client
<1>8. worker # 0
  BY DEF Reports, IInv, NothingWithoutWorker
<1>9. TypeOK'
  BY <1>1, <1>6, <1>7 DEF IInv, TypeOK
<1>10. CallsFollowReady'
  BY <1>7 DEF IInv, CallsFollowReady
<1>11. QueuesFollowCalls'
  BY <1>6, <1>7 DEF IInv, QueuesFollowCalls, OfSent
<1>12. NothingWithoutWorker'
  BY <1>7, <1>8 DEF NothingWithoutWorker
<1>13. QueuesInOrder'
  BY <1>6, <1>7 DEF IInv, QueuesInOrder
<1> QED
  BY <1>9, <1>10, <1>11, <1>12, <1>13 DEF IInv
-----------------------------------------------------------------------------
(***************************************************************************)
(* The theorems                                                            *)
(***************************************************************************)
LEMMA StepKeeps ==
    ASSUME IInv, [Next]_wvars
    PROVE  IInv'
<1>1. CASE StartWorker
  BY <1>1, StartWorkerKeeps
<1>2. CASE Terminate
  BY <1>2, TerminateKeeps
<1>3. ASSUME NEW op \in Asked, MakeCall(op)
      PROVE  IInv'
  <2>1. op \in Op
    BY DEF Asked
  <2> QED
    BY <1>3, <2>1, EmptyQueue, MakeCallKeeps DEF MakeCall
<1>4. ASSUME NEW m \in Handles, CallFree(m)
      PROVE  IInv'
  <2>1. m \in Matcher
    BY HandlesAssumption
  <2> QED
    BY <1>4, <2>1, FreeNowType, PostKeeps DEF CallFree
<1>5. CASE ClientReceives
  BY <1>5, ClientReceivesKeeps
<1>6. CASE WorkerError
  BY <1>6, WorkerErrorKeeps
<1>7. CASE WorkerHandles
  BY <1>7, WorkerHandlesKeeps
<1>8. CASE InitLoads \/ InitEnds
  BY <1>8, InitSteps, StartsKeeps, ReportsKeeps
<1>9. CASE UNCHANGED wvars
  <2> USE <1>9 DEF wvars, client, inWorker
  <2>1. TypeOK'
    BY DEF IInv, TypeOK
  <2>2. CallsFollowReady'
    BY DEF IInv, CallsFollowReady
  <2>3. QueuesFollowCalls'
    BY DEF IInv, QueuesFollowCalls, OfSent
  <2>4. NothingWithoutWorker' /\ QueuesInOrder'
    BY DEF IInv, NothingWithoutWorker, QueuesInOrder
  <2> QED
    BY <2>1, <2>2, <2>3, <2>4 DEF IInv
<1> QED
  BY <1>1, <1>2, <1>3, <1>4, <1>5, <1>6, <1>7, <1>8, <1>9 DEF Next, WorkerSteps

\* Every state of the client and its worker satisfies the inductive invariant.
THEOREM Invariant == Spec => []IInv
<1>1. WorkerInit => IInv
  BY InitKeeps
<1>2. IInv /\ [Next]_wvars => IInv'
  BY StepKeeps
<1> QED
  BY <1>1, <1>2, PTL DEF Spec

\* Every variable has its type: lsp.client.ts, lsp.worker.ts and wasm.go use no id,
\* message or matcher number that is none.
THEOREM TypeCorrect == Spec => []TypeOK
<1>1. IInv => TypeOK
  BY DEF IInv
<1> QED
  BY <1>1, Invariant, PTL

\* Requests and answers keep the order of the calls through both queues, and each
\* is about a call that waits for it (handleWorkerMessage, postMessage).
THEOREM InOrderAlways == Spec => []AnswersInOrder
<1>1. ASSUME IInv
      PROVE  AnswersInOrder
  <2>1. \A i \in Numbered(toClient) : Awaited(toClient[i])
    BY <1>1, CallOfId DEF IInv, QueuesFollowCalls, OfSent, Awaited
  <2>2. \A i \in Numbered(toWorker) : Awaited(toWorker[i])
    BY <1>1, CallOfId DEF IInv, QueuesFollowCalls, OfSent, Awaited
  <2> QED
    BY <1>1, <2>1, <2>2 DEF IInv, QueuesInOrder, AnswersInOrder
<1> QED
  BY <1>1, Invariant, PTL

-----------------------------------------------------------------------------
(***************************************************************************)
(* The refinement: where a call is for the service follows from the        *)
(* queues, in each of which it appears at most once.                       *)
(***************************************************************************)
LEMMA NamedTail ==
    ASSUME NEW M, NEW q \in Seq(M), q # <<>>, NEW id
    PROVE  Named(q, id) = Named(Tail(q), id)
                \cup (IF 1 \in Numbered(q) /\ Head(q).id = id THEN {Head(q)} ELSE {})
<1>1. /\ Head(q) = q[1] /\ 1 \in DOMAIN q
      /\ \A i \in DOMAIN Tail(q) : i + 1 \in DOMAIN q /\ Tail(q)[i] = q[i + 1] /\ 1 < i + 1
      /\ \A i \in DOMAIN q : i # 1 => i - 1 \in DOMAIN Tail(q) /\ q[i] = Tail(q)[i - 1]
  BY TailOfQueue
<1>2. ASSUME NEW i \in Numbered(Tail(q)), Tail(q)[i].id = id
      PROVE  Tail(q)[i] \in Named(q, id)
  BY <1>1, <1>2 DEF Named, Numbered
<1>3. ASSUME NEW i \in Numbered(q), q[i].id = id, i # 1
      PROVE  q[i] \in Named(Tail(q), id)
  BY <1>1, <1>3 DEF Named, Numbered
<1>4. 1 \in Numbered(q) /\ Head(q).id = id => Head(q) \in Named(q, id)
  BY <1>1 DEF Named
<1>5. \A x \in Named(Tail(q), id) : x \in Named(q, id)
  BY <1>2 DEF Named
<1>6. \A x \in Named(q, id) : x \in Named(Tail(q), id) \/ (x = Head(q) /\ 1 \in Numbered(q) /\ x.id = id)
  BY <1>1, <1>3 DEF Named
<1> QED
  BY <1>4, <1>5, <1>6

LEMMA NamedJoined ==
    ASSUME NEW M, NEW q \in Seq(M), NEW r \in Seq(M), NEW id
    PROVE  Named(q \o r, id) = Named(q, id) \cup Named(r, id)
<1> DEFINE s == q \o r
<1>1. /\ \A i \in DOMAIN q : i \in DOMAIN s /\ s[i] = q[i]
      /\ \A i \in DOMAIN r : i + Len(q) \in DOMAIN s /\ s[i + Len(q)] = r[i]
      /\ \A i \in Numbered(s) :
            \/ i \in Numbered(q) /\ s[i] = q[i]
            \/ i - Len(q) \in Numbered(r) /\ s[i] = r[i - Len(q)]
  <2>1. \A i \in DOMAIN q : i \in DOMAIN s /\ s[i] = q[i]
    BY JoinedQueues
  <2>2. \A i \in DOMAIN r : i + Len(q) \in DOMAIN s /\ s[i + Len(q)] = r[i]
    BY JoinedQueues
  <2>3. \A i \in Numbered(s) :
           \/ i \in Numbered(q) /\ s[i] = q[i]
           \/ i - Len(q) \in Numbered(r) /\ s[i] = r[i - Len(q)]
    BY JoinedQueues
  <2> QED
    BY <2>1, <2>2, <2>3
<1> HIDE DEF s
<1>2. ASSUME NEW i \in Numbered(q), q[i].id = id
      PROVE  q[i] \in Named(s, id)
  BY <1>1, <1>2 DEF Named, Numbered
<1>3. ASSUME NEW i \in Numbered(r), r[i].id = id
      PROVE  r[i] \in Named(s, id)
  BY <1>1, <1>3 DEF Named, Numbered
<1>4. ASSUME NEW i \in Numbered(s), s[i].id = id
      PROVE  s[i] \in Named(q, id) \cup Named(r, id)
  BY <1>1, <1>4 DEF Named
<1>5. Named(s, id) = Named(q, id) \cup Named(r, id)
  BY <1>2, <1>3, <1>4 DEF Named
<1> QED
  BY <1>5 DEF s

LEMMA NamedOne ==
    ASSUME NEW M, NEW m \in M, NEW id
    PROVE  Named(<<m>>, id) = IF m.type \in {"request", "answer"} /\ m.id = id THEN {m} ELSE {}
<1>1. DOMAIN <<m>> = {1} /\ <<m>>[1] = m
  BY OneMessage
<1> QED
  BY <1>1 DEF Named, Numbered

LEMMA NamedAppend ==
    ASSUME NEW M, NEW q \in Seq(M), NEW m \in M, NEW id
    PROVE  Named(Append(q, m), id) = Named(q, id) \cup
                (IF m.type \in {"request", "answer"} /\ m.id = id THEN {m} ELSE {})
<1> DEFINE r == <<m>>
<1>1. Append(q, m) = q \o r
  BY AppendIsConcat
<1>2. r \in Seq(M)
  BY OneMessage
<1>3. Named(r, id) = IF m.type \in {"request", "answer"} /\ m.id = id THEN {m} ELSE {}
  BY NamedOne
<1> HIDE DEF r
<1>4. Named(q \o r, id) = Named(q, id) \cup Named(r, id)
  BY <1>2, NamedJoined
<1> QED
  BY <1>1, <1>3, <1>4

LEMMA NamedNone ==
    ASSUME NEW q, Numbered(q) = {}, NEW id
    PROVE  Named(q, id) = {}
BY DEF Named
\* A call for the service, by where it is and what the queues say of it.
LEMMA ViewOf ==
    ASSUME NEW c, NEW requests, NEW answers
    PROVE  /\ c.stage = "waits" =>
                 View(c, requests, answers) = [op |-> c.op, stage |-> "made", answer |-> c.answer]
           /\ c.stage = "returned" =>
                 View(c, requests, answers) = [op |-> c.op, stage |-> "returned", answer |-> c.answer]
           /\ c.stage = "sent" /\ Named(requests, c.id) # {} =>
                 View(c, requests, answers) = [op |-> c.op, stage |-> "made", answer |-> c.answer]
           /\ c.stage = "sent" /\ Named(requests, c.id) = {} /\ Named(answers, c.id) = {} =>
                 View(c, requests, answers) = [op |-> c.op, stage |-> "lost", answer |-> c.answer]
<1>1. c.stage = "waits" => StageOf(c, requests, answers) = "made"
  BY DEF StageOf
<1>2. c.stage = "returned" => StageOf(c, requests, answers) = "returned"
  BY DEF StageOf
<1>3. c.stage = "sent" /\ Named(requests, c.id) # {} => StageOf(c, requests, answers) = "made"
  BY DEF StageOf
<1>4. c.stage = "sent" /\ Named(requests, c.id) = {} /\ Named(answers, c.id) = {} =>
          StageOf(c, requests, answers) = "lost"
  BY DEF StageOf
<1> QED
  BY <1>1, <1>2, <1>3, <1>4 DEF View

LEMMA ViewAnswered ==
    ASSUME NEW c, NEW requests, NEW answers, NEW m, c.stage = "sent",
           Named(requests, c.id) = {}, Named(answers, c.id) = {m}
    PROVE  View(c, requests, answers) = [op |-> c.op, stage |-> "answered", answer |-> m.answer]
<1>1. StageOf(c, requests, answers) = "answered"
  BY DEF StageOf
<1>2. (CHOOSE n \in {m} : TRUE) = m
  OBVIOUS
<1> QED
  BY <1>1, <1>2 DEF View

LEMMA SameView ==
    ASSUME NEW c, NEW requests, NEW answers, NEW requests2, NEW answers2,
           c.stage \in {"waits", "returned"} \/
               (Named(requests, c.id) = Named(requests2, c.id) /\ Named(answers, c.id) = Named(answers2, c.id)),
           c.stage \in Stage
    PROVE  View(c, requests, answers) = View(c, requests2, answers2)
<1>1. CASE c.stage \in {"waits", "returned"}
  BY <1>1, ViewOf
<1>2. CASE Named(requests, c.id) = Named(requests2, c.id) /\ Named(answers, c.id) = Named(answers2, c.id)
  BY <1>2 DEF View, StageOf
<1> QED
  BY <1>1, <1>2
LEMMA CallsType ==
    ASSUME IInv
    PROVE  /\ calls \in Seq(Call) /\ DOMAIN calls = 1..Len(calls) /\ Len(calls) \in Nat
           /\ \A c \in DOMAIN calls : /\ calls[c] \in Call /\ calls[c].stage \in Stage
                                    /\ calls[c].op \in Op
<1>1. calls \in Seq(Call)
  BY DEF IInv, TypeOK
<1>2. DOMAIN calls = 1..Len(calls) /\ Len(calls) \in Nat /\ \A c \in DOMAIN calls : calls[c] \in Call
  BY <1>1
<1> QED
  BY <1>1, <1>2 DEF Call

\* Nothing for the service changes when the calls do not and the queues lose and gain
\* no message of a call that was sent.
LEMMA NothingMade ==
    ASSUME IInv, calls' = calls,
           \A c \in DOMAIN calls : calls[c].stage = "sent" =>
              Named(toWorker', c) = Named(toWorker, c) /\ Named(toClient', c) = Named(toClient, c)
    PROVE  Made' = Made
<1>1. ASSUME NEW c \in DOMAIN calls
      PROVE  View(calls[c], toWorker', toClient') = View(calls[c], toWorker, toClient)
  <2>1. calls[c].stage \in Stage
    BY CallsType
  <2>2. CASE calls[c].stage = "sent"
    <3>1. calls[c].id = c
      BY <2>2, CallOfId
    <3> QED
      BY <2>1, <2>2, <3>1, SameView
  <2>3. CASE calls[c].stage \in {"waits", "returned"}
    BY <2>1, <2>3, SameView
  <2> QED
    BY <2>1, <2>2, <2>3 DEF Stage
<1>2. Made' = [c \in DOMAIN calls |-> View(calls[c], toWorker', toClient')]
  BY DEF Made
<1> QED
  BY <1>1, <1>2 DEF Made

LEMMA StartWorkerRefines ==
    ASSUME IInv, StartWorker
    PROVE  UNCHANGED Service!svars
<1>1. /\ toWorker = <<>> /\ toWorker' = <<InitMessage>> /\ calls' = calls /\ toClient' = toClient
      /\ matchers' = matchers
  BY DEF IInv, NothingWithoutWorker, StartWorker, inWorker
<1>2. InitMessage \in ToWorker /\ InitMessage.type = "init"
  BY DEF InitMessage, ToWorker
<1>3. \A c : Named(toWorker, c) = {} /\ Named(toWorker', c) = {}
  BY <1>1, <1>2, NamedOne, NamedNone, EmptyQueue
<1> QED
  BY <1>1, <1>3, NothingMade DEF Service!svars

LEMMA PostRefines ==
    ASSUME IInv, NEW posted \in Seq(ToWorker), Numbered(posted) = {}, toWorker' = Post(posted),
           UNCHANGED <<client, toClient, inWorker>>
    PROVE  UNCHANGED Service!svars
<1>1. calls' = calls /\ toClient' = toClient /\ matchers' = matchers
  BY DEF client, inWorker
<1>2. \A c : Named(toWorker', c) = Named(toWorker, c)
  <2>1. toWorker \in Seq(ToWorker)
    BY DEF IInv, TypeOK
  <2>2. \A c : Named(toWorker \o posted, c) = Named(toWorker, c) \cup Named(posted, c)
    BY <2>1, NamedJoined
  <2>3. \A c : Named(posted, c) = {}
    BY NamedNone
  <2> QED
    BY <2>2, <2>3 DEF Post
<1> QED
  BY <1>1, <1>2, NothingMade DEF Service!svars

LEMMA ReportsRefines ==
    ASSUME IInv, NEW m \in {Ready, InitError}, Reports(m)
    PROVE  UNCHANGED Service!svars
<1>1. toClient' = Append(toClient, m)
  BY DEF Reports
<1>2. m \in ToClient /\ m.type \notin {"request", "answer"}
  BY DEF Ready, InitError, ToClient
<1>3. calls' = calls /\ toWorker' = toWorker /\ matchers' = matchers /\ toClient \in Seq(ToClient)
  BY DEF Reports, client, IInv, TypeOK
<1>4. \A c : Named(toClient', c) = Named(toClient, c)
  <2> SUFFICES ASSUME NEW c
               PROVE  Named(Append(toClient, m), c) = Named(toClient, c)
    BY <1>1
  <2>1. toClient \in Seq(ToClient)
    BY <1>3
  <2>2. m \in ToClient
    BY <1>2
  <2>3. Named(Append(toClient, m), c) = Named(toClient, c) \cup
            (IF m.type \in {"request", "answer"} /\ m.id = c THEN {m} ELSE {})
    BY <2>1, <2>2, NamedAppend
  <2> QED
    BY <1>2, <2>3
<1> QED
  BY <1>3, <1>4, NothingMade DEF Service!svars
\* Termination loses the calls that were sent and have no answer.
LEMMA TerminateRefines ==
    ASSUME IInv, Terminate
    PROVE  \E C \in SUBSET DOMAIN Made : Service!Lose(C)
<1> DEFINE C == {c \in DOMAIN calls :
                   /\ calls[c].stage = "sent"
                   /\ Named(toWorker, c) # {} \/ Named(toClient, c) # {}}
<1>1. /\ calls' = calls /\ toWorker' = <<>> /\ toClient' = <<>> /\ matchers' = <<>>
      /\ DOMAIN Made = DOMAIN calls
      /\ \A c \in DOMAIN calls : calls[c].stage \in Stage
  BY CallsType DEF Terminate, Made
<1>2. \A c : Named(<<>>, c) = {}
  BY EmptyQueue, NamedNone
<1>3. ASSUME NEW c \in C
      PROVE  /\ Made[c].stage \in {"made", "answered"}
             /\ View(calls[c], <<>>, <<>>) = [op |-> Made[c].op, stage |-> "lost", answer |-> Failed]
  <2>1. calls[c].id = c /\ calls[c].answer = Failed /\ calls[c].stage = "sent"
    BY CallOfId DEF IInv, CallsFollowReady
  <2>2. View(calls[c], <<>>, <<>>) = [op |-> calls[c].op, stage |-> "lost", answer |-> Failed]
    BY <1>2, <2>1, ViewOf
  <2>3. Made[c] = View(calls[c], toWorker, toClient)
    BY DEF Made
  <2>4. Made[c].stage \in {"made", "answered"}
    BY <2>1, <2>3 DEF View, StageOf
  <2>5. Made[c].op = calls[c].op
    BY <2>3 DEF View
  <2> QED
    BY <2>2, <2>4, <2>5
<1>4. ASSUME NEW c \in DOMAIN calls, c \notin C
      PROVE  View(calls[c], <<>>, <<>>) = Made[c]
  <2>1. Made[c] = View(calls[c], toWorker, toClient) /\ calls[c].stage \in Stage
    BY <1>1 DEF Made
  <2>2. CASE calls[c].stage = "sent"
    <3>1. calls[c].id = c /\ Named(toWorker, c) = {} /\ Named(toClient, c) = {}
      BY <1>4, <2>2, CallOfId
    <3>2. /\ Named(<<>>, calls[c].id) = Named(toWorker, calls[c].id)
          /\ Named(<<>>, calls[c].id) = Named(toClient, calls[c].id)
      BY <1>2, <3>1
    <3> QED
      BY <2>1, <3>2, SameView
  <2>3. CASE calls[c].stage \in {"waits", "returned"}
    BY <2>1, <2>3, SameView
  <2> QED
    BY <2>1, <2>2, <2>3 DEF Stage
<1>5. Made' = [c \in DOMAIN calls |-> View(calls[c], <<>>, <<>>)]
  BY <1>1 DEF Made
<1> HIDE DEF C
<1>6. Made' = [c \in DOMAIN Made |->
                 IF c \in C THEN [op |-> Made[c].op, stage |-> "lost", answer |-> Failed]
                 ELSE Made[c]]
  BY <1>1, <1>3, <1>4, <1>5
<1>7. Service!Lose(C)
  BY <1>1, <1>3, <1>6 DEF Service!Lose, Service!MoveTo, Failed
<1> QED
  BY <1>1, <1>7 DEF C

\* A call is invoked: it waits, is on its way to the worker or is refused at once.
LEMMA MakeCallRefines ==
    ASSUME IInv, NEW op \in Op, NEW posted \in Seq(ToWorker), Numbered(posted) = {},
           MakeCallAfter(posted, op)
    PROVE  Service!Invoke(op)
<1> DEFINE new == NewCall(op)
           sent == IF new.stage = "sent" THEN <<Request(new.id, op)>> ELSE <<>>
           n == Len(calls) + 1
<1>1. /\ Len(calls) < MaxCalls /\ calls' = Append(calls, new)
      /\ toWorker' = toWorker \o (posted \o sent) /\ toClient' = toClient /\ matchers' = matchers
  BY DEF MakeCallAfter, Post, inWorker
<1>2. /\ new \in Call /\ new.op = op /\ new.answer = Failed
      /\ new.stage = "sent" => new.id = n
      /\ readyPromise # "resolved" => new.stage # "sent"
  <2>1. readyPromise \in {"pending", "rejected", "resolved"}
    BY DEF IInv, TypeOK
  <2> QED
    BY <1>1, <2>1, NewCallType
<1> HIDE DEF new
<1>3. /\ calls \in Seq(Call) /\ Len(calls) \in Nat /\ DOMAIN calls = 1..Len(calls)
      /\ \A c \in DOMAIN calls : calls[c].stage \in Stage
      /\ toWorker \in Seq(ToWorker)
  BY CallsType DEF IInv, TypeOK
<1>4. /\ DOMAIN calls' = DOMAIN calls \cup {n} /\ n \notin DOMAIN calls /\ calls'[n] = new
      /\ \A c \in DOMAIN calls : calls'[c] = calls[c]
      /\ DOMAIN calls' = 1..n /\ n \in Nat
  BY <1>1, <1>2, <1>3
<1>5. /\ sent \in Seq(ToWorker)
      /\ \A id : Named(sent, id) = IF new.stage = "sent" /\ id = n THEN {Request(new.id, op)} ELSE {}
  <2>1. CASE new.stage = "sent"
    <3>1. new.id \in 1..MaxCalls
      BY <1>1, <1>2, <1>3, <2>1, MaxCallsAssumption
    <3>2. Request(new.id, op) \in ToWorker /\ Request(new.id, op).type = "request"
          /\ Request(new.id, op).id = n
      BY <1>2, <2>1, <3>1 DEF ToWorker, Request
    <3>3. sent = <<Request(new.id, op)>>
      BY <2>1
    <3>4. <<Request(new.id, op)>> \in Seq(ToWorker)
      BY <3>2, OneMessage
    <3>5. \A id : Named(<<Request(new.id, op)>>, id) = IF id = n THEN {Request(new.id, op)} ELSE {}
      BY <3>2, NamedOne
    <3> QED
      BY <2>1, <3>3, <3>4, <3>5
  <2>2. CASE new.stage # "sent"
    BY <2>2, EmptyQueue, NamedNone
  <2> QED
    BY <2>1, <2>2
<1> HIDE DEF sent
<1>6. \A id : Named(toWorker', id) = Named(toWorker, id) \cup Named(sent, id)
  <2> SUFFICES ASSUME NEW id
               PROVE  Named(toWorker', id) = Named(toWorker, id) \cup Named(sent, id)
    OBVIOUS
  <2> DEFINE messages == posted \o sent
  <2>1. messages \in Seq(ToWorker)
    BY <1>5, ConcatProperties
  <2>2. Named(messages, id) = Named(posted, id) \cup Named(sent, id)
    BY <1>5, NamedJoined
  <2>3. toWorker' = toWorker \o messages /\ toWorker \in Seq(ToWorker)
    BY <1>1, <1>3
  <2> HIDE DEF messages
  <2>5. Named(toWorker \o messages, id) = Named(toWorker, id) \cup Named(messages, id)
    BY <2>1, <2>3, NamedJoined
  <2>4. Named(posted, id) = {}
    BY NamedNone
  <2> QED
    BY <2>2, <2>3, <2>4, <2>5
<1> HIDE DEF n
<1>7. ASSUME NEW c \in DOMAIN calls
      PROVE  View(calls'[c], toWorker', toClient') = View(calls[c], toWorker, toClient)
  <2>1. calls'[c] = calls[c] /\ calls[c].stage \in Stage
    BY <1>3, <1>4
  <2>2. CASE calls[c].stage = "sent"
    <3>1. calls[c].id = c /\ c # n
      BY <1>4, <2>2, CallOfId
    <3>2. Named(toWorker', c) = Named(toWorker, c)
      BY <1>5, <1>6, <3>1
    <3> QED
      BY <1>1, <2>1, <3>1, <3>2, SameView
  <2>3. CASE calls[c].stage \in {"waits", "returned"}
    BY <2>1, <2>3, SameView
  <2> QED
    BY <2>1, <2>2, <2>3 DEF Stage
<1>8. PICK s \in {"made", "returned"} :
          View(new, toWorker', toClient') = [op |-> op, stage |-> s, answer |-> Failed]
  <2>1. new.stage \in Stage
    BY <1>2 DEF Call
  <2>2. CASE new.stage = "sent"
    <3>1. Named(toWorker', new.id) # {}
      BY <1>2, <1>5, <1>6, <2>2
    <3> QED
      BY <1>2, <2>2, <3>1, ViewOf
  <2>3. CASE new.stage = "waits"
    BY <1>2, <2>3, ViewOf
  <2>4. CASE new.stage = "returned"
    BY <1>2, <2>4, ViewOf
  <2> QED
    BY <2>1, <2>2, <2>3, <2>4 DEF Stage
<1>9. Made' = Append(Made, [op |-> op, stage |-> s, answer |-> Failed])
  <2> DEFINE seen(c) == View(calls[c], toWorker, toClient)
             last == [op |-> op, stage |-> s, answer |-> Failed]
  <2>1. Made = [c \in 1..Len(calls) |-> seen(c)]
    BY <1>3 DEF Made
  <2>2. Made' = [c \in 1..n |-> IF c = n THEN last ELSE seen(c)]
    <3>1. Made' = [c \in 1..n |-> View(calls'[c], toWorker', toClient')]
      BY <1>4 DEF Made
    <3>2. \A c \in 1..n : View(calls'[c], toWorker', toClient') = IF c = n THEN last ELSE seen(c)
      BY <1>4, <1>7, <1>8
    <3> HIDE DEF seen, last
    <3> QED
      BY <3>1, <3>2
  <2> HIDE DEF seen, last
  <2>3. [c \in 1..n |-> IF c = n THEN last ELSE seen(c)] = Append([c \in 1..Len(calls) |-> seen(c)], last)
    BY <1>3 DEF n
  <2> QED
    BY <2>1, <2>2, <2>3 DEF last
<1> QED
  BY <1>1, <1>9 DEF Service!Invoke, Failed
\* The promise settles: the calls that waited go on waiting for the service, or are
\* rejected by it.
LEMMA SettleReadyRefines ==
    ASSUME IInv, NEW how \in {"resolved", "rejected"}, SettleReady(how),
           UNCHANGED <<worker, created, inWorker>>,
           \A id : Named(toClient', id) = Named(toClient, id)
    PROVE  [Service!Next]_Service!svars
<1>1. matchers' = matchers
  BY DEF inWorker
<1>2. CASE readyPromise # "pending"
  <2>1. calls' = calls /\ toWorker' = toWorker
    BY <1>2 DEF SettleReady
  <2> QED
    BY <1>1, <2>1, NothingMade DEF Service!svars
<1>3. ASSUME readyPromise = "pending"
      PROVE  /\ Len(calls) \in Nat /\ DOMAIN calls = 1..Len(calls) /\ Waiting = DOMAIN calls
             /\ \A c \in DOMAIN calls : calls[c].stage = "waits" /\ calls[c].answer = Failed
             /\ DOMAIN Made = DOMAIN calls
             /\ \A c \in DOMAIN calls :
                   Made[c] = [op |-> calls[c].op, stage |-> "made", answer |-> Failed]
  <2>1. \A c \in DOMAIN calls : calls[c].stage = "waits" /\ calls[c].answer = Failed
    BY <1>3 DEF IInv, CallsFollowReady
  <2>2. DOMAIN Made = DOMAIN calls /\ \A c \in DOMAIN calls : Made[c] = View(calls[c], toWorker, toClient)
    BY DEF Made
  <2> QED
    BY <1>3, <2>1, <2>2, WaitingIsAll, ViewOf
<1>4. CASE readyPromise = "pending" /\ how = "rejected"
  <2>1. calls' = [c \in DOMAIN calls |-> [calls[c] EXCEPT !.stage = "returned"]]
    BY <1>3, <1>4 DEF SettleReady, RejectWaiting
  <2>2. ASSUME NEW c \in DOMAIN calls
        PROVE  View(calls'[c], toWorker', toClient')
                  = [op |-> Made[c].op, stage |-> "returned", answer |-> Failed]
    <3>1. calls[c] \in Call /\ calls[c].answer = Failed
      BY <1>3, <1>4, CallsType
    <3>2. calls'[c] = [calls[c] EXCEPT !.stage = "returned"]
      BY <2>1
    <3>3. /\ calls'[c].stage = "returned" /\ calls'[c].answer = Failed
          /\ calls'[c].op = calls[c].op
      BY <3>1, <3>2 DEF Call
    <3> QED
      BY <1>3, <1>4, <3>3, ViewOf
  <2>3. DOMAIN calls' = DOMAIN calls
    BY <2>1
  <2>4. Made' = [c \in DOMAIN calls |-> View(calls'[c], toWorker', toClient')]
    BY <2>3 DEF Made
  <2>5. Made' = [c \in DOMAIN Made |->
                   IF c \in DOMAIN Made THEN [op |-> Made[c].op, stage |-> "returned", answer |-> Failed]
                   ELSE Made[c]]
    BY <1>3, <1>4, <2>2, <2>4
  <2>6. Service!Reject(DOMAIN Made)
    BY <1>1, <1>3, <1>4, <2>5 DEF Service!Reject, Service!MoveTo, Failed
  <2> QED
    BY <2>6 DEF Service!Next
<1>5. CASE readyPromise = "pending" /\ how = "resolved"
  <2> DEFINE requests == [n \in 1..Len(calls) |-> Request(n, calls[n].op)]
  <2>1. /\ Cardinality(Waiting) = Len(calls) /\ \A c \in Waiting : Resumed(c) = c
        /\ \A n \in 1..Len(calls) : NthWaiting(n) = n
    BY <1>5, WaitingIsAll
  <2>2. SendWaiting
    BY <1>5 DEF SettleReady
  <2>3. calls' = [c \in DOMAIN calls |-> [calls[c] EXCEPT !.stage = "sent", !.id = c]]
    BY <1>3, <1>5, <2>1, <2>2 DEF SendWaiting
  <2>4. toWorker' = toWorker \o requests
    <3>1. [n \in 1..Cardinality(Waiting) |->
              LET c == NthWaiting(n) IN Request(Resumed(c), calls[c].op)] = requests
      BY <1>3, <1>5, <2>1
    <3> QED
      BY <2>2, <3>1 DEF SendWaiting, Post
  <2>5. /\ requests \in Seq(ToWorker) /\ DOMAIN requests = 1..Len(calls)
        /\ \A n \in 1..Len(calls) : requests[n] = Request(n, calls[n].op)
    <3>1. \A n \in 1..Len(calls) : Request(n, calls[n].op) \in ToWorker
      <4>1. Len(calls) <= MaxCalls
        BY DEF IInv, TypeOK
      <4> QED
        BY <1>3, <1>5, <4>1, CallsType, MaxCallsAssumption DEF Request, ToWorker
    <3> QED
      BY <1>3, <1>5, <3>1
  <2> HIDE DEF requests
  <2>6. toWorker \in Seq(ToWorker)
    BY DEF IInv, TypeOK
  <2>7. ASSUME NEW c \in DOMAIN calls
        PROVE  View(calls'[c], toWorker', toClient') = Made[c]
    <3>1. calls[c] \in Call
      BY CallsType
    <3>2. calls'[c] = [calls[c] EXCEPT !.stage = "sent", !.id = c]
      BY <2>3
    <3>3. /\ calls'[c].stage = "sent" /\ calls'[c].id = c /\ calls'[c].op = calls[c].op
          /\ calls'[c].answer = calls[c].answer
      BY <3>1, <3>2 DEF Call
    <3>4. requests[c] \in Named(requests, c)
      BY <1>3, <1>5, <2>5 DEF Named, Numbered, Request
    <3>5. Named(toWorker', c) # {}
      BY <2>4, <2>5, <2>6, <3>4, NamedJoined
    <3>6. View(calls'[c], toWorker', toClient')
            = [op |-> calls'[c].op, stage |-> "made", answer |-> calls'[c].answer]
      BY <3>3, <3>5, ViewOf
    <3> QED
      BY <1>3, <1>5, <3>3, <3>6
  <2>8. DOMAIN calls' = DOMAIN calls
    BY <2>3
  <2>9. Made' = [c \in DOMAIN calls |-> View(calls'[c], toWorker', toClient')]
    BY <2>8 DEF Made
  <2>10. Made' = [c \in DOMAIN calls |-> Made[c]]
    BY <2>7, <2>9
  <2>11. Made = [c \in DOMAIN calls |-> Made[c]]
    BY DEF Made
  <2> QED
    BY <1>1, <2>10, <2>11 DEF Service!svars
<1> QED
  BY <1>2, <1>4, <1>5
LEMMA NamedAfterHead ==
    ASSUME IInv, toClient # <<>>, NEW id, 1 \notin Numbered(toClient) \/ id # Head(toClient).id
    PROVE  Named(Tail(toClient), id) = Named(toClient, id)
<1>1. toClient \in Seq(ToClient)
  BY DEF IInv, TypeOK
<1>2. Named(toClient, id) = Named(Tail(toClient), id)
         \cup (IF 1 \in Numbered(toClient) /\ Head(toClient).id = id THEN {Head(toClient)} ELSE {})
  BY <1>1, NamedTail
<1> QED
  BY <1>2

\* The client takes an answer: its call returns with it, and no other call is touched.
LEMMA SettleRefines ==
    ASSUME IInv, toClient # <<>>, Head(toClient).type = "answer",
           toClient' = Tail(toClient), matchers' = matchers,
           calls' = Returned(Head(toClient).id, Head(toClient).answer),
           \A id : Named(toWorker', id) = Named(toWorker, id)
    PROVE  \E c \in DOMAIN Made : Service!Return(c)
<1> DEFINE m == Head(toClient)
           id == Head(toClient).id
<1>1. /\ 1 \in Numbered(toClient) /\ id \in DOMAIN calls /\ calls[id].stage = "sent"
      /\ \A i \in Numbered(Tail(toClient)) : Tail(toClient)[i].id # id
      /\ \A i \in Numbered(toWorker) : toWorker[i].id # id
  BY HeadAnswer
<1>2. toClient \in Seq(ToClient) /\ calls[id].id = id
  BY <1>1, CallOfId DEF IInv, TypeOK
<1>3. Named(Tail(toClient), id) = {} /\ Named(toWorker, id) = {}
  BY <1>1 DEF Named
<1>4. \A c : c # id => Named(toClient', c) = Named(toClient, c)
  BY NamedAfterHead
<1>5. Named(toClient, id) = {m}
  <2>1. Named(toClient, id) = Named(Tail(toClient), id) \cup
            (IF 1 \in Numbered(toClient) /\ Head(toClient).id = id THEN {Head(toClient)} ELSE {})
    BY <1>2, NamedTail
  <2> QED
    BY <1>1, <1>3, <2>1
<1> HIDE DEF m, id
<1>6. /\ DOMAIN calls' = DOMAIN calls /\ \A c \in DOMAIN calls : c # id => calls'[c] = calls[c]
      /\ calls'[id] = [calls[id] EXCEPT !.stage = "returned", !.answer = m.answer]
  BY <1>1 DEF Returned, m, id
<1>7. /\ calls'[id].stage = "returned" /\ calls'[id].answer = m.answer
      /\ calls'[id].op = calls[id].op
  BY <1>1, <1>6, CallsType DEF Call
<1>8. /\ DOMAIN Made = DOMAIN calls
      /\ Made[id] = [op |-> calls[id].op, stage |-> "answered", answer |-> m.answer]
      /\ \A c \in DOMAIN calls : Made[c] = View(calls[c], toWorker, toClient)
  <2>1. View(calls[id], toWorker, toClient)
            = [op |-> calls[id].op, stage |-> "answered", answer |-> m.answer]
    <3>1. /\ calls[id].stage = "sent" /\ Named(toWorker, calls[id].id) = {}
          /\ Named(toClient, calls[id].id) = {m}
      BY <1>1, <1>2, <1>3, <1>5
    <3> QED
      BY <3>1, ViewAnswered
  <2> QED
    BY <1>1, <2>1 DEF Made
<1>9. View(calls'[id], toWorker', toClient')
          = [op |-> Made[id].op, stage |-> "returned", answer |-> Made[id].answer]
  BY <1>7, <1>8, ViewOf
<1>10. ASSUME NEW c \in DOMAIN calls, c # id
       PROVE  View(calls'[c], toWorker', toClient') = Made[c]
  <2>1. calls'[c] = calls[c] /\ calls[c].stage \in Stage
    BY <1>6, <1>10, CallsType
  <2>2. CASE calls[c].stage = "sent"
    <3>1. calls[c].id = c
      BY <2>2, CallOfId
    <3>2. /\ Named(toWorker', calls[c].id) = Named(toWorker, calls[c].id)
          /\ Named(toClient', calls[c].id) = Named(toClient, calls[c].id)
      BY <1>4, <1>10, <3>1
    <3>3. View(calls[c], toWorker', toClient') = View(calls[c], toWorker, toClient)
      BY <2>1, <3>2, SameView
    <3> QED
      BY <1>8, <2>1, <3>3
  <2>3. CASE calls[c].stage \in {"waits", "returned"}
    <3>1. View(calls[c], toWorker', toClient') = View(calls[c], toWorker, toClient)
      BY <2>1, <2>3, SameView
    <3> QED
      BY <1>8, <2>1, <3>1
  <2> QED
    BY <2>1, <2>2, <2>3 DEF Stage
<1>11. Made' = [c \in DOMAIN calls |-> View(calls'[c], toWorker', toClient')]
  BY <1>6 DEF Made
<1>12. Made' = [Made EXCEPT ![id] = [op |-> Made[id].op, stage |-> "returned", answer |-> Made[id].answer]]
  <2>1. Made = [c \in DOMAIN calls |-> Made[c]]
    BY DEF Made
  <2>2. Made' = [c \in DOMAIN calls |->
                   IF c = id THEN [op |-> Made[id].op, stage |-> "returned", answer |-> Made[id].answer]
                   ELSE Made[c]]
    BY <1>9, <1>10, <1>11
  <2> QED
    BY <1>8, <2>1, <2>2
<1>13. Service!Return(id)
  BY <1>8, <1>12 DEF Service!Return, Service!Becomes
<1> QED
  BY <1>1, <1>8, <1>13 DEF id

LEMMA ClientReceivesRefines ==
    ASSUME IInv, ClientReceives
    PROVE  [Service!Next]_Service!svars
<1>1. toClient # <<>> /\ toClient' = Tail(toClient) /\ UNCHANGED <<worker, created, inWorker>>
  BY DEF ClientReceives
<1>2. Head(toClient) \in ToClient /\ toClient \in Seq(ToClient)
  BY <1>1 DEF IInv, TypeOK
<1>3. ASSUME Head(toClient) \in {Ready, InitError}
      PROVE  \A id : Named(toClient', id) = Named(toClient, id)
  <2>1. Head(toClient) = toClient[1] /\ Head(toClient).type \notin {"request", "answer"}
    BY <1>1, <1>2, <1>3 DEF Ready, InitError
  <2>2. 1 \notin Numbered(toClient)
    BY <2>1 DEF Numbered
  <2> QED
    BY <1>1, <2>2, NamedAfterHead
<1>4. CASE Head(toClient) = Ready
  BY <1>1, <1>3, <1>4, SettleReadyRefines DEF ClientReceives
<1>5. CASE Head(toClient) = InitError
  <2>1. Head(toClient) # Ready
    BY <1>5 DEF Ready, InitError
  <2> QED
    BY <1>1, <1>3, <1>5, <2>1, SettleReadyRefines DEF ClientReceives
<1>6. CASE Head(toClient) # Ready /\ Head(toClient) # InitError
  <2>1. Head(toClient).type = "answer"
    BY <1>2, <1>6 DEF ToClient, Ready, InitError
  <2>2. Settle(Head(toClient))
    BY <1>6 DEF ClientReceives
  <2>3. Head(toClient).id \in pending /\ CallOf(Head(toClient).id) = Head(toClient).id
    BY <1>1, <2>1, HeadAnswer
  <2>4. calls' = Returned(Head(toClient).id, Head(toClient).answer) /\ toWorker' = toWorker
    BY <2>2, <2>3 DEF Settle
  <2>5. \E c \in DOMAIN Made : Service!Return(c)
    BY <1>1, <2>1, <2>4, SettleRefines DEF inWorker
  <2> QED
    BY <2>5 DEF Service!Next
<1> QED
  BY <1>4, <1>5, <1>6
LEMMA NamedAfterWorkerHead ==
    ASSUME IInv, toWorker # <<>>, NEW id, 1 \notin Numbered(toWorker) \/ id # Head(toWorker).id
    PROVE  Named(Tail(toWorker), id) = Named(toWorker, id)
<1>1. toWorker \in Seq(ToWorker)
  BY DEF IInv, TypeOK
<1>2. Named(toWorker, id) = Named(Tail(toWorker), id)
         \cup (IF 1 \in Numbered(toWorker) /\ Head(toWorker).id = id THEN {Head(toWorker)} ELSE {})
  BY <1>1, NamedTail
<1> QED
  BY <1>2

\* The worker takes a message that is no request: the calls are as they were.
LEMMA OtherMessageRefines ==
    ASSUME IInv, toWorker # <<>>, Head(toWorker).type \notin {"request", "answer"},
           toWorker' = Tail(toWorker), UNCHANGED <<calls, toClient>>
    PROVE  Made' = Made
<1>1. 1 \notin Numbered(toWorker)
  BY WorkerTail DEF Numbered
<1>2. \A id : Named(toWorker', id) = Named(toWorker, id)
  BY <1>1, NamedAfterWorkerHead
<1> QED
  BY <1>2, NothingMade

LEMMA HandleFreeRefines ==
    ASSUME IInv, toWorker # <<>>, Head(toWorker).type = "freeMatcher",
           toWorker' = Tail(toWorker), UNCHANGED client, HandleFree(Head(toWorker))
    PROVE  [Service!Next]_Service!svars
<1>1. Made' = Made
  BY OtherMessageRefines DEF HandleFree, client
<1>2. matchers = [n \in DOMAIN matchers |-> matchers[n]]
  BY DEF IInv, TypeOK
<1>3. CASE runtime = "up" /\ Head(toWorker).matcher \in DOMAIN matchers
  <2>1. Service!Free(Head(toWorker).matcher)
    BY <1>1, <1>3 DEF Service!Free, HandleFree
  <2> QED
    BY <1>3, <2>1 DEF Service!Next
<1>4. CASE runtime = "up" /\ Head(toWorker).matcher \notin DOMAIN matchers
  <2>1. DOMAIN matchers \ {Head(toWorker).matcher} = DOMAIN matchers
    BY <1>4
  <2>2. matchers' = [n \in DOMAIN matchers \ {Head(toWorker).matcher} |-> matchers[n]]
    BY <1>4 DEF HandleFree
  <2>3. matchers' = matchers
    BY <1>2, <2>1, <2>2
  <2> QED
    BY <1>1, <2>3 DEF Service!svars
<1>5. CASE runtime # "up"
  BY <1>1, <1>5 DEF HandleFree, Service!svars
<1> QED
  BY <1>3, <1>4, <1>5

\* The worker carries a request out, in one step: with its runtime up as the service
\* does, otherwise it is refused.
LEMMA HandleRequestRefines ==
    ASSUME IInv, toWorker # <<>>, Head(toWorker).type = "request",
           toWorker' = Tail(toWorker), UNCHANGED client, HandleRequest(Head(toWorker))
    PROVE  \E c \in DOMAIN Made : Service!Perform(c) \/ Service!Refuse(c)
<1> DEFINE m == Head(toWorker)
           id == m.id
           a == AnswerNow(m.op)
           answer == Answer(m.id, a)
<1>1. /\ m \in [type : {"request"}, id : 1..MaxCalls, op : Op] /\ 1 \in Numbered(toWorker)
      /\ id \in DOMAIN calls /\ calls[id].stage = "sent" /\ m.op = calls[id].op
      /\ nextMatcherID \in Matcher
      /\ \A i \in Numbered(Tail(toWorker)) : id < Tail(toWorker)[i].id
      /\ \A i \in Numbered(toClient) : toClient[i].id < id
  BY HeadRequest DEF OfSent, Matcher
<1>2. /\ toClient' = Append(toClient, answer)
      /\ matchers' = Service!With(matchers, m.op, a) /\ calls' = calls
  BY DEF HandleRequest, client
<1>3. /\ toWorker \in Seq(ToWorker) /\ toClient \in Seq(ToClient)
      /\ matchers \in [DOMAIN matchers -> Grammar] /\ DOMAIN matchers \subseteq 1..nextMatcherID - 1
  BY DEF IInv, TypeOK
<1>4. a \in Outcome
  <2>1. CASE runtime = "up"
    BY <1>1, <1>3, <2>1, AnswerType DEF AnswerNow
  <2>2. CASE runtime # "up"
    BY <2>2 DEF AnswerNow, Outcome, Failed, Service!Failed
  <2> QED
    BY <2>1, <2>2
<1>5. answer \in ToClient /\ answer.type = "answer" /\ answer.id = id /\ answer.answer = a
  BY <1>1, <1>4 DEF Answer, ToClient
<1>6. id \in Nat /\ calls[id].id = id
  BY <1>1, CallOfId
<1>7. Named(Tail(toWorker), id) = {} /\ Named(toClient, id) = {}
  <2>1. \A next : id < next => next # id
    BY <1>6
  <2>2. \A i \in Numbered(Tail(toWorker)) : Tail(toWorker)[i].id # id
    BY <1>1, <2>1
  <2>3. \A i \in Numbered(toClient) : toClient[i].id # id
    BY <1>1, <1>6
  <2> QED
    BY <2>2, <2>3 DEF Named
<1>8. Named(toWorker, id) # {}
  <2>1. toWorker[1] = m
    BY HeadRequest
  <2> QED
    BY <1>1, <2>1 DEF Named
<1> HIDE DEF a, answer
<1>9. Named(toClient', id) = {answer} /\ \A c : c # id => Named(toClient', c) = Named(toClient, c)
  <2>1. \A c : Named(Append(toClient, answer), c)
                  = Named(toClient, c) \cup (IF c = id THEN {answer} ELSE {})
    <3> SUFFICES ASSUME NEW c
                 PROVE  Named(Append(toClient, answer), c)
                           = Named(toClient, c) \cup (IF c = id THEN {answer} ELSE {})
      OBVIOUS
    <3>1. toClient \in Seq(ToClient) /\ answer \in ToClient
      BY <1>3, <1>5
    <3>2. Named(Append(toClient, answer), c) = Named(toClient, c) \cup
              (IF answer.type \in {"request", "answer"} /\ answer.id = c THEN {answer} ELSE {})
      BY <3>1, NamedAppend
    <3> QED
      BY <1>5, <3>2
  <2> QED
    BY <1>2, <1>7, <2>1
<1>10. \A c : c # id => Named(toWorker', c) = Named(toWorker, c)
  BY NamedAfterWorkerHead
<1>11. Named(toWorker', id) = {}
  BY <1>7
<1> HIDE DEF id, m
<1>12. /\ DOMAIN Made = DOMAIN calls
       /\ Made[id].op = calls[id].op /\ Made[id].stage = "made" /\ Made[id].answer = Failed
       /\ \A c \in DOMAIN calls : Made[c] = View(calls[c], toWorker, toClient)
  <2>1. calls[id].answer = Failed
    BY <1>1 DEF IInv, CallsFollowReady
  <2>2. View(calls[id], toWorker, toClient) = [op |-> calls[id].op, stage |-> "made", answer |-> Failed]
    <3>1. calls[id].stage = "sent" /\ Named(toWorker, calls[id].id) # {}
      BY <1>1, <1>6, <1>8
    <3> QED
      BY <2>1, <3>1, ViewOf
  <2> QED
    BY <1>1, <2>2 DEF Made
<1>13. View(calls[id], toWorker', toClient') = [op |-> Made[id].op, stage |-> "answered", answer |-> a]
  <2>1. /\ calls[id].stage = "sent" /\ Named(toWorker', calls[id].id) = {}
        /\ Named(toClient', calls[id].id) = {answer}
    BY <1>1, <1>6, <1>9, <1>11
  <2>2. View(calls[id], toWorker', toClient')
            = [op |-> calls[id].op, stage |-> "answered", answer |-> answer.answer]
    BY <2>1, ViewAnswered
  <2> QED
    BY <1>5, <1>12, <2>2
<1>14. ASSUME NEW c \in DOMAIN calls, c # id
       PROVE  View(calls[c], toWorker', toClient') = Made[c]
  <2>1. calls[c].stage \in Stage /\ Made[c] = View(calls[c], toWorker, toClient)
    BY <1>12, CallsType
  <2>2. CASE calls[c].stage = "sent"
    <3>1. calls[c].id = c
      BY <2>2, CallOfId
    <3>2. /\ Named(toWorker', calls[c].id) = Named(toWorker, calls[c].id)
          /\ Named(toClient', calls[c].id) = Named(toClient, calls[c].id)
      BY <1>9, <1>10, <1>14, <3>1
    <3>3. View(calls[c], toWorker', toClient') = View(calls[c], toWorker, toClient)
      BY <2>1, <3>2, SameView
    <3> QED
      BY <2>1, <3>3
  <2>3. CASE calls[c].stage \in {"waits", "returned"}
    <3>1. View(calls[c], toWorker', toClient') = View(calls[c], toWorker, toClient)
      BY <2>1, <2>3, SameView
    <3> QED
      BY <2>1, <3>1
  <2> QED
    BY <2>1, <2>2, <2>3 DEF Stage
<1>15. Made' = [Made EXCEPT ![id] = [op |-> Made[id].op, stage |-> "answered", answer |-> a]]
  <2>1. Made' = [c \in DOMAIN calls |-> View(calls[c], toWorker', toClient')]
    BY <1>2 DEF Made
  <2>2. Made = [c \in DOMAIN calls |-> Made[c]]
    BY DEF Made
  <2>3. Made' = [c \in DOMAIN calls |->
                   IF c = id THEN [op |-> Made[id].op, stage |-> "answered", answer |-> a] ELSE Made[c]]
    BY <1>13, <1>14, <2>1
  <2> QED
    BY <1>12, <2>2, <2>3
<1>16. Service!Becomes(id, "answered", a)
  BY <1>15 DEF Service!Becomes
<1>17. CASE runtime = "up"
  <2>1. a = Service!AnswerTo(Made[id].op, matchers, nextMatcherID)
    BY <1>1, <1>12, <1>17 DEF a, AnswerNow
  <2>2. nextMatcherID \in Matcher \ DOMAIN matchers
    BY <1>1, <1>3 DEF Matcher
  <2>3. matchers' = Service!With(matchers, Made[id].op, a)
    BY <1>1, <1>2, <1>12
  <2>4. Service!Perform(id)
    BY <1>12, <1>16, <2>1, <2>2, <2>3 DEF Service!Perform
  <2> QED
    BY <1>1, <1>12, <2>4
<1>18. CASE runtime # "up"
  <2>1. a = Failed /\ a.type # "compiled"
    BY <1>18 DEF a, AnswerNow, Failed, Service!Failed
  <2>2. matchers' = matchers
    BY <1>2, <2>1 DEF Service!With
  <2>3. Service!Refuse(id)
    BY <1>12, <1>16, <2>1, <2>2 DEF Service!Refuse, Failed
  <2> QED
    BY <1>1, <1>12, <2>3
<1> QED
  BY <1>17, <1>18

LEMMA WorkerHandlesRefines ==
    ASSUME IInv, WorkerHandles
    PROVE  [Service!Next]_Service!svars
<1>1. toWorker # <<>> /\ toWorker' = Tail(toWorker) /\ UNCHANGED client
  BY DEF WorkerHandles
<1>2. CASE Head(toWorker).type = "request" /\ HandleRequest(Head(toWorker))
  BY <1>1, <1>2, HandleRequestRefines DEF Service!Next
<1>3. CASE Head(toWorker).type = "freeMatcher" /\ HandleFree(Head(toWorker))
  BY <1>1, <1>3, HandleFreeRefines
<1>4. CASE Head(toWorker).type = "init" /\ UNCHANGED <<toClient, matchers>>
  <2>1. Made' = Made
    BY <1>1, <1>4, OtherMessageRefines DEF client
  <2> QED
    BY <1>4, <2>1 DEF Service!svars
<1> QED
  BY <1>2, <1>3, <1>4 DEF WorkerHandles

LEMMA StepRefines ==
    ASSUME IInv, [Next]_wvars
    PROVE  [Service!Next]_Service!svars
<1>1. CASE StartWorker
  BY <1>1, StartWorkerRefines
<1>2. CASE Terminate
  BY <1>2, TerminateRefines DEF Service!Next
<1>3. ASSUME NEW op \in Asked, MakeCall(op)
      PROVE  Service!Next
  <2>1. op \in Op
    BY DEF Asked
  <2>2. Service!Invoke(op)
    BY <1>3, <2>1, EmptyQueue, MakeCallRefines DEF MakeCall
  <2> QED
    BY <2>1, <2>2 DEF Service!Next, Op
<1>4. ASSUME NEW m \in Handles, CallFree(m)
      PROVE  UNCHANGED Service!svars
  <2>1. m \in Matcher
    BY HandlesAssumption
  <2> QED
    BY <1>4, <2>1, FreeNowType, PostRefines DEF CallFree
<1>5. CASE ClientReceives
  BY <1>5, ClientReceivesRefines
<1>6. CASE WorkerError
  BY <1>6, SettleReadyRefines DEF WorkerError
<1>7. CASE WorkerHandles
  BY <1>7, WorkerHandlesRefines
<1>8. CASE InitLoads \/ InitEnds
  <2>1. CASE Starts
    BY <2>1 DEF Starts, client, Made, View, StageOf, Service!svars
  <2> QED
    BY <1>8, <2>1, InitSteps, ReportsRefines
<1>9. CASE UNCHANGED wvars
  BY <1>9 DEF wvars, client, inWorker, Made, View, StageOf, Service!svars
<1> QED
  BY <1>1, <1>2, <1>3, <1>4, <1>5, <1>6, <1>7, <1>8, <1>9 DEF Next, WorkerSteps

\* The client and its worker are the matcher service: a call takes effect at most
\* once, between its two ends, on the matchers of that moment, whatever worker is
\* started, fails or is terminated meanwhile.
THEOREM Refines == Spec => Serves
<1>1. WorkerInit => Service!Init
  <2> SUFFICES ASSUME WorkerInit
               PROVE  Service!Init
    OBVIOUS
  <2>1. calls = <<>> /\ matchers = <<>>
    BY DEF WorkerInit
  <2>2. Made = <<>>
    BY <2>1 DEF Made
  <2> QED
    BY <2>1, <2>2 DEF Service!Init
<1>2. IInv /\ [Next]_wvars => [Service!Next]_Service!svars
  BY StepRefines
<1> QED
  BY <1>1, <1>2, Invariant, PTL DEF Spec, Serves, Service!Spec
=============================================================================
