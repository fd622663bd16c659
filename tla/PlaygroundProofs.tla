-------------------------- MODULE PlaygroundProofs --------------------------
(***************************************************************************)
(* The playground forgets no matcher, uses none that it freed, never goes  *)
(* back to an older result, and shows what is current when nothing is      *)
(* underway: for any number of versions of the project and of the input    *)
(* and any number of calls, whatever edits, timers and results do to each  *)
(* other.                                                                  *)
(***************************************************************************)
EXTENDS Playground, WorkerClientProofs

AppTypeOK ==
    /\ project \in 1..LastProject /\ input \in 1..LastInput
    /\ compileSeq \in Nat /\ compileTimer \in {0, compileSeq}
    /\ matchTimer \in {NoTimer} \cup [matcher : Matcher, input : 1..LastInput]
    /\ matcherId \in 0..MaxCalls
    /\ isCompiling \in BOOLEAN /\ mounted \in BOOLEAN
    /\ compiling \in Seq(Nat) /\ Len(compiling) = Len(calls)

\* Nothing is compiled before there is a client.
IdleWithoutClient ==
    /\ HaveClient => worker # 0
    /\ ~HaveClient => compileSeq = 0 /\ calls = <<>>
    /\ compileSeq = 0 => compileTimer = 0 /\ matchTimer = NoTimer /\ matcherId = 0

\* The worker is started once, and holds matchers only when its runtime is up.
OneWorker ==
    /\ created = worker
    /\ \A i \in DOMAIN toWorker : toWorker[i].type = "init" =>
          /\ runtime = "off"
          /\ \A j \in DOMAIN toWorker : toWorker[j].type = "init" => j = i
    /\ runtime # "up" => DOMAIN matchers = {}

\* Compilations are numbered in the order they are made, up to the latest, and no
\* match is timed while one is to come.
CompilationsInOrder ==
    /\ \A c \in DOMAIN calls :
          /\ compiling[c] <= compileSeq
          /\ compiling[c] # 0 <=> calls[c].op.type = "compile"
          /\ compileTimer # 0 => compiling[c] < compileSeq
    /\ \A c, d \in DOMAIN calls : c < d /\ compiling[d] # 0 => compiling[c] < compiling[d]
    /\ compileTimer # 0 => isCompiling
    /\ isCompiling => matchTimer = NoTimer

\* A matcher that the application has, or will get, is held by the worker and no
\* message frees it.
Held(m) == m \in DOMAIN matchers /\ m \notin Freeing
Brings(m) == m.type = "answer" /\ m.answer.type = "compiled"
OneArrival(q) == \A i, j \in DOMAIN q :
    Brings(q[i]) /\ Brings(q[j]) /\ q[i].answer.matcher = q[j].answer.matcher => i = j
ArrivingHeld ==
    /\ \A i \in DOMAIN toClient : Brings(toClient[i]) =>
          compiling[toClient[i].id] # 0 /\ Held(toClient[i].answer.matcher)
    /\ OneArrival(toClient)
    /\ \A m \in Freeing : m < nextMatcherID

\* While it has one, no compilation is underway.
Compiling(m) == m.type \in {"request", "answer"} /\ compiling[m.id] # 0
CurrentHeld ==
    /\ matchTimer # NoTimer => matchTimer.matcher = matcherId
    /\ matcherId # 0 =>
          /\ Held(matcherId)
          /\ \A i \in DOMAIN toWorker : ~Compiling(toWorker[i])
          /\ \A i \in DOMAIN toClient : ~Compiling(toClient[i])

AppInv ==
    /\ IInv /\ AppTypeOK /\ IdleWithoutClient /\ OneWorker /\ CompilationsInOrder
    /\ ArrivingHeld /\ CurrentHeld /\ MatchersHeld /\ NoUseAfterFree
-----------------------------------------------------------------------------
(***************************************************************************)
(* Queues by their places.                                                 *)
(***************************************************************************)
LEMMA JoinedPlaces ==
    ASSUME NEW M, NEW q \in Seq(M), NEW r \in Seq(M)
    PROVE  /\ \A i \in DOMAIN q : i \in DOMAIN (q \o r) /\ (q \o r)[i] = q[i]
           /\ \A i \in DOMAIN (q \o r) :
                 \/ i \in DOMAIN q /\ (q \o r)[i] = q[i]
                 \/ /\ i - Len(q) \in DOMAIN r /\ (q \o r)[i] = r[i - Len(q)]
                    /\ \A j \in DOMAIN q : j < i
           /\ \A i \in DOMAIN r : \E j \in DOMAIN (q \o r) : (q \o r)[j] = r[i]
           /\ \A i \in DOMAIN (q \o r) : i \in Nat
<1>1. /\ Len(q) \in Nat /\ Len(r) \in Nat /\ DOMAIN q = 1..Len(q) /\ DOMAIN r = 1..Len(r)
      /\ DOMAIN (q \o r) = 1..Len(q) + Len(r)
      /\ \A i \in 1..Len(q) + Len(r) :
            (q \o r)[i] = IF i <= Len(q) THEN q[i] ELSE r[i - Len(q)]
  OBVIOUS
<1>2. \A i \in DOMAIN r : /\ i + Len(q) \in DOMAIN (q \o r)
                          /\ (q \o r)[i + Len(q)] = r[i]
  BY <1>1
<1>3. \A i \in DOMAIN q : i \in DOMAIN (q \o r) /\ (q \o r)[i] = q[i]
  BY <1>1
<1>4. ASSUME NEW i \in DOMAIN (q \o r), i \notin DOMAIN q
      PROVE  /\ i - Len(q) \in DOMAIN r /\ (q \o r)[i] = r[i - Len(q)]
             /\ \A j \in DOMAIN q : j < i
  BY <1>1, <1>4
<1>5. \A i \in DOMAIN (q \o r) : i \in Nat
  BY <1>1
<1> QED
  BY <1>2, <1>3, <1>4, <1>5

LEMMA AppendedPlaces ==
    ASSUME NEW M, NEW q \in Seq(M), NEW m \in M
    PROVE  /\ \A i \in DOMAIN q : i \in DOMAIN Append(q, m) /\ Append(q, m)[i] = q[i]
           /\ \A i \in DOMAIN Append(q, m) :
                 \/ i \in DOMAIN q /\ Append(q, m)[i] = q[i]
                 \/ Append(q, m)[i] = m /\ i = Len(q) + 1
           /\ Append(q, m)[Len(q) + 1] = m /\ Len(q) + 1 \in DOMAIN Append(q, m)
           /\ Append(q, m) \in Seq(M) /\ Len(Append(q, m)) = Len(q) + 1
OBVIOUS

LEMMA SameLength ==
    ASSUME NEW a \in Nat, NEW b \in Nat, 1..a = 1..b
    PROVE  a = b
<1>1. a < b => b \in 1..b /\ b \notin 1..a
  OBVIOUS
<1>2. b < a => a \in 1..a /\ a \notin 1..b
  OBVIOUS
<1> QED
  BY <1>1, <1>2

LEMMA AppFacts ==
    ASSUME AppInv
    PROVE  /\ toWorker \in Seq(ToWorker) /\ toClient \in Seq(ToClient) /\ calls \in Seq(Call)
           /\ Len(calls) \in Nat /\ DOMAIN calls = 1..Len(calls) /\ DOMAIN compiling = DOMAIN calls
           /\ \A c \in DOMAIN calls : compiling[c] \in Nat
           /\ \A i \in DOMAIN toWorker : toWorker[i] \in ToWorker
           /\ \A i \in DOMAIN toClient : toClient[i] \in ToClient
           /\ \A i \in DOMAIN toClient : toClient[i].type \in {"request", "answer"} =>
                 toClient[i].id \in DOMAIN calls
           /\ \A i \in DOMAIN toWorker : toWorker[i].type \in {"request", "answer"} =>
                 toWorker[i].id \in DOMAIN calls /\ toWorker[i].op = calls[toWorker[i].id].op
           /\ compileSeq \in Nat /\ DOMAIN matchers \subseteq 1..nextMatcherID - 1
           /\ nextMatcherID \in 1..MaxCalls + 1
<1>1. /\ toWorker \in Seq(ToWorker) /\ toClient \in Seq(ToClient) /\ calls \in Seq(Call)
      /\ DOMAIN matchers \subseteq 1..nextMatcherID - 1 /\ nextMatcherID \in 1..MaxCalls + 1
  BY DEF AppInv, IInv, TypeOK
<1>2. compiling \in Seq(Nat) /\ Len(compiling) = Len(calls) /\ compileSeq \in Nat
  BY DEF AppInv, AppTypeOK
<1>3. /\ \A i \in Numbered(toClient) : toClient[i].id \in DOMAIN calls
      /\ \A i \in Numbered(toWorker) :
            toWorker[i].id \in DOMAIN calls /\ toWorker[i].op = calls[toWorker[i].id].op
  BY DEF AppInv, IInv, QueuesFollowCalls, OfSent
<1>4. /\ \A i \in DOMAIN toWorker : toWorker[i] \in ToWorker
      /\ \A i \in DOMAIN toClient : toClient[i] \in ToClient
  BY <1>1
<1>5. /\ Len(calls) \in Nat /\ DOMAIN calls = 1..Len(calls) /\ DOMAIN compiling = DOMAIN calls
      /\ \A c \in DOMAIN calls : compiling[c] \in Nat
  BY <1>1, <1>2
<1> QED
  BY <1>1, <1>2, <1>3, <1>4, <1>5 DEF Numbered

LEMMA AppInitKeeps == Init => AppInv
<1> SUFFICES ASSUME Init
             PROVE  AppInv
  OBVIOUS
<1>1. /\ toWorker = <<>> /\ toClient = <<>> /\ calls = <<>> /\ compiling = <<>> /\ matchers = <<>>
      /\ DOMAIN toWorker = {} /\ DOMAIN toClient = {} /\ DOMAIN calls = {} /\ DOMAIN matchers = {}
      /\ Len(calls) = 0 /\ Len(compiling) = 0 /\ compiling \in Seq(Nat)
  BY DEF Init, WorkerInit
<1>2. IInv
  BY InitKeeps DEF Init
<1>3. AppTypeOK
  <2>1. 1 \in 1..LastProject /\ 1 \in 1..LastInput /\ 0 \in 0..MaxCalls
    BY VersionsAssumption, MaxCallsAssumption
  <2>2. /\ project = 1 /\ input = 1 /\ compileSeq = 0 /\ isCompiling = FALSE
        /\ compileTimer = 0 /\ matchTimer = NoTimer /\ matcherId = 0 /\ mounted = TRUE
    BY DEF Init
  <2> QED
    BY <1>1, <2>1, <2>2 DEF AppTypeOK
<1>4. IdleWithoutClient /\ OneWorker
  BY <1>1 DEF Init, WorkerInit, IdleWithoutClient, OneWorker, HaveClient
<1>5. CompilationsInOrder
  BY <1>1 DEF Init, CompilationsInOrder
<1>6. Freeing = {}
  BY <1>1 DEF Freeing
<1>7. ArrivingHeld /\ CurrentHeld /\ MatchersHeld /\ NoUseAfterFree
  BY <1>1, <1>6 DEF Init, ArrivingHeld, OneArrival, CurrentHeld, MatchersHeld, NoUseAfterFree
<1> QED
  BY <1>2, <1>3, <1>4, <1>5, <1>7 DEF AppInv
-----------------------------------------------------------------------------
(***************************************************************************)
(* Steps of the application alone                                          *)
(***************************************************************************)
LEMMA EditKeeps ==
    ASSUME AppInv, UNCHANGED <<wvars, compiling, matcherId, mounted>>, AppTypeOK',
           ~HaveClient => compileSeq' = 0,
           compileSeq' = 0 => compileTimer' = 0 /\ matchTimer' = NoTimer,
           \/ compileSeq' = compileSeq /\ compileTimer' = compileTimer
           \/ compileSeq' = compileSeq + 1,
           compileTimer' # 0 => isCompiling', isCompiling' => matchTimer' = NoTimer,
           matchTimer' # NoTimer => matchTimer'.matcher = matcherId,
           compileSeq = 0 \/ compileSeq' # 0
    PROVE  AppInv'
<1> USE DEF wvars, client, inWorker
<1>1. IInv'
  BY StepKeeps DEF AppInv
<1>2. IdleWithoutClient' /\ OneWorker'
  BY DEF AppInv, IdleWithoutClient, OneWorker, HaveClient
<1>3. CompilationsInOrder'
  <2>1. /\ compileSeq \in Nat
        /\ \A c \in DOMAIN calls : compiling[c] \in Nat /\ compiling[c] <= compileSeq
    BY AppFacts DEF AppInv, CompilationsInOrder
  <2>2. \A c \in DOMAIN calls :
           compiling[c] <= compileSeq' /\ (compileTimer' # 0 => compiling[c] < compileSeq')
    BY <2>1 DEF AppInv, CompilationsInOrder
  <2> QED
    BY <2>2 DEF AppInv, CompilationsInOrder
<1>4. ArrivingHeld'
  BY DEF AppInv, ArrivingHeld, OneArrival, Brings, Held, Freeing
<1>5. CurrentHeld'
  BY DEF AppInv, CurrentHeld, Compiling, Held, Freeing
<1>6. MatchersHeld' /\ NoUseAfterFree'
  BY DEF AppInv, MatchersHeld, NoUseAfterFree, Freeing, Arriving
<1> QED
  BY <1>1, <1>2, <1>3, <1>4, <1>5, <1>6 DEF AppInv
LEMMA EditProjectKeeps ==
    ASSUME AppInv, EditProject \/ SelectExample
    PROVE  AppInv'
<1>1. /\ UNCHANGED <<wvars, compiling, matcherId, mounted>>
      /\ project' \in 1..LastProject /\ input' \in 1..LastInput
  BY VersionsAssumption DEF AppInv, AppTypeOK, EditProject, SelectExample
<1>2. CASE ~HaveClient
  <2>1. UNCHANGED <<compileSeq, compileTimer, isCompiling, matchTimer, outputError>>
    BY <1>2 DEF EditProject, SelectExample
  <2>2. AppTypeOK'
    BY <1>1, <2>1 DEF AppInv, AppTypeOK, wvars, client
  <2>3. /\ ~HaveClient => compileSeq' = 0
        /\ compileSeq' = 0 => compileTimer' = 0 /\ matchTimer' = NoTimer
        /\ matchTimer' # NoTimer => matchTimer'.matcher = matcherId
        /\ compileTimer' # 0 => isCompiling'
        /\ isCompiling' => matchTimer' = NoTimer
    BY <2>1 DEF AppInv, IdleWithoutClient, CompilationsInOrder, CurrentHeld
  <2> QED
    BY <1>1, <2>1, <2>2, <2>3, EditKeeps
<1>3. CASE HaveClient
  <2>1. ScheduleCompile
    BY <1>3 DEF EditProject, SelectExample
  <2>2. /\ compileSeq' = compileSeq + 1 /\ compileTimer' = compileSeq + 1
        /\ isCompiling' = TRUE /\ matchTimer' = NoTimer /\ compileSeq \in Nat
    BY <2>1 DEF ScheduleCompile, AppInv, AppTypeOK
  <2>3. AppTypeOK'
    BY <1>1, <2>2 DEF AppInv, AppTypeOK, wvars, client
  <2>4. compileSeq' # 0 /\ compileTimer' # 0
    BY <2>2
  <2> QED
    BY <1>1, <1>3, <2>2, <2>3, <2>4, EditKeeps
<1> QED
  BY <1>2, <1>3

\* What the match effect leaves in its timer.
LEMMA MatchAfterGives ==
    ASSUME NEW busy \in BOOLEAN, NEW matcher \in 0..MaxCalls, NEW in \in 1..LastInput,
           MatchAfter(busy, matcher, in)
    PROVE  /\ matchTimer' \in {NoTimer} \cup [matcher : Matcher, input : 1..LastInput]
           /\ busy \/ matcher = 0 => matchTimer' = NoTimer
           /\ matchTimer' # NoTimer => matchTimer' = [matcher |-> matcher, input |-> in]
           /\ matchTimer' # NoTimer => matchTimer'.matcher = matcher
<1>1. matchTimer' = IF busy \/ matcher = 0 THEN NoTimer ELSE [matcher |-> matcher, input |-> in]
  BY DEF MatchAfter
<1>2. CASE busy \/ matcher = 0
  BY <1>1, <1>2
<1>3. CASE ~(busy \/ matcher = 0)
  <2>1. matcher \in Matcher
    BY <1>3, MaxCallsAssumption DEF Matcher
  <2> QED
    BY <1>1, <1>3, <2>1
<1> QED
  BY <1>2, <1>3

LEMMA EditInputKeeps ==
    ASSUME AppInv, EditInput
    PROVE  AppInv'
<1>1. /\ UNCHANGED <<wvars, compiling, matcherId, mounted, project, compileSeq, compileTimer, isCompiling>>
      /\ input' = input + 1 /\ input' \in 1..LastInput
  BY VersionsAssumption DEF AppInv, AppTypeOK, EditInput
<1>2. /\ matchTimer' \in {NoTimer} \cup [matcher : Matcher, input : 1..LastInput]
      /\ compileSeq' = 0 => matchTimer' = NoTimer
      /\ isCompiling' => matchTimer' = NoTimer
      /\ matchTimer' # NoTimer => matchTimer'.matcher = matcherId
  <2>1. CASE ~HaveClient
    <3>1. matchTimer' = matchTimer
      BY <2>1 DEF EditInput
    <3> QED
      BY <1>1, <3>1 DEF AppInv, AppTypeOK, IdleWithoutClient, CompilationsInOrder, CurrentHeld
  <2>2. CASE HaveClient
    <3>1. /\ MatchAfter(isCompiling, matcherId, input + 1) /\ isCompiling \in BOOLEAN
          /\ matcherId \in 0..MaxCalls /\ input + 1 \in 1..LastInput
          /\ compileSeq = 0 => matcherId = 0
      BY <1>1, <2>2 DEF EditInput, AppInv, AppTypeOK, IdleWithoutClient
    <3> QED
      BY <1>1, <3>1, MatchAfterGives
  <2> QED
    BY <2>1, <2>2
<1>3. AppTypeOK'
  BY <1>1, <1>2 DEF AppInv, AppTypeOK, wvars, client
<1>4. /\ ~HaveClient => compileSeq' = 0
      /\ compileSeq' = 0 => compileTimer' = 0
      /\ compileTimer' # 0 => isCompiling'
      /\ compileSeq = 0 \/ compileSeq' # 0
  BY <1>1 DEF AppInv, IdleWithoutClient, CompilationsInOrder
<1> QED
  BY <1>1, <1>2, <1>3, <1>4, EditKeeps
----------------------------------------------------------------------------
(***************************************************************************)
(* Steps that post messages to the worker                                  *)
(***************************************************************************)
LEMMA PostedPlaces ==
    ASSUME AppInv, NEW r \in Seq(ToWorker), toWorker' = toWorker \o r
    PROVE  /\ \A i \in DOMAIN toWorker : i \in DOMAIN toWorker' /\ toWorker'[i] = toWorker[i]
           /\ \A i \in DOMAIN toWorker' :
                 \/ i \in DOMAIN toWorker /\ toWorker'[i] = toWorker[i]
                 \/ /\ i - Len(toWorker) \in DOMAIN r /\ toWorker'[i] = r[i - Len(toWorker)]
                    /\ \A j \in DOMAIN toWorker : j < i
           /\ \A i \in DOMAIN r : \E j \in DOMAIN toWorker' : toWorker'[j] = r[i]
           /\ \A i \in DOMAIN toWorker' : i \in Nat
           /\ DOMAIN toWorker' = 1..Len(toWorker')
           /\ Freeing' = Freeing \cup {r[i].matcher : i \in {i \in DOMAIN r : r[i].type = "freeMatcher"}}
<1>1. toWorker \in Seq(ToWorker)
  BY AppFacts
<1>2. /\ \A i \in DOMAIN toWorker : i \in DOMAIN toWorker' /\ toWorker'[i] = toWorker[i]
      /\ \A i \in DOMAIN toWorker' :
            \/ i \in DOMAIN toWorker /\ toWorker'[i] = toWorker[i]
            \/ /\ i - Len(toWorker) \in DOMAIN r /\ toWorker'[i] = r[i - Len(toWorker)]
               /\ \A j \in DOMAIN toWorker : j < i
      /\ \A i \in DOMAIN r : \E j \in DOMAIN toWorker' : toWorker'[j] = r[i]
      /\ \A i \in DOMAIN toWorker' : i \in Nat
  BY <1>1, JoinedPlaces
<1>3. toWorker' \in Seq(ToWorker)
  BY <1>1
<1>4. DOMAIN toWorker' = 1..Len(toWorker')
  BY <1>3
<1>5. Freeing' = Freeing \cup {r[i].matcher : i \in {i \in DOMAIN r : r[i].type = "freeMatcher"}}
  <2> DEFINE F(q) == {q[i].matcher : i \in {i \in DOMAIN q : q[i].type = "freeMatcher"}}
  <2>1. Freeing = F(toWorker) /\ Freeing' = F(toWorker')
    BY DEF Freeing
  <2>2. \A i \in DOMAIN toWorker' : toWorker'[i].type = "freeMatcher" =>
           toWorker'[i].matcher \in F(toWorker) \cup F(r)
    BY <1>2
  <2>3. \A i \in DOMAIN toWorker : toWorker[i].type = "freeMatcher" => toWorker[i].matcher \in F(toWorker')
    BY <1>2
  <2>4. \A i \in DOMAIN r : r[i].type = "freeMatcher" => r[i].matcher \in F(toWorker')
    BY <1>2
  <2>5. F(toWorker') \subseteq F(toWorker) \cup F(r)
    BY <2>2
  <2>6. F(toWorker) \subseteq F(toWorker')
    BY <2>3
  <2>7. F(r) \subseteq F(toWorker')
    BY <2>4
  <2> HIDE DEF F
  <2>8. Freeing' = Freeing \cup F(r)
    BY <2>1, <2>5, <2>6, <2>7
  <2> QED
    BY <2>8 DEF F
<1> QED
  BY <1>2, <1>4, <1>5

LEMMA NoUseAfterPost ==
    ASSUME AppInv, NEW r \in Seq(ToWorker), toWorker' = toWorker \o r, matchers' = matchers,
           \A i \in DOMAIN r : r[i].type = "request" /\ r[i].op.type = "match" =>
              /\ Held(r[i].op.matcher)
              /\ \A j \in DOMAIN r : r[j] # FreeMatcher(r[i].op.matcher)
    PROVE  NoUseAfterFree'
<1>1. /\ \A i \in DOMAIN toWorker' :
            \/ i \in DOMAIN toWorker /\ toWorker'[i] = toWorker[i]
            \/ /\ i - Len(toWorker) \in DOMAIN r /\ toWorker'[i] = r[i - Len(toWorker)]
               /\ \A j \in DOMAIN toWorker : j < i
      /\ \A i \in DOMAIN toWorker' : i \in Nat
      /\ DOMAIN toWorker' = 1..Len(toWorker')
      /\ \A i \in DOMAIN toWorker : i \in DOMAIN toWorker' /\ toWorker'[i] = toWorker[i]
  BY PostedPlaces
<1> SUFFICES ASSUME NEW i \in DOMAIN toWorker', toWorker'[i].type = "request",
                    toWorker'[i].op.type = "match"
             PROVE  /\ toWorker'[i].op.matcher \in DOMAIN matchers
                    /\ \A j \in 1..i - 1 : toWorker'[j] # FreeMatcher(toWorker'[i].op.matcher)
  BY DEF NoUseAfterFree
<1>2. toWorker \in Seq(ToWorker) /\ DOMAIN toWorker = 1..Len(toWorker) /\ Len(toWorker) \in Nat
  BY AppFacts
<1>3. CASE i \in DOMAIN toWorker /\ toWorker'[i] = toWorker[i]
  <2>1. \A j \in 1..i - 1 : j \in DOMAIN toWorker
    BY <1>2, <1>3
  <2>2. /\ toWorker[i].op.matcher \in DOMAIN matchers
        /\ \A j \in 1..i - 1 : toWorker[j] # FreeMatcher(toWorker[i].op.matcher)
    BY <1>3 DEF AppInv, NoUseAfterFree
  <2> QED
    BY <1>1, <1>3, <2>1, <2>2
<1>4. CASE i - Len(toWorker) \in DOMAIN r /\ toWorker'[i] = r[i - Len(toWorker)]
  <2> DEFINE m == toWorker'[i].op.matcher
  <2>1. /\ m \in DOMAIN matchers /\ m \notin Freeing
        /\ \A j \in DOMAIN r : r[j] # FreeMatcher(m)
    BY <1>4 DEF Held
  <2>2. ASSUME NEW j \in DOMAIN toWorker
        PROVE  toWorker[j] # FreeMatcher(m)
    <3>1. toWorker[j].type = "freeMatcher" => toWorker[j].matcher # m
      BY <2>1 DEF Freeing
    <3> QED
      BY <3>1 DEF FreeMatcher
  <2>3. ASSUME NEW j \in 1..i - 1
        PROVE  j \in DOMAIN toWorker'
    BY <1>1
  <2> HIDE DEF m
  <2>4. \A j \in DOMAIN toWorker' : toWorker'[j] # FreeMatcher(m)
    BY <1>1, <2>1, <2>2
  <2> QED
    BY <2>1, <2>3, <2>4 DEF m
<1> QED
  BY <1>1, <1>3, <1>4

LEMMA FreePreviousType ==
    ASSUME AppInv, HaveClient
    PROVE  /\ worker # 0 /\ FreePrevious \in Seq(ToWorker) /\ Numbered(FreePrevious) = {}
           /\ \A i \in DOMAIN FreePrevious :
                 FreePrevious[i] = FreeMatcher(matcherId) /\ matcherId # 0 /\ matcherId \in Matcher
           /\ matcherId # 0 => FreePrevious = <<FreeMatcher(matcherId)>>
           /\ matcherId = 0 => FreePrevious = <<>>
<1>1. worker # 0 /\ matcherId \in 0..MaxCalls
  BY DEF AppInv, IdleWithoutClient, AppTypeOK
<1>2. CASE matcherId = 0
  BY <1>1, <1>2, EmptyQueue DEF FreePrevious
<1>3. CASE matcherId # 0
  <2>1. matcherId \in Matcher
    BY <1>1, <1>3, MaxCallsAssumption DEF Matcher
  <2>2. FreePrevious = FreeNow(matcherId) /\ FreeNow(matcherId) = <<FreeMatcher(matcherId)>>
    BY <1>1, <1>3 DEF FreePrevious, FreeNow
  <2>3. FreeNow(matcherId) \in Seq(ToWorker) /\ Numbered(FreeNow(matcherId)) = {}
    BY <2>1, FreeNowType
  <2>4. /\ DOMAIN <<FreeMatcher(matcherId)>> = {1}
        /\ <<FreeMatcher(matcherId)>>[1] = FreeMatcher(matcherId)
    OBVIOUS
  <2> QED
    BY <1>1, <1>3, <2>1, <2>2, <2>3, <2>4
<1> QED
  BY <1>2, <1>3

LEMMA UnmountKeeps ==
    ASSUME AppInv, Unmount
    PROVE  AppInv'
<1> DEFINE r == IF HaveClient THEN FreePrevious ELSE <<>>
<1>1. /\ mounted' = FALSE /\ compileTimer' = 0 /\ matchTimer' = NoTimer /\ matcherId' = 0
      /\ toWorker' = toWorker \o r
      /\ UNCHANGED <<client, toClient, inWorker, project, input, compileSeq, isCompiling, compiling>>
  BY DEF Unmount, Post
<1>2. /\ r \in Seq(ToWorker) /\ Numbered(r) = {} /\ (worker = 0 => r = <<>>)
      /\ \A i \in DOMAIN r : r[i] = FreeMatcher(matcherId) /\ matcherId # 0 /\ matcherId \in Matcher
  BY FreePreviousType, EmptyQueue
<1>3. UNCHANGED <<worker, created, readyPromise, calls, nextRequestId, pending, runtime, matchers,
                  nextMatcherID>>
  BY <1>1 DEF client, inWorker
<1> HIDE DEF r
<1>4. IInv'
  BY <1>1, <1>2, PostKeeps DEF AppInv, Post
<1>5. AppTypeOK'
  <2>1. 0 \in 0..MaxCalls
    BY MaxCallsAssumption
  <2> QED
    BY <1>1, <1>3, <2>1 DEF AppInv, AppTypeOK
<1>6. IdleWithoutClient'
  BY <1>1, <1>3 DEF AppInv, IdleWithoutClient, HaveClient
<1>7. /\ \A i \in DOMAIN toWorker : i \in DOMAIN toWorker' /\ toWorker'[i] = toWorker[i]
      /\ \A i \in DOMAIN toWorker' :
            \/ i \in DOMAIN toWorker /\ toWorker'[i] = toWorker[i]
            \/ toWorker'[i] = FreeMatcher(matcherId) /\ matcherId # 0
      /\ \A m \in Freeing' : m \in Freeing \/ (m = matcherId /\ matcherId # 0)
  <2>1. \A i \in DOMAIN r : r[i] = FreeMatcher(matcherId) /\ r[i].matcher = matcherId
    BY <1>2 DEF FreeMatcher
  <2>2. /\ \A i \in DOMAIN toWorker : i \in DOMAIN toWorker' /\ toWorker'[i] = toWorker[i]
        /\ \A i \in DOMAIN toWorker' :
              \/ i \in DOMAIN toWorker /\ toWorker'[i] = toWorker[i]
              \/ i - Len(toWorker) \in DOMAIN r /\ toWorker'[i] = r[i - Len(toWorker)]
        /\ Freeing' = Freeing \cup {r[i].matcher : i \in {i \in DOMAIN r : r[i].type = "freeMatcher"}}
    BY <1>1, <1>2, PostedPlaces
  <2> QED
    BY <1>2, <2>1, <2>2
<1>8. OneWorker'
  BY <1>1, <1>3, <1>7 DEF AppInv, OneWorker, FreeMatcher
<1>9. CompilationsInOrder'
  BY <1>1, <1>3 DEF AppInv, CompilationsInOrder
<1>10. ArrivingHeld'
  <2>1. \A i \in DOMAIN toClient : Brings(toClient[i]) => matcherId = 0
    BY DEF AppInv, ArrivingHeld, CurrentHeld, Compiling, Brings
  <2>2. matcherId # 0 => matcherId < nextMatcherID
    <3>1. matcherId # 0 => matcherId \in DOMAIN matchers
      BY DEF AppInv, CurrentHeld, Held
    <3> QED
      BY <3>1, AppFacts
  <2>3. \A i \in DOMAIN toClient : Brings(toClient[i]) =>
           compiling[toClient[i].id] # 0 /\ Held(toClient[i].answer.matcher)'
    BY <1>1, <1>3, <1>7, <2>1 DEF AppInv, ArrivingHeld, Held
  <2>4. \A m \in Freeing' : m < nextMatcherID
    BY <1>7, <2>2 DEF AppInv, ArrivingHeld
  <2> QED
    BY <1>1, <1>3, <2>3, <2>4 DEF AppInv, ArrivingHeld, OneArrival, Brings
<1>11. CurrentHeld' /\ MatchersHeld'
  BY <1>1 DEF CurrentHeld, MatchersHeld
<1>12. NoUseAfterFree'
  BY <1>1, <1>2, <1>3, NoUseAfterPost DEF FreeMatcher
<1> QED
  BY <1>4, <1>5, <1>6, <1>8, <1>9, <1>10, <1>11, <1>12 DEF AppInv

\* A call that a timer makes is sent at once.
LEMMA CallSent ==
    ASSUME AppInv, HaveClient, NEW op \in Op, NEW posted \in Seq(ToWorker), MakeCallAfter(posted, op)
    PROVE  /\ toWorker' = toWorker \o (posted \o <<Request(nextRequestId, op)>>)
           /\ nextRequestId = Len(calls) + 1
           /\ Len(calls') = Len(calls) + 1 /\ DOMAIN calls' = 1..Len(calls) + 1
           /\ \A c \in DOMAIN calls : calls'[c] = calls[c]
           /\ calls'[Len(calls) + 1].op = op
           /\ UNCHANGED <<worker, created, readyPromise, toClient, runtime, matchers, nextMatcherID>>
           /\ posted \o <<Request(nextRequestId, op)>> \in Seq(ToWorker)
           /\ \A i \in DOMAIN (posted \o <<Request(nextRequestId, op)>>) :
                 \/ /\ i \in DOMAIN posted
                    /\ (posted \o <<Request(nextRequestId, op)>>)[i] = posted[i]
                 \/ (posted \o <<Request(nextRequestId, op)>>)[i] = Request(nextRequestId, op)
<1>1. /\ Len(calls) < MaxCalls /\ calls' = Append(calls, NewCall(op))
      /\ toWorker' = toWorker \o (posted \o (IF NewCall(op).stage = "sent"
                                             THEN <<Request(NewCall(op).id, op)>> ELSE <<>>))
      /\ UNCHANGED <<worker, created, readyPromise, toClient, runtime, matchers, nextMatcherID>>
  BY DEF MakeCallAfter, Post, inWorker
<1>2. readyPromise = "resolved" /\ worker # 0
  BY DEF HaveClient, AppInv, IdleWithoutClient
<1>3. IInv
  BY DEF AppInv
<1>4. /\ NewCall(op) \in Call /\ NewCall(op).op = op /\ NewCall(op).stage = "sent"
      /\ NewCall(op).id = nextRequestId /\ nextRequestId = Len(calls) + 1
  BY <1>1, <1>2, <1>3, NewCallType
<1>5. calls \in Seq(Call) /\ Len(calls) \in Nat /\ DOMAIN calls = 1..Len(calls)
  BY AppFacts
<1>6. /\ Len(calls') = Len(calls) + 1 /\ DOMAIN calls' = 1..Len(calls) + 1
      /\ \A c \in DOMAIN calls : calls'[c] = calls[c]
      /\ calls'[Len(calls) + 1].op = op
  BY <1>1, <1>4, <1>5
<1>7. nextRequestId \in 1..MaxCalls
  BY <1>1, <1>4, <1>5, MaxCallsAssumption
<1>8. Request(nextRequestId, op) \in ToWorker
  BY <1>7 DEF Request, ToWorker
<1> DEFINE m == Request(nextRequestId, op)
<1> HIDE DEF m
<1>9. <<m>> \in Seq(ToWorker) /\ DOMAIN <<m>> = {1} /\ <<m>>[1] = m
  BY <1>8, OneMessage DEF m
<1>10. /\ posted \o <<m>> \in Seq(ToWorker)
       /\ \A i \in DOMAIN (posted \o <<m>>) :
             \/ i \in DOMAIN posted /\ (posted \o <<m>>)[i] = posted[i]
             \/ i - Len(posted) \in DOMAIN <<m>> /\ (posted \o <<m>>)[i] = <<m>>[i - Len(posted)]
  BY <1>9, JoinedPlaces, JoinedQueues
<1>11. \A i \in DOMAIN (posted \o <<m>>) :
             \/ i \in DOMAIN posted /\ (posted \o <<m>>)[i] = posted[i]
             \/ (posted \o <<m>>)[i] = m
  BY <1>9, <1>10
<1> QED
  BY <1>1, <1>4, <1>6, <1>10, <1>11 DEF m

\* A call that is made, for the compilation `x` or, when that is 0, for a match.
LEMMA CallKeeps ==
    ASSUME AppInv, HaveClient, NEW op \in Op, NEW posted \in Seq(ToWorker), MakeCallAfter(posted, op),
           \A i \in DOMAIN posted : posted[i].type = "freeMatcher",
           NEW x \in Nat, compiling' = Append(compiling, x), x # 0 <=> op.type = "compile",
           UNCHANGED compileSeq, x <= compileSeq,
           x # 0 => \A c \in DOMAIN calls : compiling[c] < x,
           compileTimer' # 0 => compileTimer # 0 /\ x < compileSeq,
           compileTimer' # 0 => isCompiling', isCompiling' => matchTimer' = NoTimer,
           compileSeq # 0
    PROVE  /\ IInv' /\ IdleWithoutClient' /\ OneWorker' /\ CompilationsInOrder'
           /\ compiling' \in Seq(Nat) /\ Len(compiling') = Len(calls')
           /\ \A c \in DOMAIN calls : compiling'[c] = compiling[c]
           /\ compiling'[nextRequestId] = x
<1> DEFINE r == posted \o <<Request(nextRequestId, op)>>
<1>1. /\ toWorker' = toWorker \o r /\ r \in Seq(ToWorker)
      /\ nextRequestId = Len(calls) + 1
      /\ Len(calls') = Len(calls) + 1 /\ DOMAIN calls' = 1..Len(calls) + 1
      /\ \A c \in DOMAIN calls : calls'[c] = calls[c]
      /\ calls'[Len(calls) + 1].op = op
      /\ UNCHANGED <<worker, created, readyPromise, toClient, runtime, matchers, nextMatcherID>>
      /\ \A i \in DOMAIN r : \/ i \in DOMAIN posted /\ r[i] = posted[i]
                             \/ r[i] = Request(nextRequestId, op)
  BY CallSent
<1>2. worker # 0
  BY DEF AppInv, IdleWithoutClient
<1>3. IInv'
  <2>1. Numbered(posted) = {}
    BY DEF Numbered
  <2> QED
    BY <1>2, <2>1, MakeCallKeeps DEF AppInv
<1> HIDE DEF r
<1>4. IdleWithoutClient'
  BY <1>1, <1>2 DEF IdleWithoutClient, HaveClient
<1>5. OneWorker'
  <2>1. \A i \in DOMAIN r : r[i].type # "init"
    BY <1>1 DEF Request
  <2>2. /\ \A i \in DOMAIN toWorker : i \in DOMAIN toWorker' /\ toWorker'[i] = toWorker[i]
        /\ \A i \in DOMAIN toWorker' :
              \/ i \in DOMAIN toWorker /\ toWorker'[i] = toWorker[i]
              \/ i - Len(toWorker) \in DOMAIN r /\ toWorker'[i] = r[i - Len(toWorker)]
    BY <1>1, PostedPlaces
  <2>3. \A i \in DOMAIN toWorker' : toWorker'[i].type = "init" =>
           i \in DOMAIN toWorker /\ toWorker[i].type = "init"
    BY <2>1, <2>2
  <2> QED
    BY <1>1, <2>3 DEF AppInv, OneWorker
<1>6. /\ compiling \in Seq(Nat) /\ Len(compiling) = Len(calls) /\ Len(calls) \in Nat
      /\ DOMAIN compiling = DOMAIN calls /\ DOMAIN calls = 1..Len(calls)
  BY AppFacts DEF AppInv, AppTypeOK
<1>7. /\ compiling' \in Seq(Nat) /\ Len(compiling') = Len(calls')
      /\ \A c \in DOMAIN calls : compiling'[c] = compiling[c]
      /\ compiling'[Len(calls) + 1] = x
  <2>1. /\ \A i \in DOMAIN compiling : Append(compiling, x)[i] = compiling[i]
        /\ Append(compiling, x)[Len(compiling) + 1] = x
        /\ Append(compiling, x) \in Seq(Nat) /\ Len(Append(compiling, x)) = Len(compiling) + 1
    BY <1>6, AppendedPlaces
  <2> QED
    BY <1>1, <1>6, <2>1
<1>8. \A c \in DOMAIN calls' : \/ c \in DOMAIN calls /\ calls'[c] = calls[c] /\ compiling'[c] = compiling[c]
                               \/ c = Len(calls) + 1
  BY <1>1, <1>6, <1>7
<1>9. CompilationsInOrder'
  <2>1. compileSeq \in Nat /\ \A c \in DOMAIN calls : compiling[c] \in Nat
    BY AppFacts
  <2>2. ASSUME NEW c \in DOMAIN calls'
        PROVE  /\ compiling'[c] <= compileSeq
               /\ compiling'[c] # 0 <=> calls'[c].op.type = "compile"
               /\ compileTimer' # 0 => compiling'[c] < compileSeq
    BY <1>1, <1>7, <1>8, <2>1 DEF AppInv, CompilationsInOrder
  <2>3. ASSUME NEW c \in DOMAIN calls', NEW d \in DOMAIN calls', c < d, compiling'[d] # 0
        PROVE  compiling'[c] < compiling'[d]
    <3>1. c \in DOMAIN calls
      BY <1>1, <1>6, <2>3
    <3>2. CASE d \in DOMAIN calls
      BY <1>7, <2>3, <3>1, <3>2 DEF AppInv, CompilationsInOrder
    <3>3. CASE d = Len(calls) + 1
      BY <1>7, <2>3, <3>1, <3>3
    <3> QED
      BY <1>8, <3>2, <3>3
  <2> QED
    BY <2>2, <2>3 DEF CompilationsInOrder
<1> QED
  BY <1>1, <1>3, <1>4, <1>5, <1>7, <1>9
LEMMA CompileTimeoutKeeps ==
    ASSUME AppInv, CompileTimeout
    PROVE  AppInv'
<1> DEFINE op == [type |-> "compile", grammar |-> project]
           r == FreePrevious \o <<Request(nextRequestId, op)>>
<1>1. /\ compileTimer # 0 /\ MakeCallAfter(FreePrevious, op)
      /\ compiling' = Append(compiling, compileTimer)
      /\ compileTimer' = 0 /\ matcherId' = 0
      /\ UNCHANGED <<project, input, compileSeq, isCompiling, matchTimer, mounted>>
  BY DEF CompileTimeout
<1>2. /\ op \in Op /\ op.type = "compile"
  BY VersionsAssumption DEF Op, Service!Op, AppInv, AppTypeOK
<1>3. /\ compileTimer = compileSeq /\ compileSeq \in Nat /\ HaveClient /\ matchTimer = NoTimer
      /\ isCompiling
  BY <1>1 DEF AppInv, AppTypeOK, IdleWithoutClient, CompilationsInOrder
<1>4. /\ worker # 0 /\ FreePrevious \in Seq(ToWorker)
      /\ \A i \in DOMAIN FreePrevious :
            FreePrevious[i] = FreeMatcher(matcherId) /\ matcherId # 0 /\ matcherId \in Matcher
      /\ matcherId # 0 => FreePrevious = <<FreeMatcher(matcherId)>>
  BY <1>3, FreePreviousType
<1> HIDE DEF op
<1>5. /\ IInv' /\ IdleWithoutClient' /\ OneWorker' /\ CompilationsInOrder'
      /\ compiling' \in Seq(Nat) /\ Len(compiling') = Len(calls')
      /\ \A c \in DOMAIN calls : compiling'[c] = compiling[c]
  <2>1. \A i \in DOMAIN FreePrevious : FreePrevious[i].type = "freeMatcher"
    BY <1>4 DEF FreeMatcher
  <2>2. \A c \in DOMAIN calls : compiling[c] < compileTimer
    BY <1>1, <1>3 DEF AppInv, CompilationsInOrder
  <2>3. /\ compileTimer \in Nat /\ UNCHANGED compileSeq /\ compileTimer <= compileSeq
        /\ compileTimer' # 0 => compileTimer # 0 /\ compileTimer < compileSeq
        /\ compileTimer' # 0 => isCompiling' /\ (isCompiling' => matchTimer' = NoTimer)
        /\ compileSeq # 0
    BY <1>1, <1>3
  <2> QED
    BY <1>1, <1>2, <1>3, <1>4, <2>1, <2>2, <2>3, CallKeeps
<1>6. /\ toWorker' = toWorker \o r /\ r \in Seq(ToWorker)
      /\ UNCHANGED <<worker, created, readyPromise, toClient, runtime, matchers, nextMatcherID>>
      /\ \A i \in DOMAIN r : \/ i \in DOMAIN FreePrevious /\ r[i] = FreePrevious[i]
                             \/ r[i] = Request(nextRequestId, op)
  BY <1>1, <1>2, <1>3, <1>4, CallSent
<1> HIDE DEF r
<1>7. \A i \in DOMAIN r : \/ r[i] = FreeMatcher(matcherId) /\ matcherId # 0
                          \/ r[i].type = "request" /\ r[i].op.type = "compile"
  BY <1>2, <1>4, <1>6 DEF Request
<1>8. AppTypeOK'
  <2>1. 0 \in 0..MaxCalls
    BY MaxCallsAssumption
  <2> QED
    BY <1>1, <1>5, <2>1 DEF AppInv, AppTypeOK
<1>9. /\ \A i \in DOMAIN toWorker : i \in DOMAIN toWorker' /\ toWorker'[i] = toWorker[i]
      /\ \A i \in DOMAIN r : \E j \in DOMAIN toWorker' : toWorker'[j] = r[i]
      /\ Freeing' = Freeing \cup {r[i].matcher : i \in {i \in DOMAIN r : r[i].type = "freeMatcher"}}
  BY <1>6, PostedPlaces
<1>10. Freeing' \subseteq Freeing \cup ({matcherId} \ {0})
  BY <1>7, <1>9 DEF FreeMatcher
<1>11. matcherId # 0 => matcherId \in Freeing'
  <2>1. matcherId # 0 => \E i \in DOMAIN r : r[i] = FreeMatcher(matcherId)
    <3>1. SUFFICES ASSUME matcherId # 0
                   PROVE  1 \in DOMAIN r /\ r[1] = FreeMatcher(matcherId)
      OBVIOUS
    <3>2. r = <<FreeMatcher(matcherId)>> \o <<Request(nextRequestId, op)>>
      BY <1>4, <3>1 DEF r
    <3> QED
      BY <3>2
  <2> QED
    BY <1>9, <2>1 DEF FreeMatcher
<1>12. ArrivingHeld'
  <2>1. \A i \in DOMAIN toClient : Brings(toClient[i]) =>
           /\ matcherId = 0 /\ compiling[toClient[i].id] # 0 /\ Held(toClient[i].answer.matcher)
           /\ toClient[i].id \in DOMAIN calls
    BY AppFacts DEF AppInv, ArrivingHeld, CurrentHeld, Compiling, Brings
  <2>2. matcherId # 0 => matcherId < nextMatcherID
    <3>1. matcherId # 0 => matcherId \in DOMAIN matchers
      BY DEF AppInv, CurrentHeld, Held
    <3> QED
      BY <3>1, AppFacts
  <2>3. \A i \in DOMAIN toClient : Brings(toClient[i]) =>
           compiling'[toClient[i].id] # 0 /\ Held(toClient[i].answer.matcher)'
    BY <1>5, <1>6, <1>10, <2>1 DEF Held
  <2>4. \A m \in Freeing' : m < nextMatcherID
    BY <1>10, <2>2 DEF AppInv, ArrivingHeld
  <2> QED
    BY <1>6, <2>3, <2>4 DEF AppInv, ArrivingHeld, OneArrival, Brings
<1>13. CurrentHeld'
  BY <1>1, <1>3 DEF CurrentHeld
<1>14. MatchersHeld'
  BY <1>1, <1>6, <1>9, <1>11 DEF AppInv, MatchersHeld, Arriving
<1>15. NoUseAfterFree'
  <2>1. \A i \in DOMAIN r : ~(r[i].type = "request" /\ r[i].op.type = "match")
    BY <1>7 DEF FreeMatcher
  <2> QED
    BY <1>6, <2>1, NoUseAfterPost
<1> QED
  BY <1>5, <1>8, <1>12, <1>13, <1>14, <1>15 DEF AppInv

LEMMA MatchTimeoutKeeps ==
    ASSUME AppInv, MatchTimeout
    PROVE  AppInv'
<1> DEFINE op == [type |-> "match", matcher |-> matchTimer.matcher, input |-> matchTimer.input]
           r == <<>> \o <<Request(nextRequestId, op)>>
<1>1. /\ matchTimer # NoTimer /\ MakeCallAfter(<<>>, op)
      /\ compiling' = Append(compiling, 0) /\ matchTimer' = NoTimer
      /\ UNCHANGED <<project, input, compileSeq, isCompiling, compileTimer, matcherId, mounted>>
  BY DEF MatchTimeout, MakeCall, Expired
<1>2. /\ matchTimer.matcher = matcherId /\ matchTimer.matcher \in Matcher
      /\ matchTimer.input \in 1..LastInput
      /\ matcherId # 0 /\ Held(matcherId)
  <2>1. matchTimer \in [matcher : Matcher, input : 1..LastInput] /\ matchTimer.matcher = matcherId
    BY <1>1 DEF AppInv, AppTypeOK, CurrentHeld
  <2>2. matcherId \in Matcher
    BY <2>1
  <2>3. matcherId # 0
    BY <2>2, MaxCallsAssumption DEF Matcher
  <2> QED
    BY <2>1, <2>2, <2>3 DEF AppInv, CurrentHeld
<1>3. /\ op \in Op /\ op.type = "match" /\ op.matcher = matcherId
  BY <1>2, VersionsAssumption DEF Op, Service!Op
<1>4. /\ compileSeq \in Nat /\ compileSeq # 0 /\ HaveClient /\ compileTimer = 0 /\ ~isCompiling
  BY <1>1 DEF AppInv, AppTypeOK, IdleWithoutClient, CompilationsInOrder
<1> HIDE DEF op
<1>5. /\ IInv' /\ IdleWithoutClient' /\ OneWorker' /\ CompilationsInOrder'
      /\ compiling' \in Seq(Nat) /\ Len(compiling') = Len(calls')
      /\ \A c \in DOMAIN calls : compiling'[c] = compiling[c]
      /\ compiling'[nextRequestId] = 0
  <2>1. /\ <<>> \in Seq(ToWorker) /\ \A i \in DOMAIN <<>> : <<>>[i].type = "freeMatcher"
    OBVIOUS
  <2>2. /\ 0 \in Nat /\ UNCHANGED compileSeq /\ 0 <= compileSeq
        /\ compileTimer' = 0 /\ (isCompiling' => matchTimer' = NoTimer)
    BY <1>1, <1>4
  <2> QED
    BY <1>1, <1>3, <1>4, <2>1, <2>2, CallKeeps
<1>6. /\ toWorker' = toWorker \o r /\ r \in Seq(ToWorker)
      /\ nextRequestId = Len(calls) + 1
      /\ UNCHANGED <<worker, created, readyPromise, toClient, runtime, matchers, nextMatcherID>>
      /\ \A i \in DOMAIN r : r[i] = Request(nextRequestId, op)
  <2>1. <<>> \in Seq(ToWorker) /\ DOMAIN <<>> = {}
    OBVIOUS
  <2> QED
    BY <1>1, <1>3, <1>4, <2>1, CallSent
<1> HIDE DEF r
<1>7. \A i \in DOMAIN r : /\ r[i].type = "request" /\ r[i].id = nextRequestId
                          /\ r[i].op.matcher = matcherId
  BY <1>3, <1>6 DEF Request
<1>8. AppTypeOK'
  BY <1>1, <1>5 DEF AppInv, AppTypeOK
<1>9. /\ \A i \in DOMAIN toWorker' :
            \/ i \in DOMAIN toWorker /\ toWorker'[i] = toWorker[i]
            \/ i - Len(toWorker) \in DOMAIN r /\ toWorker'[i] = r[i - Len(toWorker)]
      /\ Freeing' = Freeing \cup {r[i].matcher : i \in {i \in DOMAIN r : r[i].type = "freeMatcher"}}
  BY <1>6, PostedPlaces
<1>10. Freeing' = Freeing
  BY <1>7, <1>9
<1>11. ArrivingHeld'
  <2>1. \A i \in DOMAIN toClient : Brings(toClient[i]) =>
           /\ compiling[toClient[i].id] # 0 /\ Held(toClient[i].answer.matcher)
           /\ toClient[i].id \in DOMAIN calls
    BY AppFacts DEF AppInv, ArrivingHeld, Brings
  <2>2. \A i \in DOMAIN toClient : Brings(toClient[i]) =>
           compiling'[toClient[i].id] # 0 /\ Held(toClient[i].answer.matcher)'
    BY <1>5, <1>6, <1>10, <2>1 DEF Held
  <2> QED
    BY <1>6, <1>10, <2>2 DEF AppInv, ArrivingHeld, OneArrival, Brings
<1>12. CurrentHeld'
  <2>1. Held(matcherId)'
    BY <1>1, <1>2, <1>6, <1>10 DEF Held
  <2>2. ASSUME NEW i \in DOMAIN toClient
        PROVE  ~Compiling(toClient[i])'
    <3>1. ~Compiling(toClient[i])
      BY <1>2 DEF AppInv, CurrentHeld
    <3>2. toClient[i].type \in {"request", "answer"} => toClient[i].id \in DOMAIN calls
      BY AppFacts
    <3> QED
      BY <1>5, <1>6, <3>1, <3>2 DEF Compiling
  <2>3. ASSUME NEW i \in DOMAIN toWorker'
        PROVE  ~Compiling(toWorker[i])'
    <3>1. CASE i \in DOMAIN toWorker /\ toWorker'[i] = toWorker[i]
      <4>1. ~Compiling(toWorker[i])
        BY <1>2, <3>1 DEF AppInv, CurrentHeld
      <4>2. toWorker[i].type \in {"request", "answer"} => toWorker[i].id \in DOMAIN calls
        BY <3>1, AppFacts
      <4> QED
        BY <1>5, <3>1, <4>1, <4>2 DEF Compiling
    <3>2. CASE i - Len(toWorker) \in DOMAIN r /\ toWorker'[i] = r[i - Len(toWorker)]
      BY <1>5, <1>7, <3>2 DEF Compiling
    <3> QED
      BY <1>9, <3>1, <3>2
  <2> QED
    BY <1>1, <1>6, <2>1, <2>2, <2>3 DEF CurrentHeld
<1>13. MatchersHeld'
  BY <1>1, <1>6, <1>10 DEF AppInv, MatchersHeld, Arriving
<1>14. NoUseAfterFree'
  <2>1. \A i \in DOMAIN r : Held(r[i].op.matcher) /\ \A j \in DOMAIN r : r[j] # FreeMatcher(r[i].op.matcher)
    BY <1>2, <1>7 DEF FreeMatcher
  <2> QED
    BY <1>6, <2>1, NoUseAfterPost
<1> QED
  BY <1>5, <1>8, <1>11, <1>12, <1>13, <1>14 DEF AppInv
-----------------------------------------------------------------------------
(***************************************************************************)
(* Steps of the worker                                                     *)
(***************************************************************************)
\* Nothing of the application changes, nor the calls.
LEMMA WorkerLeavesApp ==
    ASSUME AppInv, UNCHANGED <<app, client>>
    PROVE  AppTypeOK' /\ IdleWithoutClient' /\ CompilationsInOrder'
<1>1. AppTypeOK'
  BY DEF AppInv, AppTypeOK, app, client
<1>2. IdleWithoutClient'
  BY DEF AppInv, IdleWithoutClient, HaveClient, app, client
<1>3. CompilationsInOrder'
  BY DEF AppInv, CompilationsInOrder, app, client
<1> QED
  BY <1>1, <1>2, <1>3

LEMMA AppStartsKeeps ==
    ASSUME AppInv, Starts, UNCHANGED app
    PROVE  AppInv'
<1>1. UNCHANGED <<app, client, toWorker, toClient, matchers, nextMatcherID>>
  BY DEF Starts
<1>2. IInv' /\ AppTypeOK' /\ IdleWithoutClient' /\ CompilationsInOrder'
  BY <1>1, StartsKeeps, WorkerLeavesApp DEF AppInv
<1>3. OneWorker'
  BY DEF AppInv, OneWorker, Starts, client
<1>4. UNCHANGED <<calls, pending, mounted, matcherId, matchTimer, compiling>>
  BY <1>1 DEF app, client
<1>5. Freeing' = Freeing
  BY <1>1 DEF Freeing
<1>6. ArrivingHeld'
  BY <1>1, <1>4, <1>5 DEF AppInv, ArrivingHeld, OneArrival, Brings, Held
<1>7. CurrentHeld'
  <2>1. DOMAIN matchers' = DOMAIN matchers /\ toWorker' = toWorker /\ toClient' = toClient
    BY <1>1
  <2> QED
    BY <1>4, <1>5, <2>1 DEF AppInv, CurrentHeld, Compiling, Held
<1>8. MatchersHeld'
  BY <1>1, <1>4, <1>5 DEF AppInv, MatchersHeld, Arriving
<1>9. NoUseAfterFree'
  BY <1>1 DEF AppInv, NoUseAfterFree
<1> QED
  BY <1>2, <1>3, <1>6, <1>7, <1>8, <1>9 DEF AppInv

LEMMA AppReportsKeeps ==
    ASSUME AppInv, NEW m \in {Ready, InitError}, Reports(m), UNCHANGED app
    PROVE  AppInv'
<1>1. toClient' = Append(toClient, m) /\ runtime' \in {"up", "failed"}
  BY DEF Reports
<1>2. /\ runtime \in {"loading", "starting"}
      /\ UNCHANGED <<worker, created, readyPromise, calls, nextRequestId, pending, toWorker,
                     matchers, nextMatcherID, matcherId, matchTimer, compiling, mounted>>
      /\ UNCHANGED <<app, client>>
  BY DEF Reports, client, app
<1>3. IInv' /\ AppTypeOK' /\ IdleWithoutClient' /\ CompilationsInOrder'
  BY <1>2, ReportsKeeps, WorkerLeavesApp DEF AppInv
<1>4. OneWorker'
  BY <1>1, <1>2 DEF AppInv, OneWorker
<1>5. m \in ToClient /\ m.type \notin {"request", "answer"}
  BY DEF Ready, InitError, ToClient
<1>6. /\ \A i \in DOMAIN toClient : i \in DOMAIN toClient' /\ toClient'[i] = toClient[i]
      /\ \A i \in DOMAIN toClient' : \/ i \in DOMAIN toClient /\ toClient'[i] = toClient[i]
                                     \/ toClient'[i].type \notin {"request", "answer"}
  <2>1. toClient \in Seq(ToClient)
    BY AppFacts
  <2>2. /\ \A i \in DOMAIN toClient :
              i \in DOMAIN Append(toClient, m) /\ Append(toClient, m)[i] = toClient[i]
        /\ \A i \in DOMAIN Append(toClient, m) :
              \/ i \in DOMAIN toClient /\ Append(toClient, m)[i] = toClient[i]
              \/ Append(toClient, m)[i] = m
    BY <1>5, <2>1, AppendedPlaces
  <2> QED
    BY <1>1, <1>5, <2>2
<1>7. Freeing' = Freeing
  BY <1>2 DEF Freeing
<1>8. ArrivingHeld'
  BY <1>2, <1>6, <1>7 DEF AppInv, ArrivingHeld, OneArrival, Brings, Held
<1>9. CurrentHeld'
  BY <1>2, <1>6, <1>7 DEF AppInv, CurrentHeld, Compiling, Held
<1>10. MatchersHeld'
  BY <1>2, <1>6, <1>7 DEF AppInv, MatchersHeld, Arriving
<1>11. NoUseAfterFree'
  BY <1>2 DEF AppInv, NoUseAfterFree
<1> QED
  BY <1>3, <1>4, <1>8, <1>9, <1>10, <1>11 DEF AppInv

\* What is left of the queue when its first message is taken.
LEMMA TakenPlaces ==
    ASSUME AppInv, toWorker # <<>>, toWorker' = Tail(toWorker)
    PROVE  /\ 1 \in DOMAIN toWorker /\ toWorker[1] = Head(toWorker) /\ Head(toWorker) \in ToWorker
           /\ \A i \in DOMAIN toWorker' :
                 /\ i + 1 \in DOMAIN toWorker /\ toWorker'[i] = toWorker[i + 1] /\ i + 1 # 1
           /\ \A i \in DOMAIN toWorker : i = 1 \/ \E j \in DOMAIN toWorker' : toWorker'[j] = toWorker[i]
           /\ Freeing' \subseteq Freeing
           /\ \A m \in Freeing : m \in Freeing' \/ Head(toWorker) = FreeMatcher(m)
           /\ \A i, j \in DOMAIN toWorker' : i + 1 = j + 1 => i = j
<1>1. toWorker \in Seq(ToWorker) /\ \A i \in DOMAIN toWorker : toWorker[i] \in ToWorker
  BY AppFacts
<1>2. /\ Head(toWorker) = toWorker[1] /\ 1 \in DOMAIN toWorker
      /\ \A i \in DOMAIN toWorker' :
            i + 1 \in DOMAIN toWorker /\ toWorker'[i] = toWorker[i + 1] /\ 1 < i + 1
      /\ \A i \in DOMAIN toWorker : i # 1 => i - 1 \in DOMAIN toWorker' /\ toWorker[i] = toWorker'[i - 1]
      /\ toWorker' \in Seq(ToWorker)
  BY <1>1, TailOfQueue
<1>3. \A i \in DOMAIN toWorker' : i + 1 # 1
  BY <1>2
<1>4. \A i, j \in DOMAIN toWorker' : i + 1 = j + 1 => i = j
  BY <1>2
<1>5. ASSUME NEW m \in Freeing, m \notin Freeing'
      PROVE  Head(toWorker) = FreeMatcher(m)
  <2>1. PICK i \in DOMAIN toWorker : toWorker[i].type = "freeMatcher" /\ toWorker[i].matcher = m
    BY DEF Freeing
  <2>2. i = 1
    BY <1>2, <1>5, <2>1 DEF Freeing
  <2> QED
    BY <1>1, <1>2, <2>1, <2>2 DEF ToWorker, FreeMatcher
<1>6. Freeing' \subseteq Freeing
  BY <1>2 DEF Freeing
<1> QED
  BY <1>1, <1>2, <1>3, <1>4, <1>5, <1>6

\* The worker's queue without its first message, the matchers but those that
\* message freed.
LEMMA TakenKeeps ==
    ASSUME AppInv, toWorker # <<>>, toWorker' = Tail(toWorker), UNCHANGED <<app, client>>,
           \A m \in DOMAIN matchers : m \in DOMAIN matchers' \/ Head(toWorker) = FreeMatcher(m),
           \/ UNCHANGED runtime
           \/ Head(toWorker).type = "init" /\ runtime' = "loading" /\ UNCHANGED matchers,
           runtime' # "up" => UNCHANGED matchers
    PROVE  OneWorker' /\ NoUseAfterFree'
<1>1. /\ 1 \in DOMAIN toWorker /\ toWorker[1] = Head(toWorker)
      /\ \A i \in DOMAIN toWorker' :
            /\ i + 1 \in DOMAIN toWorker /\ toWorker'[i] = toWorker[i + 1] /\ i + 1 # 1
      /\ \A i, j \in DOMAIN toWorker' : i + 1 = j + 1 => i = j
  BY TakenPlaces
<1>2. OneWorker'
  <2>1. UNCHANGED <<created, worker>>
    BY DEF client
  <2>2. ASSUME NEW i \in DOMAIN toWorker', toWorker'[i].type = "init"
        PROVE  /\ runtime' = "off"
               /\ \A j \in DOMAIN toWorker' : toWorker'[j].type = "init" => j = i
    <3>1. i + 1 \in DOMAIN toWorker /\ toWorker[i + 1].type = "init" /\ i + 1 # 1
      BY <1>1, <2>2
    <3>2. /\ runtime = "off"
          /\ \A j \in DOMAIN toWorker : toWorker[j].type = "init" => j = i + 1
      BY <3>1 DEF AppInv, OneWorker
    <3>3. Head(toWorker).type # "init"
      BY <1>1, <3>1, <3>2
    <3> QED
      BY <1>1, <2>2, <3>2, <3>3
  <2>3. runtime' # "up" => DOMAIN matchers' = {}
    <3>1. CASE UNCHANGED runtime
      BY <3>1 DEF AppInv, OneWorker
    <3>2. CASE Head(toWorker).type = "init" /\ UNCHANGED matchers
      BY <1>1, <3>2 DEF AppInv, OneWorker
    <3> QED
      BY <3>1, <3>2
  <2> QED
    BY <2>1, <2>2, <2>3 DEF AppInv, OneWorker
<1>3. NoUseAfterFree'
  <2> SUFFICES ASSUME NEW i \in DOMAIN toWorker', toWorker'[i].type = "request",
                      toWorker'[i].op.type = "match"
               PROVE  /\ toWorker'[i].op.matcher \in DOMAIN matchers'
                      /\ \A j \in 1..i - 1 : toWorker'[j] # FreeMatcher(toWorker'[i].op.matcher)
    BY DEF NoUseAfterFree
  <2>1. i + 1 \in DOMAIN toWorker /\ toWorker'[i] = toWorker[i + 1]
    BY <1>1
  <2>2. /\ toWorker[i + 1].op.matcher \in DOMAIN matchers
        /\ \A j \in 1..(i + 1) - 1 : toWorker[j] # FreeMatcher(toWorker[i + 1].op.matcher)
    BY <2>1 DEF AppInv, NoUseAfterFree
  <2>3. toWorker \in Seq(ToWorker) /\ DOMAIN toWorker' = 1..Len(toWorker') /\ 1 \in 1..(i + 1) - 1
    BY AppFacts, TailOfQueue
  <2>4. ASSUME NEW j \in 1..i - 1
        PROVE  j + 1 \in 1..(i + 1) - 1 /\ j \in DOMAIN toWorker'
    BY <2>3
  <2>5. Head(toWorker) # FreeMatcher(toWorker[i + 1].op.matcher)
    BY <1>1, <2>2, <2>3
  <2> QED
    BY <1>1, <2>1, <2>2, <2>4, <2>5
<1> QED
  BY <1>2, <1>3

LEMMA TakesInitKeeps ==
    ASSUME AppInv, toWorker # <<>>, toWorker' = Tail(toWorker), UNCHANGED <<app, client>>,
           Head(toWorker).type # "freeMatcher", IInv',
           UNCHANGED <<toClient, matchers, nextMatcherID>>,
           UNCHANGED runtime \/ (Head(toWorker).type = "init" /\ runtime' = "loading")
    PROVE  AppInv'
<1>1. AppTypeOK' /\ IdleWithoutClient' /\ CompilationsInOrder'
  BY WorkerLeavesApp
<1>2. OneWorker' /\ NoUseAfterFree'
  BY TakenKeeps
<1>3. /\ \A i \in DOMAIN toWorker' : i + 1 \in DOMAIN toWorker /\ toWorker'[i] = toWorker[i + 1]
      /\ Freeing' \subseteq Freeing
      /\ \A m \in Freeing : m \in Freeing' \/ Head(toWorker) = FreeMatcher(m)
  BY TakenPlaces
<1>4. Freeing' = Freeing
  <2>1. \A m : Head(toWorker) # FreeMatcher(m)
    BY DEF FreeMatcher
  <2> QED
    BY <1>3, <2>1
<1>5. ArrivingHeld'
  BY <1>4 DEF AppInv, ArrivingHeld, OneArrival, Brings, Held, app
<1>6. CurrentHeld'
  BY <1>3, <1>4 DEF AppInv, CurrentHeld, Compiling, Held, app
<1>7. MatchersHeld'
  BY <1>4 DEF AppInv, MatchersHeld, Arriving, app
<1> QED
  BY <1>1, <1>2, <1>5, <1>6, <1>7 DEF AppInv

LEMMA AppFreeKeeps ==
    ASSUME AppInv, toWorker # <<>>, toWorker' = Tail(toWorker), UNCHANGED <<app, client>>,
           Head(toWorker).type = "freeMatcher", HandleFree(Head(toWorker)), IInv'
    PROVE  AppInv'
<1> DEFINE f == Head(toWorker).matcher
<1>1. /\ matchers' = IF runtime = "up" THEN [n \in DOMAIN matchers \ {f} |-> matchers[n]] ELSE matchers
      /\ UNCHANGED <<toClient, runtime, nextMatcherID>>
  BY DEF HandleFree
<1>2. /\ 1 \in DOMAIN toWorker /\ toWorker[1] = Head(toWorker) /\ Head(toWorker) \in ToWorker
      /\ \A i \in DOMAIN toWorker' : i + 1 \in DOMAIN toWorker /\ toWorker'[i] = toWorker[i + 1]
      /\ Freeing' \subseteq Freeing
      /\ \A m \in Freeing : m \in Freeing' \/ Head(toWorker) = FreeMatcher(m)
  BY TakenPlaces
<1>3. Head(toWorker) = FreeMatcher(f)
  BY <1>2 DEF ToWorker, FreeMatcher
<1>4. f \in Freeing /\ \A m \in Freeing : m \in Freeing' \/ m = f
  BY <1>2, <1>3 DEF Freeing, FreeMatcher
<1>5. DOMAIN matchers' = DOMAIN matchers \ {f}
  <2>1. runtime # "up" => DOMAIN matchers = {}
    BY DEF AppInv, OneWorker
  <2> QED
    BY <1>1, <2>1
<1> HIDE DEF f
<1>6. AppTypeOK' /\ IdleWithoutClient' /\ CompilationsInOrder'
  BY WorkerLeavesApp
<1>7. OneWorker' /\ NoUseAfterFree'
  BY <1>1, <1>3, <1>5, TakenKeeps
<1>8. \A m : Held(m) => Held(m)'
  BY <1>2, <1>4, <1>5 DEF Held
<1>9. ArrivingHeld'
  BY <1>1, <1>2, <1>8 DEF AppInv, ArrivingHeld, OneArrival, Brings, app
<1>10. CurrentHeld'
  BY <1>1, <1>2, <1>8 DEF AppInv, CurrentHeld, Compiling, app
<1>11. MatchersHeld'
  BY <1>1, <1>4, <1>5 DEF AppInv, MatchersHeld, Arriving, app
<1> QED
  BY <1>6, <1>7, <1>9, <1>10, <1>11 DEF AppInv

\* What carrying out a request adds to the matchers.
LEMMA AnswerNowGives ==
    ASSUME AppInv, NEW op \in Op, nextMatcherID \in Matcher, NEW a, a = AnswerNow(op),
           matchers' = Service!With(matchers, op, a)
    PROVE  /\ a \in Outcome
           /\ a.type = "compiled" =>
                 /\ op.type = "compile" /\ a.matcher = nextMatcherID /\ runtime = "up"
                 /\ DOMAIN matchers' = DOMAIN matchers \cup {nextMatcherID}
                 /\ matchers'[nextMatcherID] = op.grammar
                 /\ \A m \in DOMAIN matchers : m # nextMatcherID => matchers'[m] = matchers[m]
           /\ a.type # "compiled" => matchers' = matchers
           /\ DOMAIN matchers \subseteq DOMAIN matchers'
           /\ a.type = "matched" =>
                 /\ op.type = "match" /\ op.matcher \in DOMAIN matchers
                 /\ a.grammar = matchers[op.matcher] /\ a.input = op.input
<1>1. matchers \in [DOMAIN matchers -> Grammar]
  BY DEF AppInv, IInv, TypeOK
<1>2. CASE runtime = "up"
  <2>1. a = Service!AnswerTo(op, matchers, nextMatcherID)
    BY <1>2 DEF AnswerNow
  <2>2. /\ a \in Outcome
        /\ a.type = "compiled" => op.type = "compile" /\ a.matcher = nextMatcherID
    BY <1>1, <2>1, AnswerType
  <2>3. a.type = "matched" =>
           /\ op.type = "match" /\ op.matcher \in DOMAIN matchers
           /\ a.grammar = matchers[op.matcher] /\ a.input = op.input
    BY <2>1 DEF Service!AnswerTo, Service!Failed, Op, Service!Op
  <2> QED
    BY <1>2, <2>2, <2>3 DEF Service!With
<1>3. CASE runtime # "up"
  <2>1. a = Failed
    BY <1>3 DEF AnswerNow
  <2> QED
    BY <2>1 DEF Failed, Service!Failed, Service!With, Outcome
<1> QED
  BY <1>2, <1>3

LEMMA AppRequestKeeps ==
    ASSUME AppInv, toWorker # <<>>, toWorker' = Tail(toWorker), UNCHANGED <<app, client>>,
           Head(toWorker).type = "request", HandleRequest(Head(toWorker)), IInv'
    PROVE  AppInv'
<1> DEFINE m == Head(toWorker)
           a == AnswerNow(m.op)
<1>1. /\ toClient' = Append(toClient, Answer(m.id, a))
      /\ matchers' = Service!With(matchers, m.op, a)
      /\ nextMatcherID' = AfterCompile(a)
      /\ UNCHANGED runtime
  BY DEF HandleRequest
<1>2. /\ m \in [type : {"request"}, id : 1..MaxCalls, op : Op]
      /\ m.id \in DOMAIN calls /\ m.op = calls[m.id].op
      /\ nextMatcherID \in 1..MaxCalls
  BY HeadRequest DEF AppInv, OfSent
<1>3. /\ 1 \in DOMAIN toWorker /\ toWorker[1] = m
      /\ \A i \in DOMAIN toWorker' : i + 1 \in DOMAIN toWorker /\ toWorker'[i] = toWorker[i + 1]
      /\ Freeing' \subseteq Freeing
      /\ \A n \in Freeing : n \in Freeing' \/ m = FreeMatcher(n)
  BY TakenPlaces
<1> HIDE DEF m
<1>4. /\ a \in Outcome
      /\ a.type = "compiled" =>
            /\ m.op.type = "compile" /\ a.matcher = nextMatcherID /\ runtime = "up"
            /\ DOMAIN matchers' = DOMAIN matchers \cup {nextMatcherID}
      /\ a.type # "compiled" => matchers' = matchers
      /\ DOMAIN matchers \subseteq DOMAIN matchers'
  BY <1>1, <1>2, AnswerNowGives DEF Matcher
<1> HIDE DEF a
<1>5. AppTypeOK' /\ IdleWithoutClient' /\ CompilationsInOrder'
  BY WorkerLeavesApp
<1>6. OneWorker' /\ NoUseAfterFree'
  BY <1>1, <1>4, TakenKeeps
<1>7. Freeing' = Freeing
  <2>1. \A n : m # FreeMatcher(n)
    BY <1>2 DEF FreeMatcher
  <2> QED
    BY <1>3, <2>1
<1>8. nextMatcherID \in Nat /\ nextMatcherID <= nextMatcherID'
  BY <1>1, <1>2 DEF AfterCompile
<1> DEFINE Kept(n) == n \in DOMAIN matchers' /\ n \notin Freeing
<1>9. \A n : Held(n) => Kept(n)
  BY <1>4 DEF Held
<1>10. /\ \A i \in DOMAIN toClient : i \in DOMAIN toClient' /\ toClient'[i] = toClient[i]
       /\ \A i \in DOMAIN toClient' : \/ i \in DOMAIN toClient /\ toClient'[i] = toClient[i]
                                      \/ toClient'[i] = Answer(m.id, a) /\ i = Len(toClient) + 1
       /\ toClient'[Len(toClient) + 1] = Answer(m.id, a) /\ Len(toClient) + 1 \in DOMAIN toClient'
  <2>1. toClient \in Seq(ToClient) /\ Answer(m.id, a) \in ToClient
    BY <1>2, <1>4, AppFacts DEF Answer, ToClient
  <2> HIDE DEF Answer
  <2>2. /\ \A i \in DOMAIN toClient :
              i \in DOMAIN Append(toClient, Answer(m.id, a))
              /\ Append(toClient, Answer(m.id, a))[i] = toClient[i]
        /\ \A i \in DOMAIN Append(toClient, Answer(m.id, a)) :
              \/ i \in DOMAIN toClient /\ Append(toClient, Answer(m.id, a))[i] = toClient[i]
              \/ Append(toClient, Answer(m.id, a))[i] = Answer(m.id, a) /\ i = Len(toClient) + 1
        /\ Append(toClient, Answer(m.id, a))[Len(toClient) + 1] = Answer(m.id, a)
        /\ Len(toClient) + 1 \in DOMAIN Append(toClient, Answer(m.id, a))
    BY <2>1, AppendedPlaces
  <2> QED
    BY <1>1, <2>2
<1>11. /\ Answer(m.id, a).type = "answer" /\ Answer(m.id, a).id = m.id /\ Answer(m.id, a).answer = a
  BY DEF Answer
<1>12. Compiling(m) <=> m.op.type = "compile"
  BY <1>2 DEF Compiling, AppInv, CompilationsInOrder
<1>13. nextMatcherID \notin DOMAIN matchers /\ nextMatcherID \notin Freeing
  <2>1. \A n \in DOMAIN matchers : n \in 1..nextMatcherID - 1
    BY AppFacts
  <2>2. nextMatcherID \notin 1..nextMatcherID - 1
    BY <1>8
  <2>3. \A n \in Freeing : n < nextMatcherID
    BY DEF AppInv, ArrivingHeld
  <2>4. ~(nextMatcherID < nextMatcherID)
    BY <1>8
  <2> QED
    BY <2>1, <2>2, <2>3, <2>4
<1>14. ArrivingHeld'
  <2>1. ASSUME NEW i \in DOMAIN toClient', Brings(toClient'[i])
        PROVE  compiling[toClient'[i].id] # 0 /\ Kept(toClient'[i].answer.matcher)
    <3>1. CASE i \in DOMAIN toClient /\ toClient'[i] = toClient[i]
      BY <1>9, <2>1, <3>1 DEF AppInv, ArrivingHeld, Held
    <3>2. CASE toClient'[i] = Answer(m.id, a)
      <4>1. a.type = "compiled"
        BY <1>11, <2>1, <3>2 DEF Brings
      <4>2. Compiling(m) /\ Kept(a.matcher)
        BY <1>4, <1>7, <1>12, <1>13, <4>1
      <4> QED
        BY <1>11, <3>2, <4>2 DEF Compiling
    <3> QED
      BY <1>10, <3>1, <3>2
  <2>2. OneArrival(toClient')
    <3>1. \A i \in DOMAIN toClient : Brings(toClient[i]) => toClient[i].answer.matcher # nextMatcherID
      BY <1>13 DEF AppInv, ArrivingHeld, Held
    <3>2. Brings(Answer(m.id, a)) => Answer(m.id, a).answer.matcher = nextMatcherID
      BY <1>4, <1>11 DEF Brings
    <3> QED
      BY <1>10, <3>1, <3>2 DEF AppInv, ArrivingHeld, OneArrival
  <2>3. \A n \in Freeing : n < nextMatcherID'
    <3>1. \A n \in Freeing : n < nextMatcherID
      BY DEF AppInv, ArrivingHeld
    <3>2. \A n \in Freeing : n \in Nat
      BY AppFacts DEF Freeing, ToWorker, Matcher
    <3>3. nextMatcherID' \in Nat
      BY <1>1, <1>8 DEF AfterCompile
    <3> QED
      BY <1>8, <3>1, <3>2, <3>3
  <2> QED
    BY <1>7, <2>1, <2>2, <2>3 DEF ArrivingHeld, Held, app
<1>15. CurrentHeld'
  <2>1. UNCHANGED <<matchTimer, matcherId, compiling>>
    BY DEF app
  <2>2. \A x : Compiling(x)' <=> Compiling(x)
    BY <2>1 DEF Compiling
  <2>3. matcherId # 0 => ~Compiling(Answer(m.id, a))
    <3>1. matcherId # 0 => ~Compiling(m)
      BY <1>3 DEF AppInv, CurrentHeld
    <3> QED
      BY <1>2, <1>11, <3>1 DEF Compiling
  <2>4. matcherId # 0 => \A i \in DOMAIN toClient' : ~Compiling(toClient'[i])
    BY <1>10, <2>3 DEF AppInv, CurrentHeld
  <2>5. matcherId # 0 => \A i \in DOMAIN toWorker' : ~Compiling(toWorker'[i])
    BY <1>3 DEF AppInv, CurrentHeld
  <2> QED
    BY <1>7, <1>9, <2>1, <2>2, <2>4, <2>5 DEF AppInv, CurrentHeld, Held
<1>16. MatchersHeld'
  <2>1. Arriving \subseteq Arriving'
    BY <1>10 DEF Arriving
  <2>2. a.type = "compiled" => nextMatcherID \in Arriving'
    BY <1>4, <1>10, <1>11 DEF Arriving
  <2>3. UNCHANGED <<mounted, matcherId>>
    BY DEF app
  <2> QED
    BY <1>4, <1>7, <2>1, <2>2, <2>3 DEF AppInv, MatchersHeld
<1> QED
  BY <1>5, <1>6, <1>14, <1>15, <1>16 DEF AppInv

LEMMA AppWorkerHandlesKeeps ==
    ASSUME AppInv, WorkerHandles, UNCHANGED app
    PROVE  AppInv'
<1>1. /\ toWorker # <<>> /\ toWorker' = Tail(toWorker) /\ UNCHANGED client
      /\ \/ Head(toWorker).type = "request" /\ HandleRequest(Head(toWorker))
         \/ Head(toWorker).type = "freeMatcher" /\ HandleFree(Head(toWorker))
         \/ /\ Head(toWorker).type = "init" /\ runtime' = "loading"
            /\ UNCHANGED <<toClient, matchers, nextMatcherID>>
  BY DEF WorkerHandles
<1>2. IInv'
  BY WorkerHandlesKeeps DEF AppInv
<1> QED
  BY <1>1, <1>2, AppRequestKeeps, AppFreeKeeps, TakesInitKeeps
-----------------------------------------------------------------------------
(***************************************************************************)
(* Messages to the application                                             *)
(***************************************************************************)
LEMMA LearntPlaces ==
    ASSUME AppInv, toClient # <<>>, toClient' = Tail(toClient)
    PROVE  /\ 1 \in DOMAIN toClient /\ toClient[1] = Head(toClient) /\ Head(toClient) \in ToClient
           /\ \A i \in DOMAIN toClient' :
                 /\ i + 1 \in DOMAIN toClient /\ toClient'[i] = toClient[i + 1] /\ i + 1 # 1
           /\ OneArrival(toClient')
           /\ Arriving' \subseteq Arriving
           /\ \A m \in Arriving :
                 m \in Arriving' \/ (Brings(Head(toClient)) /\ m = Head(toClient).answer.matcher)
<1>1. toClient \in Seq(ToClient) /\ \A i \in DOMAIN toClient : toClient[i] \in ToClient
  BY AppFacts
<1>2. /\ Head(toClient) = toClient[1] /\ 1 \in DOMAIN toClient
      /\ \A i \in DOMAIN toClient' :
            i + 1 \in DOMAIN toClient /\ toClient'[i] = toClient[i + 1] /\ 1 < i + 1
      /\ \A i \in DOMAIN toClient : i # 1 => i - 1 \in DOMAIN toClient' /\ toClient[i] = toClient'[i - 1]
  BY <1>1, TailOfQueue
<1>3. \A i \in DOMAIN toClient' : i + 1 # 1
  BY <1>2
<1>4. \A i, j \in DOMAIN toClient' : i + 1 = j + 1 => i = j
  <2>1. toClient' \in Seq(ToClient)
    BY <1>1, TailOfQueue
  <2>2. DOMAIN toClient' = 1..Len(toClient')
    BY <2>1
  <2> QED
    BY <2>2
<1>5. OneArrival(toClient')
  <2> SUFFICES ASSUME NEW i \in DOMAIN toClient', NEW j \in DOMAIN toClient',
                      Brings(toClient'[i]), Brings(toClient'[j]),
                      toClient'[i].answer.matcher = toClient'[j].answer.matcher
               PROVE  i = j
    BY DEF OneArrival
  <2>1. /\ i + 1 \in DOMAIN toClient /\ toClient'[i] = toClient[i + 1]
        /\ j + 1 \in DOMAIN toClient /\ toClient'[j] = toClient[j + 1]
    BY <1>2
  <2>2. i + 1 = j + 1
    BY <2>1 DEF AppInv, ArrivingHeld, OneArrival
  <2> QED
    BY <1>4, <2>2
<1>6. Arriving' \subseteq Arriving
  BY <1>2 DEF Arriving
<1>7. \A m \in Arriving :
         m \in Arriving' \/ (Brings(Head(toClient)) /\ m = Head(toClient).answer.matcher)
  <2> SUFFICES ASSUME NEW i \in DOMAIN toClient, Brings(toClient[i]),
                      toClient[i].answer.matcher \notin Arriving'
               PROVE  i = 1
    BY <1>2 DEF Arriving, Brings
  <2> SUFFICES ASSUME i # 1
               PROVE  FALSE
    OBVIOUS
  <2>1. i - 1 \in DOMAIN toClient' /\ toClient'[i - 1] = toClient[i]
    BY <1>2
  <2>2. toClient'[i - 1].answer.matcher \in Arriving'
    BY <2>1 DEF Arriving, Brings
  <2> QED
    BY <2>1, <2>2
<1> QED
  BY <1>1, <1>2, <1>3, <1>5, <1>6, <1>7

LEMMA Learns ==
    ASSUME AppInv, ClientLearns
    PROVE  /\ toClient # <<>> /\ toClient' = Tail(toClient) /\ ~Brings(Head(toClient))
           /\ UNCHANGED <<toWorker, calls, worker, created, runtime, matchers, nextMatcherID>>
           /\ HaveClient => HaveClient'
           /\ IInv' /\ worker # 0
<1>1. /\ toClient # <<>> /\ Head(toClient).type # "answer" /\ toClient' = Tail(toClient)
      /\ UNCHANGED <<worker, created, runtime, matchers, nextMatcherID>>
      /\ ClientReceives
  BY DEF ClientLearns, ClientReceives, inWorker
<1>2. Head(toClient) \in {Ready, InitError}
  <2>1. Head(toClient) \in ToClient
    BY <1>1, LearntPlaces
  <2> QED
    BY <1>1, <2>1 DEF ToClient, Ready, InitError
<1>3. IInv' /\ worker # 0
  BY <1>1, ClientReceivesKeeps DEF AppInv, IInv, NothingWithoutWorker
<1>4. PICK how \in {"resolved", "rejected"} : SettleReady(how)
  BY <1>1, <1>2 DEF ClientReceives, Ready, InitError
<1>5. CASE readyPromise # "pending"
  BY <1>1, <1>3, <1>4, <1>5 DEF SettleReady, HaveClient, Brings
<1>6. CASE readyPromise = "pending"
  <2>1. calls = <<>> /\ ~HaveClient
    BY <1>6 DEF AppInv, IdleWithoutClient, HaveClient
  <2>2. Len(calls) = 0 /\ DOMAIN calls = {}
    BY <2>1
  <2>3. Cardinality(Waiting) = 0
    BY <1>6, <2>2, WaitingIsAll DEF AppInv
  <2>4. \/ SendWaiting
        \/ RejectWaiting
    BY <1>4, <1>6 DEF SettleReady
  <2>5. calls' = calls
    <3>1. \A f : DOMAIN f = {} /\ f = [c \in {} |-> f[c]] => f = <<>>
      OBVIOUS
    <3> QED
      BY <2>1, <2>2, <2>4, <3>1 DEF SendWaiting, RejectWaiting
  <2>6. toWorker' = toWorker
    <3>1. CASE RejectWaiting
      BY <3>1 DEF RejectWaiting
    <3>2. CASE SendWaiting
      <4> DEFINE e(n) == LET c == NthWaiting(n) IN Request(Resumed(c), calls[c].op)
                 f == [n \in 1..Cardinality(Waiting) |-> e(n)]
      <4>1. toWorker' = toWorker \o f
        BY <3>2 DEF SendWaiting, Post
      <4> HIDE DEF e
      <4>2. DOMAIN f = {}
        BY <2>3
      <4>3. f = <<>>
        BY <2>3, <4>2
      <4> HIDE DEF f
      <4>4. toWorker \in Seq(ToWorker)
        BY AppFacts
      <4> QED
        BY <4>1, <4>3, <4>4, ConcatEmptySeq
    <3> QED
      BY <2>4, <3>1, <3>2
  <2> QED
    BY <1>1, <1>3, <2>1, <2>5, <2>6 DEF Brings
<1> QED
  BY <1>5, <1>6

LEMMA ClientLearnsKeeps ==
    ASSUME AppInv, ClientLearns
    PROVE  AppInv'
<1>1. /\ toClient # <<>> /\ toClient' = Tail(toClient) /\ ~Brings(Head(toClient))
      /\ UNCHANGED <<toWorker, calls, worker, created, runtime, matchers, nextMatcherID>>
      /\ HaveClient => HaveClient'
      /\ IInv' /\ worker # 0
  BY Learns
<1>2. /\ \A i \in DOMAIN toClient' : i + 1 \in DOMAIN toClient /\ toClient'[i] = toClient[i + 1]
      /\ OneArrival(toClient') /\ Arriving' = Arriving
  BY <1>1, LearntPlaces
<1>3. UNCHANGED <<project, input, matcherId, result, compiling, mounted>>
  BY DEF ClientLearns
<1>4. /\ compileSeq \in Nat
      /\ \/ UNCHANGED <<compileSeq, compileTimer, isCompiling, matchTimer>>
         \/ /\ HaveClient' /\ calls = <<>>
            /\ compileSeq' = compileSeq + 1 /\ compileTimer' = compileSeq + 1
            /\ isCompiling' = TRUE /\ matchTimer' = NoTimer
  BY DEF ClientLearns, ScheduleCompile, AppInv, AppTypeOK, IdleWithoutClient
<1>5. AppTypeOK'
  <2>1. CASE UNCHANGED <<compileSeq, compileTimer, isCompiling, matchTimer>>
    BY <1>1, <1>3, <2>1 DEF AppInv, AppTypeOK
  <2>2. CASE /\ compileSeq' = compileSeq + 1 /\ compileTimer' = compileSeq + 1
             /\ isCompiling' = TRUE /\ matchTimer' = NoTimer
    BY <1>1, <1>3, <1>4, <2>2 DEF AppInv, AppTypeOK
  <2> QED
    BY <1>4, <2>1, <2>2
<1>6. IdleWithoutClient'
  <2>1. CASE UNCHANGED <<compileSeq, compileTimer, isCompiling, matchTimer>>
    BY <1>1, <1>3, <2>1 DEF AppInv, IdleWithoutClient
  <2>2. CASE HaveClient' /\ compileSeq' = compileSeq + 1
    BY <1>1, <1>4, <2>2 DEF IdleWithoutClient
  <2> QED
    BY <1>4, <2>1, <2>2
<1>7. OneWorker'
  BY <1>1 DEF AppInv, OneWorker
<1>8. CompilationsInOrder'
  <2>1. CASE UNCHANGED <<compileSeq, compileTimer, isCompiling, matchTimer>>
    BY <1>1, <1>3, <2>1 DEF AppInv, CompilationsInOrder
  <2>2. CASE calls = <<>> /\ isCompiling' = TRUE /\ matchTimer' = NoTimer
    <3>1. DOMAIN calls = {}
      BY <2>2
    <3> QED
      BY <1>1, <2>2, <3>1 DEF CompilationsInOrder
  <2> QED
    BY <1>4, <2>1, <2>2
<1>9. Freeing' = Freeing
  BY <1>1 DEF Freeing
<1>10. ArrivingHeld'
  BY <1>1, <1>2, <1>3, <1>9 DEF AppInv, ArrivingHeld, Held
<1>11. CurrentHeld'
  <2>1. matchTimer' # NoTimer => matchTimer'.matcher = matcherId
    BY <1>4 DEF AppInv, CurrentHeld
  <2>2. matcherId # 0 =>
          /\ \A i \in DOMAIN toWorker : ~Compiling(toWorker[i])
          /\ \A i \in DOMAIN toClient' : ~Compiling(toClient'[i])
    BY <1>2 DEF AppInv, CurrentHeld
  <2> QED
    BY <1>1, <1>3, <1>9, <2>1, <2>2 DEF AppInv, CurrentHeld, Compiling, Held
<1>12. MatchersHeld'
  BY <1>1, <1>2, <1>3, <1>9 DEF AppInv, MatchersHeld
<1>13. NoUseAfterFree'
  BY <1>1 DEF AppInv, NoUseAfterFree
<1> QED
  BY <1>1, <1>5, <1>6, <1>7, <1>8, <1>10, <1>11, <1>12, <1>13 DEF AppInv

\* An answer: of which call, and what is done with it.
LEMMA Answers ==
    ASSUME AppInv, ClientAnswers
    PROVE  /\ toClient # <<>> /\ toClient' = Tail(toClient) /\ Head(toClient).type = "answer"
           /\ Head(toClient).answer \in Outcome
           /\ CallOf(Head(toClient).id) = Head(toClient).id
           /\ Head(toClient).id \in DOMAIN calls
           /\ UNCHANGED <<worker, created, readyPromise, nextRequestId, runtime, matchers,
                          nextMatcherID>>
           /\ UNCHANGED <<project, input, compileSeq, compileTimer, compiling, mounted>>
           /\ calls' = Returned(Head(toClient).id, Head(toClient).answer)
           /\ toWorker' = toWorker \o (IF StaleMatcher(Head(toClient))
                                       THEN FreeNow(Head(toClient).answer.matcher) ELSE <<>>)
           /\ IInv' /\ worker # 0
           /\ calls[Head(toClient).id].stage = "sent"
           /\ \A i \in Numbered(Tail(toClient)) : Head(toClient).id < Tail(toClient)[i].id
           /\ \A i \in Numbered(toWorker) : Head(toClient).id < toWorker[i].id
<1> DEFINE m == Head(toClient)
           free == IF StaleMatcher(m) THEN FreeNow(m.answer.matcher) ELSE <<>>
<1>1. /\ toClient # <<>> /\ m.type = "answer" /\ toClient' = Tail(toClient)
      /\ pending' = pending \ {m.id} /\ calls' = Returned(CallOf(m.id), m.answer)
      /\ toWorker' = Post(free)
      /\ UNCHANGED <<worker, created, readyPromise, nextRequestId, inWorker>>
      /\ UNCHANGED <<project, input, compileSeq, compileTimer, compiling, mounted>>
  BY DEF ClientAnswers, WithoutPending
<1>2. /\ 1 \in Numbered(toClient) /\ toClient[1] = m
      /\ m \in [type : {"answer"}, id : 1..MaxCalls, answer : Outcome]
      /\ m.id \in DOMAIN calls /\ CallOf(m.id) = m.id /\ calls[m.id].stage = "sent"
  BY <1>1, HeadAnswer DEF AppInv
<1>3. worker # 0
  BY <1>1 DEF AppInv, IInv, NothingWithoutWorker
<1>4. free \in Seq(ToWorker) /\ Numbered(free) = {}
  <2>1. StaleMatcher(m) => m.answer.matcher \in Matcher
    BY <1>2 DEF StaleMatcher, Outcome, Failed, Service!Failed
  <2> QED
    BY <2>1, FreeNowType, EmptyQueue
<1>5. IInv'
  <2> HIDE DEF free
  <2> QED
    BY <1>1, <1>2, <1>4, SettleKeeps DEF AppInv
<1>6. toClient \in Seq(ToClient) /\ InOrder(toClient)
  BY AppFacts DEF AppInv, IInv, QueuesInOrder
<1>7. \A i \in Numbered(Tail(toClient)) : m.id < Tail(toClient)[i].id
  BY <1>1, <1>2, <1>6, TailOfQueue
<1>8. \A i \in Numbered(toWorker) : m.id < toWorker[i].id
  BY <1>2 DEF AppInv, IInv, QueuesInOrder
<1> QED
  BY <1>1, <1>2, <1>3, <1>5, <1>7, <1>8 DEF Post, inWorker

\* The answer to the compilation that is the latest, to an earlier one, and any other.
LatestArrives(m) == Brings(m) /\ IsLatest(compiling[m.id])
StaleArrives(m) == Brings(m) /\ ~IsLatest(compiling[m.id])
LEMMA AnswerEffect ==
    ASSUME AppInv, ClientAnswers
    PROVE  LET m == Head(toClient)
           IN /\ LatestArrives(m) =>
                   /\ m.answer.matcher \in Matcher
                   /\ matcherId' = m.answer.matcher /\ isCompiling' = FALSE
                   /\ mounted => MatchAfter(FALSE, m.answer.matcher, input)
                   /\ ~mounted => UNCHANGED matchTimer
                   /\ toWorker' = toWorker /\ result' = result /\ outputError' = FALSE
              /\ StaleArrives(m) =>
                   /\ m.answer.matcher \in Matcher
                   /\ UNCHANGED <<matcherId, isCompiling, matchTimer, result, outputError>>
                   /\ toWorker' = toWorker \o <<FreeMatcher(m.answer.matcher)>>
              /\ ~Brings(m) =>
                   /\ UNCHANGED <<matcherId, matchTimer>> /\ toWorker' = toWorker
                   /\ \/ UNCHANGED isCompiling
                      \/ isCompiling' = FALSE /\ compiling[m.id] = compileSeq
<1> DEFINE m == Head(toClient)
<1>1. /\ m.type = "answer" /\ m.answer \in Outcome /\ CallOf(m.id) = m.id /\ worker # 0
      /\ toWorker' = toWorker \o (IF StaleMatcher(m) THEN FreeNow(m.answer.matcher) ELSE <<>>)
  BY Answers
<1>2. Brings(m) => m.answer.matcher \in Matcher
  BY <1>1 DEF Brings, Outcome, Failed, Service!Failed
<1>3. StaleMatcher(m) <=> StaleArrives(m)
  BY <1>1 DEF StaleMatcher, StaleArrives, Brings
<1>4. toWorker \in Seq(ToWorker)
  BY AppFacts
<1>5. /\ StaleArrives(m) => toWorker' = toWorker \o <<FreeMatcher(m.answer.matcher)>>
      /\ ~StaleArrives(m) => toWorker' = toWorker
  BY <1>1, <1>3, <1>4, ConcatEmptySeq DEF FreeNow
<1>6. CASE m.answer.type = "compiled"
  <2>1. Compiled(m.id, m.answer)
    BY <1>1, <1>6 DEF ClientAnswers
  <2> QED
    BY <1>1, <1>2, <1>5, <1>6, <2>1 DEF Compiled, LatestArrives, StaleArrives, Brings
<1>7. CASE m.answer.type = "matched"
  <2>1. Matched(m.answer)
    BY <1>1, <1>7 DEF ClientAnswers
  <2> QED
    BY <1>5, <1>7, <2>1 DEF Matched, LatestArrives, StaleArrives, Brings
<1>8. CASE m.answer.type \notin {"compiled", "matched"}
  <2>1. IF compiling[m.id] # 0 THEN CompileFailed(m.id) ELSE MatchFailed
    BY <1>1, <1>8 DEF ClientAnswers
  <2> QED
    BY <1>5, <1>8, <2>1 DEF CompileFailed, MatchFailed, LatestArrives, StaleArrives, Brings, IsLatest
<1> QED
  BY <1>6, <1>7, <1>8

\* The latest compilation, underway, is the last call underway, and nothing is
\* timed or matched meanwhile.
LEMMA LatestIsLast ==
    ASSUME AppInv, NEW c \in DOMAIN calls, compiling[c] = compileSeq, compiling[c] # 0
    PROVE  /\ compileTimer = 0
           /\ \A d \in DOMAIN calls : c < d => compiling[d] = 0
<1>1. compileSeq \in Nat /\ ~(compileSeq < compileSeq)
  BY AppFacts
<1>2. compileTimer = 0
  BY <1>1 DEF AppInv, CompilationsInOrder
<1>3. ASSUME NEW d \in DOMAIN calls, c < d, compiling[d] # 0
      PROVE  FALSE
  <2>1. compiling[c] < compiling[d] /\ compiling[d] <= compileSeq /\ compiling[d] \in Nat
    BY <1>3, AppFacts DEF AppInv, CompilationsInOrder
  <2> QED
    BY <1>1, <2>1
<1> QED
  BY <1>2, <1>3

\* What does not depend on which answer it is.
LEMMA AnswerKeepsOrder ==
    ASSUME AppInv, ClientAnswers
    PROVE  /\ IInv' /\ IdleWithoutClient' /\ CompilationsInOrder'
           /\ compiling' \in Seq(Nat) /\ Len(compiling') = Len(calls')
           /\ DOMAIN calls' = DOMAIN calls
<1> DEFINE m == Head(toClient)
<1>1. /\ m.id \in DOMAIN calls /\ UNCHANGED <<worker, readyPromise, compileSeq, compileTimer, compiling>>
      /\ calls' = Returned(m.id, m.answer) /\ IInv'
  BY Answers
<1>2. calls \in Seq(Call) /\ compiling \in Seq(Nat) /\ Len(compiling) = Len(calls)
  BY AppFacts DEF AppInv, AppTypeOK
<1> HIDE DEF m
<1>3. DOMAIN calls' = DOMAIN calls /\ \A c \in DOMAIN calls : calls'[c].op = calls[c].op
  BY <1>1, <1>2 DEF Returned
<1>4. Len(calls') = Len(calls)
  <2>1. calls' \in Seq(Call)
    BY <1>1 DEF IInv, TypeOK
  <2>2. DOMAIN calls' = 1..Len(calls') /\ DOMAIN calls = 1..Len(calls) /\ Len(calls) \in Nat /\ Len(calls') \in Nat
    BY <1>2, <2>1
  <2> QED
    BY <1>3, <2>2, SameLength
<1>5. /\ LatestArrives(m) => /\ isCompiling' = FALSE /\ compiling[m.id] = compileSeq
                             /\ compiling[m.id] # 0
      /\ ~LatestArrives(m) => /\ UNCHANGED <<matcherId, matchTimer>>
                              /\ \/ UNCHANGED isCompiling
                                 \/ isCompiling' = FALSE /\ compiling[m.id] = compileSeq
  <2>1. Brings(m) => compiling[m.id] # 0
    BY Answers, LearntPlaces DEF m, AppInv, ArrivingHeld
  <2>2. /\ LatestArrives(m) => isCompiling' = FALSE
        /\ StaleArrives(m) => UNCHANGED <<matcherId, isCompiling, matchTimer>>
        /\ ~Brings(m) => /\ UNCHANGED <<matcherId, matchTimer>>
                         /\ \/ UNCHANGED isCompiling
                            \/ isCompiling' = FALSE /\ compiling[m.id] = compileSeq
    BY AnswerEffect DEF m
  <2> QED
    BY <2>1, <2>2 DEF LatestArrives, StaleArrives, IsLatest
<1>6. HaveClient /\ worker # 0
  <2>1. calls # <<>>
    BY <1>1
  <2> QED
    BY <2>1 DEF AppInv, IdleWithoutClient
<1>7. IdleWithoutClient'
  <2>1. HaveClient'
    BY <1>1, <1>6 DEF HaveClient
  <2>2. compileSeq = 0 => UNCHANGED <<matcherId, matchTimer>>
    BY <1>5
  <2> QED
    BY <1>1, <1>6, <2>1, <2>2 DEF AppInv, IdleWithoutClient
<1>8. CompilationsInOrder'
  <2>1. compiling[m.id] = compileSeq => compileTimer = 0
    <3>1. compileSeq \in Nat /\ ~(compileSeq < compileSeq)
      BY AppFacts
    <3> QED
      BY <1>1, <3>1 DEF AppInv, CompilationsInOrder
  <2>2. compileTimer # 0 => isCompiling'
    <3>1. compileTimer # 0 => isCompiling
      BY DEF AppInv, CompilationsInOrder
    <3>2. compileTimer # 0 => UNCHANGED isCompiling
      BY <1>5, <2>1
    <3> QED
      BY <3>1, <3>2
  <2>3. isCompiling' => matchTimer' = NoTimer
    BY <1>5 DEF AppInv, CompilationsInOrder
  <2> QED
    BY <1>1, <1>3, <2>2, <2>3 DEF AppInv, CompilationsInOrder
<1> QED
  BY <1>1, <1>2, <1>3, <1>4, <1>7, <1>8

LEMMA ClientAnswersKeeps ==
    ASSUME AppInv, ClientAnswers
    PROVE  AppInv'
<1> DEFINE m == Head(toClient)
<1>1. /\ toClient # <<>> /\ m.type = "answer" /\ toClient' = Tail(toClient)
      /\ m.id \in DOMAIN calls
      /\ UNCHANGED <<worker, created, runtime, matchers, nextMatcherID>>
      /\ UNCHANGED <<project, input, compileSeq, compileTimer, compiling, mounted>>
      /\ \A i \in Numbered(Tail(toClient)) : m.id < Tail(toClient)[i].id
      /\ \A i \in Numbered(toWorker) : m.id < toWorker[i].id
  BY Answers
<1>2. /\ IInv' /\ IdleWithoutClient' /\ CompilationsInOrder'
      /\ compiling' \in Seq(Nat) /\ Len(compiling') = Len(calls')
  BY AnswerKeepsOrder
<1>3. /\ 1 \in DOMAIN toClient /\ toClient[1] = m
      /\ \A i \in DOMAIN toClient' :
            i + 1 \in DOMAIN toClient /\ toClient'[i] = toClient[i + 1] /\ i + 1 # 1
      /\ OneArrival(toClient')
      /\ Arriving' \subseteq Arriving
      /\ \A n \in Arriving : n \in Arriving' \/ (Brings(m) /\ n = m.answer.matcher)
  BY <1>1, LearntPlaces
<1>4. Brings(m) => /\ compiling[m.id] # 0 /\ Held(m.answer.matcher) /\ matcherId = 0
                   /\ matchTimer = NoTimer
  <2>1. Brings(m) => compiling[m.id] # 0 /\ Held(m.answer.matcher)
    BY <1>3 DEF AppInv, ArrivingHeld
  <2>2. Brings(m) => matcherId = 0
    BY <1>1, <1>3, <2>1 DEF AppInv, CurrentHeld, Compiling
  <2>3. matcherId = 0 => matchTimer = NoTimer
    <3>1. matchTimer # NoTimer => matchTimer.matcher \in Matcher
      BY DEF AppInv, AppTypeOK
    <3>2. 0 \notin Matcher
      BY MaxCallsAssumption DEF Matcher
    <3> QED
      BY <3>1, <3>2 DEF AppInv, CurrentHeld
  <2> QED
    BY <2>1, <2>2, <2>3
<1>5. CASE LatestArrives(m)
  <2>1. /\ m.answer.matcher \in Matcher
        /\ matcherId' = m.answer.matcher /\ isCompiling' = FALSE
        /\ mounted => MatchAfter(FALSE, m.answer.matcher, input)
        /\ ~mounted => UNCHANGED matchTimer
        /\ toWorker' = toWorker
    BY <1>5, AnswerEffect
  <2>2. Brings(m) /\ compiling[m.id] = compileSeq
    BY <1>5 DEF LatestArrives, IsLatest
  <2>3. \A d \in DOMAIN calls : m.id < d => compiling[d] = 0
    BY <1>1, <1>4, <2>2, LatestIsLast
  <2>4. m.answer.matcher \in 0..MaxCalls /\ input \in 1..LastInput
    BY <2>1, MaxCallsAssumption DEF Matcher, AppInv, AppTypeOK
  <2>5. /\ matchTimer' \in {NoTimer} \cup [matcher : Matcher, input : 1..LastInput]
        /\ matchTimer' # NoTimer => matchTimer'.matcher = m.answer.matcher
    BY <1>4, <2>1, <2>2, <2>4, MatchAfterGives
  <2> HIDE DEF m
  <2>6. AppTypeOK'
    BY <1>1, <1>2, <2>1, <2>4, <2>5 DEF AppInv, AppTypeOK
  <2>7. OneWorker' /\ NoUseAfterFree' /\ Freeing' = Freeing
    BY <1>1, <2>1 DEF AppInv, OneWorker, NoUseAfterFree, Freeing
  <2>8. ArrivingHeld'
    BY <1>1, <1>3, <2>7 DEF AppInv, ArrivingHeld, Held
  <2>9. CurrentHeld'
    <3>1. ASSUME NEW i \in DOMAIN toWorker
          PROVE  ~Compiling(toWorker[i])
      <4>1. toWorker[i].type \in {"request", "answer"} =>
               i \in Numbered(toWorker) /\ toWorker[i].id \in DOMAIN calls
        BY AppFacts DEF Numbered
      <4> QED
        BY <1>1, <2>3, <4>1 DEF Compiling
    <3>2. ASSUME NEW i \in DOMAIN toClient'
          PROVE  ~Compiling(toClient'[i])
      <4>1. toClient'[i].type \in {"request", "answer"} =>
               i \in Numbered(toClient') /\ toClient'[i].id \in DOMAIN calls
        BY <1>3, AppFacts DEF Numbered
      <4> QED
        BY <1>1, <2>3, <4>1 DEF Compiling
    <3>3. Held(m.answer.matcher)
      BY <1>4, <2>2
    <3> QED
      BY <1>1, <2>1, <2>5, <2>7, <3>1, <3>2, <3>3 DEF CurrentHeld, Compiling, Held
  <2>10. MatchersHeld'
    <3>1. 0 \notin DOMAIN matchers
      BY AppFacts
    <3>2. mounted => DOMAIN matchers \subseteq {matcherId} \cup Freeing \cup Arriving
      BY DEF AppInv, MatchersHeld
    <3>3. mounted => DOMAIN matchers \subseteq {m.answer.matcher} \cup Freeing \cup Arriving'
      BY <1>3, <1>4, <2>2, <3>1, <3>2
    <3> QED
      BY <1>1, <2>1, <2>7, <3>3 DEF MatchersHeld
  <2> QED
    BY <1>2, <2>6, <2>7, <2>8, <2>9, <2>10 DEF AppInv
<1>6. CASE StaleArrives(m)
  <2> DEFINE f == m.answer.matcher
             r == <<FreeMatcher(f)>>
  <2>1. /\ f \in Matcher /\ UNCHANGED <<matcherId, isCompiling, matchTimer>>
        /\ toWorker' = toWorker \o r
    BY <1>6, AnswerEffect
  <2>2. Brings(m)
    BY <1>6 DEF StaleArrives
  <2> HIDE DEF f
  <2>3. r \in Seq(ToWorker) /\ DOMAIN r = {1} /\ r[1] = FreeMatcher(f)
    BY <2>1 DEF FreeMatcher, ToWorker
  <2> HIDE DEF r
  <2>4. /\ \A i \in DOMAIN toWorker' :
              \/ i \in DOMAIN toWorker /\ toWorker'[i] = toWorker[i]
              \/ i - Len(toWorker) \in DOMAIN r /\ toWorker'[i] = r[i - Len(toWorker)]
        /\ \A i \in DOMAIN toWorker : i \in DOMAIN toWorker' /\ toWorker'[i] = toWorker[i]
        /\ Freeing' = Freeing \cup {r[i].matcher : i \in {i \in DOMAIN r : r[i].type = "freeMatcher"}}
    BY <2>1, <2>3, PostedPlaces
  <2>5. Freeing' = Freeing \cup {f}
    BY <2>3, <2>4 DEF FreeMatcher
  <2>6. \A i \in DOMAIN toWorker' :
           \/ i \in DOMAIN toWorker /\ toWorker'[i] = toWorker[i]
           \/ toWorker'[i].type = "freeMatcher"
    BY <2>3, <2>4 DEF FreeMatcher
  <2>7. AppTypeOK'
    BY <1>1, <1>2, <2>1 DEF AppInv, AppTypeOK
  <2>8. OneWorker'
    BY <1>1, <2>6 DEF AppInv, OneWorker
  <2>9. NoUseAfterFree'
    <3>1. \A i \in DOMAIN r : r[i].type # "request"
      BY <2>3 DEF FreeMatcher
    <3> QED
      BY <1>1, <2>1, <2>3, <3>1, NoUseAfterPost
  <2>10. ArrivingHeld'
    <3>1. \A i \in DOMAIN toClient' : Brings(toClient'[i]) => toClient'[i].answer.matcher # f
      BY <1>3, <2>2 DEF AppInv, ArrivingHeld, OneArrival, f
    <3>2. \A i \in DOMAIN toClient' : Brings(toClient'[i]) =>
             /\ compiling[toClient'[i].id] # 0 /\ toClient'[i].answer.matcher \in DOMAIN matchers
             /\ toClient'[i].answer.matcher \notin Freeing'
      BY <1>3, <2>5, <3>1 DEF AppInv, ArrivingHeld, Held
    <3>3. f < nextMatcherID
      BY <1>4, <2>2, AppFacts DEF f, Held
    <3> QED
      BY <1>1, <1>3, <2>5, <3>2, <3>3 DEF AppInv, ArrivingHeld, Held
  <2>11. CurrentHeld'
    BY <1>4, <2>1, <2>2 DEF CurrentHeld
  <2>12. MatchersHeld'
    BY <1>1, <1>3, <2>1, <2>5 DEF AppInv, MatchersHeld, f
  <2> QED
    BY <1>2, <2>7, <2>8, <2>9, <2>10, <2>11, <2>12 DEF AppInv
<1>7. CASE ~Brings(m)
  <2>1. /\ UNCHANGED <<matcherId, matchTimer>> /\ toWorker' = toWorker
        /\ UNCHANGED isCompiling \/ isCompiling' = FALSE
    BY <1>7, AnswerEffect
  <2> HIDE DEF m
  <2>2. AppTypeOK'
    BY <1>1, <1>2, <2>1 DEF AppInv, AppTypeOK
  <2>3. OneWorker' /\ NoUseAfterFree' /\ Freeing' = Freeing
    BY <1>1, <2>1 DEF AppInv, OneWorker, NoUseAfterFree, Freeing
  <2>4. ArrivingHeld'
    BY <1>1, <1>3, <2>3 DEF AppInv, ArrivingHeld, Held
  <2>5. CurrentHeld'
    <3>1. \A x : Compiling(x)' <=> Compiling(x)
      BY <1>1 DEF Compiling
    <3>2. matcherId # 0 => /\ \A i \in DOMAIN toWorker : ~Compiling(toWorker[i])
                           /\ \A i \in DOMAIN toClient' : ~Compiling(toClient'[i])
      BY <1>3 DEF AppInv, CurrentHeld
    <3> QED
      BY <1>1, <2>1, <2>3, <3>1, <3>2 DEF AppInv, CurrentHeld, Held
  <2>6. MatchersHeld'
    BY <1>1, <1>3, <1>7, <2>1, <2>3 DEF AppInv, MatchersHeld
  <2> QED
    BY <1>2, <2>2, <2>3, <2>4, <2>5, <2>6 DEF AppInv
<1> QED
  BY <1>5, <1>6, <1>7 DEF LatestArrives, StaleArrives

LEMMA StartKeeps ==
    ASSUME AppInv, Start
    PROVE  AppInv'
<1>1. /\ worker = 0 /\ worker' = created' /\ worker' = 0 + 1 /\ toWorker' = <<InitMessage>>
      /\ UNCHANGED <<readyPromise, calls, nextRequestId, pending, toClient, inWorker>>
      /\ UNCHANGED app /\ StartWorker
  BY DEF Start, StartWorker
<1>2. IInv' /\ toClient = <<>> /\ matchers = <<>> /\ runtime = "off"
  BY <1>1, StartWorkerKeeps DEF AppInv, IInv, NothingWithoutWorker
<1>3. UNCHANGED <<toClient, runtime, matchers, nextMatcherID>>
  BY <1>1 DEF inWorker
<1>4. AppTypeOK' /\ CompilationsInOrder'
  BY <1>1 DEF AppInv, AppTypeOK, CompilationsInOrder, app
<1>5. IdleWithoutClient'
  BY <1>1 DEF AppInv, IdleWithoutClient, HaveClient, app
<1>6. DOMAIN toWorker' = {1} /\ toWorker'[1].type = "init" /\ DOMAIN toClient = {} /\ DOMAIN matchers = {}
  BY <1>1, <1>2 DEF InitMessage
<1>7. OneWorker'
  BY <1>1, <1>2, <1>3, <1>6 DEF OneWorker
<1>8. Freeing' = {}
  BY <1>6 DEF Freeing
<1>9. ArrivingHeld' /\ MatchersHeld' /\ NoUseAfterFree'
  BY <1>3, <1>6, <1>8 DEF ArrivingHeld, OneArrival, MatchersHeld, NoUseAfterFree
<1>10. CurrentHeld'
  <2>1. matcherId = 0 /\ matchTimer = NoTimer
    BY <1>1 DEF AppInv, IdleWithoutClient
  <2> QED
    BY <1>1, <2>1 DEF CurrentHeld, app
<1> QED
  BY <1>2, <1>4, <1>5, <1>7, <1>9, <1>10 DEF AppInv
-----------------------------------------------------------------------------
(***************************************************************************)
(* The theorems                                                            *)
(***************************************************************************)
LEMMA AppStepKeeps ==
    ASSUME AppInv, [AppNext]_pvars
    PROVE  AppInv'
<1>1. CASE Start
  BY <1>1, StartKeeps
<1>2. CASE EditProject \/ SelectExample
  BY <1>2, EditProjectKeeps
<1>3. CASE EditInput
  BY <1>3, EditInputKeeps
<1>4. CASE CompileTimeout
  BY <1>4, CompileTimeoutKeeps
<1>5. CASE MatchTimeout
  BY <1>5, MatchTimeoutKeeps
<1>6. CASE ClientAnswers
  BY <1>6, ClientAnswersKeeps
<1>7. CASE ClientLearns
  BY <1>7, ClientLearnsKeeps
<1>8. CASE Unmount
  BY <1>8, UnmountKeeps
<1>9. CASE WorkerSteps /\ UNCHANGED app
  BY <1>9, AppWorkerHandlesKeeps, InitSteps, AppStartsKeeps, AppReportsKeeps DEF WorkerSteps
<1>10. CASE UNCHANGED pvars
  <2>1. /\ UNCHANGED <<wvars, compiling, matcherId, mounted>> /\ UNCHANGED app
    BY <1>10 DEF pvars, app
  <2>2. AppTypeOK'
    BY <2>1 DEF AppInv, AppTypeOK, app, wvars, client
  <2> QED
    BY <2>1, <2>2, EditKeeps
       DEF app, AppInv, IdleWithoutClient, CompilationsInOrder, CurrentHeld
<1> QED
  BY <1>1, <1>2, <1>3, <1>4, <1>5, <1>6, <1>7, <1>8, <1>9, <1>10 DEF AppNext

\* Every state of the playground satisfies the inductive invariant.
THEOREM AppInvariant == AppSpec => []AppInv
<1>1. Init => AppInv
  BY AppInitKeeps
<1>2. AppInv /\ [AppNext]_pvars => AppInv'
  BY AppStepKeeps
<1> QED
  BY <1>1, <1>2, PTL DEF AppSpec

\* No matcher is forgotten in the worker while the application is mounted (the
\* compile effect of App.tsx and its cleanup).
THEOREM NoneForgotten == AppSpec => []MatchersHeld
<1>1. AppInv => MatchersHeld
  BY DEF AppInv
<1> QED
  BY <1>1, AppInvariant, PTL

\* No match is asked for with a matcher that was freed (the match effect of
\* App.tsx).
THEOREM NoneUsedAfterFree == AppSpec => []NoUseAfterFree
<1>1. AppInv => NoUseAfterFree
  BY DEF AppInv
<1> QED
  BY <1>1, AppInvariant, PTL
-----------------------------------------------------------------------------
(***************************************************************************)
(* What is underway between the application and its worker, without its    *)
(* places: the ids tell the order.  Every message is about a version of    *)
(* the project, that of the matcher it asks or brings, and every match     *)
(* about a version of the input.                                           *)
(***************************************************************************)
Messages(q) == {q[i] : i \in Numbered(q)}
Line == Messages(toClient) \cup Messages(toWorker)

Asks(x, what) == x.type = "request" /\ x.op.type = what
Found(x) == x.type = "answer" /\ x.answer.type = "matched"
Matches(x) == Asks(x, "match") \/ Found(x)
Fails(x) == x.type = "answer" /\ x.answer = Failed
GrammarOf(x) ==
    CASE Asks(x, "compile") -> x.op.grammar
      [] Asks(x, "match") -> matchers[x.op.matcher]
      [] Brings(x) -> matchers[x.answer.matcher]
      [] Found(x) -> x.answer.grammar
InputOf(x) == IF Asks(x, "match") THEN x.op.input ELSE x.answer.input

\* Only compilations of what does not compile fail.
UpWhenReady ==
    /\ HaveClient => runtime = "up"
    /\ \A i \in DOMAIN toClient : toClient[i].type = "ready" => runtime = "up"
OnlyInvalidFail == \A x \in Line :
    /\ Asks(x, "compile") \/ Brings(x) \/ Fails(x) => compiling[x.id] # 0
    /\ Matches(x) => compiling[x.id] = 0
    /\ Asks(x, "compile") \/ Brings(x) \/ Matches(x) \/ Fails(x)
    /\ Fails(x) => calls[x.id].op.grammar \notin Valid
    /\ Brings(x) => GrammarOf(x) = calls[x.id].op.grammar /\ calls[x.id].op.grammar \in Valid

\* Versions do not go back along the line, and no match follows a compilation.
Precedes(x, y) ==
    /\ ~Fails(x) /\ ~Fails(y) => GrammarOf(x) <= GrammarOf(y)
    /\ Matches(x) /\ Matches(y) => InputOf(x) <= InputOf(y)
    /\ compiling[x.id] # 0 => compiling[y.id] # 0
LineInOrder == \A x, y \in Line : x.id < y.id => Precedes(x, y)

\* They lie between those of the result and those the application has.
Between(x) ==
    /\ ~Fails(x) =>
          /\ GrammarOf(x) \in result.grammar..project
          /\ matcherId # 0 => GrammarOf(x) <= matchers[matcherId]
    /\ Matches(x) => InputOf(x) \in result.input..input
LineBetween ==
    /\ result.grammar \in 0..project /\ result.input \in 0..input
    /\ matcherId # 0 => matchers[matcherId] \in result.grammar..project
    /\ matchTimer # NoTimer => matchTimer.input = input
    /\ \A x \in Line : Between(x)

\* The latest project is to be compiled, or has been and the latest input is to be
\* matched, or what the page shows is current.
Compiles(x) ==
    /\ x.id \in DOMAIN calls /\ compiling[x.id] = compileSeq /\ compileSeq # 0
    /\ calls[x.id].op.grammar = project
IsMatched ==
    \/ matchTimer # NoTimer
    \/ \E x \in Line : Matches(x) /\ GrammarOf(x) = project /\ InputOf(x) = input
    \/ result = [grammar |-> project, input |-> input] /\ ~outputError
UpToDate ==
    mounted /\ HaveClient =>
        \/ compileTimer # 0
        \/ \E x \in Line : Compiles(x)
        \/ /\ project \in Valid /\ matcherId # 0 /\ matchers[matcherId] = project /\ ~isCompiling
           /\ IsMatched
        \/ /\ project \notin Valid /\ matcherId = 0 /\ ~isCompiling
           /\ Line = {} /\ result = Nothing /\ outputError

LineInv == UpWhenReady /\ OnlyInvalidFail /\ LineInOrder /\ LineBetween /\ UpToDate

LEMMA MessagesNamed == \A q, x : x \in Messages(q) <=> x \in Named(q, x.id)
BY DEF Messages, Named

LEMMA MessagesTail ==
    ASSUME NEW M, NEW q \in Seq(M), q # <<>>
    PROVE  Messages(q) = Messages(Tail(q)) \cup (IF 1 \in Numbered(q) THEN {Head(q)} ELSE {})
<1> DEFINE t == Tail(q)
           h == Head(q)
<1>1. \A id : Named(q, id) = Named(t, id) \cup (IF 1 \in Numbered(q) /\ h.id = id THEN {h} ELSE {})
  BY NamedTail
<1> HIDE DEF t, h
<1> QED
  BY <1>1, MessagesNamed DEF t, h

LEMMA MessagesJoined ==
    ASSUME NEW M, NEW q \in Seq(M), NEW r \in Seq(M)
    PROVE  Messages(q \o r) = Messages(q) \cup Messages(r)
<1> DEFINE s == q \o r
<1>1. \A id : Named(s, id) = Named(q, id) \cup Named(r, id)
  BY NamedJoined
<1> HIDE DEF s
<1> QED
  BY <1>1, MessagesNamed DEF s

LEMMA MessagesAppend ==
    ASSUME NEW M, NEW q \in Seq(M), NEW m \in M
    PROVE  Messages(Append(q, m)) = Messages(q) \cup (IF m.type \in {"request", "answer"} THEN {m} ELSE {})
<1> DEFINE s == Append(q, m)
<1>1. \A id : Named(s, id) = Named(q, id) \cup
                (IF m.type \in {"request", "answer"} /\ m.id = id THEN {m} ELSE {})
  BY NamedAppend
<1> HIDE DEF s
<1> QED
  BY <1>1, MessagesNamed DEF s

\* What the invariant says of a message underway.
LEMMA LineFacts ==
    ASSUME AppInv
    PROVE  /\ \A x \in Line : /\ x.type \in {"request", "answer"} /\ x.id \in DOMAIN calls
                              /\ x.id \in Nat /\ x.id < nextRequestId
                              /\ calls[x.id].stage = "sent"
                              /\ x.type = "request" =>
                                    /\ x \in [type : {"request"}, id : 1..MaxCalls, op : Op]
                                    /\ x.op = calls[x.id].op
                              /\ x.type = "answer" =>
                                    x \in [type : {"answer"}, id : 1..MaxCalls, answer : Outcome]
                              /\ Asks(x, "match") => x.op.matcher \in DOMAIN matchers
                              /\ Brings(x) => x.answer.matcher \in DOMAIN matchers
                              /\ matcherId # 0 => compiling[x.id] = 0
           /\ \A m \in DOMAIN matchers : matchers[m] \in 1..LastProject
           /\ matcherId # 0 => matcherId \in DOMAIN matchers
           /\ Line # {} => HaveClient
           /\ project \in 1..LastProject /\ input \in 1..LastInput
<1>1. \A i \in Numbered(toClient) :
         /\ i \in DOMAIN toClient /\ toClient[i].type \in {"request", "answer"}
         /\ toClient[i] \in ToClient /\ toClient[i].id \in DOMAIN calls
         /\ calls[toClient[i].id].stage = "sent"
  BY AppFacts DEF Numbered, AppInv, IInv, QueuesFollowCalls, OfSent
<1>2. \A i \in Numbered(toWorker) :
         /\ i \in DOMAIN toWorker /\ toWorker[i].type \in {"request", "answer"}
         /\ toWorker[i] \in ToWorker /\ toWorker[i].id \in DOMAIN calls
         /\ toWorker[i].op = calls[toWorker[i].id].op
         /\ calls[toWorker[i].id].stage = "sent"
  BY AppFacts DEF Numbered, AppInv, IInv, QueuesFollowCalls, OfSent
<1>3. \A m \in DOMAIN matchers : matchers[m] \in 1..LastProject
  BY VersionsAssumption DEF AppInv, IInv, TypeOK
<1>4. ASSUME NEW x \in Line
      PROVE  /\ x.type \in {"request", "answer"} /\ x.id \in DOMAIN calls
             /\ calls[x.id].stage = "sent"
             /\ x.type = "request" =>
                   /\ x \in [type : {"request"}, id : 1..MaxCalls, op : Op]
                   /\ x.op = calls[x.id].op
             /\ x.type = "answer" =>
                   x \in [type : {"answer"}, id : 1..MaxCalls, answer : Outcome]
             /\ Asks(x, "match") => x.op.matcher \in DOMAIN matchers
             /\ Brings(x) => x.answer.matcher \in DOMAIN matchers
             /\ matcherId # 0 => compiling[x.id] = 0
  <2>1. CASE x \in Messages(toClient)
    <3>1. PICK i \in Numbered(toClient) : x = toClient[i]
      BY <2>1 DEF Messages
    <3>2. x \in [type : {"answer"}, id : 1..MaxCalls, answer : Outcome]
      BY <1>1, <3>1 DEF ToClient
    <3>3. Brings(x) => x.answer.matcher \in DOMAIN matchers
      BY <1>1, <3>1 DEF AppInv, ArrivingHeld, Held
    <3>4. matcherId # 0 => compiling[x.id] = 0
      BY <1>1, <3>1 DEF AppInv, CurrentHeld, Compiling
    <3> QED
      BY <1>1, <3>1, <3>2, <3>3, <3>4 DEF Asks
  <2>2. CASE x \in Messages(toWorker)
    <3>1. PICK i \in Numbered(toWorker) : x = toWorker[i]
      BY <2>2 DEF Messages
    <3>2. x \in [type : {"request"}, id : 1..MaxCalls, op : Op]
      BY <1>2, <3>1 DEF ToWorker
    <3>3. Asks(x, "match") => x.op.matcher \in DOMAIN matchers
      BY <1>2, <3>1 DEF AppInv, NoUseAfterFree, Asks
    <3>4. matcherId # 0 => compiling[x.id] = 0
      BY <1>2, <3>1 DEF AppInv, CurrentHeld, Compiling
    <3> QED
      BY <1>2, <3>1, <3>2, <3>3, <3>4 DEF Brings
  <2> QED
    BY <2>1, <2>2 DEF Line
<1>5. ASSUME NEW x \in Line
      PROVE  HaveClient /\ x.id \in Nat /\ x.id < nextRequestId
  <2>1. x.id \in DOMAIN calls /\ calls[x.id].stage = "sent"
    BY <1>4
  <2>2. readyPromise = "resolved" /\ x.id < nextRequestId
    BY <2>1, CallOfId DEF AppInv
  <2>3. DOMAIN calls = 1..Len(calls) /\ Len(calls) \in Nat
    BY AppFacts
  <2> QED
    BY <2>1, <2>2, <2>3 DEF HaveClient
<1>6. matcherId # 0 => matcherId \in DOMAIN matchers
  BY DEF AppInv, CurrentHeld, Held
<1> QED
  BY <1>3, <1>4, <1>5, <1>6 DEF AppInv, AppTypeOK

\* Every matcher that is asked or brought is held, in every state.
LineHeld ==
    /\ \A x \in Line : /\ Asks(x, "match") => x.op.matcher \in DOMAIN matchers
                       /\ Brings(x) => x.answer.matcher \in DOMAIN matchers
    /\ matcherId # 0 => matcherId \in DOMAIN matchers
LEMMA LineIsHeld == AppInv => LineHeld
BY LineFacts DEF LineHeld

LEMMA LineHeldNext == AppInv' => LineHeld'
BY LineIsHeld, PTL

LEMMA GrammarsKept ==
    ASSUME AppInv, AppInv', OnlyInvalidFail,
           \A m \in DOMAIN matchers : m \in DOMAIN matchers' => matchers'[m] = matchers[m]
    PROVE  /\ \A x \in Line : x \in Line' /\ ~Fails(x) => GrammarOf(x)' = GrammarOf(x)
           /\ matcherId # 0 /\ matcherId' = matcherId =>
                 matchers'[matcherId] = matchers[matcherId]
<1>1. ASSUME NEW x \in Line, x \in Line', ~Fails(x)
      PROVE  GrammarOf(x)' = GrammarOf(x)
  <2>1. /\ Asks(x, "match") => x.op.matcher \in DOMAIN matchers
        /\ Brings(x) => x.answer.matcher \in DOMAIN matchers
    BY LineFacts
  <2>2. /\ Asks(x, "match") => x.op.matcher \in DOMAIN matchers'
        /\ Brings(x) => x.answer.matcher \in DOMAIN matchers'
    BY <1>1, LineHeldNext DEF LineHeld
  <2>3. Asks(x, "compile") \/ Asks(x, "match") \/ Brings(x) \/ Found(x)
    BY <1>1 DEF OnlyInvalidFail, Matches
  <2> QED
    BY <2>1, <2>2, <2>3 DEF GrammarOf, Asks, Brings, Found
<1>2. ASSUME matcherId # 0, matcherId' = matcherId
      PROVE  matchers'[matcherId] = matchers[matcherId]
  BY <1>2, LineFacts, LineHeldNext DEF LineHeld
<1> QED
  BY <1>1, <1>2

\* A line that gets no new message, of calls that are what they were.
SameCalls == \A x \in Line : /\ compiling'[x.id] = compiling[x.id]
                             /\ calls'[x.id].op = calls[x.id].op
LEMMA ShorterLine ==
    ASSUME AppInv, AppInv', OnlyInvalidFail, LineInOrder, Line' \subseteq Line, SameCalls,
           \A m \in DOMAIN matchers : m \in DOMAIN matchers' => matchers'[m] = matchers[m]
    PROVE  OnlyInvalidFail' /\ LineInOrder'
<1>1. \A x \in Line' : ~Fails(x) => GrammarOf(x)' = GrammarOf(x)
  BY GrammarsKept
<1>2. OnlyInvalidFail'
  <2> SUFFICES ASSUME NEW x \in Line'
               PROVE  /\ Asks(x, "compile") \/ Brings(x) \/ Fails(x) => compiling'[x.id] # 0
                      /\ Matches(x) => compiling'[x.id] = 0
                      /\ Asks(x, "compile") \/ Brings(x) \/ Matches(x) \/ Fails(x)
                      /\ Fails(x) => calls'[x.id].op.grammar \notin Valid
                      /\ Brings(x) => GrammarOf(x)' = calls'[x.id].op.grammar /\ calls'[x.id].op.grammar \in Valid
    BY DEF OnlyInvalidFail
  <2>1. x \in Line /\ compiling'[x.id] = compiling[x.id] /\ calls'[x.id].op = calls[x.id].op
    BY DEF SameCalls
  <2>2. Brings(x) => ~Fails(x)
    BY DEF Brings, Fails, Failed, Service!Failed
  <2> QED
    BY <1>1, <2>1, <2>2 DEF OnlyInvalidFail
<1>3. LineInOrder'
  <2> SUFFICES ASSUME NEW x \in Line', NEW y \in Line', x.id < y.id
               PROVE  /\ ~Fails(x) /\ ~Fails(y) => GrammarOf(x)' <= GrammarOf(y)'
                      /\ Matches(x) /\ Matches(y) => InputOf(x) <= InputOf(y)
                      /\ compiling'[x.id] # 0 => compiling'[y.id] # 0
    BY DEF LineInOrder, Precedes
  <2>1. Precedes(x, y)
    BY DEF LineInOrder
  <2>2. compiling'[x.id] = compiling[x.id] /\ compiling'[y.id] = compiling[y.id]
    BY DEF SameCalls
  <2> QED
    BY <1>1, <2>1, <2>2 DEF Precedes
<1> QED
  BY <1>2, <1>3

\* The result stays, and so does the matcher or it is given up; versions advance.
LEMMA BetweenStays ==
    ASSUME AppInv, AppInv', OnlyInvalidFail, LineBetween, Line' \subseteq Line,
           \A m \in DOMAIN matchers : m \in DOMAIN matchers' => matchers'[m] = matchers[m],
           result' = result, project <= project', input <= input',
           matcherId' = matcherId \/ matcherId' = 0,
           matchTimer' # NoTimer => matchTimer'.input = input'
    PROVE  LineBetween'
<1>1. /\ result.grammar \in 0..project /\ result.input \in 0..input
      /\ matcherId # 0 => matchers[matcherId] \in result.grammar..project
      /\ \A x \in Line : Between(x)
  BY DEF LineBetween
<1>2. /\ project \in Nat /\ input \in Nat /\ project' \in Nat /\ input' \in Nat
  BY VersionsAssumption DEF AppInv, AppTypeOK
<1>3. /\ \A x \in Line' : ~Fails(x) => GrammarOf(x)' = GrammarOf(x)
      /\ matcherId' # 0 => matchers'[matcherId'] = matchers[matcherId] /\ matcherId # 0
  BY GrammarsKept
<1>4. ASSUME NEW x \in Line'
      PROVE  Between(x)'
  <2>1. Between(x)
    BY <1>1
  <2>2. ASSUME ~Fails(x)
        PROVE  /\ GrammarOf(x)' \in result'.grammar..project'
               /\ matcherId' # 0 => GrammarOf(x)' <= matchers'[matcherId']
    <3>1. /\ GrammarOf(x) \in result.grammar..project
          /\ matcherId # 0 => GrammarOf(x) <= matchers[matcherId]
      BY <2>1, <2>2 DEF Between
    <3> QED
      BY <1>1, <1>2, <1>3, <2>2, <3>1
  <2>3. ASSUME Matches(x)
        PROVE  InputOf(x) \in result'.input..input'
    <3>1. InputOf(x) \in result.input..input
      BY <2>1, <2>3 DEF Between
    <3> QED
      BY <1>1, <1>2, <3>1
  <2> QED
    BY <2>2, <2>3 DEF Between
<1>5. result'.grammar \in 0..project' /\ result'.input \in 0..input'
  BY <1>1, <1>2
<1>6. matcherId' # 0 => matchers'[matcherId'] \in result'.grammar..project'
  BY <1>1, <1>2, <1>3
<1> QED
  BY <1>4, <1>5, <1>6 DEF LineBetween

\* A new call is about the latest versions.
LEMMA LineGrows ==
    ASSUME AppInv, AppInv', OnlyInvalidFail, LineInOrder, LineBetween, SameCalls,
           NEW y, Line' = Line \cup {y}, y.id \in Nat, \A x \in Line : x.id < y.id,
           matchers' = matchers, UNCHANGED <<project, input, result>>, matchTimer' = NoTimer,
           calls'[y.id].op = y.op,
           \/ /\ Asks(y, "compile") /\ compiling'[y.id] # 0 /\ y.op.grammar = project
              /\ matcherId' = 0
           \/ /\ Asks(y, "match") /\ compiling'[y.id] = 0 /\ y.op.matcher = matcherId
              /\ y.op.input = input /\ matcherId # 0 /\ matcherId' = matcherId
    PROVE  OnlyInvalidFail' /\ LineInOrder' /\ LineBetween' /\ ~Fails(y)
<1>1. \A x \in Line : /\ ~Fails(x) => GrammarOf(x)' = GrammarOf(x)
                      /\ compiling'[x.id] = compiling[x.id] /\ calls'[x.id].op = calls[x.id].op
  BY GrammarsKept DEF SameCalls
<1>2. ~Fails(y) /\ ~Brings(y) /\ ~Found(y)
  BY DEF Fails, Brings, Found, Asks
<1>3. /\ Asks(y, "compile") => GrammarOf(y)' = project /\ ~Matches(y)
      /\ Asks(y, "match") => GrammarOf(y)' = matchers[matcherId] /\ InputOf(y) = input /\ Matches(y)
  BY <1>2 DEF GrammarOf, InputOf, Matches, Asks
<1>4. /\ project \in Nat /\ input \in Nat /\ result.grammar \in 0..project /\ result.input \in 0..input
      /\ matcherId # 0 => matchers[matcherId] \in result.grammar..project
      /\ \A x \in Line : Between(x)
      /\ matcherId # 0 => \A x \in Line : compiling[x.id] = 0
  BY LineFacts, VersionsAssumption DEF LineBetween
<1>5. OnlyInvalidFail'
  <2>1. ASSUME NEW x \in Line
        PROVE  /\ Asks(x, "compile") \/ Brings(x) \/ Fails(x) => compiling'[x.id] # 0
               /\ Matches(x) => compiling'[x.id] = 0
               /\ Asks(x, "compile") \/ Brings(x) \/ Matches(x) \/ Fails(x)
               /\ Fails(x) => calls'[x.id].op.grammar \notin Valid
               /\ Brings(x) => GrammarOf(x)' = calls'[x.id].op.grammar /\ calls'[x.id].op.grammar \in Valid
    <3>1. Brings(x) => ~Fails(x)
      BY DEF Brings, Fails, Failed, Service!Failed
    <3> QED
      BY <1>1, <3>1 DEF OnlyInvalidFail
  <2>2. /\ Asks(y, "compile") => compiling'[y.id] # 0
        /\ Matches(y) => compiling'[y.id] = 0
        /\ Asks(y, "compile") \/ Matches(y)
    BY <1>2 DEF Matches, Asks
  <2> QED
    BY <1>2, <2>1, <2>2 DEF OnlyInvalidFail
<1>6. ASSUME NEW x \in Line, ~Fails(x)
      PROVE  /\ GrammarOf(x) \in Nat /\ GrammarOf(x) \in result.grammar..project
             /\ matcherId # 0 => GrammarOf(x) <= matchers[matcherId]
  BY <1>4, <1>6 DEF Between
<1>7. ASSUME NEW x \in Line, Matches(x)
      PROVE  InputOf(x) \in result.input..input /\ InputOf(x) <= input
  BY <1>4, <1>7 DEF Between
<1>8. LineInOrder'
  <2> SUFFICES ASSUME NEW x \in Line', NEW z \in Line', x.id < z.id
               PROVE  /\ ~Fails(x) /\ ~Fails(z) => GrammarOf(x)' <= GrammarOf(z)'
                      /\ Matches(x) /\ Matches(z) => InputOf(x) <= InputOf(z)
                      /\ compiling'[x.id] # 0 => compiling'[z.id] # 0
    BY DEF LineInOrder, Precedes
  <2>1. x \in Line
    <3>1. \A n \in Nat : ~(n < n)
      OBVIOUS
    <3>2. \A u \in Line : u.id \in Nat
      BY LineFacts
    <3>3. \A u \in Line : ~(y.id < u.id)
      BY <3>2
    <3> QED
      BY <3>1, <3>3
  <2>2. CASE z \in Line
    <3>1. Precedes(x, z)
      BY <2>1, <2>2 DEF LineInOrder
    <3> QED
      BY <1>1, <2>1, <2>2, <3>1 DEF Precedes
  <2>3. CASE z = y
    <3>1. ~Fails(x) => GrammarOf(x)' <= GrammarOf(y)'
      BY <1>1, <1>3, <1>6, <2>1
    <3>2. Matches(x) /\ Matches(y) => InputOf(x) <= InputOf(y)
      BY <1>3, <1>7, <2>1
    <3>3. compiling'[x.id] # 0 => compiling'[y.id] # 0
      BY <1>1, <1>4, <2>1
    <3> QED
      BY <2>3, <3>1, <3>2, <3>3
  <2> QED
    BY <2>2, <2>3
<1>9. LineBetween'
  <2>1. ASSUME NEW x \in Line
        PROVE  Between(x)'
    BY <1>1, <1>4, <2>1 DEF Between
  <2>2. Between(y)'
    BY <1>3, <1>4 DEF Between
  <2>3. matcherId' # 0 => matcherId # 0 /\ matcherId' = matcherId
    OBVIOUS
  <2> QED
    BY <1>4, <2>1, <2>2, <2>3 DEF LineBetween
<1> QED
  BY <1>2, <1>5, <1>8, <1>9

\* A request that is carried out becomes its answer, about the same versions.
LEMMA LineMoves ==
    ASSUME AppInv, AppInv', OnlyInvalidFail, LineInOrder, LineBetween,
           NEW m \in Line, NEW z, z.id = m.id, Line' = (Line \ {m}) \cup {z},
           UNCHANGED app, calls' = calls,
           \A n \in DOMAIN matchers : n \in DOMAIN matchers' => matchers'[n] = matchers[n],
           ~Fails(m),
           \/ Fails(z) /\ ~Matches(z) /\ ~Asks(z, "compile") /\ ~Brings(z)
              /\ compiling[m.id] # 0 /\ calls[m.id].op.grammar \notin Valid
           \/ ~Fails(z) /\ Matches(m) /\ Matches(z) /\ InputOf(z) = InputOf(m)
              /\ GrammarOf(z)' = GrammarOf(m) /\ ~Asks(z, "compile") /\ ~Brings(z)
           \/ ~Fails(z) /\ ~Matches(z) /\ Brings(z) /\ compiling[m.id] # 0
              /\ GrammarOf(z)' = GrammarOf(m) /\ GrammarOf(m) = calls[m.id].op.grammar
              /\ calls[m.id].op.grammar \in Valid
    PROVE  OnlyInvalidFail' /\ LineInOrder' /\ LineBetween'
<1>1. \A x \in Line : ~Fails(x) /\ x \in Line' => GrammarOf(x)' = GrammarOf(x)
  BY GrammarsKept
<1>2. /\ ~Fails(z) => GrammarOf(z)' = GrammarOf(m)
      /\ Matches(z) => Matches(m) /\ InputOf(z) = InputOf(m)
  OBVIOUS
<1>3. UNCHANGED <<project, input, matcherId, matchTimer, compiling, result>>
  BY DEF app
<1>4. \A x \in Line : x.id \in Nat
  BY LineFacts
<1>5. OnlyInvalidFail'
  <2>1. ASSUME NEW x \in Line, x \in Line'
        PROVE  /\ Asks(x, "compile") \/ Brings(x) \/ Fails(x) => compiling[x.id] # 0
               /\ Matches(x) => compiling[x.id] = 0
               /\ Asks(x, "compile") \/ Brings(x) \/ Matches(x) \/ Fails(x)
               /\ Fails(x) => calls[x.id].op.grammar \notin Valid
               /\ Brings(x) => GrammarOf(x)' = calls[x.id].op.grammar /\ calls[x.id].op.grammar \in Valid
    <3>1. Brings(x) => ~Fails(x)
      BY DEF Brings, Fails, Failed, Service!Failed
    <3> QED
      BY <1>1, <2>1, <3>1 DEF OnlyInvalidFail
  <2>2. /\ Asks(z, "compile") \/ Brings(z) \/ Fails(z) => compiling[z.id] # 0
        /\ Matches(z) => compiling[z.id] = 0
        /\ Asks(z, "compile") \/ Brings(z) \/ Matches(z) \/ Fails(z)
        /\ Fails(z) => calls[z.id].op.grammar \notin Valid
        /\ Brings(z) => GrammarOf(z)' = calls[z.id].op.grammar /\ calls[z.id].op.grammar \in Valid
    BY DEF OnlyInvalidFail
  <2>3. \A x \in Line' : (x \in Line /\ x \in Line') \/ x = z
    OBVIOUS
  <2> QED
    BY <1>3, <2>1, <2>2, <2>3 DEF OnlyInvalidFail
\* The message of the old line that a message of the new one is about.
<1> DEFINE old(x) == IF x = z THEN m ELSE x
<1>6. \A x \in Line' : /\ old(x) \in Line /\ old(x).id = x.id
                       /\ ~Fails(x) => ~Fails(old(x)) /\ GrammarOf(x)' = GrammarOf(old(x))
                       /\ Matches(x) => Matches(old(x)) /\ InputOf(x) = InputOf(old(x))
  BY <1>1, <1>2
<1> HIDE DEF old
<1>7. LineInOrder'
  <2> SUFFICES ASSUME NEW x \in Line', NEW y \in Line', x.id < y.id
               PROVE  /\ ~Fails(x) /\ ~Fails(y) => GrammarOf(x)' <= GrammarOf(y)'
                      /\ Matches(x) /\ Matches(y) => InputOf(x) <= InputOf(y)
                      /\ compiling'[x.id] # 0 => compiling'[y.id] # 0
    BY DEF LineInOrder, Precedes
  <2>1. Precedes(old(x), old(y))
    BY <1>6 DEF LineInOrder
  <2> QED
    BY <1>3, <1>6, <2>1 DEF Precedes
<1>8. LineBetween'
  <2>1. ASSUME NEW x \in Line'
        PROVE  Between(x)'
    <3>1. Between(old(x))
      BY <1>6 DEF LineBetween
    <3>2. matcherId # 0 => matchers'[matcherId] = matchers[matcherId]
      BY <1>3, GrammarsKept
    <3> QED
      BY <1>3, <1>6, <3>1, <3>2 DEF Between
  <2>2. matcherId # 0 => matchers'[matcherId] = matchers[matcherId]
    BY <1>3, GrammarsKept
  <2> QED
    BY <1>3, <2>1, <2>2 DEF LineBetween
<1> QED
  BY <1>5, <1>7, <1>8

LEMMA LineStays ==
    ASSUME AppInv, AppInv', LineInv, Line' = Line, SameCalls,
           \A m \in DOMAIN matchers : m \in DOMAIN matchers' => matchers'[m] = matchers[m],
           result' = result, project <= project', input <= input',
           matcherId' = matcherId \/ matcherId' = 0,
           matchTimer' # NoTimer => matchTimer'.input = input'
    PROVE  OnlyInvalidFail' /\ LineInOrder' /\ LineBetween'
BY ShorterLine, BetweenStays DEF LineInv

\* What the application shows is as current as it was.
LEMMA UpToDateStays ==
    ASSUME AppInv, AppInv', LineInv, Line' = Line, SameCalls, DOMAIN calls \subseteq DOMAIN calls',
           \A m \in DOMAIN matchers : m \in DOMAIN matchers' => matchers'[m] = matchers[m],
           UNCHANGED <<project, input, compileSeq, isCompiling, compileTimer, matchTimer, matcherId,
                       result, outputError, mounted, readyPromise>>
    PROVE  UpToDate'
<1>1. /\ \A x \in Line : ~Fails(x) => GrammarOf(x)' = GrammarOf(x)
      /\ matcherId # 0 => matchers'[matcherId] = matchers[matcherId]
  BY GrammarsKept DEF LineInv
<1>2. \A x \in Line : Matches(x) => ~Fails(x)
  BY DEF Matches, Asks, Found, Fails, Failed, Service!Failed
<1>3. \A x \in Line : Compiles(x) => Compiles(x)'
  BY DEF Compiles, SameCalls
<1>4. IsMatched => IsMatched'
  BY <1>1, <1>2 DEF IsMatched
<1> QED
  BY <1>1, <1>3, <1>4 DEF LineInv, UpToDate, HaveClient

\* The compile effect has run: a compilation is timed.
LEMMA EditProjectAdvances ==
    ASSUME AppInv, AppInv', LineInv, EditProject \/ SelectExample
    PROVE  OnlyInvalidFail' /\ LineInOrder' /\ LineBetween' /\ UpToDate'
<1>1. /\ UNCHANGED <<wvars, compiling, matcherId, mounted, result>>
      /\ project <= project' /\ input <= input'
  BY VersionsAssumption DEF AppInv, AppTypeOK, EditProject, SelectExample
<1>2. /\ Line' = Line /\ SameCalls /\ UNCHANGED <<matchers, readyPromise, calls>>
      /\ HaveClient' = HaveClient
  BY <1>1 DEF Line, Messages, Numbered, SameCalls, wvars, client, inWorker, HaveClient
<1>3. /\ HaveClient => compileTimer' = compileSeq + 1 /\ matchTimer' = NoTimer
      /\ ~HaveClient => UNCHANGED matchTimer
  BY DEF EditProject, SelectExample, ScheduleCompile
<1>4. ~HaveClient => matchTimer = NoTimer
  BY DEF AppInv, IdleWithoutClient
<1>5. OnlyInvalidFail' /\ LineInOrder' /\ LineBetween'
  BY <1>1, <1>2, <1>3, <1>4, LineStays
<1>6. UpToDate'
  <2>1. HaveClient => compileTimer' # 0
    BY <1>3 DEF AppInv, AppTypeOK
  <2> QED
    BY <1>2, <2>1 DEF UpToDate
<1> QED
  BY <1>5, <1>6

\* The match effect has run: when there is a matcher, a match is timed.
LEMMA EditInputAdvances ==
    ASSUME AppInv, AppInv', LineInv, EditInput
    PROVE  OnlyInvalidFail' /\ LineInOrder' /\ LineBetween' /\ UpToDate'
<1>1. /\ UNCHANGED <<wvars, compiling, matcherId, mounted, result, project, compileSeq, compileTimer,
                     isCompiling>>
      /\ input' = input + 1 /\ input <= input' /\ project <= project'
      /\ HaveClient => MatchAfter(isCompiling, matcherId, input + 1)
      /\ ~HaveClient => UNCHANGED matchTimer
      /\ outputError' = IF isCompiling THEN FALSE ELSE outputError
  BY VersionsAssumption DEF AppInv, AppTypeOK, EditInput
<1>2. /\ Line' = Line /\ SameCalls /\ UNCHANGED <<matchers, readyPromise, calls>>
      /\ HaveClient' = HaveClient
  BY <1>1 DEF Line, Messages, Numbered, SameCalls, wvars, client, inWorker, HaveClient
<1>3. /\ ~HaveClient => matchTimer = NoTimer
      /\ isCompiling \in BOOLEAN /\ matcherId \in 0..MaxCalls /\ input + 1 \in 1..LastInput
  BY <1>1, VersionsAssumption DEF AppInv, AppTypeOK, IdleWithoutClient
<1>4. matchTimer' # NoTimer => matchTimer' = [matcher |-> matcherId, input |-> input + 1]
  BY <1>1, <1>3, MatchAfterGives
<1>5. OnlyInvalidFail' /\ LineInOrder' /\ LineBetween'
  BY <1>1, <1>2, <1>3, <1>4, LineStays
<1>6. UpToDate'
  <2> SUFFICES ASSUME mounted, HaveClient
               PROVE  UpToDate'
    BY <1>1, <1>2 DEF UpToDate
  <2>1. CASE compileTimer # 0
    BY <1>1, <2>1 DEF UpToDate
  <2>2. CASE \E x \in Line : Compiles(x)
    <3>1. \A x : Compiles(x) => Compiles(x)'
      BY <1>1, <1>2 DEF Compiles
    <3> QED
      BY <1>2, <2>2, <3>1 DEF UpToDate
  <2>3. CASE project \in Valid /\ matcherId # 0 /\ matchers[matcherId] = project /\ ~isCompiling
    <3>1. matchTimer' = [matcher |-> matcherId, input |-> input + 1]
      BY <1>1, <2>3 DEF MatchAfter
    <3>2. matchTimer' # NoTimer
      BY <2>3, <3>1 DEF NoTimer
    <3> QED
      BY <1>1, <1>2, <2>3, <3>2 DEF UpToDate, IsMatched
  <2>4. CASE project \notin Valid /\ matcherId = 0 /\ ~isCompiling /\ Line = {} /\ result = Nothing /\ outputError
    <3>1. outputError'
      BY <1>1, <2>4
    <3> QED
      BY <1>1, <1>2, <2>4, <3>1 DEF UpToDate
  <2> QED
    BY <2>1, <2>2, <2>3, <2>4 DEF LineInv, UpToDate
<1> QED
  BY <1>5, <1>6

\* Steps that touch no numbered message.
LEMMA StartAdvances ==
    ASSUME AppInv, AppInv', LineInv, Start
    PROVE  OnlyInvalidFail' /\ LineInOrder' /\ LineBetween' /\ UpToDate'
<1>1. /\ worker = 0 /\ toWorker' = <<InitMessage>> /\ UNCHANGED app
      /\ UNCHANGED <<readyPromise, calls, toClient, matchers>>
  BY DEF Start, StartWorker, inWorker
<1>2. toWorker = <<>>
  BY <1>1 DEF AppInv, IInv, NothingWithoutWorker
<1>3. Numbered(toWorker) = {} /\ Numbered(toWorker') = {}
  BY <1>1, <1>2 DEF Numbered, InitMessage
<1>4. Messages(toWorker) = {} /\ Messages(toWorker') = {} /\ Messages(toClient') = Messages(toClient)
  BY <1>1, <1>3 DEF Messages
<1>5. Line' = Line
  BY <1>4 DEF Line
<1>6. /\ UNCHANGED <<project, input, compileSeq, isCompiling, compileTimer, matchTimer, matcherId,
                     result, outputError, mounted, readyPromise>>
      /\ SameCalls /\ DOMAIN calls \subseteq DOMAIN calls'
  BY <1>1 DEF app, SameCalls
<1>7. project <= project' /\ input <= input' /\ (matchTimer' # NoTimer => matchTimer'.input = input')
  BY <1>6, VersionsAssumption DEF LineInv, LineBetween, AppInv, AppTypeOK
<1> QED
  BY <1>1, <1>5, <1>6, <1>7, LineStays, UpToDateStays

LEMMA UnmountAdvances ==
    ASSUME AppInv, AppInv', LineInv, Unmount
    PROVE  OnlyInvalidFail' /\ LineInOrder' /\ LineBetween' /\ UpToDate'
<1> DEFINE r == IF HaveClient THEN FreePrevious ELSE <<>>
<1>1. /\ mounted' = FALSE /\ matchTimer' = NoTimer /\ matcherId' = 0
      /\ toWorker' = toWorker \o r
      /\ UNCHANGED <<client, toClient, inWorker, project, input, compiling, result>>
  BY DEF Unmount, Post
<1>2. r \in Seq(ToWorker) /\ Numbered(r) = {}
  BY FreePreviousType, EmptyQueue
<1> HIDE DEF r
<1>3. Messages(toWorker') = Messages(toWorker)
  <2>1. toWorker \in Seq(ToWorker)
    BY AppFacts
  <2>2. Messages(toWorker \o r) = Messages(toWorker) \cup Messages(r)
    BY <1>2, <2>1, MessagesJoined
  <2>3. Messages(r) = {}
    BY <1>2 DEF Messages
  <2> QED
    BY <1>1, <2>2, <2>3
<1>4. Line' = Line
  BY <1>1, <1>3 DEF Line
<1>5. SameCalls /\ matchers' = matchers
  BY <1>1 DEF SameCalls, client, inWorker
<1>6. project <= project' /\ input <= input'
  BY <1>1, VersionsAssumption DEF AppInv, AppTypeOK
<1> QED
  BY <1>1, <1>4, <1>5, <1>6, LineStays DEF UpToDate

LEMMA InitAdvances ==
    ASSUME AppInv, AppInv', LineInv, InitLoads \/ InitEnds, UNCHANGED app
    PROVE  OnlyInvalidFail' /\ LineInOrder' /\ LineBetween' /\ UpToDate'
<1>1. UNCHANGED <<client, toWorker, matchers>>
  BY InitSteps DEF Starts, Reports
<1>2. Messages(toClient') = Messages(toClient)
  <2>1. CASE toClient' = toClient
    BY <2>1 DEF Messages, Numbered
  <2>2. PICK m \in {Ready, InitError} : toClient' = Append(toClient, m) \/ toClient' = toClient
    BY InitSteps DEF Starts, Reports
  <2>3. m \in ToClient /\ m.type \notin {"request", "answer"}
    BY DEF Ready, InitError, ToClient
  <2>4. toClient \in Seq(ToClient)
    BY AppFacts
  <2>5. Messages(Append(toClient, m)) =
           Messages(toClient) \cup (IF m.type \in {"request", "answer"} THEN {m} ELSE {})
    BY <2>3, <2>4, MessagesAppend
  <2>6. Messages(Append(toClient, m)) = Messages(toClient)
    BY <2>3, <2>5
  <2> QED
    BY <2>1, <2>2, <2>6
<1>3. Line' = Line
  BY <1>1, <1>2 DEF Line, Messages, Numbered
<1>4. /\ UNCHANGED <<project, input, compileSeq, isCompiling, compileTimer, matchTimer, matcherId,
                     result, outputError, mounted, readyPromise>>
      /\ SameCalls /\ DOMAIN calls \subseteq DOMAIN calls'
  BY <1>1 DEF app, client, SameCalls
<1>5. project <= project' /\ input <= input' /\ (matchTimer' # NoTimer => matchTimer'.input = input')
  BY <1>4, VersionsAssumption DEF LineInv, LineBetween, AppInv, AppTypeOK
<1> QED
  BY <1>1, <1>3, <1>4, <1>5, LineStays, UpToDateStays

LEMMA ClientLearnsAdvances ==
    ASSUME AppInv, AppInv', LineInv, ClientLearns
    PROVE  OnlyInvalidFail' /\ LineInOrder' /\ LineBetween' /\ UpToDate'
<1>1. /\ toClient # <<>> /\ toClient' = Tail(toClient) /\ Head(toClient).type # "answer"
      /\ UNCHANGED <<toWorker, calls, matchers>> /\ (HaveClient => HaveClient')
  BY Learns DEF ClientLearns
<1>2. /\ UNCHANGED <<project, input, matcherId, result, compiling, mounted>>
      /\ IF mounted /\ HaveClient' /\ ~HaveClient THEN ScheduleCompile
         ELSE UNCHANGED <<compileSeq, compileTimer, isCompiling, matchTimer, outputError>>
  BY DEF ClientLearns
<1>3. Messages(toClient') = Messages(toClient)
  <2>1. /\ toClient \in Seq(ToClient) /\ 1 \in DOMAIN toClient /\ toClient[1] = Head(toClient)
        /\ Head(toClient) \in ToClient
    BY <1>1, AppFacts, LearntPlaces
  <2>2. 1 \notin Numbered(toClient)
    BY <1>1, <2>1 DEF Numbered, ToClient
  <2>3. Messages(toClient) = Messages(Tail(toClient))
    BY <1>1, <2>1, <2>2, MessagesTail
  <2> QED
    BY <1>1, <2>3
<1>4. Line' = Line
  BY <1>1, <1>3 DEF Line, Messages, Numbered
<1>5. SameCalls
  BY <1>1, <1>2 DEF SameCalls
<1>6. /\ project <= project' /\ input <= input'
      /\ matchTimer' # NoTimer => matchTimer'.input = input'
  BY <1>2, VersionsAssumption DEF LineInv, LineBetween, AppInv, AppTypeOK, ScheduleCompile
<1>7. OnlyInvalidFail' /\ LineInOrder' /\ LineBetween'
  BY <1>1, <1>2, <1>4, <1>5, <1>6, LineStays
<1>8. CASE ~(mounted /\ HaveClient')
  BY <1>2, <1>7, <1>8 DEF UpToDate
<1>9. CASE mounted /\ HaveClient' /\ ~HaveClient
  <2>1. compileTimer' = compileSeq + 1 /\ compileSeq \in Nat
    BY <1>2, <1>9 DEF ScheduleCompile, AppInv, AppTypeOK
  <2>2. compileTimer' # 0
    BY <2>1
  <2> QED
    BY <1>7, <2>2 DEF UpToDate
<1>10. CASE mounted /\ HaveClient' /\ HaveClient
  <2>1. UNCHANGED <<project, input, compileSeq, isCompiling, compileTimer, matchTimer, matcherId,
                    result, outputError, mounted, readyPromise>>
    BY <1>2, <1>10 DEF HaveClient
  <2> QED
    BY <1>1, <1>4, <1>5, <1>7, <2>1, UpToDateStays
<1> QED
  BY <1>8, <1>9, <1>10

\* The worker takes a message that is no request.
LEMMA OtherMessageAdvances ==
    ASSUME AppInv, AppInv', LineInv, WorkerHandles, Head(toWorker).type # "request", UNCHANGED app
    PROVE  OnlyInvalidFail' /\ LineInOrder' /\ LineBetween' /\ UpToDate'
<1>1. /\ toWorker # <<>> /\ toWorker' = Tail(toWorker) /\ UNCHANGED <<client, toClient>>
      /\ \A m \in DOMAIN matchers : m \in DOMAIN matchers' => matchers'[m] = matchers[m]
  BY DEF WorkerHandles, HandleFree
<1>2. Messages(toWorker') = Messages(toWorker)
  <2>1. /\ toWorker \in Seq(ToWorker) /\ 1 \in DOMAIN toWorker /\ toWorker[1] = Head(toWorker)
        /\ Head(toWorker) \in ToWorker
    BY <1>1, AppFacts, TakenPlaces
  <2>2. 1 \notin Numbered(toWorker)
    BY <2>1 DEF Numbered, ToWorker
  <2>3. Messages(toWorker) = Messages(Tail(toWorker))
    BY <1>1, <2>1, <2>2, MessagesTail
  <2> QED
    BY <1>1, <2>3
<1>3. Line' = Line
  BY <1>1, <1>2 DEF Line, Messages, Numbered
<1>4. /\ UNCHANGED <<project, input, compileSeq, isCompiling, compileTimer, matchTimer, matcherId,
                     result, outputError, mounted, readyPromise>>
      /\ SameCalls /\ DOMAIN calls \subseteq DOMAIN calls'
  BY <1>1 DEF app, client, SameCalls
<1>5. project <= project' /\ input <= input' /\ (matchTimer' # NoTimer => matchTimer'.input = input')
  BY <1>4, VersionsAssumption DEF LineInv, LineBetween, AppInv, AppTypeOK
<1> QED
  BY <1>1, <1>3, <1>4, <1>5, LineStays, UpToDateStays

\* A request is carried out: it is answered about what it asked, unless it is to
\* compile what does not.
LEMMA RequestAdvances ==
    ASSUME AppInv, AppInv', LineInv, WorkerHandles, Head(toWorker).type = "request", UNCHANGED app
    PROVE  OnlyInvalidFail' /\ LineInOrder' /\ LineBetween' /\ UpToDate'
<1>m. PICK m : m = Head(toWorker)
  OBVIOUS
<1>a. PICK a : a = AnswerNow(m.op)
  OBVIOUS
<1>z. PICK z : z = Answer(m.id, a)
  OBVIOUS
<1>1. /\ toWorker # <<>> /\ toWorker' = Tail(toWorker) /\ UNCHANGED client
      /\ toClient' = Append(toClient, z) /\ matchers' = Service!With(matchers, m.op, a)
  BY <1>m, <1>a, <1>z DEF WorkerHandles, HandleRequest
<1>2. /\ 1 \in Numbered(toWorker) /\ toWorker[1] = m
      /\ m \in [type : {"request"}, id : 1..MaxCalls, op : Op]
      /\ nextMatcherID \in Matcher
      /\ \A i \in Numbered(Tail(toWorker)) : m.id < Tail(toWorker)[i].id
  BY <1>1, <1>m, HeadRequest DEF AppInv, Matcher
<1>3. toWorker \in Seq(ToWorker) /\ toClient \in Seq(ToClient)
  BY AppFacts
<1>4. /\ a \in Outcome
      /\ a.type = "compiled" =>
            /\ m.op.type = "compile" /\ a.matcher = nextMatcherID
            /\ DOMAIN matchers' = DOMAIN matchers \cup {nextMatcherID}
            /\ matchers'[nextMatcherID] = m.op.grammar
            /\ \A n \in DOMAIN matchers : n # nextMatcherID => matchers'[n] = matchers[n]
      /\ a.type # "compiled" => matchers' = matchers
      /\ a.type = "matched" =>
            /\ m.op.type = "match" /\ m.op.matcher \in DOMAIN matchers
            /\ a.grammar = matchers[m.op.matcher] /\ a.input = m.op.input
  <2>1. m.op \in Op
    BY <1>2
  <2>2. nextMatcherID \in Matcher
    BY <1>2
  <2>3. matchers' = Service!With(matchers, m.op, a)
    BY <1>1
  <2> QED
    BY <1>a, <2>1, <2>2, <2>3, AnswerNowGives
<1>5. m \in Messages(toWorker) /\ m \in Line
  BY <1>2 DEF Messages, Line
<1>6. runtime = "up"
  BY <1>5, LineFacts DEF LineInv, UpWhenReady
<1>7. /\ m.op.type = "match" => a.type = "matched"
      /\ m.op.type = "compile" /\ m.op.grammar \in Valid => a.type = "compiled"
      /\ m.op.type = "compile" /\ m.op.grammar \notin Valid => a = Failed
  <2>1. a = Service!AnswerTo(m.op, matchers, nextMatcherID)
    BY <1>6, <1>a DEF AnswerNow
  <2>2. m.op.type = "match" => m.op.matcher \in DOMAIN matchers
    BY <1>2, <1>5, LineFacts DEF Asks
  <2> QED
    BY <2>1, <2>2 DEF Service!AnswerTo, Failed
<1>8. Asks(m, "compile") \/ Asks(m, "match")
  BY <1>2, <1>5 DEF LineInv, OnlyInvalidFail, Brings, Matches, Found, Fails
<1>9. z \in ToClient /\ z.type = "answer" /\ z.id = m.id /\ z.answer = a
  BY <1>2, <1>4, <1>z DEF Answer, ToClient
<1>10. Line' = (Line \ {m}) \cup {z}
  <2>1. Messages(toWorker) = Messages(Tail(toWorker)) \cup {m}
    <3>1. Messages(toWorker) = Messages(Tail(toWorker))
             \cup (IF 1 \in Numbered(toWorker) THEN {Head(toWorker)} ELSE {})
      BY <1>1, <1>3, MessagesTail
    <3> QED
      BY <1>2, <1>m, <3>1
  <2>2. Messages(Append(toClient, z)) = Messages(toClient) \cup {z}
    <3>1. Messages(Append(toClient, z)) =
             Messages(toClient) \cup (IF z.type \in {"request", "answer"} THEN {z} ELSE {})
      BY <1>3, <1>9, MessagesAppend
    <3> QED
      BY <1>9, <3>1
  <2>3. m \notin Messages(Tail(toWorker))
    <3>1. \A i \in Numbered(Tail(toWorker)) : Tail(toWorker)[i].id # m.id
      <4>1. m.id \in Nat /\ ~(m.id < m.id)
        BY <1>2
      <4> QED
        BY <1>2, <4>1
    <3> QED
      BY <3>1 DEF Messages
  <2>4. m \notin Messages(toClient)
    <3>1. \A i \in Numbered(toClient) : toClient[i].type = "answer"
      BY <1>3 DEF Numbered, ToClient
    <3> QED
      BY <1>2, <3>1 DEF Messages
  <2>5. Line' = Messages(toClient') \cup Messages(toWorker')
    BY DEF Line
  <2> QED
    BY <1>1, <2>1, <2>2, <2>3, <2>4, <2>5 DEF Line
<1>11. \A n \in DOMAIN matchers : matchers'[n] = matchers[n]
  <2>1. nextMatcherID \notin DOMAIN matchers
    <3>1. DOMAIN matchers \subseteq 1..nextMatcherID - 1 /\ nextMatcherID \in 1..MaxCalls + 1
      BY AppFacts
    <3>2. nextMatcherID \notin 1..nextMatcherID - 1
      BY <3>1
    <3> QED
      BY <3>1, <3>2
  <2> QED
    BY <1>4, <2>1
<1>12. ~Fails(m) /\ calls' = calls /\ UNCHANGED readyPromise
  BY <1>1, <1>2 DEF Fails, client
<1>13. m.op = calls[m.id].op /\ (Asks(m, "compile") => compiling[m.id] # 0)
  BY <1>2, <1>5, LineFacts DEF LineInv, OnlyInvalidFail
<1>14. \/ /\ Fails(z) /\ ~Matches(z) /\ ~Asks(z, "compile") /\ ~Brings(z)
          /\ compiling[m.id] # 0 /\ calls[m.id].op.grammar \notin Valid
       \/ /\ ~Fails(z) /\ Matches(m) /\ Matches(z) /\ InputOf(z) = InputOf(m)
          /\ GrammarOf(z)' = GrammarOf(m) /\ ~Asks(z, "compile") /\ ~Brings(z)
       \/ /\ ~Fails(z) /\ ~Matches(z) /\ Brings(z) /\ compiling[m.id] # 0
          /\ GrammarOf(z)' = GrammarOf(m) /\ GrammarOf(m) = calls[m.id].op.grammar
          /\ calls[m.id].op.grammar \in Valid
  <2>1. CASE Asks(m, "compile") /\ m.op.grammar \notin Valid
    <3>1. a = Failed /\ compiling[m.id] # 0 /\ calls[m.id].op.grammar \notin Valid
      BY <1>7, <1>13, <2>1 DEF Asks
    <3>2. Fails(z) /\ ~Matches(z) /\ ~Asks(z, "compile") /\ ~Brings(z)
      BY <1>9, <3>1 DEF Fails, Matches, Asks, Found, Brings, Failed, Service!Failed
    <3> QED
      BY <3>1, <3>2
  <2>2. CASE Asks(m, "match")
    <3>1. a.type = "matched" /\ a.grammar = matchers[m.op.matcher] /\ a.input = m.op.input
      BY <1>4, <1>7, <2>2 DEF Asks
    <3>2. ~Fails(z) /\ Found(z) /\ ~Asks(z, "compile") /\ ~Asks(z, "match") /\ ~Brings(z)
      BY <1>9, <3>1 DEF Fails, Asks, Found, Brings, Failed, Service!Failed
    <3>3. Matches(m) /\ Matches(z) /\ InputOf(z) = InputOf(m)
      BY <1>9, <2>2, <3>1, <3>2 DEF Matches, InputOf
    <3>4. GrammarOf(m) = matchers[m.op.matcher]
      <4>1. Asks(m, "match") /\ ~Asks(m, "compile") /\ ~Brings(m) /\ ~Found(m)
        BY <2>2 DEF Asks, Brings, Found
      <4> QED
        BY <4>1 DEF GrammarOf
    <3>5. GrammarOf(z)' = a.grammar
      BY <1>9, <3>2 DEF GrammarOf
    <3> QED
      BY <3>1, <3>2, <3>3, <3>4, <3>5
  <2>3. CASE Asks(m, "compile") /\ m.op.grammar \in Valid
    <3>1. /\ a.type = "compiled" /\ a.matcher = nextMatcherID
          /\ matchers'[nextMatcherID] = m.op.grammar
      BY <1>4, <1>7, <2>3 DEF Asks
    <3>2. ~Fails(z) /\ ~Found(z) /\ ~Asks(z, "compile") /\ ~Asks(z, "match") /\ Brings(z) /\ ~Matches(z)
      BY <1>9, <3>1 DEF Fails, Asks, Found, Brings, Failed, Service!Failed, Matches
    <3>3. GrammarOf(m) = m.op.grammar
      <4>1. Asks(m, "compile") /\ ~Asks(m, "match") /\ ~Brings(m) /\ ~Found(m)
        BY <2>3 DEF Asks, Brings, Found
      <4> QED
        BY <4>1 DEF GrammarOf
    <3>4. GrammarOf(z)' = matchers'[nextMatcherID]
      BY <1>9, <3>1, <3>2 DEF GrammarOf
    <3> QED
      BY <1>13, <2>3, <3>1, <3>2, <3>3, <3>4
  <2> QED
    BY <1>8, <2>1, <2>2, <2>3
<1>15. OnlyInvalidFail' /\ LineInOrder' /\ LineBetween'
  BY <1>5, <1>9, <1>10, <1>11, <1>12, <1>14, LineMoves DEF LineInv
<1>16. UpToDate'
  <2> SUFFICES ASSUME mounted, HaveClient
               PROVE  UpToDate'
    BY <1>12 DEF UpToDate, HaveClient, app
  <2>1. UNCHANGED <<project, input, compileSeq, isCompiling, compileTimer, matchTimer, matcherId,
                    result, outputError, mounted, compiling>>
    BY DEF app
  <2>2. CASE compileTimer # 0
    BY <2>1, <2>2 DEF UpToDate
  <2>3. CASE \E x \in Line : Compiles(x)
    <3>1. PICK x \in Line : Compiles(x)
      BY <2>3
    <3>2. CASE x = m
      <4>1. Compiles(z)'
        BY <1>9, <1>12, <2>1, <3>1, <3>2 DEF Compiles
      <4> QED
        BY <1>10, <4>1 DEF UpToDate
    <3>3. CASE x # m
      <4>1. Compiles(x)' /\ x \in Line'
        BY <1>10, <1>12, <2>1, <3>1, <3>3 DEF Compiles
      <4> QED
        BY <4>1 DEF UpToDate
    <3> QED
      BY <3>2, <3>3
  <2>4. CASE project \in Valid /\ matcherId # 0 /\ matchers[matcherId] = project /\ ~isCompiling /\ IsMatched
    <3>1. matchers'[matcherId] = matchers[matcherId]
      BY <1>11, <2>4, LineFacts
    <3>2. ASSUME NEW x \in Line, Matches(x), GrammarOf(x) = project, InputOf(x) = input
          PROVE  \E y \in Line' : Matches(y) /\ GrammarOf(y)' = project /\ InputOf(y) = input
      <4>1. CASE x = m
        <5>1. Matches(z) /\ GrammarOf(z)' = GrammarOf(m) /\ InputOf(z) = InputOf(m)
          <6>1. compiling[m.id] = 0
            BY <2>4, <1>5, LineFacts
          <6> QED
            BY <1>14, <6>1
        <5> QED
          BY <1>10, <3>2, <4>1, <5>1
      <4>2. CASE x # m
        <5>1. x \in Line'
          BY <1>10, <4>2
        <5>2. ~Fails(x)
          BY <3>2 DEF Matches, Asks, Found, Fails, Failed, Service!Failed
        <5>3. GrammarOf(x)' = GrammarOf(x)
          BY <1>11, <5>1, <5>2, GrammarsKept DEF LineInv
        <5> QED
          BY <3>2, <5>1, <5>3
      <4> QED
        BY <4>1, <4>2
    <3>3. IsMatched'
      BY <2>1, <2>4, <3>2 DEF IsMatched
    <3> QED
      BY <2>1, <2>4, <3>1, <3>3 DEF UpToDate
  <2>5. CASE Line = {}
    BY <1>5, <2>5
  <2> QED
    BY <2>2, <2>3, <2>4, <2>5 DEF LineInv, UpToDate
<1> QED
  BY <1>15, <1>16

\* A call that a timer makes joins the line at its end.
Joins(y, op, n) ==
    /\ Line' = Line \cup {y} /\ y.type = "request" /\ y.op = op
    /\ y.id \in Nat /\ \A x \in Line : x.id < y.id
    /\ SameCalls /\ y.id \in DOMAIN calls' /\ calls'[y.id].op = y.op /\ compiling'[y.id] = n
    /\ DOMAIN calls \subseteq DOMAIN calls'
    /\ UNCHANGED <<readyPromise, matchers>>
LEMMA LineGets ==
    ASSUME AppInv, HaveClient, NEW op \in Op, NEW posted \in Seq(ToWorker), MakeCallAfter(posted, op),
           Numbered(posted) = {}, NEW n \in Nat, compiling' = Append(compiling, n)
    PROVE  \E y \in ToWorker : Joins(y, op, n)
<1>y. PICK y : y = Request(nextRequestId, op)
  OBVIOUS
<1>1. /\ toWorker' = toWorker \o (posted \o <<y>>) /\ posted \o <<y>> \in Seq(ToWorker)
      /\ nextRequestId = Len(calls) + 1
      /\ Len(calls') = Len(calls) + 1 /\ DOMAIN calls' = 1..Len(calls) + 1
      /\ \A c \in DOMAIN calls : calls'[c] = calls[c]
      /\ calls'[Len(calls) + 1].op = op
      /\ UNCHANGED <<readyPromise, toClient, matchers>>
  BY <1>y, CallSent
<1>2. y.type = "request" /\ y.id = nextRequestId /\ y.op = op
  BY <1>y DEF Request
<1>3. /\ toWorker \in Seq(ToWorker) /\ Len(calls) \in Nat /\ DOMAIN calls = 1..Len(calls)
      /\ compiling \in Seq(Nat) /\ Len(compiling) = Len(calls) /\ DOMAIN compiling = DOMAIN calls
  BY AppFacts DEF AppInv, AppTypeOK
<1>4. y \in ToWorker
  <2>1. nextRequestId \in 1..MaxCalls
    BY <1>1, <1>3, MaxCallsAssumption DEF MakeCallAfter
  <2> QED
    BY <1>y, <2>1 DEF Request, ToWorker
<1>5. <<y>> \in Seq(ToWorker) /\ Messages(<<y>>) = {y}
  <2>1. /\ <<y>> \in Seq(ToWorker) /\ DOMAIN <<y>> = {1} /\ <<y>>[1] = y
    BY <1>4, OneMessage
  <2>2. Numbered(<<y>>) = {1}
    BY <1>2, <2>1 DEF Numbered
  <2> QED
    BY <2>1, <2>2 DEF Messages
<1>6. Messages(toWorker') = Messages(toWorker) \cup {y}
  <2>1. Messages(posted) = {}
    BY DEF Messages
  <2>2. Messages(posted \o <<y>>) = Messages(posted) \cup Messages(<<y>>)
    BY <1>5, MessagesJoined
  <2> DEFINE r == posted \o <<y>>
  <2>3. Messages(r) = {y}
    BY <1>5, <2>1, <2>2
  <2> HIDE DEF r
  <2>4. r \in Seq(ToWorker) /\ toWorker' = toWorker \o r
    BY <1>1 DEF r
  <2>5. Messages(toWorker \o r) = Messages(toWorker) \cup Messages(r)
    BY <1>3, <2>4, MessagesJoined
  <2> QED
    BY <2>3, <2>4, <2>5
<1>7. Line' = Line \cup {y}
  <2>1. Messages(toClient') = Messages(toClient)
    BY <1>1 DEF Messages, Numbered
  <2>2. Line' = Messages(toClient') \cup Messages(toWorker')
    BY DEF Line
  <2> QED
    BY <1>6, <2>1, <2>2 DEF Line
<1>8. /\ \A c \in DOMAIN calls : compiling'[c] = compiling[c]
      /\ compiling'[Len(calls) + 1] = n
  <2>1. /\ \A i \in DOMAIN compiling : Append(compiling, n)[i] = compiling[i]
        /\ Append(compiling, n)[Len(compiling) + 1] = n
    BY <1>3, AppendedPlaces
  <2> QED
    BY <1>3, <2>1
<1>9. \A x \in Line : x.id \in DOMAIN calls /\ x.id < y.id
  BY <1>2, LineFacts
<1>10. SameCalls
  BY <1>1, <1>8, <1>9 DEF SameCalls
<1>11. Joins(y, op, n)
  BY <1>1, <1>2, <1>3, <1>7, <1>8, <1>9, <1>10 DEF Joins
<1> QED
  BY <1>4, <1>11

LEMMA CompileTimeoutAdvances ==
    ASSUME AppInv, AppInv', LineInv, CompileTimeout
    PROVE  OnlyInvalidFail' /\ LineInOrder' /\ LineBetween' /\ UpToDate'
<1> DEFINE op == [type |-> "compile", grammar |-> project]
<1>1. /\ compileTimer # 0 /\ MakeCallAfter(FreePrevious, op)
      /\ compiling' = Append(compiling, compileTimer) /\ matcherId' = 0
      /\ UNCHANGED <<project, input, compileSeq, matchTimer, result>>
  BY DEF CompileTimeout
<1>2. /\ op \in Op /\ op.type = "compile" /\ op.grammar = project
  BY VersionsAssumption DEF Op, Service!Op, AppInv, AppTypeOK
<1> HIDE DEF op
<1>3. /\ compileTimer = compileSeq /\ compileTimer \in Nat /\ HaveClient /\ matchTimer = NoTimer
  BY <1>1 DEF AppInv, AppTypeOK, IdleWithoutClient, CompilationsInOrder
<1>4. FreePrevious \in Seq(ToWorker) /\ Numbered(FreePrevious) = {}
  BY <1>3, FreePreviousType
<1>y. PICK y \in ToWorker : Joins(y, op, compileTimer)
  BY <1>1, <1>2, <1>3, <1>4, LineGets
<1>5. /\ Line' = Line \cup {y} /\ y.type = "request" /\ y.op = op
      /\ y.id \in Nat /\ \A x \in Line : x.id < y.id
      /\ SameCalls /\ y.id \in DOMAIN calls' /\ calls'[y.id].op = y.op
      /\ compiling'[y.id] = compileTimer /\ matchers' = matchers
  BY <1>y DEF Joins
<1>6. Asks(y, "compile") /\ y.op.grammar = project
  BY <1>2, <1>5 DEF Asks
<1>7. OnlyInvalidFail' /\ LineInOrder' /\ LineBetween'
  BY <1>1, <1>3, <1>5, <1>6, LineGrows DEF LineInv
<1>8. Compiles(y)'
  BY <1>1, <1>3, <1>5, <1>6 DEF Compiles
<1> QED
  BY <1>5, <1>7, <1>8 DEF UpToDate

LEMMA MatchTimeoutAdvances ==
    ASSUME AppInv, AppInv', LineInv, MatchTimeout
    PROVE  OnlyInvalidFail' /\ LineInOrder' /\ LineBetween' /\ UpToDate'
<1> DEFINE op == [type |-> "match", matcher |-> matchTimer.matcher, input |-> matchTimer.input]
<1>1. /\ matchTimer # NoTimer /\ MakeCallAfter(<<>>, op)
      /\ compiling' = Append(compiling, 0) /\ matchTimer' = NoTimer
      /\ UNCHANGED <<project, input, compileSeq, isCompiling, compileTimer, matcherId, result,
                     outputError, mounted>>
  BY DEF MatchTimeout, MakeCall, Expired
<1>2. /\ matchTimer.matcher = matcherId /\ matchTimer.matcher \in Matcher
      /\ matchTimer.input = input /\ input \in 1..LastInput /\ matcherId # 0
  <2>1. /\ matchTimer \in [matcher : Matcher, input : 1..LastInput]
        /\ matchTimer.matcher = matcherId /\ matchTimer.input = input
    BY <1>1 DEF AppInv, AppTypeOK, CurrentHeld, LineInv, LineBetween
  <2>2. matcherId # 0
    BY <2>1, MaxCallsAssumption DEF Matcher
  <2> QED
    BY <2>1, <2>2
<1>3. op \in Op /\ op.type = "match" /\ op.matcher = matcherId /\ op.input = input
  BY <1>2, VersionsAssumption DEF Op, Service!Op
<1>4. HaveClient /\ compileTimer = 0
  BY <1>1 DEF AppInv, AppTypeOK, IdleWithoutClient, CompilationsInOrder
<1> HIDE DEF op
<1>y. PICK y \in ToWorker : Joins(y, op, 0)
  <2>1. <<>> \in Seq(ToWorker) /\ Numbered(<<>>) = {} /\ 0 \in Nat
    BY EmptyQueue
  <2> QED
    BY <1>1, <1>3, <1>4, <2>1, LineGets
<1>5. /\ Line' = Line \cup {y} /\ y.type = "request" /\ y.op = op
      /\ y.id \in Nat /\ \A x \in Line : x.id < y.id
      /\ SameCalls /\ y.id \in DOMAIN calls' /\ calls'[y.id].op = y.op
      /\ compiling'[y.id] = 0 /\ UNCHANGED <<matchers, readyPromise>>
      /\ DOMAIN calls \subseteq DOMAIN calls'
  BY <1>y DEF Joins
<1>6. Asks(y, "match") /\ y.op.matcher = matcherId /\ y.op.input = input
  BY <1>3, <1>5 DEF Asks
<1>7. OnlyInvalidFail' /\ LineInOrder' /\ LineBetween'
  BY <1>1, <1>2, <1>5, <1>6, LineGrows DEF LineInv
<1>8. UpToDate'
  <2> SUFFICES ASSUME mounted
               PROVE  UpToDate'
    BY <1>1 DEF UpToDate
  <2>1. CASE \E x \in Line : Compiles(x)
    <3>1. \A x \in Line : Compiles(x) => Compiles(x)'
      BY <1>1, <1>5 DEF Compiles, SameCalls
    <3> QED
      BY <1>5, <2>1, <3>1 DEF UpToDate
  <2>2. CASE project \in Valid /\ matcherId # 0 /\ matchers[matcherId] = project /\ ~isCompiling
    <3>1. Matches(y) /\ InputOf(y) = input
      BY <1>6 DEF Matches, InputOf, Asks
    <3>2. GrammarOf(y)' = project
      <4>1. Asks(y, "match") /\ ~Asks(y, "compile") /\ ~Brings(y) /\ ~Found(y)
        BY <1>6 DEF Asks, Brings, Found
      <4> QED
        BY <1>5, <1>6, <2>2, <4>1 DEF GrammarOf
    <3>3. IsMatched'
      BY <1>1, <1>5, <3>1, <3>2 DEF IsMatched
    <3> QED
      BY <1>1, <1>5, <2>2, <3>3 DEF UpToDate
  <2> QED
    BY <1>2, <1>4, <2>1, <2>2 DEF LineInv, UpToDate
<1> QED
  BY <1>7, <1>8

\* An answer leaves the line, which it was the first of.
LEMMA LineLoses ==
    ASSUME AppInv, ClientAnswers, NEW m, m = Head(toClient)
    PROVE  /\ m \in Line /\ Line = Line' \cup {m} /\ Line' \subseteq Line
           /\ m.id \in Nat /\ \A x \in Line' : x.id \in Nat /\ m.id < x.id
           /\ SameCalls
<1>1. /\ toClient # <<>> /\ toClient' = Tail(toClient) /\ m.type = "answer"
      /\ m.id \in DOMAIN calls /\ compiling' = compiling
      /\ calls' = Returned(m.id, m.answer)
      /\ toWorker' = toWorker \o (IF StaleMatcher(m) THEN FreeNow(m.answer.matcher) ELSE <<>>)
      /\ \A i \in Numbered(Tail(toClient)) : m.id < Tail(toClient)[i].id
      /\ \A i \in Numbered(toWorker) : m.id < toWorker[i].id
      /\ m.answer \in Outcome
  BY Answers
<1>2. toWorker \in Seq(ToWorker) /\ toClient \in Seq(ToClient) /\ calls \in Seq(Call)
  BY AppFacts
<1>3. Messages(toClient) = Messages(toClient') \cup {m}
  <2>1. 1 \in Numbered(toClient)
    BY <1>1, LearntPlaces DEF Numbered
  <2>2. Messages(toClient) = Messages(Tail(toClient))
           \cup (IF 1 \in Numbered(toClient) THEN {Head(toClient)} ELSE {})
    BY <1>1, <1>2, MessagesTail
  <2> QED
    BY <1>1, <2>1, <2>2
<1>4. Messages(toWorker') = Messages(toWorker)
  <2> DEFINE free == IF StaleMatcher(m) THEN FreeNow(m.answer.matcher) ELSE <<>>
  <2>1. free \in Seq(ToWorker) /\ Numbered(free) = {}
    <3>1. StaleMatcher(m) => m.answer.matcher \in Matcher
      BY <1>1 DEF StaleMatcher, Outcome, Failed, Service!Failed
    <3> QED
      BY <3>1, FreeNowType, EmptyQueue
  <2>2. toWorker' = toWorker \o free
    BY <1>1
  <2> HIDE DEF free
  <2>3. Messages(toWorker \o free) = Messages(toWorker) \cup Messages(free)
    BY <1>2, <2>1, MessagesJoined
  <2>4. Messages(free) = {}
    BY <2>1 DEF Messages
  <2> QED
    BY <2>2, <2>3, <2>4
<1>5. Line' = Messages(toClient') \cup Messages(toWorker')
  BY DEF Line
<1>6. m \in Line /\ Line = Line' \cup {m} /\ Line' \subseteq Line
  BY <1>3, <1>4, <1>5 DEF Line
<1>7. \A x \in Line' : m.id < x.id
  <2>1. \A x \in Messages(Tail(toClient)) : m.id < x.id
    BY <1>1 DEF Messages
  <2>2. \A x \in Messages(toWorker) : m.id < x.id
    BY <1>1 DEF Messages
  <2> QED
    BY <1>1, <1>4, <1>5, <2>1, <2>2
<1>8. SameCalls
  <2>1. \A c \in DOMAIN calls : calls'[c].op = calls[c].op
    <3>1. calls' = [calls EXCEPT ![m.id].stage = "returned", ![m.id].answer = m.answer]
      BY <1>1 DEF Returned
    <3>2. \A c \in DOMAIN calls : calls[c] \in Call
      BY <1>2
    <3> QED
      BY <1>2, <3>1, <3>2 DEF Call
  <2> QED
    BY <1>1, <2>1, LineFacts DEF SameCalls
<1> QED
  BY <1>6, <1>7, <1>8, LineFacts

\* What an answer does to what the page shows.
LatestFails(m) == Fails(m) /\ IsLatest(compiling[m.id])
LEMMA AnswerShows ==
    ASSUME AppInv, LineInv, ClientAnswers, NEW m, m = Head(toClient)
    PROVE  /\ LatestArrives(m) \/ StaleArrives(m) \/ Found(m) \/ Fails(m)
           /\ LatestFails(m) =>
                 /\ result' = Nothing /\ outputError' = TRUE /\ isCompiling' = FALSE
                 /\ UNCHANGED <<matcherId, matchTimer>>
           /\ Fails(m) /\ ~IsLatest(compiling[m.id]) =>
                 UNCHANGED <<matcherId, isCompiling, matchTimer, result, outputError>>
           /\ Found(m) =>
                 /\ result' = [grammar |-> m.answer.grammar, input |-> m.answer.input]
                 /\ outputError' = FALSE /\ UNCHANGED <<matcherId, isCompiling, matchTimer>>
<1>1. m.type = "answer" /\ CallOf(m.id) = m.id
  BY Answers
<1>2. m \in Line
  BY LineLoses
<1>3. Brings(m) \/ Found(m) \/ Fails(m)
  BY <1>1, <1>2 DEF LineInv, OnlyInvalidFail, Matches, Asks
<1>4. CASE Found(m)
  <2>1. m.answer.type = "matched"
    BY <1>4 DEF Found
  <2>2. Matched(m.answer)
    BY <1>1, <2>1 DEF ClientAnswers
  <2>3. ~Fails(m)
    BY <2>1 DEF Fails, Failed, Service!Failed
  <2> QED
    BY <1>4, <2>2, <2>3 DEF Matched, LatestFails
<1>5. CASE Fails(m)
  <2>1. m.answer.type = "failed" /\ ~Found(m)
    BY <1>5 DEF Fails, Failed, Service!Failed, Found
  <2>2. compiling[m.id] # 0
    BY <1>2, <1>5 DEF LineInv, OnlyInvalidFail
  <2>3. CompileFailed(m.id)
    BY <1>1, <2>1, <2>2 DEF ClientAnswers
  <2> QED
    BY <1>5, <2>1, <2>3 DEF CompileFailed, LatestFails
<1>6. CASE Brings(m)
  <2>1. ~Fails(m) /\ ~Found(m)
    BY <1>6 DEF Brings, Fails, Failed, Service!Failed, Found
  <2> QED
    BY <1>6, <2>1 DEF LatestArrives, StaleArrives, LatestFails
<1> QED
  BY <1>3, <1>4, <1>5, <1>6

\* The answer to the latest compilation is the last one underway.
LEMMA LatestEndsLine ==
    ASSUME AppInv, LineInv, ClientAnswers, NEW m, m = Head(toClient),
           IsLatest(compiling[m.id]), Brings(m) \/ Fails(m)
    PROVE  /\ Line = {m} /\ Line' = {} /\ compileTimer = 0 /\ matcherId = 0
           /\ compiling[m.id] # 0
           /\ mounted => calls[m.id].op.grammar = project
<1>1. m \in Line /\ Line = Line' \cup {m} /\ \A x \in Line' : m.id < x.id /\ x \in Line
  BY LineLoses
<1>2. compiling[m.id] # 0 /\ compiling[m.id] = compileSeq /\ m.id \in DOMAIN calls
  BY <1>1, LineFacts DEF LineInv, OnlyInvalidFail, IsLatest
<1>3. compileTimer = 0 /\ \A d \in DOMAIN calls : m.id < d => compiling[d] = 0
  BY <1>2, LatestIsLast
<1>4. Line' = {}
  <2>1. ASSUME NEW x \in Line'
        PROVE  FALSE
    <3>1. x \in Line /\ m.id < x.id /\ x.id \in DOMAIN calls
      BY <1>1, LineFacts
    <3>2. compiling[x.id] = 0
      BY <1>3, <3>1
    <3>3. Precedes(m, x)
      BY <1>1, <3>1 DEF LineInv, LineInOrder
    <3> QED
      BY <1>2, <3>2, <3>3 DEF Precedes
  <2> QED
    BY <2>1
<1>5. matcherId = 0
  BY <1>1, <1>2, LineFacts
<1>6. mounted => calls[m.id].op.grammar = project
  <2>1. HaveClient /\ Line = {m}
    BY <1>1, <1>4, LineFacts
  <2>2. mounted => \E x \in Line : Compiles(x)
    BY <1>1, <1>3, <1>5, <2>1 DEF LineInv, UpToDate
  <2> QED
    BY <2>1, <2>2 DEF Compiles
<1> QED
  BY <1>1, <1>2, <1>3, <1>4, <1>5, <1>6

\* An answer that changes nothing but the line.
LEMMA IgnoredAdvances ==
    ASSUME AppInv, AppInv', LineInv, ClientAnswers, NEW m, m = Head(toClient), ~IsLatest(compiling[m.id]),
           Brings(m) \/ Fails(m), UNCHANGED <<matcherId, isCompiling, matchTimer, result, outputError>>
    PROVE  OnlyInvalidFail' /\ LineInOrder' /\ LineBetween' /\ UpToDate'
<1>1. m \in Line /\ Line = Line' \cup {m} /\ Line' \subseteq Line /\ SameCalls
  BY LineLoses
<1>2. /\ UNCHANGED <<project, input, compileSeq, compileTimer, compiling, mounted, readyPromise, matchers>>
      /\ m.id \in DOMAIN calls
      /\ calls' = Returned(m.id, m.answer)
  BY Answers
<1>3. /\ project <= project' /\ input <= input'
      /\ matchTimer' # NoTimer => matchTimer'.input = input'
  BY <1>2, VersionsAssumption DEF LineInv, LineBetween, AppInv, AppTypeOK
<1>4. OnlyInvalidFail' /\ LineInOrder' /\ LineBetween'
  BY <1>1, <1>2, <1>3, ShorterLine, BetweenStays DEF LineInv
<1>5. matcherId = 0
  BY <1>1, LineFacts DEF LineInv, OnlyInvalidFail
<1>6. UpToDate'
  <2>1. CASE \E x \in Line : Compiles(x)
    <3>1. PICK x \in Line : Compiles(x)
      BY <2>1
    <3>2. x \in Line'
      BY <1>1, <3>1 DEF Compiles, IsLatest
    <3>3. Compiles(x)'
      <4>1. DOMAIN calls' = DOMAIN calls
        BY AnswerKeepsOrder
      <4> QED
        BY <1>1, <1>2, <3>1, <3>2, <4>1 DEF Compiles, SameCalls
    <3> QED
      BY <3>2, <3>3 DEF UpToDate
  <2>2. mounted' /\ HaveClient' => mounted /\ HaveClient
    BY <1>2 DEF HaveClient
  <2> QED
    BY <1>1, <1>2, <1>5, <2>1, <2>2 DEF LineInv, UpToDate
<1> QED
  BY <1>4, <1>6

\* The matcher of the latest project arrives, and a match of the input is timed.
LEMMA ArrivalAdvances ==
    ASSUME AppInv, AppInv', LineInv, ClientAnswers, NEW m, m = Head(toClient), LatestArrives(m)
    PROVE  OnlyInvalidFail' /\ LineInOrder' /\ LineBetween' /\ UpToDate'
<1>1. /\ Line = {m} /\ Line' = {}
      /\ mounted => calls[m.id].op.grammar = project
  BY LatestEndsLine DEF LatestArrives
<1>2. /\ matcherId' = m.answer.matcher /\ isCompiling' = FALSE /\ result' = result
      /\ m.answer.matcher \in Matcher
      /\ mounted => MatchAfter(FALSE, m.answer.matcher, input)
      /\ ~mounted => UNCHANGED matchTimer
  BY AnswerEffect
<1>3. UNCHANGED <<project, input, mounted, matchers>>
  BY Answers
<1>4. OnlyInvalidFail' /\ LineInOrder'
  BY <1>1 DEF OnlyInvalidFail, LineInOrder
<1>5. ~Fails(m) /\ Brings(m)
  BY DEF LatestArrives, Brings, Fails, Failed, Service!Failed
<1>6. /\ matchers[m.answer.matcher] = GrammarOf(m)
      /\ GrammarOf(m) = calls[m.id].op.grammar /\ calls[m.id].op.grammar \in Valid
      /\ GrammarOf(m) \in result.grammar..project
  <2>1. Brings(m) /\ ~Asks(m, "compile") /\ ~Asks(m, "match") /\ ~Found(m)
    BY <1>5 DEF Brings, Asks, Found
  <2>2. matchers[m.answer.matcher] = GrammarOf(m)
    BY <2>1 DEF GrammarOf
  <2> QED
    BY <1>1, <1>5, <2>2 DEF LineInv, OnlyInvalidFail, LineBetween, Between
<1>7. m.answer.matcher # 0 /\ m.answer.matcher \in 0..MaxCalls /\ input \in 1..LastInput
  BY <1>2, MaxCallsAssumption DEF Matcher, AppInv, AppTypeOK
<1>8. LineBetween'
  <2>1. matchTimer' # NoTimer => matchTimer'.input = input
    <3>1. CASE mounted
      <4>1. matchTimer' # NoTimer => matchTimer' = [matcher |-> m.answer.matcher, input |-> input]
        BY <1>2, <1>7, <3>1, MatchAfterGives
      <4> QED
        BY <4>1
    <3>2. CASE ~mounted
      BY <1>2, <3>2 DEF LineInv, LineBetween
    <3> QED
      BY <3>1, <3>2
  <2> QED
    BY <1>1, <1>2, <1>3, <1>6, <2>1 DEF LineInv, LineBetween
<1>9. UpToDate'
  <2> SUFFICES ASSUME mounted
               PROVE  UpToDate'
    BY <1>3 DEF UpToDate
  <2>1. project \in Valid /\ matcherId' # 0 /\ matchers'[matcherId'] = project /\ ~isCompiling'
    BY <1>1, <1>2, <1>3, <1>6, <1>7
  <2>2. matchTimer' # NoTimer
    <3>1. matchTimer' = [matcher |-> m.answer.matcher, input |-> input]
      BY <1>2, <1>7 DEF MatchAfter
    <3> QED
      BY <1>7, <3>1 DEF NoTimer
  <2> QED
    BY <1>3, <2>1, <2>2 DEF UpToDate, IsMatched
<1> QED
  BY <1>4, <1>8, <1>9

\* The latest project does not compile, which the page shows.
LEMMA FailureAdvances ==
    ASSUME AppInv, AppInv', LineInv, ClientAnswers, NEW m, m = Head(toClient), LatestFails(m)
    PROVE  OnlyInvalidFail' /\ LineInOrder' /\ LineBetween' /\ UpToDate'
<1>1. /\ Line = {m} /\ Line' = {}
      /\ mounted => calls[m.id].op.grammar = project
      /\ matcherId = 0
  BY LatestEndsLine DEF LatestFails
<1>2. /\ result' = Nothing /\ outputError' = TRUE /\ isCompiling' = FALSE
      /\ UNCHANGED <<matcherId, matchTimer>>
  BY AnswerShows
<1>3. UNCHANGED <<project, input, mounted, matchers>>
  BY Answers
<1>4. OnlyInvalidFail' /\ LineInOrder'
  BY <1>1 DEF OnlyInvalidFail, LineInOrder
<1>5. calls[m.id].op.grammar \notin Valid
  BY <1>1 DEF LatestFails, LineInv, OnlyInvalidFail
<1>6. LineBetween'
  <2>1. project \in Nat /\ input \in Nat /\ result'.grammar = 0 /\ result'.input = 0
    BY <1>2, VersionsAssumption DEF AppInv, AppTypeOK, Nothing
  <2> QED
    BY <1>1, <1>2, <1>3, <2>1 DEF LineInv, LineBetween
<1> QED
  BY <1>1, <1>2, <1>3, <1>4, <1>5, <1>6 DEF UpToDate

\* The result of a match is shown: those that come after it are not about less.
LEMMA FoundAdvances ==
    ASSUME AppInv, AppInv', LineInv, ClientAnswers, NEW m, m = Head(toClient), Found(m)
    PROVE  /\ OnlyInvalidFail' /\ LineInOrder' /\ LineBetween' /\ UpToDate'
           /\ result'.grammar \in result.grammar..project
           /\ result'.input \in result.input..input
<1>1. /\ m \in Line /\ Line = Line' \cup {m} /\ Line' \subseteq Line /\ SameCalls
      /\ \A x \in Line' : m.id < x.id
  BY LineLoses
<1>2. /\ UNCHANGED <<project, input, compileSeq, compileTimer, compiling, mounted, readyPromise, matchers>>
      /\ DOMAIN calls' = DOMAIN calls
  BY Answers, AnswerKeepsOrder
<1>3. /\ result' = [grammar |-> m.answer.grammar, input |-> m.answer.input]
      /\ outputError' = FALSE /\ UNCHANGED <<matcherId, isCompiling, matchTimer>>
  BY AnswerShows
<1>4. /\ Matches(m) /\ ~Fails(m) /\ GrammarOf(m) = result'.grammar /\ InputOf(m) = result'.input
  <2>1. Found(m) /\ ~Asks(m, "compile") /\ ~Asks(m, "match") /\ ~Brings(m) /\ ~Fails(m)
    BY DEF Found, Asks, Brings, Fails, Failed, Service!Failed
  <2> QED
    BY <1>3, <2>1 DEF Matches, GrammarOf, InputOf
<1>5. compiling[m.id] = 0
  BY <1>1, <1>4 DEF LineInv, OnlyInvalidFail
<1>6. OnlyInvalidFail' /\ LineInOrder'
  BY <1>1, <1>2, ShorterLine DEF LineInv
<1>7. /\ result'.grammar \in result.grammar..project /\ result'.input \in result.input..input
      /\ matcherId # 0 => result'.grammar <= matchers[matcherId]
  BY <1>1, <1>4 DEF LineInv, LineBetween, Between
<1>8. /\ result.grammar \in 0..project /\ result.input \in 0..input
      /\ matcherId # 0 => matchers[matcherId] \in result.grammar..project
      /\ matchTimer # NoTimer => matchTimer.input = input
      /\ project \in Nat /\ input \in Nat
  BY VersionsAssumption DEF LineInv, LineBetween, AppInv, AppTypeOK
<1>9. \A x \in Line' : ~Fails(x) => GrammarOf(x)' = GrammarOf(x)
  BY <1>1, <1>2, GrammarsKept DEF LineInv
<1>10. LineBetween'
  <2>1. ASSUME NEW x \in Line'
        PROVE  Between(x)'
    <3>1. Precedes(m, x) /\ Between(x)
      BY <1>1 DEF LineInv, LineInOrder, LineBetween
    <3>2. ~Fails(x) => /\ GrammarOf(x)' \in result'.grammar..project
                       /\ matcherId # 0 => GrammarOf(x)' <= matchers[matcherId]
      BY <1>4, <1>7, <1>8, <1>9, <3>1 DEF Precedes, Between
    <3>3. Matches(x) => InputOf(x) \in result'.input..input
      BY <1>4, <1>7, <1>8, <3>1 DEF Precedes, Between
    <3> QED
      BY <1>2, <1>3, <3>2, <3>3 DEF Between
  <2>2. result'.grammar \in 0..project /\ result'.input \in 0..input
    BY <1>7, <1>8
  <2>3. matcherId # 0 => matchers[matcherId] \in result'.grammar..project
    BY <1>7, <1>8
  <2> QED
    BY <1>2, <1>3, <1>8, <2>1, <2>2, <2>3 DEF LineBetween
<1>11. UpToDate'
  <2> SUFFICES ASSUME mounted, HaveClient
               PROVE  UpToDate'
    BY <1>2 DEF UpToDate, HaveClient
  <2>1. CASE compileTimer # 0
    BY <1>2, <2>1 DEF UpToDate
  <2>2. CASE \E x \in Line : Compiles(x)
    <3>1. PICK x \in Line : Compiles(x)
      BY <2>2
    <3>2. x \in Line'
      BY <1>1, <1>5, <3>1 DEF Compiles
    <3>3. Compiles(x)'
      BY <1>1, <1>2, <3>1 DEF Compiles, SameCalls
    <3> QED
      BY <3>2, <3>3 DEF UpToDate
  <2>3. CASE project \in Valid /\ matcherId # 0 /\ matchers[matcherId] = project /\ ~isCompiling
             /\ IsMatched
    <3>1. CASE matchTimer # NoTimer
      BY <1>2, <1>3, <2>3, <3>1 DEF UpToDate, IsMatched
    <3>2. ASSUME result'.grammar = project, result'.input = input
          PROVE  UpToDate'
      <4>1. result' = [grammar |-> project, input |-> input]
        BY <1>3, <3>2
      <4> QED
        BY <1>2, <1>3, <2>3, <4>1 DEF UpToDate, IsMatched
    <3>3. ASSUME NEW x \in Line, Matches(x), GrammarOf(x) = project, InputOf(x) = input
          PROVE  UpToDate'
      <4>1. CASE x = m
        BY <1>4, <3>2, <3>3, <4>1
      <4>2. CASE x # m
        <5>1. x \in Line' /\ ~Fails(x)
          BY <1>1, <3>3, <4>2 DEF Matches, Asks, Found, Fails, Failed, Service!Failed
        <5>2. GrammarOf(x)' = project
          BY <1>9, <3>3, <5>1
        <5> QED
          BY <1>2, <1>3, <2>3, <3>3, <5>1, <5>2 DEF UpToDate, IsMatched
      <4> QED
        BY <4>1, <4>2
    <3>4. CASE result = [grammar |-> project, input |-> input]
      <4>1. result.grammar = project /\ result.input = input
        BY <3>4
      <4>2. result'.grammar = project /\ result'.input = input
        BY <1>7, <1>8, <4>1
      <4> QED
        BY <3>2, <4>2
    <3> QED
      BY <2>3, <3>1, <3>3, <3>4 DEF IsMatched
  <2> QED
    BY <1>1, <2>1, <2>2, <2>3 DEF LineInv, UpToDate
<1> QED
  BY <1>6, <1>7, <1>10, <1>11

LEMMA ClientAnswersAdvances ==
    ASSUME AppInv, AppInv', LineInv, ClientAnswers
    PROVE  OnlyInvalidFail' /\ LineInOrder' /\ LineBetween' /\ UpToDate'
<1>m. PICK m : m = Head(toClient)
  OBVIOUS
<1>1. LatestArrives(m) \/ StaleArrives(m) \/ Found(m) \/ Fails(m)
  BY <1>m, AnswerShows
<1>2. CASE LatestArrives(m)
  BY <1>m, <1>2, ArrivalAdvances
<1>3. CASE Found(m)
  BY <1>m, <1>3, FoundAdvances
<1>4. CASE StaleArrives(m)
  <2>1. UNCHANGED <<matcherId, isCompiling, matchTimer, result, outputError>>
    BY <1>m, <1>4, AnswerEffect
  <2> QED
    BY <1>m, <1>4, <2>1, IgnoredAdvances DEF StaleArrives
<1>5. CASE LatestFails(m)
  BY <1>m, <1>5, FailureAdvances
<1>6. CASE Fails(m) /\ ~IsLatest(compiling[m.id])
  <2>1. UNCHANGED <<matcherId, isCompiling, matchTimer, result, outputError>>
    BY <1>m, <1>6, AnswerShows
  <2> QED
    BY <1>m, <1>6, <2>1, IgnoredAdvances
<1> QED
  BY <1>1, <1>2, <1>3, <1>4, <1>5, <1>6 DEF LatestFails

\* The runtime that is ready stays up.
LEMMA UpStays ==
    ASSUME AppInv, UpWhenReady, AppNext
    PROVE  UpWhenReady'
<1>1. toClient \in Seq(ToClient) /\ \A i \in DOMAIN toClient : toClient[i] \in ToClient
  BY AppFacts
<1>2. ASSUME runtime' = runtime, HaveClient' => HaveClient,
             \A i \in DOMAIN toClient' : toClient'[i].type = "ready" =>
                \E j \in DOMAIN toClient : toClient[j].type = "ready"
      PROVE  UpWhenReady'
  BY <1>2 DEF UpWhenReady
<1>3. CASE \/ EditProject \/ EditInput \/ SelectExample \/ CompileTimeout \/ MatchTimeout \/ Unmount
           \/ Start
  <2>1. UNCHANGED <<runtime, readyPromise, toClient>>
    BY <1>3 DEF EditProject, EditInput, SelectExample, CompileTimeout, MatchTimeout, Unmount, Start,
                StartWorker, MakeCall, MakeCallAfter, wvars, client, inWorker
  <2> QED
    BY <1>2, <2>1 DEF HaveClient
<1>4. CASE ClientAnswers
  <2>1. toClient # <<>> /\ toClient' = Tail(toClient) /\ UNCHANGED <<runtime, readyPromise>>
    BY <1>4, Answers
  <2> QED
    BY <1>2, <2>1, LearntPlaces DEF HaveClient
<1>5. CASE ClientLearns
  <2>1. toClient # <<>> /\ toClient' = Tail(toClient) /\ UNCHANGED runtime
    BY <1>5, Learns
  <2>2. /\ 1 \in DOMAIN toClient /\ toClient[1] = Head(toClient)
        /\ \A i \in DOMAIN toClient' : i + 1 \in DOMAIN toClient /\ toClient'[i] = toClient[i + 1]
    BY <2>1, LearntPlaces
  <2>3. HaveClient' => HaveClient \/ Head(toClient).type = "ready"
    <3>1. CASE Head(toClient) = Ready
      BY <3>1 DEF Ready
    <3>2. CASE Head(toClient) # Ready
      BY <1>5, <3>2 DEF ClientLearns, ClientReceives, SettleReady, Settle, HaveClient
    <3> QED
      BY <3>1, <3>2
  <2> QED
    BY <2>1, <2>2, <2>3 DEF UpWhenReady
<1>6. CASE WorkerHandles
  <2>1. /\ toWorker # <<>> /\ toWorker' = Tail(toWorker) /\ UNCHANGED readyPromise
        /\ \/ Head(toWorker).type = "init" /\ UNCHANGED toClient
           \/ UNCHANGED <<runtime, toClient>>
           \/ /\ UNCHANGED runtime
              /\ toClient' = Append(toClient, Answer(Head(toWorker).id, AnswerNow(Head(toWorker).op)))
              /\ Head(toWorker).type = "request"
    BY <1>6 DEF WorkerHandles, HandleRequest, HandleFree, client
  <2>2. CASE Head(toWorker).type = "init" /\ UNCHANGED toClient
    <3>1. runtime = "off"
      BY <2>1, <2>2, TakenPlaces DEF AppInv, OneWorker
    <3> QED
      BY <2>1, <2>2, <3>1 DEF UpWhenReady, HaveClient
  <2>3. CASE UNCHANGED <<runtime, toClient>>
    BY <1>2, <2>1, <2>3 DEF HaveClient
  <2>4. CASE /\ UNCHANGED runtime
             /\ toClient' = Append(toClient, Answer(Head(toWorker).id, AnswerNow(Head(toWorker).op)))
    <3>z. PICK z : z = Answer(Head(toWorker).id, AnswerNow(Head(toWorker).op))
      OBVIOUS
    <3>1. z.type = "answer" /\ toClient' = Append(toClient, z)
      BY <2>4, <3>z DEF Answer
    <3>2. \A i \in DOMAIN toClient' :
             (i \in DOMAIN toClient /\ toClient'[i] = toClient[i]) \/ toClient'[i] = z
      BY <1>1, <3>1
    <3> QED
      BY <1>2, <2>1, <2>4, <3>1, <3>2 DEF HaveClient
  <2> QED
    BY <2>1, <2>2, <2>3, <2>4
<1>7. CASE InitLoads \/ InitEnds
  <2>1. /\ runtime \in {"loading", "starting"} /\ UNCHANGED readyPromise
        /\ \/ runtime' = "up"
           \/ toClient' = Append(toClient, InitError)
           \/ toClient' = toClient
    BY <1>7, InitSteps DEF Starts, Reports, client
  <2>2. ~HaveClient /\ \A i \in DOMAIN toClient : toClient[i].type # "ready"
    BY <2>1 DEF UpWhenReady
  <2>3. CASE runtime' = "up"
    BY <2>3 DEF UpWhenReady
  <2>4. CASE toClient' = Append(toClient, InitError)
    <3>1. InitError.type # "ready"
      BY DEF InitError
    <3>2. \A i \in DOMAIN toClient' :
             (i \in DOMAIN toClient /\ toClient'[i] = toClient[i]) \/ toClient'[i] = InitError
      BY <1>1, <2>4
    <3> QED
      BY <2>1, <2>2, <3>1, <3>2 DEF UpWhenReady, HaveClient
  <2>5. CASE toClient' = toClient
    BY <2>1, <2>2, <2>5 DEF UpWhenReady, HaveClient
  <2> QED
    BY <2>1, <2>3, <2>4, <2>5
<1> QED
  BY <1>3, <1>4, <1>5, <1>6, <1>7 DEF AppNext, WorkerSteps

LEMMA LineInitKeeps == Init => LineInv
<1> SUFFICES ASSUME Init
             PROVE  LineInv
  OBVIOUS
<1>1. toWorker = <<>> /\ toClient = <<>> /\ readyPromise = "pending"
  BY DEF Init, WorkerInit
<1>2. Line = {} /\ DOMAIN toClient = {}
  BY <1>1 DEF Line, Messages, Numbered
<1>3. UpWhenReady /\ OnlyInvalidFail /\ LineInOrder /\ UpToDate
  BY <1>1, <1>2 DEF UpWhenReady, OnlyInvalidFail, LineInOrder, UpToDate, HaveClient
<1>4. LineBetween
  <2>1. /\ result = Nothing /\ matcherId = 0 /\ matchTimer = NoTimer /\ project = 1 /\ input = 1
        /\ Nothing.grammar = 0 /\ Nothing.input = 0
    BY DEF Init, Nothing
  <2> QED
    BY <1>2, <2>1 DEF LineBetween
<1> QED
  BY <1>3, <1>4 DEF LineInv

LEMMA LineStepKeeps ==
    ASSUME AppInv, AppInv', LineInv, [AppNext]_pvars
    PROVE  LineInv'
<1>1. CASE UNCHANGED pvars
  <2>1. UNCHANGED <<wvars, app>> /\ UNCHANGED <<toClient, toWorker, matchers, readyPromise, calls, runtime>>
    BY <1>1 DEF pvars, wvars, client, inWorker
  <2>2. /\ UNCHANGED <<project, input, compileSeq, isCompiling, compileTimer, matchTimer, matcherId,
                       result, outputError, mounted, compiling>>
    BY <2>1 DEF app
  <2>3. Line' = Line /\ SameCalls
    BY <2>1, <2>2 DEF Line, Messages, Numbered, SameCalls
  <2>4. project <= project' /\ input <= input' /\ (matchTimer' # NoTimer => matchTimer'.input = input')
    BY <2>2, VersionsAssumption DEF LineInv, LineBetween, AppInv, AppTypeOK
  <2>5. OnlyInvalidFail' /\ LineInOrder' /\ LineBetween'
    BY <2>1, <2>2, <2>3, <2>4, LineStays
  <2>6. UpToDate'
    BY <2>1, <2>2, <2>3, UpToDateStays
  <2>7. UpWhenReady'
    BY <2>1 DEF LineInv, UpWhenReady, HaveClient
  <2> QED
    BY <2>5, <2>6, <2>7 DEF LineInv
<1>2. CASE AppNext
  <2>1. UpWhenReady'
    BY <1>2, UpStays DEF LineInv
  <2>2. CASE Start
    BY <2>1, <2>2, StartAdvances DEF LineInv
  <2>3. CASE EditProject \/ SelectExample
    BY <2>1, <2>3, EditProjectAdvances DEF LineInv
  <2>4. CASE EditInput
    BY <2>1, <2>4, EditInputAdvances DEF LineInv
  <2>5. CASE CompileTimeout
    BY <2>1, <2>5, CompileTimeoutAdvances DEF LineInv
  <2>6. CASE MatchTimeout
    BY <2>1, <2>6, MatchTimeoutAdvances DEF LineInv
  <2>7. CASE ClientAnswers
    BY <2>1, <2>7, ClientAnswersAdvances DEF LineInv
  <2>8. CASE ClientLearns
    BY <2>1, <2>8, ClientLearnsAdvances DEF LineInv
  <2>9. CASE Unmount
    BY <2>1, <2>9, UnmountAdvances DEF LineInv
  <2>10. CASE WorkerHandles /\ UNCHANGED app
    BY <2>1, <2>10, OtherMessageAdvances, RequestAdvances DEF LineInv
  <2>11. CASE (InitLoads \/ InitEnds) /\ UNCHANGED app
    BY <2>1, <2>11, InitAdvances DEF LineInv
  <2> QED
    BY <1>2, <2>2, <2>3, <2>4, <2>5, <2>6, <2>7, <2>8, <2>9, <2>10, <2>11 DEF AppNext, WorkerSteps
<1> QED
  BY <1>1, <1>2

\* What is underway is about versions in their order, between those the page shows
\* and those in the editors, and what is in the editors is on its way to the page.
THEOREM LineInvariant == AppSpec => [](AppInv /\ LineInv)
<1>1. Init => AppInv /\ LineInv
  BY AppInitKeeps, LineInitKeeps
<1>2. AppInv /\ LineInv /\ [AppNext]_pvars => AppInv' /\ LineInv'
  BY AppStepKeeps, LineStepKeeps
<1> QED
  BY <1>1, <1>2, PTL DEF AppSpec

\* The result is replaced by an answer only.
LEMMA OnlyAnswersShow ==
    ASSUME AppNext, result' # result
    PROVE  ClientAnswers
BY DEF AppNext, Start, EditProject, EditInput, SelectExample, CompileTimeout, MatchTimeout,
       ClientLearns, Unmount, app

\* A result is never replaced by one of an older project, or of the same project
\* and an older input (the promise of match in App.tsx).
THEOREM ResultsAdvance == AppSpec => NeverGoesBack
<1>1. ASSUME AppInv, AppInv', LineInv, [AppNext]_pvars
      PROVE  [result # Nothing /\ result' # Nothing =>
                 \/ result'.grammar > result.grammar
                 \/ result'.grammar = result.grammar /\ result'.input >= result.input]_result
  <2> SUFFICES ASSUME result' # result, result # Nothing, result' # Nothing
               PROVE  \/ result'.grammar > result.grammar
                      \/ result'.grammar = result.grammar /\ result'.input >= result.input
    OBVIOUS
  <2>1. ClientAnswers
    BY <1>1, OnlyAnswersShow DEF pvars, app
  <2>m. PICK m : m = Head(toClient)
    OBVIOUS
  <2>2. Found(m)
    BY <1>1, <2>1, <2>m, AnswerShows, AnswerEffect DEF LatestArrives, StaleArrives, LatestFails
  <2>3. result'.grammar \in result.grammar..project /\ result'.input \in result.input..input
    BY <1>1, <2>1, <2>m, <2>2, FoundAdvances
  <2>4. result.grammar \in 0..project /\ result.input \in 0..input /\ project \in Nat /\ input \in Nat
    BY <1>1, VersionsAssumption DEF LineInv, LineBetween, AppInv, AppTypeOK
  <2> QED
    BY <2>3, <2>4
<1>2. AppInv /\ LineInv /\ (AppInv /\ LineInv)' /\ [AppNext]_pvars =>
         [result # Nothing /\ result' # Nothing =>
             \/ result'.grammar > result.grammar
             \/ result'.grammar = result.grammar /\ result'.input >= result.input]_result
  BY <1>1
<1> QED
  BY <1>2, LineInvariant, PTL DEF AppSpec, NeverGoesBack

\* When nothing is underway, the page shows the match of what is in the editors, or
\* an error when the project does not compile (the effects of App.tsx).
THEOREM CurrentShown == AppSpec => []ShowsCurrent
<1>1. AppInv /\ LineInv => ShowsCurrent
  <2> SUFFICES ASSUME AppInv, LineInv, Quiet
               PROVE  IF project \in Valid
                      THEN result = [grammar |-> project, input |-> input] /\ ~outputError
                      ELSE result = Nothing /\ outputError
    BY DEF ShowsCurrent
  <2>1. Line = {}
    BY DEF Quiet, Line, Messages, Numbered
  <2> QED
    BY <2>1 DEF LineInv, UpToDate, IsMatched, Quiet
<1> QED
  BY <1>1, LineInvariant, PTL
=============================================================================
