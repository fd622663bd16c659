----------------------------- MODULE ParsePool -----------------------------
(***************************************************************************)
(* The workers of ParsePartitions (go/junction/parallel.go): the indices   *)
(* of all pieces are in a closed channel, each worker takes one, parses    *)
(* that piece and writes the result at its index, until the channel is     *)
(* empty; the caller waits for all of them.  (With one worker it is the    *)
(* loop the code has for that case.)                                       *)
(***************************************************************************)
EXTENDS Integers, Sequences, FiniteSetsExt

CONSTANT Worker     \* the goroutines: at least one
ASSUME WorkerAssumption == Worker # {}

VARIABLES
    input, parts,   \* what ParsePartitions was called with
    work,           \* the channel
    busy,           \* the index a worker is at; 0 between two, -1 when it is done
    results,        \* what was written, by index
    returned        \* ParsePartitions has returned
poolVars == <<input, parts, work, busy, results, returned>>

NoResult == <<"none">>
Slice(part) == SubSeq(input, part.start + 1, part.end)
ParseFn(slice) == <<"parsed", slice>>

PoolInit ==
    /\ input = <<>> /\ parts = <<>> /\ work = <<>> /\ results = <<>>
    /\ busy = [w \in Worker |-> -1] /\ returned = TRUE

ParsePartitions(in, ps) ==
    /\ returned
    /\ input' = in /\ parts' = ps
    /\ work' = [i \in DOMAIN ps |-> i]
    /\ results' = [i \in DOMAIN ps |-> NoResult]
    /\ busy' = [w \in Worker |-> 0]
    /\ returned' = (ps = <<>>)

Take(w) ==
    /\ ~returned /\ busy[w] = 0 /\ work # <<>>
    /\ busy' = [busy EXCEPT ![w] = Head(work)]
    /\ work' = Tail(work)
    /\ UNCHANGED <<input, parts, results, returned>>

FreePlace(w) == Min({i \in DOMAIN results : results[i] = NoResult})     \* mutation
Place(w) == busy[w]
Parse(w) ==
    /\ busy[w] > 0
    /\ results' = [results EXCEPT ![Place(w)] = ParseFn(Slice(parts[busy[w]]))]
    /\ busy' = [busy EXCEPT ![w] = 0]
    /\ UNCHANGED <<input, parts, work, returned>>

Finish(w) ==
    /\ ~returned /\ busy[w] = 0 /\ work = <<>>
    /\ busy' = [busy EXCEPT ![w] = -1]
    /\ UNCHANGED <<input, parts, work, results, returned>>

\* wg.Wait: every worker is done.
Return ==
    /\ ~returned /\ \A w \in Worker : busy[w] = -1
    /\ returned' = TRUE
    /\ UNCHANGED <<input, parts, work, busy, results>>

PoolNext == Return \/ \E w \in Worker : Take(w) \/ Parse(w) \/ Finish(w)

-----------------------------------------------------------------------------
\* ParsePartitions returns the result of every piece at its index, and two
\* workers are never at the same one.
PoolKeepsOrder ==
    /\ returned => results = [i \in DOMAIN parts |-> ParseFn(Slice(parts[i]))]
    /\ \A v, w \in Worker : v # w /\ busy[v] > 0 => busy[v] # busy[w]
=============================================================================
