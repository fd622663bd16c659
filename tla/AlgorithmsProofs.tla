-------------------------- MODULE AlgorithmsProofs --------------------------
(***************************************************************************)
(* Four of the pure algorithms, on every input.  ParsePartitions returns   *)
(* the result of every piece at its index, for any number of workers and   *)
(* of pieces, whichever worker is faster.  The machine reads back every    *)
(* program that the compiler may hand to the encoder, and the source map   *)
(* gives the location of every byte of it.  Every position of every text   *)
(* is what counting from its start finds.                                  *)
(***************************************************************************)
EXTENDS Algorithms, WellFoundedInduction, TLAPS

CONSTANTS
    Byte, Piece,    \* what inputs and their pieces are made of
    Instruction     \* what programs are made of

\* It is called again and again, with any input and any pieces.
PoolSpec ==
    PoolInit /\ [][PoolNext \/ \E in \in Seq(Byte), ps \in Seq(Piece) : ParsePartitions(in, ps)]_poolVars

\* The channel holds the indices from the next one to the last, in order.
Taken == Len(parts) - Len(work)
ChannelOK ==
    /\ parts \in Seq(Piece) /\ work \in Seq(Nat) /\ Len(work) <= Len(parts)
    /\ \A i \in DOMAIN work : work[i] = Taken + i

\* What was taken is being parsed by one worker, or is at its index.
Done(i) == results[i] = ParseFn(Slice(parts[i]))
PlacesOK ==
    /\ busy \in [Worker -> -1..Taken]
    /\ \A v, w \in Worker : v # w /\ busy[v] > 0 => busy[v] # busy[w]
    /\ results = [i \in DOMAIN parts |-> results[i]]
    /\ \A i \in 1..Taken : Done(i) \/ \E w \in Worker : busy[w] = i

\* A worker is done when there is nothing left; after the last the call returns.
EndsOK ==
    /\ returned \in BOOLEAN
    /\ \A w \in Worker : busy[w] = -1 => work = <<>>
    /\ returned => work = <<>> /\ \A w \in Worker : busy[w] <= 0

PoolInv == ChannelOK /\ PlacesOK /\ EndsOK

LEMMA PoolFacts ==
    ASSUME PoolInv
    PROVE  /\ Len(parts) \in Nat /\ Len(work) \in Nat /\ Taken \in Nat
           /\ DOMAIN parts = 1..Len(parts) /\ DOMAIN work = 1..Len(work)
           /\ Taken <= Len(parts) /\ (work = <<>> => Taken = Len(parts))
BY DEF PoolInv, ChannelOK, Taken

LEMMA PoolInitKeeps == PoolInit => PoolInv
<1> SUFFICES ASSUME PoolInit
             PROVE  PoolInv
  OBVIOUS
<1>1. /\ parts = <<>> /\ work = <<>> /\ results = <<>> /\ returned = TRUE
      /\ busy = [w \in Worker |-> -1]
  BY DEF PoolInit
<1>2. Taken = 0 /\ Len(work) = 0 /\ Len(parts) = 0 /\ DOMAIN parts = {} /\ DOMAIN work = {}
  BY <1>1 DEF Taken
<1>3. <<>> = [i \in {} |-> <<>>[i]]
  OBVIOUS
<1>4. \A w \in Worker : busy[w] = -1
  BY <1>1
<1> QED
  BY <1>1, <1>2, <1>3, <1>4 DEF PoolInv, ChannelOK, PlacesOK, EndsOK

LEMMA CalledKeeps ==
    ASSUME NEW in, NEW ps \in Seq(Piece), ParsePartitions(in, ps)
    PROVE  PoolInv'
<1>1. /\ parts' = ps /\ work' = [i \in DOMAIN ps |-> i] /\ returned' = (ps = <<>>)
      /\ results' = [i \in DOMAIN ps |-> NoResult] /\ busy' = [w \in Worker |-> 0]
  BY DEF ParsePartitions
<1>2. DOMAIN ps = 1..Len(ps) /\ Len(ps) \in Nat
  OBVIOUS
<1>3. work' \in Seq(Nat) /\ Len(work') = Len(ps) /\ \A i \in DOMAIN work' : work'[i] = i /\ i \in Nat
  BY <1>1, <1>2
<1>4. Taken' = 0 /\ (Taken + 0)' = 0
  BY <1>1, <1>2, <1>3 DEF Taken
<1>5. ChannelOK'
  BY <1>1, <1>2, <1>3, <1>4 DEF ChannelOK
<1>6. PlacesOK'
  BY <1>1, <1>4 DEF PlacesOK
<1>7. EndsOK'
  <2>1. ps = <<>> => work' = <<>>
    BY <1>1
  <2>2. \A w \in Worker : busy'[w] = 0
    BY <1>1
  <2>3. \A w \in Worker : busy'[w] <= 0 /\ busy'[w] # -1
    BY <2>2
  <2>4. returned' \in BOOLEAN /\ (returned' => work' = <<>>)
    BY <1>1, <2>1
  <2> QED
    BY <2>3, <2>4, Zenon DEF EndsOK
<1> QED
  BY <1>5, <1>6, <1>7 DEF PoolInv

LEMMA TakeKeeps ==
    ASSUME PoolInv, NEW w \in Worker, Take(w)
    PROVE  PoolInv'
<1>1. /\ ~returned /\ busy[w] = 0 /\ work # <<>>
      /\ busy' = [busy EXCEPT ![w] = Head(work)] /\ work' = Tail(work)
      /\ UNCHANGED <<input, parts, results, returned>>
  BY DEF Take
<1>2. /\ Len(parts) \in Nat /\ Len(work) \in Nat /\ Taken \in Nat
      /\ DOMAIN parts = 1..Len(parts) /\ DOMAIN work = 1..Len(work)
  BY PoolFacts
<1>3. /\ work \in Seq(Nat) /\ Len(work) <= Len(parts) /\ \A i \in DOMAIN work : work[i] = Taken + i
  BY DEF PoolInv, ChannelOK
<1>4. /\ 1 \in DOMAIN work /\ Head(work) = Taken + 1 /\ work' \in Seq(Nat) /\ Len(work') = Len(work) - 1
      /\ \A i \in DOMAIN work' : i + 1 \in DOMAIN work /\ work'[i] = work[i + 1] /\ i \in Nat
  BY <1>1, <1>2, <1>3
<1>5. Taken' = Taken + 1
  BY <1>1, <1>2, <1>4 DEF Taken
<1>6. ChannelOK'
  <2>1. \A i \in DOMAIN work' : work'[i] = Taken' + i
    BY <1>2, <1>3, <1>4, <1>5
  <2>2. Len(work') <= Len(parts')
    BY <1>1, <1>2, <1>3, <1>4
  <2> QED
    BY <1>1, <1>4, <2>1, <2>2 DEF PoolInv, ChannelOK
<1>7. /\ busy \in [Worker -> -1..Taken] /\ busy'[w] = Taken + 1
      /\ \A v \in Worker : v # w => busy'[v] = busy[v]
  BY <1>1, <1>4 DEF PoolInv, PlacesOK
<1>8. PlacesOK'
  <2>1. busy' \in [Worker -> -1..Taken']
    <3>1. Taken + 1 \in -1..Taken + 1 /\ -1..Taken \subseteq -1..Taken + 1
      BY <1>2
    <3> QED
      BY <1>1, <1>4, <1>5, <1>7, <3>1
  <2>2. \A v \in Worker : busy[v] \in -1..Taken /\ busy[v] # Taken + 1
    BY <1>2, <1>7
  <2>3. \A u, v \in Worker : u # v /\ busy'[u] > 0 => busy'[u] # busy'[v]
    BY <1>7, <2>2 DEF PoolInv, PlacesOK
  <2>4. ASSUME NEW i \in 1..Taken'
        PROVE  Done(i)' \/ \E v \in Worker : busy'[v] = i
    <3>1. CASE i = Taken + 1
      BY <1>7, <3>1
    <3>2. CASE i \in 1..Taken /\ Done(i)
      BY <1>1, <3>2 DEF Done, Slice
    <3>3. CASE i \in 1..Taken /\ \E v \in Worker : busy[v] = i
      BY <1>1, <1>7, <3>3
    <3> QED
      BY <1>2, <1>5, <3>1, <3>2, <3>3 DEF PoolInv, PlacesOK
  <2> QED
    BY <1>1, <2>1, <2>3, <2>4 DEF PoolInv, PlacesOK
<1>9. EndsOK'
  <2>1. \A v \in Worker : busy'[v] = -1 => v # w /\ busy[v] = -1
    BY <1>2, <1>7
  <2> QED
    BY <1>1, <2>1 DEF PoolInv, EndsOK
<1> QED
  BY <1>6, <1>8, <1>9 DEF PoolInv

LEMMA ParseKeeps ==
    ASSUME PoolInv, NEW w \in Worker, Parse(w)
    PROVE  PoolInv'
<1>1. /\ busy[w] > 0 /\ busy' = [busy EXCEPT ![w] = 0]
      /\ results' = [results EXCEPT ![busy[w]] = ParseFn(Slice(parts[busy[w]]))]
      /\ UNCHANGED <<input, parts, work, returned>>
  BY DEF Parse, Place
<1>2. /\ Len(parts) \in Nat /\ Taken \in Nat /\ Taken <= Len(parts) /\ DOMAIN parts = 1..Len(parts)
  BY PoolFacts
<1>3. /\ busy \in [Worker -> -1..Taken] /\ DOMAIN results = DOMAIN parts
      /\ \A i \in 1..Taken : Done(i) \/ \E v \in Worker : busy[v] = i
      /\ \A u, v \in Worker : u # v /\ busy[u] > 0 => busy[u] # busy[v]
  BY DEF PoolInv, PlacesOK
<1>4. busy[w] \in DOMAIN results /\ busy'[w] = 0 /\ \A v \in Worker : v # w => busy'[v] = busy[v]
  BY <1>1, <1>2, <1>3
<1>5. Taken' = Taken /\ ChannelOK'
  BY <1>1 DEF PoolInv, ChannelOK, Taken
<1>6. /\ \A i \in DOMAIN parts : i # busy[w] => results'[i] = results[i]
      /\ results'[busy[w]] = ParseFn(Slice(parts[busy[w]]))
      /\ results' = [i \in DOMAIN parts |-> results'[i]]
  BY <1>1, <1>3, <1>4
<1>7. PlacesOK'
  <2>1. busy' \in [Worker -> -1..Taken]
    BY <1>1, <1>2, <1>3
  <2>2. \A u, v \in Worker : u # v /\ busy'[u] > 0 => busy'[u] # busy'[v]
    BY <1>3, <1>4
  <2>3. ASSUME NEW i \in 1..Taken
        PROVE  Done(i)' \/ \E v \in Worker : busy'[v] = i
    <3>1. i \in DOMAIN parts
      BY <1>2
    <3>2. CASE i = busy[w]
      BY <1>1, <1>6, <3>2 DEF Done, Slice
    <3>3. CASE i # busy[w] /\ Done(i)
      BY <1>1, <1>6, <3>1, <3>3 DEF Done, Slice
    <3>4. CASE i # busy[w] /\ \E v \in Worker : busy[v] = i
      BY <1>4, <3>4
    <3> QED
      BY <1>3, <3>2, <3>3, <3>4
  <2> QED
    BY <1>1, <1>5, <1>6, <2>1, <2>2, <2>3 DEF PlacesOK
<1>8. EndsOK'
  <2>1. \A v \in Worker : busy'[v] = -1 => busy[v] = -1
    BY <1>4
  <2>2. ~returned
    BY <1>1, <1>3 DEF PoolInv, EndsOK
  <2> QED
    BY <1>1, <2>1, <2>2 DEF PoolInv, EndsOK
<1> QED
  BY <1>5, <1>7, <1>8 DEF PoolInv

LEMMA FinishKeeps ==
    ASSUME PoolInv, NEW w \in Worker, Finish(w)
    PROVE  PoolInv'
<1>1. /\ ~returned /\ busy[w] = 0 /\ work = <<>> /\ busy' = [busy EXCEPT ![w] = -1]
      /\ UNCHANGED <<input, parts, work, results, returned>>
  BY DEF Finish
<1>2. /\ busy \in [Worker -> -1..Taken] /\ Taken \in Nat
  BY PoolFacts DEF PoolInv, PlacesOK
<1>3. busy'[w] = -1 /\ \A v \in Worker : v # w => busy'[v] = busy[v]
  BY <1>1, <1>2
<1>4. Taken' = Taken /\ ChannelOK'
  BY <1>1 DEF PoolInv, ChannelOK, Taken
<1>5. PlacesOK'
  <2>1. busy' \in [Worker -> -1..Taken]
    BY <1>1, <1>2
  <2>2. \A u, v \in Worker : u # v /\ busy'[u] > 0 => busy'[u] # busy'[v]
    BY <1>1, <1>3 DEF PoolInv, PlacesOK
  <2>3. ASSUME NEW i \in 1..Taken
        PROVE  Done(i)' \/ \E v \in Worker : busy'[v] = i
    <3>1. Done(i) \/ \E v \in Worker : busy[v] = i /\ v # w
      BY <1>1 DEF PoolInv, PlacesOK
    <3> QED
      BY <1>1, <1>3, <3>1 DEF Done, Slice
  <2> QED
    BY <1>1, <1>4, <2>1, <2>2, <2>3 DEF PoolInv, PlacesOK
<1>6. EndsOK'
  BY <1>1, <1>3 DEF PoolInv, EndsOK
<1> QED
  BY <1>4, <1>5, <1>6 DEF PoolInv

LEMMA ReturnKeeps ==
    ASSUME PoolInv, Return
    PROVE  PoolInv'
<1>1. /\ \A w \in Worker : busy[w] = -1
      /\ returned' = TRUE
      /\ UNCHANGED <<input, parts, work, busy, results>>
  BY DEF Return
<1>2. work = <<>>
  BY <1>1, WorkerAssumption DEF PoolInv, EndsOK
<1>3. ChannelOK' /\ PlacesOK'
  BY <1>1 DEF PoolInv, ChannelOK, PlacesOK, Taken, Done, Slice
<1>4. EndsOK'
  <2>1. \A w \in Worker : busy'[w] <= 0
    BY <1>1
  <2>2. returned' \in BOOLEAN /\ work' = <<>>
    BY <1>1, <1>2
  <2> QED
    BY <2>1, <2>2, Zenon DEF EndsOK
<1> QED
  BY <1>3, <1>4 DEF PoolInv

\* Every piece is parsed once, and its result is at its index when the call returns
\* (the closed channel and the WaitGroup of parallel.go).
THEOREM OrderKept == PoolSpec => []PoolKeepsOrder
<1>1. PoolInit => PoolInv
  BY PoolInitKeeps
<1>2. PoolInv /\ [PoolNext \/ \E in \in Seq(Byte), ps \in Seq(Piece) : ParsePartitions(in, ps)]_poolVars
         => PoolInv'
  <2> SUFFICES ASSUME PoolInv,
                      [PoolNext \/ \E in \in Seq(Byte), ps \in Seq(Piece) : ParsePartitions(in, ps)]_poolVars
               PROVE  PoolInv'
    OBVIOUS
  <2>1. CASE UNCHANGED poolVars
    BY <2>1 DEF poolVars, PoolInv, ChannelOK, PlacesOK, EndsOK, Taken, Done, Slice
  <2>2. CASE Return
    BY <2>2, ReturnKeeps
  <2>3. ASSUME NEW w \in Worker, Take(w) \/ Parse(w) \/ Finish(w)
        PROVE  PoolInv'
    BY <2>3, TakeKeeps, ParseKeeps, FinishKeeps
  <2>4. ASSUME NEW in \in Seq(Byte), NEW ps \in Seq(Piece), ParsePartitions(in, ps)
        PROVE  PoolInv'
    BY <2>4, CalledKeeps
  <2> QED
    BY <2>1, <2>2, <2>3, <2>4 DEF PoolNext
<1>3. PoolInv => PoolKeepsOrder
  <2> SUFFICES ASSUME PoolInv
               PROVE  PoolKeepsOrder
    OBVIOUS
  <2>1. ASSUME returned
        PROVE  results = [i \in DOMAIN parts |-> ParseFn(Slice(parts[i]))]
    <3>1. Taken = Len(parts) /\ DOMAIN parts = 1..Len(parts) /\ \A w \in Worker : busy[w] <= 0
      BY <2>1, PoolFacts DEF PoolInv, EndsOK
    <3>2. ASSUME NEW i \in DOMAIN parts
          PROVE  results[i] = ParseFn(Slice(parts[i]))
      <4>1. Done(i) \/ \E w \in Worker : busy[w] = i
        BY <3>1 DEF PoolInv, PlacesOK
      <4>2. i \in Nat /\ i > 0
        BY <3>1
      <4> QED
        BY <3>1, <4>1, <4>2 DEF Done
    <3> QED
      BY <3>2 DEF PoolInv, PlacesOK
  <2> QED
    BY <2>1 DEF PoolInv, PlacesOK, PoolKeepsOrder
<1> QED
  BY <1>1, <1>2, <1>3, PTL DEF PoolSpec

-----------------------------------------------------------------------------
(***************************************************************************)
(* The encoder is written with recursive functions on 0..Len(p), so what   *)
(* they are comes first: such a function exists, and what holds at 0 and   *)
(* goes from n to n + 1 holds of all of it.                                *)
(***************************************************************************)
\* Every nonempty set of natural numbers has a least one.
LEMMA LeastOf ==
    ASSUME NEW T, T \subseteq Nat, T # {}
    PROVE  \E n \in T : \A m \in T : n <= m
<1>1. PICK n \in T : \A m \in T : <<m, n>> \notin OpToRel(<, Nat)
  BY WFMin, NatLessThanWellFounded
<1>2. \A m \in T : ~(m < n)
  BY <1>1 DEF OpToRel
<1> QED
  BY <1>2

LEMMA UpTo ==
    ASSUME NEW N \in Nat, NEW S, 0 \in S, \A n \in 0..N - 1 : n \in S => n + 1 \in S
    PROVE  \A n \in 0..N : n \in S
<1>1. SUFFICES ASSUME (0..N) \ S # {}
               PROVE  FALSE
  OBVIOUS
<1>2. PICK n \in (0..N) \ S : \A m \in (0..N) \ S : n <= m
  <2>1. (0..N) \ S \subseteq Nat
    OBVIOUS
  <2> QED
    BY <1>1, <2>1, LeastOf
<1>3. n - 1 \in 0..N - 1 /\ n - 1 \in S /\ n - 1 + 1 = n
  BY <1>2
<1> QED
  BY <1>2, <1>3

\* A recursive function over 0..N, one value made of the one before.
Unfolds(f, N, x, g) == f[0] = x /\ \A n \in 1..N : f[n] = g[<<n, f[n - 1]>>]

LEMMA Recursion ==
    ASSUME NEW N \in Nat, NEW U, NEW x \in U, NEW g \in [(1..N) \X U -> U]
    PROVE  \E f \in [0..N -> U] : Unfolds(f, N, x, g)
<1> DEFINE S == {n \in 0..N : \E h \in [0..n -> U] : Unfolds(h, n, x, g)}
<1>1. 0 \in S
  <2>1. [i \in 0..0 |-> x] \in [0..0 -> U] /\ Unfolds([i \in 0..0 |-> x], 0, x, g)
    BY DEF Unfolds
  <2> QED
    BY <2>1
<1>2. ASSUME NEW n \in 0..N - 1, n \in S
      PROVE  n + 1 \in S
  <2>1. PICK h \in [0..n -> U] : Unfolds(h, n, x, g)
    BY <1>2
  <2> DEFINE k == [i \in 0..n + 1 |-> IF i = n + 1 THEN g[<<n + 1, h[n]>>] ELSE h[i]]
  <2>2. /\ h[n] \in U /\ n + 1 \in 1..N /\ g[<<n + 1, h[n]>>] \in U
        /\ \A i \in 0..n + 1 : i # n + 1 => i \in 0..n
    BY <2>1
  <2>3. k \in [0..n + 1 -> U]
    BY <2>1, <2>2
  <2>4. k[0] = x /\ \A i \in 0..n : k[i] = h[i]
    BY <2>1 DEF Unfolds
  <2>5. ASSUME NEW i \in 1..n + 1
        PROVE  k[i] = g[<<i, k[i - 1]>>]
    <3>1. i - 1 \in 0..n /\ k[i - 1] = h[i - 1]
      BY <2>4
    <3>2. CASE i = n + 1
      <4>1. k[i] = g[<<n + 1, h[n]>>] /\ i - 1 = n
        BY <3>2
      <4> QED
        BY <3>1, <3>2, <4>1
    <3>3. CASE i \in 1..n
      <4>1. k[i] = h[i] /\ h[i] = g[<<i, h[i - 1]>>]
        BY <2>1, <2>4, <3>3 DEF Unfolds
      <4> QED
        BY <3>1, <4>1
    <3> QED
      BY <3>2, <3>3
  <2> HIDE DEF k
  <2> QED
    BY <2>2, <2>3, <2>4, <2>5 DEF Unfolds
<1>3. N \in S
  <2> HIDE DEF S
  <2> QED
    BY <1>1, <1>2, UpTo
<1> QED
  BY <1>3

-----------------------------------------------------------------------------
(***************************************************************************)
(* Addresses.                                                              *)
(***************************************************************************)
LEMMA SizeType ==
    ASSUME NEW i
    PROVE  SizeInBytes(i) \in Nat /\ (i.op \in Op /\ ~IsLabel(i) => SizeInBytes(i) > 0)
BY DEF SizeInBytes, IsLabel, Op

\* Addresses add up.
LEMMA AddressSteps ==
    ASSUME NEW S, NEW p \in Seq(S)
    PROVE  /\ Address(p, 1) = 0
           /\ \A k \in 1..Len(p) + 1 : Address(p, k) \in Nat
           /\ \A k \in 1..Len(p) : Address(p, k + 1) = Address(p, k) + SizeInBytes(p[k])
<1> DEFINE N == Len(p)
           g == [x \in (1..N) \X Nat |-> x[2] + SizeInBytes(p[x[1]])]
           at[n \in 0..N] == IF n = 0 THEN 0 ELSE at[n - 1] + SizeInBytes(p[n])
<1>1. N \in Nat /\ g \in [(1..N) \X Nat -> Nat]
  BY SizeType
<1>2. PICK f \in [0..N -> Nat] : Unfolds(f, N, 0, g)
  <2> HIDE DEF g, N
  <2> QED
    BY <1>1, Recursion
<1>3. f = [n \in 0..N |-> IF n = 0 THEN 0 ELSE f[n - 1] + SizeInBytes(p[n])]
  <2>1. ASSUME NEW n \in 1..N
        PROVE  f[n] = f[n - 1] + SizeInBytes(p[n])
    <3>1. n - 1 \in 0..N
      BY <1>1
    <3>2. f[n - 1] \in Nat /\ <<n, f[n - 1]>> \in (1..N) \X Nat
      BY <3>1, <1>2
    <3>3. g[<<n, f[n - 1]>>] = f[n - 1] + SizeInBytes(p[n])
      BY <3>2
    <3> HIDE DEF g
    <3> QED
      BY <1>2, <3>3 DEF Unfolds
  <2>2. f[0] = 0
    BY <1>2 DEF Unfolds
  <2>3. \A n \in 0..N : n # 0 => n \in 1..N
    BY <1>1
  <2> HIDE DEF g, N
  <2> QED
    BY <1>2, <2>1, <2>2, <2>3
<1>4. at = [n \in 0..N |-> IF n = 0 THEN 0 ELSE at[n - 1] + SizeInBytes(p[n])]
  BY <1>3
<1>5. \A k : Address(p, k) = at[k - 1]
  BY DEF Address
<1> HIDE DEF at, g
<1>6. at[0] = 0 /\ \A n \in 1..N : at[n] = at[n - 1] + SizeInBytes(p[n])
  BY <1>1, <1>4
<1>7. \A n \in 0..N : at[n] \in Nat
  <2> DEFINE T == {n \in 0..N : at[n] \in Nat}
  <2>1. 0 \in T /\ \A n \in 0..N - 1 : n \in T => n + 1 \in T
    <3>1. ASSUME NEW n \in 0..N - 1, n \in T PROVE n + 1 \in T
      <4>1. n + 1 \in 1..N /\ n + 1 - 1 = n
        BY <1>1
      <4> QED
        BY <3>1, <4>1, <1>6, SizeType
    <3> QED
      BY <3>1, <1>1, <1>6
  <2>2. \A n \in 0..N : n \in T
    <3> HIDE DEF T, N
    <3> QED
      BY <1>1, <2>1, UpTo
  <2> QED
    BY <2>2
<1>8. ASSUME NEW k \in 1..N + 1
      PROVE  Address(p, k) \in Nat
  <2>1. k - 1 \in 0..N
    BY <1>1
  <2> QED
    BY <2>1, <1>5, <1>7
<1>9. ASSUME NEW k \in 1..N
      PROVE  Address(p, k + 1) = Address(p, k) + SizeInBytes(p[k])
  <2>1. k + 1 - 1 = k
    BY <1>1
  <2> QED
    BY <2>1, <1>5, <1>6
<1>10. Address(p, 1) = 0
  <2>1. 1 - 1 = 0
    OBVIOUS
  <2> QED
    BY <2>1, <1>5, <1>6
<1> QED
  BY <1>8, <1>9, <1>10

LEMMA AddressesGrow ==
    ASSUME NEW S, NEW p \in Seq(S), NEW j \in 1..Len(p), NEW k \in 1..Len(p), j < k
    PROVE  Address(p, j) + SizeInBytes(p[j]) <= Address(p, k)
<1> DEFINE N == Len(p)
           T == {n \in 0..N - 1 : j <= n => Address(p, j + 1) <= Address(p, n + 1)}
<1>1. N \in Nat /\ N - 1 \in Nat /\ j \in Nat /\ 0 \in T
  OBVIOUS
<1>2. ASSUME NEW n \in 0..N - 1 - 1, n \in T
      PROVE  n + 1 \in T
  <2>1. n + 1 \in 1..N /\ n + 1 + 1 \in 1..N + 1 /\ j + 1 \in 1..N + 1
    BY <1>1
  <2>2. Address(p, n + 1 + 1) = Address(p, n + 1) + SizeInBytes(p[n + 1])
    BY <2>1, AddressSteps
  <2>3. Address(p, n + 1) \in Nat /\ SizeInBytes(p[n + 1]) \in Nat /\ Address(p, j + 1) \in Nat
    <3>1. \A m \in 1..Len(p) + 1 : Address(p, m) \in Nat
      BY AddressSteps
    <3>2. n + 1 \in 1..Len(p) + 1
      BY <1>1, <2>1
    <3> QED
      BY <2>1, <3>1, <3>2, SizeType
  <2>4. CASE j <= n
    BY <1>2, <2>1, <2>2, <2>3, <2>4
  <2>5. CASE j = n + 1
    BY <2>1, <2>3, <2>5, AddressSteps
  <2> QED
    BY <1>1, <1>2, <2>1, <2>4, <2>5
<1>3. \A n \in 0..N - 1 : n \in T
  <2> HIDE DEF T, N
  <2> QED
    BY <1>1, <1>2, UpTo
<1>4. k - 1 \in T /\ j <= k - 1 /\ k - 1 + 1 = k
  BY <1>3
<1> QED
  BY <1>4, AddressSteps

-----------------------------------------------------------------------------
(***************************************************************************)
(* Charsets and labels.                                                    *)
(***************************************************************************)
\* What Sets and Encode make of the first n instructions.
SetsOf(p, f) == f = [n \in 0..Len(p) |-> IF n = 0 THEN <<>> ELSE AddSet(f[n - 1], p[n])]
AddCode(code, p, n) == code \o EncodeInstr(p, p[n])
CodeOf(p, f) == f = [n \in 0..Len(p) |-> IF n = 0 THEN <<>> ELSE AddCode(f[n - 1], p, n)]

Charsets(p) == {p[k].args[1] : k \in 1..Len(p)}

LEMMA SetsSteps ==
    ASSUME NEW S, NEW p \in Seq(S)
    PROVE  \E f \in [0..Len(p) -> Seq(Charsets(p))] :
              /\ f[0] = <<>> /\ \A n \in 1..Len(p) : f[n] = AddSet(f[n - 1], p[n])
              /\ Sets(p) = f[Len(p)]
<1> DEFINE N == Len(p)
           U == Seq(Charsets(p))
           g == [x \in (1..N) \X U |-> AddSet(x[2], p[x[1]])]
           sets[n \in 0..N] == IF n = 0 THEN <<>> ELSE AddSet(sets[n - 1], p[n])
<1>1. N \in Nat /\ <<>> \in U
  OBVIOUS
<1>2. ASSUME NEW n \in 1..N, NEW u \in U
      PROVE  AddSet(u, p[n]) \in U
  <2>1. p[n].args[1] \in Charsets(p)
    BY DEF Charsets
  <2> QED
    BY <2>1 DEF AddSet
<1>3. g \in [(1..N) \X U -> U]
  BY <1>2
<1>4. PICK f \in [0..N -> U] : Unfolds(f, N, <<>>, g)
  <2> HIDE DEF g, N, U
  <2> QED
    BY <1>1, <1>3, Recursion
<1>9. ASSUME NEW n \in 1..N
      PROVE  f[n] = AddSet(f[n - 1], p[n])
  <2>1. n - 1 \in 0..N
    BY <1>1
  <2>2. <<n, f[n - 1]>> \in (1..N) \X U
    BY <2>1, <1>4
  <2>3. g[<<n, f[n - 1]>>] = AddSet(f[n - 1], p[n])
    BY <2>2
  <2> HIDE DEF g
  <2> QED
    BY <1>4, <2>3 DEF Unfolds
<1>5. f[0] = <<>> /\ SetsOf(p, f)
  <2>1. f[0] = <<>>
    BY <1>4 DEF Unfolds
  <2>2. \A n \in 0..N : n # 0 => n \in 1..N
    BY <1>1
  <2> HIDE DEF g, U
  <2> QED
    BY <1>4, <1>9, <2>1, <2>2 DEF SetsOf
<1>6. SetsOf(p, sets)
  BY <1>5 DEF SetsOf
<1>7. sets = f
  <2> DEFINE T == {n \in 0..N : sets[n] = f[n]}
  <2>1. 0 \in T /\ \A n \in 0..N - 1 : n \in T => n + 1 \in T
    <3> HIDE DEF sets, g, U
    <3>1. 0 \in T
      BY <1>1, <1>5, <1>6 DEF SetsOf
    <3>2. ASSUME NEW n \in 0..N - 1, n \in T PROVE n + 1 \in T
      <4>1. n + 1 \in 0..N /\ n + 1 # 0 /\ n + 1 - 1 = n
        BY <1>1
      <4> QED
        BY <3>2, <4>1, <1>5, <1>6 DEF SetsOf
    <3> QED
      BY <3>1, <3>2
  <2>2. \A n \in 0..N : n \in T
    <3> HIDE DEF T, N
    <3> QED
      BY <1>1, <2>1, UpTo
  <2> HIDE DEF sets, g, U
  <2> QED
    BY <2>2, <1>5, <1>6 DEF SetsOf
<1>8. Sets(p) = sets[N]
  BY DEF Sets
<1>10. f \in [0..Len(p) -> Seq(Charsets(p))]
  BY <1>4
<1> HIDE DEF sets, g, U
<1> QED
  BY <1>10, <1>5, <1>7, <1>8, <1>9

\* The index that is written leads to the charset.
LEMMA SetIsFound ==
    ASSUME NEW S, NEW p \in Seq(S), NEW k \in 1..Len(p), p[k].op \in OfSets
    PROVE  /\ Len(Sets(p)) \in Nat /\ SetIndex(p, p[k].args[1]) \in 0..Len(Sets(p)) - 1
           /\ Sets(p)[SetIndex(p, p[k].args[1]) + 1] = p[k].args[1]
<1> DEFINE N == Len(p)
           cs == p[k].args[1]
<1>1. PICK f \in [0..N -> Seq(Charsets(p))] :
            /\ f[0] = <<>> /\ \A n \in 1..N : f[n] = AddSet(f[n - 1], p[n])
            /\ Sets(p) = f[N]
  BY SetsSteps
<1>2. N \in Nat /\ k \in 1..N
  OBVIOUS
<1> DEFINE T == {n \in 0..N : k <= n => \E j \in DOMAIN f[n] : f[n][j] = cs}
<1>3. 0 \in T
  BY <1>2
<1>4. ASSUME NEW n \in 0..N - 1, n \in T
      PROVE  n + 1 \in T
  <2>1. n + 1 \in 1..N /\ n + 1 - 1 = n /\ n \in 0..N
    BY <1>2
  <2>2. f[n + 1] = AddSet(f[n], p[n + 1]) /\ f[n] \in Seq(Charsets(p))
    <3>1. f[n + 1] = AddSet(f[n + 1 - 1], p[n + 1])
      BY <1>1, <2>1
    <3>2. f[n] \in Seq(Charsets(p))
      BY <1>1, <2>1
    <3> QED
      BY <2>1, <3>1, <3>2
  <2>3. p[n + 1].args[1] \in Charsets(p)
    BY <2>1 DEF Charsets
  <2>4. CASE k <= n
    <3>1. PICK j \in DOMAIN f[n] : f[n][j] = cs
      BY <1>4, <2>4
    <3>2. j \in DOMAIN f[n + 1] /\ f[n + 1][j] = cs
      BY <2>2, <2>3, <3>1 DEF AddSet
    <3> QED
      BY <2>1, <3>2
  <2>5. CASE k = n + 1 /\ cs \in ToSet(f[n])
    <3>1. f[n + 1] = f[n]
      BY <2>2, <2>5 DEF AddSet
    <3> QED
      BY <2>1, <2>5, <3>1 DEF ToSet
  <2>6. CASE k = n + 1 /\ cs \notin ToSet(f[n])
    <3>1. f[n + 1] = Append(f[n], cs)
      BY <2>2, <2>6 DEF AddSet
    <3>2. Len(f[n]) + 1 \in DOMAIN f[n + 1] /\ f[n + 1][Len(f[n]) + 1] = cs
      BY <2>2, <2>3, <2>6, <3>1
    <3> QED
      BY <2>1, <3>2
  <2> QED
    BY <2>1, <2>4, <2>5, <2>6
<1>5. \A n \in 0..N : n \in T
  <2> HIDE DEF T, N
  <2> QED
    BY <1>2, <1>3, <1>4, UpTo
<1>6. N \in T /\ N \in 0..N
  BY <1>2, <1>5
<1>7. Sets(p) \in Seq(Charsets(p)) /\ \E j \in DOMAIN Sets(p) : Sets(p)[j] = cs
  BY <1>1, <1>2, <1>6
<1> DEFINE j == CHOOSE j \in DOMAIN Sets(p) : Sets(p)[j] = cs
<1>8. j \in DOMAIN Sets(p) /\ Sets(p)[j] = cs
  BY <1>7
<1>9. SetIndex(p, cs) = j - 1
  BY DEF SetIndex
<1>10. j \in 1..Len(Sets(p)) /\ Len(Sets(p)) \in Nat /\ j - 1 + 1 = j
  BY <1>7, <1>8
<1> HIDE DEF j, cs
<1> QED
  BY <1>8, <1>9, <1>10 DEF cs

\* A label has an address, which fits where the program does.
LEMMA LabelIsFound ==
    ASSUME NEW S, NEW p \in Seq(S), IsCode(p), NEW k \in 1..Len(p), p[k].op \in Jumps \cup Calls
    PROVE  /\ LabelAt(p, p[k].label) \in Nat
           /\ ProgramFits(p) => LabelAt(p, p[k].label) < U16
<1> DEFINE j == CHOOSE j \in DOMAIN p : IsLabel(p[j]) /\ p[j].label = p[k].label
<1>1. \E i \in DOMAIN p : IsLabel(p[i]) /\ p[i].label = p[k].label
  BY DEF IsCode
<1>2. j \in DOMAIN p /\ IsLabel(p[j])
  BY <1>1
<1>3. LabelAt(p, p[k].label) = Address(p, j)
  BY DEF LabelAt
<1> HIDE DEF j
<1>4. j \in 1..Len(p) + 1
  BY <1>2
<1> QED
  BY <1>2, <1>3, <1>4, AddressSteps DEF ProgramFits, FitsU16

-----------------------------------------------------------------------------
(***************************************************************************)
(* Numbers as bytes.                                                       *)
(***************************************************************************)
LEMMA Divides ==
    ASSUME NEW b \in Nat \ {0}, NEW c \in Nat, NEW v \in Nat, v < b * c
    PROVE  /\ v % b \in 0..b - 1 /\ v \div b \in 0..c - 1
           /\ v = (v % b) + (v \div b) * b
<1>1. v % b \in 0..b - 1 /\ v \div b \in Nat /\ v = (v % b) + (v \div b) * b
  OBVIOUS
<1>2. v \div b < c
  OBVIOUS
<1> QED
  BY <1>1, <1>2

LEMMA TwoBytes ==
    ASSUME NEW v \in 0..U16 - 1
    PROVE  Len(Bytes2(v)) = 2 /\ Bytes2(v)[1] + Bytes2(v)[2] * Base = v
<1>1. Base \in Nat \ {0} /\ Base \in Nat /\ v \in Nat /\ v < Base * Base
  BY BaseAssumption DEF U16
<1>2. v \div Base \in 0..Base - 1 /\ v = (v % Base) + (v \div Base) * Base
  BY <1>1, Divides
<1>3. (v \div Base) % Base = v \div Base
  BY <1>1, <1>2
<1> QED
  BY <1>2, <1>3 DEF Bytes2

LEMMA FourBytes ==
    ASSUME NEW v \in 0..U32 - 1
    PROVE  /\ Len(Bytes4(v)) = 4
           /\ Bytes4(v)[1] + Bytes4(v)[2] * Base + (Bytes4(v)[3] + Bytes4(v)[4] * Base) * U16 = v
<1> DEFINE low == v % U16
           high == v \div U16
<1>1. U16 \in Nat \ {0} /\ U16 \in Nat /\ v \in Nat /\ v < U16 * U16
  BY BaseAssumption DEF U16, U32
<1>2. high \in 0..U16 - 1 /\ low \in 0..U16 - 1 /\ v = low + high * U16
  BY <1>1, Divides
<1>3. Bytes4(v) = Bytes2(low) \o Bytes2(high)
  BY DEF Bytes4
<1> HIDE DEF low, high
<1>4. Bytes2(high)[1] + Bytes2(high)[2] * Base = high
  BY <1>2, TwoBytes
<1>5. Bytes2(low)[1] + Bytes2(low)[2] * Base = low
  BY <1>2, TwoBytes
<1>6. /\ Len(Bytes4(v)) = 4
      /\ Bytes4(v)[1] = Bytes2(low)[1] /\ Bytes4(v)[2] = Bytes2(low)[2]
      /\ Bytes4(v)[3] = Bytes2(high)[1] /\ Bytes4(v)[4] = Bytes2(high)[2]
  BY <1>3 DEF Bytes2
<1> QED
  BY <1>2, <1>4, <1>5, <1>6

-----------------------------------------------------------------------------
(***************************************************************************)
(* The bytes of an instruction are as many as its size.                    *)
(***************************************************************************)
CodeByte == Op \cup {"char32", "range32"} \cup 0..Base - 1

LEMMA CodeBytesType ==
    ASSUME NEW v \in Nat
    PROVE  Bytes2(v) \in Seq(CodeByte) /\ Bytes4(v) \in Seq(CodeByte)
<1>1. ASSUME NEW u \in Nat
      PROVE  Bytes2(u) \in Seq(CodeByte)
  <2>1. Base \in Nat \ {0}
    BY BaseAssumption
  <2>2. u % Base \in 0..Base - 1 /\ u \div Base \in Nat /\ (u \div Base) % Base \in 0..Base - 1
    BY <2>1
  <2>3. u % Base \in CodeByte /\ (u \div Base) % Base \in CodeByte
    BY <2>2 DEF CodeByte
  <2> QED
    BY <2>3 DEF Bytes2
<1>2. U16 \in Nat \ {0}
  BY BaseAssumption DEF U16
<1>3. v % U16 \in Nat /\ v \div U16 \in Nat
  BY <1>2
<1> QED
  BY <1>1, <1>3 DEF Bytes4

\* The operands of each kind of instruction.
LEMMA Operands ==
    ASSUME NEW i, IsInstr(i)
    PROVE  /\ Arity(i.op) = 0 => i.args = <<>>
           /\ Arity(i.op) = 1 => i.args = <<i.args[1]>>
           /\ Arity(i.op) = 1 /\ i.op \notin OfSets => i.args[1] \in 0..U32 - 1
           /\ Arity(i.op) = 2 => /\ i.args = <<i.args[1], i.args[2]>>
                                 /\ i.args[1] \in 0..U32 - 1 /\ i.args[2] \in 0..U32 - 1
<1>1. /\ Arity(i.op) = 0 => i.args = <<>>
      /\ Arity(i.op) = 1 => i.args = <<i.args[1]>>
      /\ Arity(i.op) = 2 => i.args = <<i.args[1], i.args[2]>>
  BY DEF IsInstr
<1>2. i.op \notin OfSets => \A a \in DOMAIN i.args : i.args[a] \in 0..U32 - 1
  BY DEF IsInstr
<1>3. Arity(i.op) = 1 => 1 \in DOMAIN i.args
  BY <1>1
<1>4. Arity(i.op) = 2 => 1 \in DOMAIN i.args /\ 2 \in DOMAIN i.args
  BY <1>1
<1>5. Arity(i.op) = 2 => i.op \notin OfSets
  BY DEF Arity, OfSets
<1> QED
  BY <1>1, <1>2, <1>3, <1>4, <1>5

LEMMA Encodings ==
    ASSUME NEW p, NEW i
    PROVE  /\ i.op = "label" => EncodeInstr(p, i) = <<>>
           /\ i.op \in OneByte => EncodeInstr(p, i) = <<i.op>>
           /\ i.op = "char" /\ Fit(i.args) => EncodeInstr(p, i) = <<"char">> \o Bytes2(i.args[1])
           /\ i.op = "char" /\ ~Fit(i.args) => EncodeInstr(p, i) = <<"char32">> \o Bytes4(i.args[1])
           /\ i.op = "range" /\ Fit(i.args) =>
                EncodeInstr(p, i) = <<"range">> \o Bytes2(i.args[1]) \o Bytes2(i.args[2])
           /\ i.op = "range" /\ ~Fit(i.args) =>
                EncodeInstr(p, i) = <<"range32">> \o Bytes4(i.args[1]) \o Bytes4(i.args[2])
           /\ i.op \in OfSets => EncodeInstr(p, i) = <<i.op>> \o Bytes2(SetIndex(p, i.args[1]))
           /\ i.op \in Jumps => EncodeInstr(p, i) = <<i.op>> \o Bytes2(LabelAt(p, i.label))
           /\ i.op = "call" => EncodeInstr(p, i) = <<i.op>> \o Bytes2(LabelAt(p, i.label)) \o <<0>>
           /\ i.op = "call_lr" =>
                EncodeInstr(p, i) = <<i.op>> \o Bytes2(LabelAt(p, i.label)) \o <<i.args[1] % Base>>
           /\ i.op = "cap_non_term" =>
                EncodeInstr(p, i) = <<i.op>> \o Bytes2(i.args[1]) \o Bytes2(i.args[2])
           /\ i.op \in WithNumber => EncodeInstr(p, i) = <<i.op>> \o Bytes2(i.args[1])
BY Zenon DEF EncodeInstr, OneByte, Jumps, OfSets, WithNumber

Is(s, n) == s \in Seq(CodeByte) /\ Len(s) = n

LEMMA Joined ==
    ASSUME NEW m \in Nat, NEW n \in Nat, NEW s, Is(s, m), NEW t, Is(t, n)
    PROVE  Is(s \o t, m + n)
BY DEF Is

LEMMA BytesJoined ==
    ASSUME NEW a \in CodeByte, NEW b \in CodeByte, NEW u \in Nat, NEW v \in Nat
    PROVE  /\ Is(<<a>>, 1)
           /\ Is(<<a>> \o Bytes2(u), 3) /\ Is(<<a>> \o Bytes2(u) \o <<b>>, 4)
           /\ Is(<<a>> \o Bytes4(u), 5) /\ Is(<<a>> \o Bytes2(u) \o Bytes2(v), 5)
           /\ Is(<<a>> \o Bytes4(u) \o Bytes4(v), 9)
<1>1. Is(<<a>>, 1) /\ Is(<<b>>, 1)
  BY DEF Is
<1>2. \A w \in Nat : Is(Bytes2(w), 2) /\ Is(Bytes4(w), 4)
  <2>1. \A w : Len(Bytes2(w)) = 2 /\ Len(Bytes4(w)) = 4
    BY DEF Bytes2, Bytes4
  <2> QED
    BY <2>1, CodeBytesType DEF Is
<1>3. Is(<<a>> \o Bytes2(u), 1 + 2)
  BY <1>1, <1>2, Joined
<1>4. Is(<<a>> \o Bytes4(u), 1 + 4)
  BY <1>1, <1>2, Joined
<1>5. Is(<<a>> \o Bytes2(u) \o <<b>>, 3 + 1)
  BY <1>1, <1>3, Joined
<1>6. Is(<<a>> \o Bytes2(u) \o Bytes2(v), 3 + 2)
  BY <1>2, <1>3, Joined
<1>7. Is(<<a>> \o Bytes4(u) \o Bytes4(v), 5 + 4)
  BY <1>2, <1>4, Joined
<1> QED
  BY <1>1, <1>3, <1>4, <1>5, <1>6, <1>7

\* The kinds of instructions, and how many bytes and operands each has.
LEMMA Kinds ==
    ASSUME NEW i, i.op \in Op, ~IsLabel(i)
    PROVE  \/ i.op \in OneByte /\ SizeInBytes(i) = 1 /\ Arity(i.op) = 0
           \/ i.op = "char" /\ SizeInBytes(i) = (IF Fit(i.args) THEN 3 ELSE 5) /\ Arity(i.op) = 1
           \/ i.op = "range" /\ SizeInBytes(i) = (IF Fit(i.args) THEN 5 ELSE 9) /\ Arity(i.op) = 2
           \/ i.op \in OfSets /\ SizeInBytes(i) = 3 /\ Arity(i.op) = 1
           \/ i.op \in Jumps /\ SizeInBytes(i) = 3 /\ Arity(i.op) = 0
           \/ i.op = "call" /\ SizeInBytes(i) = 4 /\ Arity(i.op) = 0
           \/ i.op = "call_lr" /\ SizeInBytes(i) = 4 /\ Arity(i.op) = 1
           \/ i.op = "cap_non_term" /\ SizeInBytes(i) = 5 /\ Arity(i.op) = 2
           \/ i.op \in WithNumber /\ SizeInBytes(i) = 3 /\ Arity(i.op) = 1
BY DEF Op, IsLabel, SizeInBytes, Arity, OneByte, OfSets, Jumps, Calls, WithNumber

LEMMA EncodeType ==
    ASSUME NEW S, NEW p \in Seq(S), IsCode(p), NEW k \in 1..Len(p)
    PROVE  EncodeInstr(p, p[k]) \in Seq(CodeByte) /\ Len(EncodeInstr(p, p[k])) = SizeInBytes(p[k])
<1> DEFINE i == p[k]
           e == EncodeInstr(p, i)
           label == LabelAt(p, i.label)
<1>1. IsInstr(i)
  BY DEF IsCode
<1>2. i.op \in Op /\ i.op \in CodeByte /\ {"char", "range", "char32", "range32"} \subseteq CodeByte
  BY <1>1 DEF CodeByte, IsInstr, Op
<1>3. i.op \in Jumps \cup Calls => label \in Nat
  BY LabelIsFound
<1>4. i.op \in OfSets => SetIndex(p, i.args[1]) \in Nat
  BY SetIsFound
<1>5. 0 \in CodeByte /\ U32 \in Nat /\ \A v \in Nat : v % Base \in CodeByte
  <2>1. Base \in Nat \ {0}
    BY BaseAssumption
  <2> QED
    BY <2>1 DEF CodeByte, U32, U16
<1>6. Arity(i.op) = 1 /\ i.op \notin OfSets => i.args[1] \in Nat
  BY <1>1, <1>5, Operands
<1>7. Arity(i.op) = 2 => i.args[1] \in Nat /\ i.args[2] \in Nat
  BY <1>1, <1>5, Operands
<1> SUFFICES Is(e, SizeInBytes(i))
  BY DEF Is
<1> HIDE DEF e, label, i
<1>9. CASE IsLabel(i)
  <2>1. i.op = "label"
    BY <1>9 DEF IsLabel
  <2>2. e = <<>>
    BY <2>1, Encodings DEF e
  <2>3. SizeInBytes(i) = 0
    BY <2>1 DEF SizeInBytes, OneByte, Calls
  <2> QED
    BY <2>2, <2>3 DEF Is
<1>10. CASE i.op \in OneByte /\ SizeInBytes(i) = 1
  <2>1. e = <<i.op>>
    BY <1>10, Encodings DEF e
  <2> QED
    BY <2>1, <1>2, <1>10, BytesJoined
<1>11. CASE i.op = "char" /\ SizeInBytes(i) = (IF Fit(i.args) THEN 3 ELSE 5) /\ Arity(i.op) = 1
  <2>1. i.op \notin OfSets
    BY <1>11 DEF OfSets
  <2>2. e = IF Fit(i.args) THEN <<"char">> \o Bytes2(i.args[1]) ELSE <<"char32">> \o Bytes4(i.args[1])
    BY <1>11, Encodings DEF e
  <2> QED
    BY <2>1, <2>2, <1>2, <1>6, <1>11, BytesJoined
<1>12. CASE i.op = "range" /\ SizeInBytes(i) = (IF Fit(i.args) THEN 5 ELSE 9) /\ Arity(i.op) = 2
  <2>1. e = IF Fit(i.args) THEN <<"range">> \o Bytes2(i.args[1]) \o Bytes2(i.args[2])
            ELSE <<"range32">> \o Bytes4(i.args[1]) \o Bytes4(i.args[2])
    BY <1>12, Encodings DEF e
  <2> QED
    BY <2>1, <1>2, <1>7, <1>12, BytesJoined
<1>13. CASE i.op \in OfSets /\ SizeInBytes(i) = 3
  <2>1. e = <<i.op>> \o Bytes2(SetIndex(p, i.args[1]))
    BY <1>13, Encodings DEF e
  <2> QED
    BY <2>1, <1>2, <1>4, <1>13, BytesJoined
<1>14. CASE i.op \in Jumps /\ SizeInBytes(i) = 3
  <2>1. e = <<i.op>> \o Bytes2(label)
    BY <1>14, Encodings DEF e, label
  <2> QED
    BY <2>1, <1>2, <1>3, <1>14, BytesJoined
<1>15. CASE i.op = "call" /\ SizeInBytes(i) = 4
  <2>1. e = <<i.op>> \o Bytes2(label) \o <<0>>
    BY <1>15, Encodings DEF e, label
  <2>2. label \in Nat
    BY <1>3, <1>15 DEF Calls
  <2> QED
    BY <2>1, <2>2, <1>2, <1>5, <1>15, BytesJoined
<1>16. CASE i.op = "call_lr" /\ SizeInBytes(i) = 4 /\ Arity(i.op) = 1
  <2>1. e = <<i.op>> \o Bytes2(label) \o <<i.args[1] % Base>>
    BY <1>16, Encodings DEF e, label
  <2>2. label \in Nat /\ i.op \notin OfSets
    BY <1>3, <1>16 DEF Calls, OfSets
  <2>3. i.args[1] % Base \in CodeByte
    BY <1>5, <1>6, <1>16, <2>2
  <2> QED
    BY <2>1, <2>2, <2>3, <1>2, <1>16, BytesJoined
<1>17. CASE i.op = "cap_non_term" /\ SizeInBytes(i) = 5 /\ Arity(i.op) = 2
  <2>1. e = <<i.op>> \o Bytes2(i.args[1]) \o Bytes2(i.args[2])
    BY <1>17, Encodings DEF e
  <2> QED
    BY <2>1, <1>2, <1>7, <1>17, BytesJoined
<1>18. CASE i.op \in WithNumber /\ SizeInBytes(i) = 3 /\ Arity(i.op) = 1
  <2>1. e = <<i.op>> \o Bytes2(i.args[1]) /\ i.op \notin OfSets
    BY <1>18, Encodings DEF e, WithNumber, OfSets
  <2> QED
    BY <2>1, <1>2, <1>6, <1>18, BytesJoined
<1> QED
  <2>1. ~IsLabel(i) => \/ i.op \in OneByte /\ SizeInBytes(i) = 1
                       \/ /\ i.op = "char" /\ Arity(i.op) = 1
                          /\ SizeInBytes(i) = (IF Fit(i.args) THEN 3 ELSE 5)
                       \/ /\ i.op = "range" /\ Arity(i.op) = 2
                          /\ SizeInBytes(i) = (IF Fit(i.args) THEN 5 ELSE 9)
                       \/ i.op \in OfSets /\ SizeInBytes(i) = 3
                       \/ i.op \in Jumps /\ SizeInBytes(i) = 3
                       \/ i.op = "call" /\ SizeInBytes(i) = 4
                       \/ i.op = "call_lr" /\ SizeInBytes(i) = 4 /\ Arity(i.op) = 1
                       \/ i.op = "cap_non_term" /\ SizeInBytes(i) = 5 /\ Arity(i.op) = 2
                       \/ i.op \in WithNumber /\ SizeInBytes(i) = 3 /\ Arity(i.op) = 1
    BY <1>2, Kinds
  <2> QED
    BY <2>1, <1>9, <1>10, <1>11, <1>12, <1>13, <1>14, <1>15, <1>16, <1>17, <1>18

LEMMA CodeSteps ==
    ASSUME NEW S, NEW p \in Seq(S), IsCode(p)
    PROVE  \E f \in [0..Len(p) -> Seq(CodeByte)] :
              /\ f[0] = <<>> /\ \A n \in 1..Len(p) : f[n] = AddCode(f[n - 1], p, n)
              /\ Encode(p) = f[Len(p)]
<1> DEFINE N == Len(p)
           U == Seq(CodeByte)
           g == [x \in (1..N) \X U |-> AddCode(x[2], p, x[1])]
           code[n \in 0..N] == IF n = 0 THEN <<>> ELSE AddCode(code[n - 1], p, n)
<1>1. N \in Nat /\ <<>> \in U
  OBVIOUS
<1>2. ASSUME NEW n \in 1..N, NEW u \in U
      PROVE  AddCode(u, p, n) \in U
  BY EncodeType DEF AddCode
<1>3. g \in [(1..N) \X U -> U]
  BY <1>2
<1>4. PICK f \in [0..N -> U] : Unfolds(f, N, <<>>, g)
  <2> HIDE DEF g, N, U
  <2> QED
    BY <1>1, <1>3, Recursion
<1>9. ASSUME NEW n \in 1..N
      PROVE  f[n] = AddCode(f[n - 1], p, n)
  <2>1. n - 1 \in 0..N
    BY <1>1
  <2>2. <<n, f[n - 1]>> \in (1..N) \X U
    BY <2>1, <1>4
  <2>3. g[<<n, f[n - 1]>>] = AddCode(f[n - 1], p, n)
    BY <2>2
  <2> HIDE DEF g
  <2> QED
    BY <1>4, <2>3 DEF Unfolds
<1>5. f[0] = <<>> /\ CodeOf(p, f)
  <2>1. f[0] = <<>>
    BY <1>4 DEF Unfolds
  <2>2. \A n \in 0..N : n # 0 => n \in 1..N
    BY <1>1
  <2> HIDE DEF g, U
  <2> QED
    BY <1>4, <1>9, <2>1, <2>2 DEF CodeOf
<1>6. CodeOf(p, code)
  BY <1>5 DEF CodeOf
<1>7. code = f
  <2> DEFINE T == {n \in 0..N : code[n] = f[n]}
  <2>1. 0 \in T /\ \A n \in 0..N - 1 : n \in T => n + 1 \in T
    <3> HIDE DEF code, g, U
    <3>1. 0 \in T
      BY <1>1, <1>5, <1>6 DEF CodeOf
    <3>2. ASSUME NEW n \in 0..N - 1, n \in T PROVE n + 1 \in T
      <4>1. n + 1 \in 0..N /\ n + 1 # 0 /\ n + 1 - 1 = n
        BY <1>1
      <4> QED
        BY <3>2, <4>1, <1>5, <1>6 DEF CodeOf
    <3> QED
      BY <3>1, <3>2
  <2>2. \A n \in 0..N : n \in T
    <3> HIDE DEF T, N
    <3> QED
      BY <1>1, <2>1, UpTo
  <2> HIDE DEF code, g, U
  <2> QED
    BY <2>2, <1>5, <1>6 DEF CodeOf
<1>8. Encode(p) = code[N]
  BY DEF Encode, AddCode
<1>10. f \in [0..Len(p) -> Seq(CodeByte)]
  BY <1>4
<1> HIDE DEF code, g, U
<1> QED
  BY <1>10, <1>5, <1>7, <1>8, <1>9

LEMMA Concatenated ==
    ASSUME NEW s \in Seq(CodeByte), NEW t \in Seq(CodeByte)
    PROVE  /\ Len(s \o t) = Len(s) + Len(t)
           /\ \A i \in 1..Len(s) : (s \o t)[i] = s[i]
           /\ \A i \in 1..Len(t) : (s \o t)[Len(s) + i] = t[i]
OBVIOUS

\* The code is as long as the addresses say, and holds each instruction at its own.
LEMMA CodeHolds ==
    ASSUME NEW S, NEW p \in Seq(S), IsCode(p)
    PROVE  /\ Len(Encode(p)) = SizeOf(p)
           /\ \A k \in 1..Len(p) : \A j \in 1..SizeInBytes(p[k]) :
                 Encode(p)[Address(p, k) + j] = EncodeInstr(p, p[k])[j]
<1> DEFINE N == Len(p)
<1>1. PICK c \in [0..N -> Seq(CodeByte)] :
            /\ c[0] = <<>> /\ \A n \in 1..N : c[n] = AddCode(c[n - 1], p, n)
            /\ Encode(p) = c[N]
  BY CodeSteps
<1> DEFINE Long(n) == Len(c[n]) = Address(p, n + 1)
           Holds(n) == \A k \in 1..n : \A j \in 1..SizeInBytes(p[k]) :
                          c[n][Address(p, k) + j] = EncodeInstr(p, p[k])[j]
           T == {n \in 0..N : Long(n) /\ Holds(n)}
<1>2. 0 \in T
  BY <1>1, AddressSteps
<1>3. ASSUME NEW n \in 0..N - 1, n \in T
      PROVE  n + 1 \in T
  <2>1. n + 1 \in 1..N /\ n \in 0..N /\ n + 1 - 1 = n
    OBVIOUS
  <2> DEFINE s == c[n]
             t == EncodeInstr(p, p[n + 1])
  <2>2. c[n + 1] = s \o t
    <3>1. c[n + 1] = AddCode(c[n], p, n + 1)
      BY <1>1, <2>1
    <3> QED
      BY <3>1 DEF AddCode
  <2>3. s \in Seq(CodeByte) /\ Len(s) = Address(p, n + 1) /\ Holds(n)
    BY <1>1, <1>3, <2>1
  <2>4. t \in Seq(CodeByte) /\ Len(t) = SizeInBytes(p[n + 1])
    BY <2>1, EncodeType
  <2>5. /\ Len(s \o t) = Len(s) + Len(t)
        /\ \A i \in 1..Len(s) : (s \o t)[i] = s[i]
        /\ \A i \in 1..Len(t) : (s \o t)[Len(s) + i] = t[i]
    <3>1. s \in Seq(CodeByte) /\ t \in Seq(CodeByte)
      BY <2>3, <2>4
    <3> HIDE DEF s, t
    <3> QED
      BY <3>1, Concatenated
  <2>6. Address(p, n + 1 + 1) = Address(p, n + 1) + SizeInBytes(p[n + 1])
    BY <2>1, AddressSteps
  <2>7. ASSUME NEW k \in 1..n + 1, NEW j \in 1..SizeInBytes(p[k])
        PROVE  c[n + 1][Address(p, k) + j] = EncodeInstr(p, p[k])[j]
    <3>1. CASE k = n + 1
      <4>1. j \in 1..Len(t) /\ Len(s) + j = Address(p, k) + j
        BY <2>3, <2>4, <2>7, <3>1
      <4> QED
        BY <2>2, <2>5, <3>1, <4>1
    <3>2. CASE k \in 1..n
      <4>1. s[Address(p, k) + j] = EncodeInstr(p, p[k])[j]
        BY <2>3, <2>7, <3>2
      <4>2. k \in 1..Len(p) /\ n + 1 \in 1..Len(p) /\ k < n + 1
        BY <2>1, <3>2
      <4>3. Address(p, k) \in Nat /\ Address(p, k) + SizeInBytes(p[k]) <= Address(p, n + 1)
        BY <4>2, AddressSteps, AddressesGrow
      <4>4. SizeInBytes(p[k]) \in Nat /\ Address(p, n + 1) \in Nat
        BY <4>2, SizeType, AddressSteps
      <4>5. Address(p, k) + j \in 1..Len(s)
        BY <2>3, <2>7, <4>3, <4>4
      <4> QED
        BY <2>2, <2>5, <4>1, <4>5
    <3> QED
      BY <2>1, <2>7, <3>1, <3>2
  <2>8. Long(n + 1)
    BY <2>2, <2>3, <2>4, <2>5, <2>6
  <2> QED
    BY <2>1, <2>7, <2>8
<1>4. N \in T
  <2>1. N \in Nat /\ N \in 0..N
    OBVIOUS
  <2> HIDE DEF T, N
  <2> QED
    BY <1>2, <1>3, <2>1, UpTo
<1> QED
  BY <1>1, <1>4 DEF SizeOf

-----------------------------------------------------------------------------
(***************************************************************************)
(* What the machine reads.                                                 *)
(***************************************************************************)
\* A number begins after an address.
At2(code, at, v) == \A j \in 1..2 : code[at + j] = Bytes2(v)[j]
At4(code, at, v) == \A j \in 1..4 : code[at + j] = Bytes4(v)[j]

LEMMA Reads ==
    ASSUME NEW v \in Nat, NEW code, NEW at \in Nat
    PROVE  /\ v < U16 /\ At2(code, at, v) => DecodeU16(code, at) = v
           /\ v < U32 /\ At4(code, at, v) => DecodeU32(code, at) = v
<1>1. U16 \in Nat /\ U32 \in Nat
  BY BaseAssumption DEF U16, U32
<1>2. ASSUME v < U16, At2(code, at, v)
      PROVE  DecodeU16(code, at) = v
  <2>1. v \in 0..U16 - 1
    BY <1>1, <1>2
  <2>2. code[at + 1] = Bytes2(v)[1] /\ code[at + 2] = Bytes2(v)[2]
    BY <1>2 DEF At2
  <2> QED
    BY <2>1, <2>2, TwoBytes DEF DecodeU16
<1>3. ASSUME v < U32, At4(code, at, v)
      PROVE  DecodeU32(code, at) = v
  <2>1. v \in 0..U32 - 1
    BY <1>1, <1>3
  <2>2. /\ code[at + 1] = Bytes4(v)[1] /\ code[at + 2] = Bytes4(v)[2]
        /\ code[at + 3] = Bytes4(v)[3] /\ code[at + 4] = Bytes4(v)[4]
    BY <1>3 DEF At4
  <2>3. at + 2 + 1 = at + 3 /\ at + 2 + 2 = at + 4
    OBVIOUS
  <2> QED
    BY <2>1, <2>2, <2>3, FourBytes DEF DecodeU16, DecodeU32
<1> QED
  BY <1>2, <1>3

\* The code from an address on begins with these bytes.
Begins(code, at, bytes, n) == \A j \in 1..n : code[at + j] = bytes[j]

LEMMA Begun ==
    ASSUME NEW code, NEW at \in Nat, NEW s
    PROVE  /\ Begins(code, at, s, 1) \/ Begins(code, at, s, 3) \/ Begins(code, at, s, 4)
                \/ Begins(code, at, s, 5) \/ Begins(code, at, s, 9) => code[at + 1] = s[1]
           /\ Begins(code, at, s, 3) \/ Begins(code, at, s, 4) \/ Begins(code, at, s, 5) =>
                \A n \in 1..2 : code[at + 1 + n] = s[1 + n]
           /\ Begins(code, at, s, 5) \/ Begins(code, at, s, 9) =>
                \A n \in 1..4 : code[at + 1 + n] = s[1 + n]
           /\ Begins(code, at, s, 4) => code[at + 4] = s[4]
           /\ Begins(code, at, s, 5) => \A n \in 1..2 : code[at + 3 + n] = s[3 + n]
           /\ Begins(code, at, s, 9) => \A n \in 1..4 : code[at + 5 + n] = s[5 + n]
<1> DEFINE At(n) == /\ code[at + 1 + n] = code[at + (1 + n)] /\ code[at + 3 + n] = code[at + (3 + n)]
                    /\ code[at + 5 + n] = code[at + (5 + n)]
<1>1. \A n \in 1..4 : At(n)
  OBVIOUS
<1>2. Begins(code, at, s, 1) \/ Begins(code, at, s, 3) \/ Begins(code, at, s, 4)
        \/ Begins(code, at, s, 5) \/ Begins(code, at, s, 9) => code[at + 1] = s[1]
  BY DEF Begins
<1>3. Begins(code, at, s, 3) \/ Begins(code, at, s, 4) \/ Begins(code, at, s, 5) =>
        \A n \in 1..2 : code[at + 1 + n] = s[1 + n]
  BY <1>1 DEF Begins
<1>4. Begins(code, at, s, 5) \/ Begins(code, at, s, 9) =>
        \A n \in 1..4 : code[at + 1 + n] = s[1 + n]
  BY <1>1 DEF Begins
<1>5. Begins(code, at, s, 4) => code[at + 4] = s[4]
  BY DEF Begins
<1>6. Begins(code, at, s, 5) => \A n \in 1..2 : code[at + 3 + n] = s[3 + n]
  BY <1>1 DEF Begins
<1>7. Begins(code, at, s, 9) => \A n \in 1..4 : code[at + 5 + n] = s[5 + n]
  BY <1>1 DEF Begins
<1> QED
  BY <1>2, <1>3, <1>4, <1>5, <1>6, <1>7

LEMMA Lengths == \A v : Len(Bytes2(v)) = 2 /\ Len(Bytes4(v)) = 4
BY DEF Bytes2, Bytes4

LEMMA FoundByte ==
    ASSUME NEW code, NEW at \in Nat, NEW s, NEW a, s = <<a>>, Begins(code, at, s, 1)
    PROVE  code[at + 1] = a
BY Begun

LEMMA FoundNumber ==
    ASSUME NEW code, NEW at \in Nat, NEW s, NEW a, NEW u, Begins(code, at, s, 3)
    PROVE  s = <<a>> \o Bytes2(u) =>
                code[at + 1] = a /\ At2(code, at + 1, u)
<1>1. code[at + 1] = s[1] /\ \A n \in 1..2 : code[at + 1 + n] = s[1 + n]
  BY Begun
<1>2. s = <<a>> \o Bytes2(u) =>
        s[1] = a /\ \A n \in 1..2 : s[1 + n] = Bytes2(u)[n]
  BY Lengths DEF Bytes2
<1> QED
  BY <1>1, <1>2 DEF At2

LEMMA FoundWideNumber ==
    ASSUME NEW code, NEW at \in Nat, NEW s, NEW a, NEW u, Begins(code, at, s, 5)
    PROVE  s = <<a>> \o Bytes4(u) =>
                code[at + 1] = a /\ At4(code, at + 1, u)
<1>1. code[at + 1] = s[1] /\ \A n \in 1..4 : code[at + 1 + n] = s[1 + n]
  BY Begun
<1>2. s = <<a>> \o Bytes4(u) =>
        s[1] = a /\ \A n \in 1..4 : s[1 + n] = Bytes4(u)[n]
  BY Lengths DEF Bytes2, Bytes4
<1> QED
  BY <1>1, <1>2 DEF At4

LEMMA FoundNumberAndByte ==
    ASSUME NEW code, NEW at \in Nat, NEW s, NEW a, NEW u, NEW b, Begins(code, at, s, 4)
    PROVE  s = <<a>> \o Bytes2(u) \o <<b>> =>
                code[at + 1] = a /\ At2(code, at + 1, u) /\ code[at + 4] = b
<1>1. code[at + 1] = s[1] /\ code[at + 4] = s[4] /\ \A n \in 1..2 : code[at + 1 + n] = s[1 + n]
  BY Begun
<1>2. s = <<a>> \o Bytes2(u) \o <<b>> =>
        s[1] = a /\ s[4] = b /\ \A n \in 1..2 : s[1 + n] = Bytes2(u)[n]
  BY Lengths DEF Bytes2
<1> QED
  BY <1>1, <1>2 DEF At2

LEMMA FoundNumbers ==
    ASSUME NEW code, NEW at \in Nat, NEW s, NEW a, NEW u, NEW v,
           Begins(code, at, s, 5)
    PROVE  s = <<a>> \o Bytes2(u) \o Bytes2(v) =>
                code[at + 1] = a /\ At2(code, at + 1, u) /\ At2(code, at + 3, v)
<1>1. code[at + 1] = s[1] /\ \A n \in 1..2 : code[at + 1 + n] = s[1 + n] /\ code[at + 3 + n] = s[3 + n]
  BY Begun
<1>2. s = <<a>> \o Bytes2(u) \o Bytes2(v) =>
        s[1] = a /\ \A n \in 1..2 : s[1 + n] = Bytes2(u)[n] /\ s[3 + n] = Bytes2(v)[n]
  BY Lengths DEF Bytes2
<1> QED
  BY <1>1, <1>2 DEF At2

LEMMA FoundWideNumbers ==
    ASSUME NEW code, NEW at \in Nat, NEW s, NEW a, NEW u, NEW v,
           Begins(code, at, s, 9)
    PROVE  s = <<a>> \o Bytes4(u) \o Bytes4(v) =>
                code[at + 1] = a /\ At4(code, at + 1, u) /\ At4(code, at + 5, v)
<1>1. code[at + 1] = s[1] /\ \A n \in 1..4 : code[at + 1 + n] = s[1 + n] /\ code[at + 5 + n] = s[5 + n]
  BY Begun
<1>2. s = <<a>> \o Bytes4(u) \o Bytes4(v) =>
        s[1] = a /\ \A n \in 1..4 : s[1 + n] = Bytes4(u)[n] /\ s[5 + n] = Bytes4(v)[n]
  BY Lengths DEF Bytes2, Bytes4
<1> QED
  BY <1>1, <1>2 DEF At4

LEMMA ReadsAnInstruction ==
    ASSUME NEW S, NEW p \in Seq(S), IsCode(p), ProgramFits(p), NEW k \in 1..Len(p), ~IsLabel(p[k]),
           NEW code, Begins(code, Address(p, k), EncodeInstr(p, p[k]), SizeInBytes(p[k]))
    PROVE  Fetch(code, Sets(p), Address(p, k)) = Meant(p, k)
<1> DEFINE i == p[k]
           e == EncodeInstr(p, i)
           at == Address(p, k)
           label == LabelAt(p, i.label)
           index == SetIndex(p, i.args[1])
           fetched == Fetch(code, Sets(p), at)
           meant(to) == Fetched(i.op, to, i.args, at + SizeInBytes(i))
<1>1. IsInstr(i) /\ i.op \in Op /\ ~IsLabel(i)
  <2>1. IsInstr(i)
    BY DEF IsCode
  <2> QED
    BY <2>1 DEF IsInstr
<1>2. at \in Nat
  BY AddressSteps
<1>3. i.op \in Jumps \cup Calls => label \in Nat /\ label < U16
  BY LabelIsFound
<1>4. i.op \in OfSets => index \in Nat /\ index < U16 /\ Sets(p)[index + 1] = i.args[1]
  <2>1. Len(Sets(p)) <= U16 /\ U16 \in Nat
    BY BaseAssumption DEF ProgramFits, U16
  <2> QED
    BY <2>1, SetIsFound
<1>5. Meant(p, k) = IF i.op \in Jumps \cup Calls THEN meant(label) ELSE meant(-1)
  BY DEF Meant
<1>6. i.op \notin OfSets => \A a \in DOMAIN i.args : i.args[a] < Limit(i.op)
  BY DEF ProgramFits
<1>7. Begins(code, at, e, SizeInBytes(i))
  OBVIOUS
<1> SUFFICES fetched = Meant(p, k)
  OBVIOUS
<1> HIDE DEF i, e, at, label, index, fetched, meant
<1>8. Arity(i.op) = 1 /\ i.op \notin OfSets => i.args[1] \in Nat /\ i.args[1] < U32 /\ i.args[1] < Limit(i.op)
  <2>1. Arity(i.op) = 1 => i.args = <<i.args[1]>>
    BY <1>1, Operands
  <2>2. Arity(i.op) = 1 => 1 \in DOMAIN i.args
    BY <2>1
  <2>3. U32 \in Nat
    BY BaseAssumption DEF U32, U16
  <2> QED
    BY <1>1, <1>6, <2>2, <2>3, Operands
<1>9. CASE i.op \in OneByte /\ SizeInBytes(i) = 1 /\ Arity(i.op) = 0
  <2>1. e = <<i.op>> /\ i.op \notin Jumps \cup Calls
    BY <1>9, Encodings DEF e, OneByte, Jumps, Calls
  <2>2. code[at + 1] = i.op
    BY <1>2, <1>7, <1>9, <2>1, FoundByte
  <2>3. fetched = Fetched(i.op, -1, <<>>, at + 1)
    <3>1. code[at + 1] \in OneByte
      BY <1>9, <2>2
    <3>2. fetched = Fetched(code[at + 1], -1, <<>>, at + 1)
      BY <3>1, Zenon DEF fetched, Fetch, OneByte, Jumps, OfSets, WithNumber
    <3> QED
      BY <2>2, <3>2
  <2>4. i.args = <<>>
    BY <1>1, <1>9, Operands
  <2> QED
    BY <1>5, <1>9, <2>1, <2>3, <2>4 DEF meant
<1>10. CASE i.op \in OfSets /\ SizeInBytes(i) = 3 /\ Arity(i.op) = 1
  <2>1. e = <<i.op>> \o Bytes2(index) /\ i.op \notin Jumps \cup Calls
    BY <1>10, Encodings DEF e, index, OfSets, Jumps, Calls
  <2>2. code[at + 1] = i.op /\ At2(code, at + 1, index)
    BY <1>2, <1>7, <1>10, <2>1, FoundNumber
  <2>3. fetched = Fetched(i.op, -1, <<Sets(p)[DecodeU16(code, at + 1) + 1]>>, at + 3)
    <3>1. code[at + 1] \in OfSets
      BY <1>10, <2>2
    <3>2. fetched = Fetched(code[at + 1], -1, <<Sets(p)[DecodeU16(code, at + 1) + 1]>>, at + 3)
      BY <3>1, Zenon DEF fetched, Fetch, OneByte, Jumps, OfSets, WithNumber
    <3> QED
      BY <2>2, <3>2
  <2>4. DecodeU16(code, at + 1) = index
    BY <1>2, <1>4, <1>10, <2>2, Reads
  <2>5. i.args = <<i.args[1]>>
    BY <1>1, <1>10, Operands
  <2> QED
    BY <1>4, <1>5, <1>10, <2>1, <2>3, <2>4, <2>5 DEF meant
<1>11. CASE i.op = "char" /\ SizeInBytes(i) = (IF Fit(i.args) THEN 3 ELSE 5) /\ Arity(i.op) = 1
  <2>1. i.op \notin Jumps \cup Calls /\ i.op \notin OfSets
    BY <1>11 DEF Jumps, Calls, OfSets
  <2>2. i.args = <<i.args[1]>>
    BY <1>1, <1>11, Operands
  <2>3. i.args[1] \in Nat /\ i.args[1] < U32 /\ (Fit(i.args) => i.args[1] < U16)
    BY <1>8, <1>11, <2>1, <2>2 DEF Fit, FitsU16
  <2>4. CASE Fit(i.args)
    <3>1. e = <<"char">> \o Bytes2(i.args[1])
      BY <1>11, <2>4, Encodings DEF e
    <3>2. code[at + 1] = "char" /\ At2(code, at + 1, i.args[1])
      BY <1>2, <1>7, <1>11, <2>4, <3>1, FoundNumber
    <3>3. fetched = Fetched("char", -1, <<DecodeU16(code, at + 1)>>, at + 3)
      BY <3>2, Zenon DEF fetched, Fetch, OneByte, Jumps, OfSets, WithNumber
    <3>4. DecodeU16(code, at + 1) = i.args[1]
      BY <1>2, <2>3, <2>4, <3>2, Reads
    <3> QED
      BY <1>5, <1>11, <2>1, <2>2, <2>4, <3>3, <3>4 DEF meant
  <2>5. CASE ~Fit(i.args)
    <3>1. e = <<"char32">> \o Bytes4(i.args[1])
      BY <1>11, <2>5, Encodings DEF e
    <3>2. code[at + 1] = "char32" /\ At4(code, at + 1, i.args[1])
      BY <1>2, <1>7, <1>11, <2>5, <3>1, FoundWideNumber
    <3>3. fetched = Fetched("char", -1, <<DecodeU32(code, at + 1)>>, at + 5)
      BY <3>2, Zenon DEF fetched, Fetch, OneByte, Jumps, OfSets, WithNumber
    <3>4. DecodeU32(code, at + 1) = i.args[1]
      BY <1>2, <2>3, <3>2, Reads
    <3> QED
      BY <1>5, <1>11, <2>1, <2>2, <2>5, <3>3, <3>4 DEF meant
  <2> QED
    BY <2>4, <2>5
<1>12. CASE i.op = "range" /\ SizeInBytes(i) = (IF Fit(i.args) THEN 5 ELSE 9) /\ Arity(i.op) = 2
  <2>1. i.op \notin Jumps \cup Calls
    BY <1>12 DEF Jumps, Calls
  <2>2. i.args = <<i.args[1], i.args[2]>>
    BY <1>1, <1>12, Operands
  <2>3. /\ i.args[1] \in Nat /\ i.args[1] < U32 /\ (Fit(i.args) => i.args[1] < U16)
        /\ i.args[2] \in Nat /\ i.args[2] < U32 /\ (Fit(i.args) => i.args[2] < U16)
    <3>1. 1 \in DOMAIN i.args /\ 2 \in DOMAIN i.args /\ U32 \in Nat
      BY <2>2, BaseAssumption DEF U32, U16
    <3> QED
      BY <1>1, <1>12, <3>1, Operands DEF Fit, FitsU16
  <2>4. CASE Fit(i.args)
    <3>1. e = <<"range">> \o Bytes2(i.args[1]) \o Bytes2(i.args[2])
      BY <1>12, <2>4, Encodings DEF e
    <3>2. code[at + 1] = "range" /\ At2(code, at + 1, i.args[1]) /\ At2(code, at + 3, i.args[2])
      BY <1>2, <1>7, <1>12, <2>4, <3>1, FoundNumbers
    <3>3. fetched = Fetched("range", -1, <<DecodeU16(code, at + 1), DecodeU16(code, at + 3)>>, at + 5)
      BY <3>2, Zenon DEF fetched, Fetch, OneByte, Jumps, OfSets, WithNumber
    <3>4. DecodeU16(code, at + 1) = i.args[1] /\ DecodeU16(code, at + 3) = i.args[2]
      BY <1>2, <2>3, <2>4, <3>2, Reads
    <3> QED
      BY <1>5, <1>12, <2>1, <2>2, <2>4, <3>3, <3>4 DEF meant
  <2>5. CASE ~Fit(i.args)
    <3>1. e = <<"range32">> \o Bytes4(i.args[1]) \o Bytes4(i.args[2])
      BY <1>12, <2>5, Encodings DEF e
    <3>2. code[at + 1] = "range32" /\ At4(code, at + 1, i.args[1]) /\ At4(code, at + 5, i.args[2])
      BY <1>2, <1>7, <1>12, <2>5, <3>1, FoundWideNumbers
    <3>3. fetched = Fetched("range", -1, <<DecodeU32(code, at + 1), DecodeU32(code, at + 5)>>, at + 9)
      BY <3>2, Zenon DEF fetched, Fetch, OneByte, Jumps, OfSets, WithNumber
    <3>4. DecodeU32(code, at + 1) = i.args[1] /\ DecodeU32(code, at + 5) = i.args[2]
      BY <1>2, <2>3, <3>2, Reads
    <3> QED
      BY <1>5, <1>12, <2>1, <2>2, <2>5, <3>3, <3>4 DEF meant
  <2> QED
    BY <2>4, <2>5
<1>13. CASE i.op \in Jumps /\ SizeInBytes(i) = 3 /\ Arity(i.op) = 0
  <2>1. e = <<i.op>> \o Bytes2(label)
    BY <1>13, Encodings DEF e, label
  <2>2. code[at + 1] = i.op /\ At2(code, at + 1, label)
    BY <1>2, <1>7, <1>13, <2>1, FoundNumber
  <2>3. fetched = Fetched(i.op, DecodeU16(code, at + 1), <<>>, at + 3)
    <3>1. code[at + 1] \in Jumps
      BY <1>13, <2>2
    <3>2. fetched = Fetched(code[at + 1], DecodeU16(code, at + 1), <<>>, at + 3)
      BY <3>1, Zenon DEF fetched, Fetch, OneByte, Jumps, OfSets, WithNumber
    <3> QED
      BY <2>2, <3>2
  <2>4. DecodeU16(code, at + 1) = label
    BY <1>2, <1>3, <1>13, <2>2, Reads
  <2>5. i.args = <<>>
    BY <1>1, <1>13, Operands
  <2> QED
    BY <1>5, <1>13, <2>3, <2>4, <2>5 DEF meant
<1>14. CASE i.op = "call" /\ SizeInBytes(i) = 4 /\ Arity(i.op) = 0
  <2>1. e = <<i.op>> \o Bytes2(label) \o <<0>> /\ i.op \in Jumps \cup Calls
    BY <1>14, Encodings DEF e, label, Calls
  <2>2. code[at + 1] = i.op /\ At2(code, at + 1, label)
    BY <1>2, <1>7, <1>14, <2>1, FoundNumberAndByte
  <2>3. fetched = Fetched(i.op, DecodeU16(code, at + 1), <<>>, at + 4)
    <3>1. code[at + 1] = "call"
      BY <1>14, <2>2
    <3>2. fetched = Fetched(code[at + 1], DecodeU16(code, at + 1), <<>>, at + 4)
      BY <3>1, Zenon DEF fetched, Fetch, OneByte, Jumps, OfSets, WithNumber
    <3> QED
      BY <2>2, <3>2
  <2>4. DecodeU16(code, at + 1) = label
    BY <1>2, <1>3, <2>1, <2>2, Reads
  <2>5. i.args = <<>>
    BY <1>1, <1>14, Operands
  <2> QED
    BY <1>5, <1>14, <2>1, <2>3, <2>4, <2>5 DEF meant
<1>15. CASE i.op = "call_lr" /\ SizeInBytes(i) = 4 /\ Arity(i.op) = 1
  <2>1. /\ e = <<i.op>> \o Bytes2(label) \o <<i.args[1] % Base>>
        /\ i.op \in Jumps \cup Calls /\ i.op \notin OfSets /\ Limit(i.op) = Base
    BY <1>15, Encodings DEF e, label, Calls, OfSets, Limit
  <2>2. code[at + 1] = i.op /\ At2(code, at + 1, label) /\ code[at + 4] = i.args[1] % Base
    BY <1>2, <1>7, <1>15, <2>1, FoundNumberAndByte
  <2>3. fetched = Fetched(i.op, DecodeU16(code, at + 1), <<code[at + 4]>>, at + 4)
    <3>1. code[at + 1] = "call_lr"
      BY <1>15, <2>2
    <3>2. fetched = Fetched(code[at + 1], DecodeU16(code, at + 1), <<code[at + 4]>>, at + 4)
      BY <3>1, Zenon DEF fetched, Fetch, OneByte, Jumps, OfSets, WithNumber
    <3> QED
      BY <2>2, <3>2
  <2>4. DecodeU16(code, at + 1) = label
    BY <1>2, <1>3, <2>1, <2>2, Reads
  <2>5. i.args = <<i.args[1]>>
    BY <1>1, <1>15, Operands
  <2>6. i.args[1] % Base = i.args[1]
    <3>1. i.args[1] \in Nat /\ i.args[1] < Base
      BY <1>8, <1>15, <2>1
    <3> QED
      BY <3>1, BaseAssumption
  <2> QED
    BY <1>5, <1>15, <2>1, <2>2, <2>3, <2>4, <2>5, <2>6 DEF meant
<1>16. CASE i.op = "cap_non_term" /\ SizeInBytes(i) = 5 /\ Arity(i.op) = 2
  <2>1. /\ e = <<i.op>> \o Bytes2(i.args[1]) \o Bytes2(i.args[2])
        /\ i.op \notin Jumps \cup Calls /\ i.op \notin OfSets /\ Limit(i.op) = U16
    BY <1>16, Encodings DEF e, Jumps, Calls, OfSets, Limit
  <2>2. i.args = <<i.args[1], i.args[2]>>
    BY <1>1, <1>16, Operands
  <2>3. i.args[1] \in Nat /\ i.args[1] < U16 /\ i.args[2] \in Nat /\ i.args[2] < U16
    <3>1. 1 \in DOMAIN i.args /\ 2 \in DOMAIN i.args /\ U32 \in Nat
      BY <2>2, BaseAssumption DEF U32, U16
    <3> QED
      BY <1>1, <1>6, <1>16, <2>1, <3>1, Operands
  <2>4. code[at + 1] = i.op /\ At2(code, at + 1, i.args[1]) /\ At2(code, at + 3, i.args[2])
    BY <1>2, <1>7, <1>16, <2>1, FoundNumbers
  <2>5. fetched = Fetched(i.op, -1, <<DecodeU16(code, at + 1), DecodeU16(code, at + 3)>>, at + 5)
    <3>1. code[at + 1] = "cap_non_term"
      BY <1>16, <2>4
    <3>2. fetched = Fetched(code[at + 1], -1, <<DecodeU16(code, at + 1), DecodeU16(code, at + 3)>>, at + 5)
      BY <3>1, Zenon DEF fetched, Fetch, OneByte, Jumps, OfSets, WithNumber
    <3> QED
      BY <2>4, <3>2
  <2>6. DecodeU16(code, at + 1) = i.args[1] /\ DecodeU16(code, at + 3) = i.args[2]
    BY <1>2, <2>3, <2>4, Reads
  <2> QED
    BY <1>5, <1>16, <2>1, <2>2, <2>5, <2>6 DEF meant
<1>17. CASE i.op \in WithNumber /\ SizeInBytes(i) = 3 /\ Arity(i.op) = 1
  <2>1. e = <<i.op>> \o Bytes2(i.args[1])
    BY <1>17, Encodings DEF e
  <2>2. i.op \notin Jumps \cup Calls /\ i.op \notin OfSets /\ Limit(i.op) = U16
    BY <1>17 DEF WithNumber, Jumps, Calls, OfSets, Limit
  <2>3. i.args = <<i.args[1]>>
    BY <1>1, <1>17, Operands
  <2>4. i.args[1] \in Nat /\ i.args[1] < U16
    BY <1>8, <1>17, <2>2
  <2>5. code[at + 1] = i.op /\ At2(code, at + 1, i.args[1])
    BY <1>2, <1>7, <1>17, <2>1, FoundNumber
  <2>6. fetched = Fetched(i.op, -1, <<DecodeU16(code, at + 1)>>, at + 3)
    <3>1. code[at + 1] \in WithNumber
      BY <1>17, <2>5
    <3>2. fetched = Fetched(code[at + 1], -1, <<DecodeU16(code, at + 1)>>, at + 3)
      BY <3>1, Zenon DEF fetched, Fetch, OneByte, Jumps, OfSets, WithNumber
    <3> QED
      BY <2>5, <3>2
  <2>7. DecodeU16(code, at + 1) = i.args[1]
    BY <1>2, <2>4, <2>5, Reads
  <2> QED
    BY <1>5, <1>17, <2>2, <2>3, <2>6, <2>7 DEF meant
<1> QED
  BY <1>1, <1>9, <1>10, <1>11, <1>12, <1>13, <1>14, <1>15, <1>16, <1>17, Kinds

-----------------------------------------------------------------------------
(***************************************************************************)
(* vm_encoder.go and the loop of vm.go agree about every program the       *)
(* compiler may leave: at the address of each instruction the machine finds*)
(* that instruction, a jump leads to the address of its label, and the code*)
(* has a place of its own for each, of its size, in order.                 *)
(***************************************************************************)
\* MachineReadsProgram, whatever the instructions, their number and the charsets.
THEOREM EveryProgramIsRead ==
    ASSUME NEW S, NEW p \in Seq(S), IsCode(p)
    PROVE  MachineReadsProgram(p)
<1>1. DOMAIN p = 1..Len(p)
  OBVIOUS
<1>2. ASSUME NEW j \in DOMAIN p, NEW k \in DOMAIN p, j < k, ~IsLabel(p[j])
      PROVE  Address(p, j) < Address(p, k)
  <2>1. p[j].op \in Op
    BY DEF IsCode, IsInstr
  <2>2. SizeInBytes(p[j]) \in Nat /\ SizeInBytes(p[j]) > 0
    BY <1>2, <2>1, SizeType
  <2>3. j \in 1..Len(p) + 1 /\ k \in 1..Len(p) + 1
    BY <1>1
  <2>4. Address(p, j) \in Nat /\ Address(p, k) \in Nat
    BY <2>3, AddressSteps
  <2>5. Address(p, j) + SizeInBytes(p[j]) <= Address(p, k)
    BY <1>1, <1>2, AddressesGrow
  <2> QED
    BY <2>2, <2>4, <2>5
<1>3. ASSUME ProgramFits(p), NEW k \in DOMAIN p, ~IsLabel(p[k])
      PROVE  Fetch(Encode(p), Sets(p), Address(p, k)) = Meant(p, k)
  <2>1. Begins(Encode(p), Address(p, k), EncodeInstr(p, p[k]), SizeInBytes(p[k]))
    BY <1>1, CodeHolds DEF Begins
  <2> QED
    BY <1>1, <1>3, <2>1, ReadsAnInstruction
<1> QED
  BY <1>2, <1>3, CodeHolds DEF MachineReadsProgram

-----------------------------------------------------------------------------
(***************************************************************************)
(* Positions.  Sums of bytes and of units come first: how far into a text  *)
(* its first n runes are, and that no two offsets are the same.            *)
(***************************************************************************)
\* The recursive functions of pos.go, each by the equation it solves.
SumsOf(w, f) == f = [n \in 0..Len(w) |-> IF n = 0 THEN 0 ELSE f[n - 1] + w[n]]

LEMMA SumsSteps ==
    ASSUME NEW w \in Seq(Nat)
    PROVE  /\ Sums(w) \in [0..Len(w) -> Nat] /\ Sums(w)[0] = 0
           /\ \A n \in 1..Len(w) : Sums(w)[n] = Sums(w)[n - 1] + w[n]
<1> DEFINE N == Len(w)
           g == [x \in (1..N) \X Nat |-> x[2] + w[x[1]]]
<1>1. N \in Nat /\ g \in [(1..N) \X Nat -> Nat] /\ \A n \in 1..N : w[n] \in Nat
  OBVIOUS
<1>2. PICK f \in [0..N -> Nat] : Unfolds(f, N, 0, g)
  <2> HIDE DEF g, N
  <2> QED
    BY <1>1, Recursion
<1>3. ASSUME NEW n \in 1..N
      PROVE  f[n] = f[n - 1] + w[n]
  <2>1. n - 1 \in 0..N
    BY <1>1
  <2>2. <<n, f[n - 1]>> \in (1..N) \X Nat
    BY <1>2, <2>1
  <2>3. g[<<n, f[n - 1]>>] = f[n - 1] + w[n]
    BY <2>2
  <2> HIDE DEF g
  <2> QED
    BY <1>2, <2>3 DEF Unfolds
<1>4. f[0] = 0 /\ SumsOf(w, f)
  <2>1. f[0] = 0
    BY <1>2 DEF Unfolds
  <2>2. \A n \in 0..N : n # 0 => n \in 1..N
    BY <1>1
  <2> HIDE DEF g
  <2> QED
    BY <1>2, <1>3, <2>1, <2>2 DEF SumsOf
<1>5. SumsOf(w, Sums(w))
  BY <1>4 DEF SumsOf, Sums
<1> HIDE DEF g
<1>6. \A n \in 0..N : Sums(w)[n] = f[n]
  <2> DEFINE T == {n \in 0..N : Sums(w)[n] = f[n]}
  <2>1. 0 \in T
    BY <1>1, <1>4, <1>5 DEF SumsOf
  <2>2. ASSUME NEW n \in 0..N - 1, n \in T
        PROVE  n + 1 \in T
    <3>1. n + 1 \in 0..N /\ n + 1 # 0 /\ n + 1 - 1 = n
      BY <1>1
    <3> QED
      BY <2>2, <3>1, <1>4, <1>5 DEF SumsOf
  <2>3. \A n \in 0..N : n \in T
    <3> HIDE DEF T, N
    <3> QED
      BY <1>1, <2>1, <2>2, UpTo
  <2> QED
    BY <2>3
<1>7. Sums(w) = f
  BY <1>2, <1>5, <1>6 DEF SumsOf
<1> QED
  BY <1>2, <1>3, <1>4, <1>7

\* More of a sequence adds up to as much at least, and to more of positive numbers.
LEMMA SumsGrow ==
    ASSUME NEW w \in Seq(Nat), NEW i \in 0..Len(w), NEW j \in 0..Len(w), i <= j
    PROVE  /\ Sums(w)[i] <= Sums(w)[j]
           /\ (\A n \in 1..Len(w) : w[n] > 0) /\ i < j => Sums(w)[i] < Sums(w)[j]
<1> DEFINE N == Len(w)
           T == {n \in 0..N : i <= n =>
                    /\ Sums(w)[i] <= Sums(w)[n]
                    /\ (\A m \in 1..N : w[m] > 0) /\ i < n => Sums(w)[i] < Sums(w)[n]}
<1>1. N \in Nat /\ i \in Nat /\ \A n \in 0..N : Sums(w)[n] \in Nat
  <2>1. Sums(w) \in [0..N -> Nat]
    BY SumsSteps
  <2> QED
    BY <2>1
<1>2. 0 \in T
  BY <1>1
<1>3. ASSUME NEW n \in 0..N - 1, n \in T
      PROVE  n + 1 \in T
  <2>1. n + 1 \in 1..N /\ n + 1 - 1 = n /\ w[n + 1] \in Nat /\ n \in Nat /\ n + 1 \in 0..N
    BY <1>1
  <2>2. Sums(w)[n + 1] = Sums(w)[n] + w[n + 1]
    <3>1. Sums(w)[n + 1] = Sums(w)[n + 1 - 1] + w[n + 1]
      BY <2>1, SumsSteps
    <3> QED
      BY <2>1, <3>1
  <2>3. Sums(w)[n] \in Nat /\ Sums(w)[i] \in Nat
    BY <1>1
  <2>4. CASE i <= n
    BY <1>3, <2>1, <2>2, <2>3, <2>4
  <2>5. CASE i = n + 1
    BY <2>1, <2>3, <2>5
  <2> QED
    BY <1>1, <1>3, <2>1, <2>4, <2>5
<1>4. \A n \in 0..N : n \in T
  <2> HIDE DEF T, N
  <2> QED
    BY <1>1, <1>2, <1>3, UpTo
<1> QED
  BY <1>4

-----------------------------------------------------------------------------
\* Offsets and units of a text.
LEMMA OffsetSteps ==
    ASSUME NEW text \in Seq(Rune)
    PROVE  /\ Offset(text, 0) = 0 /\ \A n \in 0..Len(text) : Offset(text, n) \in Nat
           /\ \A n \in 1..Len(text) : /\ text[n].bytes \in 1..4
                                      /\ Offset(text, n) = Offset(text, n - 1) + text[n].bytes
           /\ \A i, j \in 0..Len(text) : i < j => Offset(text, i) < Offset(text, j)
<1> DEFINE N == Len(text)
           w == [i \in 1..Len(text) |-> text[i].bytes]
<1>1. N \in Nat /\ \A n \in 1..N : text[n] \in Rune /\ text[n].bytes \in 1..4
  BY DEF Rune
<1>2. w \in Seq(Nat) /\ Len(w) = N /\ \A n \in 1..N : w[n] = text[n].bytes /\ w[n] > 0
  BY <1>1
<1>3. \A n : Offset(text, n) = Sums(w)[n]
  BY DEF Offset
<1> HIDE DEF w
<1>4. /\ Sums(w) \in [0..N -> Nat] /\ Sums(w)[0] = 0
      /\ \A n \in 1..N : Sums(w)[n] = Sums(w)[n - 1] + w[n]
  BY <1>2, SumsSteps
<1>5. \A i, j \in 0..N : i < j => Sums(w)[i] < Sums(w)[j]
  <2>1. \A i, j \in 0..N : i < j => i <= j
    BY <1>1
  <2> QED
    BY <1>2, <2>1, SumsGrow
<1> QED
  BY <1>1, <1>2, <1>3, <1>4, <1>5

LEMMA UnitsSteps ==
    ASSUME NEW text \in Seq(Rune), NEW mode
    PROVE  /\ Units(text, 0, mode) = 0 /\ \A n \in 0..Len(text) : Units(text, n, mode) \in Nat
           /\ \A n \in 1..Len(text) :
                 /\ UnitsForRune(text[n], mode) \in Nat
                 /\ Units(text, n, mode) = Units(text, n - 1, mode) + UnitsForRune(text[n], mode)
<1> DEFINE N == Len(text)
           w == [i \in 1..Len(text) |-> UnitsForRune(text[i], mode)]
<1>1. N \in Nat /\ \A n \in 1..N : text[n] \in Rune /\ UnitsForRune(text[n], mode) \in Nat
  BY DEF Rune, UnitsForRune
<1>2. w \in Seq(Nat) /\ Len(w) = N /\ \A n \in 1..N : w[n] = UnitsForRune(text[n], mode)
  BY <1>1
<1>3. \A n : Units(text, n, mode) = Sums(w)[n]
  BY DEF Units
<1> HIDE DEF w
<1>4. /\ Sums(w) \in [0..N -> Nat] /\ Sums(w)[0] = 0
      /\ \A n \in 1..N : Sums(w)[n] = Sums(w)[n - 1] + w[n]
  BY <1>2, SumsSteps
<1> QED
  BY <1>1, <1>2, <1>3, <1>4

\* As many runes as there are.
LEMMA RunesCount ==
    ASSUME NEW text \in Seq(Rune)
    PROVE  \A n \in 0..Len(text) : Units(text, n, "rune") = n
<1> DEFINE N == Len(text)
           T == {n \in 0..N : Units(text, n, "rune") = n}
<1>1. N \in Nat /\ 0 \in T
  BY UnitsSteps
<1>2. ASSUME NEW n \in 0..N - 1, n \in T
      PROVE  n + 1 \in T
  <2>1. n + 1 \in 1..N /\ n + 1 - 1 = n /\ n + 1 \in 0..N
    BY <1>1
  <2>2. UnitsForRune(text[n + 1], "rune") = 1
    BY DEF UnitsForRune
  <2>3. Units(text, n + 1, "rune") = Units(text, n + 1 - 1, "rune") + UnitsForRune(text[n + 1], "rune")
    <3>1. \A m \in 1..N : Units(text, m, "rune") = Units(text, m - 1, "rune") + UnitsForRune(text[m], "rune")
      BY UnitsSteps
    <3> QED
      BY <2>1, <3>1
  <2> QED
    BY <1>2, <2>1, <2>2, <2>3
<1>3. \A n \in 0..N : n \in T
  <2> HIDE DEF T, N
  <2> QED
    BY <1>1, <1>2, UpTo
<1> QED
  BY <1>3

\* Every cursor is in one place among the runes.
LEMMA CompleteUpTo ==
    ASSUME NEW text \in Seq(Rune), NEW c, NEW n \in 0..Len(text), Complete(text, n, c), c \in Nat
    PROVE  \A k \in 0..Len(text) : Offset(text, k) <= c <=> k <= n
<1> SUFFICES ASSUME NEW k \in 0..Len(text)
             PROVE  Offset(text, k) <= c <=> k <= n
  OBVIOUS
<1>1. /\ Offset(text, n) <= c /\ n \in Nat /\ k \in Nat /\ Len(text) \in Nat
      /\ Offset(text, n) \in Nat /\ Offset(text, k) \in Nat
  BY OffsetSteps DEF Complete
<1>2. CASE k <= n
  BY <1>1, <1>2, OffsetSteps
<1>3. CASE k > n
  <2>1. n + 1 \in 0..Len(text) /\ c < Offset(text, n + 1) /\ Offset(text, n + 1) \in Nat
    BY <1>1, <1>3, OffsetSteps DEF Complete
  <2>2. Offset(text, n + 1) <= Offset(text, k)
    BY <1>1, <1>3, <2>1, OffsetSteps
  <2> QED
    BY <1>1, <1>3, <2>1, <2>2
<1> QED
  BY <1>1, <1>2, <1>3


-----------------------------------------------------------------------------
\* The checkpoints.
Point == [at : Nat, units : Nat]
Index == [at : Nat, units : Nat, since : Nat, points : Seq(Point)]
NoRunes == [at |-> 0, units |-> 0, since |-> 0, points |-> <<Checkpoint(0, 0)>>]
IndexOf(text, mode, f) ==
    f = [n \in 0..Len(text) |-> IF n = 0 THEN NoRunes ELSE AddRune(f[n - 1], text[n], mode)]

LEMMA AddRuneType ==
    ASSUME NEW ix \in Index, NEW r \in Rune, NEW mode
    PROVE  /\ AddRune(ix, r, mode) \in Index
           /\ AddRune(ix, r, mode).at = ix.at + r.bytes
           /\ AddRune(ix, r, mode).units = ix.units + UnitsForRune(r, mode)
           /\ \/ AddRune(ix, r, mode).points = ix.points
              \/ AddRune(ix, r, mode).points =
                    Append(ix.points, Checkpoint(ix.at + r.bytes, ix.units + UnitsForRune(r, mode)))
<1>1. r.bytes \in Nat /\ UnitsForRune(r, mode) \in Nat
  BY DEF Rune, UnitsForRune
<1>2. /\ ix.at \in Nat /\ ix.units \in Nat /\ ix.since \in Nat /\ ix.points \in Seq(Point)
  BY DEF Index
<1> DEFINE at == ix.at + r.bytes
           units == ix.units + UnitsForRune(r, mode)
           since == ix.since + r.bytes
           more == IF since >= Stride THEN 0 ELSE since
           points == IF since >= Stride THEN Append(ix.points, Checkpoint(at, units)) ELSE ix.points
<1>3. AddRune(ix, r, mode) = [at |-> at, units |-> units, since |-> more, points |-> points]
  BY DEF AddRune, WithRune
<1>4. at \in Nat /\ units \in Nat /\ more \in Nat
  BY <1>1, <1>2
<1>5. Checkpoint(at, units) \in Point
  BY <1>4 DEF Checkpoint, Point
<1>6. points \in Seq(Point) /\ (points = ix.points \/ points = Append(ix.points, Checkpoint(at, units)))
  BY <1>2, <1>5
<1> QED
  <2> HIDE DEF more, points
  <2> QED
    BY <1>3, <1>4, <1>6 DEF Index

LEMMA IndexSteps ==
    ASSUME NEW text \in Seq(Rune), NEW mode
    PROVE  \E f \in [0..Len(text) -> Index] :
              /\ f[0] = NoRunes /\ \A n \in 1..Len(text) : f[n] = AddRune(f[n - 1], text[n], mode)
              /\ UnitsIndex(text, mode) = WithEnd(f[Len(text)])
<1> DEFINE N == Len(text)
           g == [x \in (1..N) \X Index |-> AddRune(x[2], text[x[1]], mode)]
           index[n \in 0..N] ==
               IF n = 0 THEN [at |-> 0, units |-> 0, since |-> 0, points |-> <<Checkpoint(0, 0)>>]
               ELSE AddRune(index[n - 1], text[n], mode)
<1>1. N \in Nat /\ NoRunes \in Index /\ \A n \in 1..N : text[n] \in Rune
  BY DEF NoRunes, Index, Point, Checkpoint
<1>2. g \in [(1..N) \X Index -> Index]
  BY <1>1, AddRuneType
<1>3. PICK f \in [0..N -> Index] : Unfolds(f, N, NoRunes, g)
  <2> HIDE DEF g, N
  <2> QED
    BY <1>1, <1>2, Recursion
<1>4. ASSUME NEW n \in 1..N
      PROVE  f[n] = AddRune(f[n - 1], text[n], mode)
  <2>1. n - 1 \in 0..N
    BY <1>1
  <2>2. <<n, f[n - 1]>> \in (1..N) \X Index
    BY <1>3, <2>1
  <2>3. g[<<n, f[n - 1]>>] = AddRune(f[n - 1], text[n], mode)
    BY <2>2
  <2> HIDE DEF g
  <2> QED
    BY <1>3, <2>3 DEF Unfolds
<1>5. f[0] = NoRunes /\ IndexOf(text, mode, f)
  <2>1. f[0] = NoRunes
    BY <1>3 DEF Unfolds
  <2>2. \A n \in 0..N : n # 0 => n \in 1..N
    BY <1>1
  <2> HIDE DEF g
  <2> QED
    BY <1>3, <1>4, <2>1, <2>2 DEF IndexOf
<1>6. IndexOf(text, mode, index)
  BY <1>5 DEF IndexOf, NoRunes
<1>7. UnitsIndex(text, mode) = WithEnd(index[N])
  BY DEF UnitsIndex
<1> HIDE DEF g, index
<1>8. \A n \in 0..N : index[n] = f[n]
  <2> DEFINE T == {n \in 0..N : index[n] = f[n]}
  <2>1. 0 \in T
    BY <1>1, <1>5, <1>6 DEF IndexOf
  <2>2. ASSUME NEW n \in 0..N - 1, n \in T
        PROVE  n + 1 \in T
    <3>1. n + 1 \in 0..N /\ n + 1 # 0 /\ n + 1 - 1 = n
      BY <1>1
    <3> QED
      BY <2>2, <3>1, <1>5, <1>6 DEF IndexOf
  <2>3. \A n \in 0..N : n \in T
    <3> HIDE DEF T, N
    <3> QED
      BY <1>1, <2>1, <2>2, UpTo
  <2> QED
    BY <2>3
<1>9. N \in 0..N /\ f \in [0..Len(text) -> Index]
  BY <1>1, <1>3
<1> QED
  BY <1>4, <1>5, <1>7, <1>8, <1>9

\* Every checkpoint is after some number of runes, and says how many units they are.
IsAfter(point, text, n, mode) == point = Checkpoint(Offset(text, n), Units(text, n, mode))
LEMMA CheckpointsAreExact ==
    ASSUME NEW text \in Seq(Rune), NEW mode
    PROVE  /\ UnitsIndex(text, mode) \in Seq(Point) /\ Len(UnitsIndex(text, mode)) > 0
           /\ UnitsIndex(text, mode)[1].at = 0
           /\ \A i \in 1..Len(UnitsIndex(text, mode)) :
                 \E n \in 0..Len(text) : IsAfter(UnitsIndex(text, mode)[i], text, n, mode)
<1> DEFINE N == Len(text)
           Good(points) == /\ points \in Seq(Point) /\ Len(points) > 0 /\ points[1].at = 0
                           /\ \A i \in 1..Len(points) : \E n \in 0..N : IsAfter(points[i], text, n, mode)
<1>1. PICK f \in [0..N -> Index] :
            /\ f[0] = NoRunes /\ \A n \in 1..N : f[n] = AddRune(f[n - 1], text[n], mode)
            /\ UnitsIndex(text, mode) = WithEnd(f[N])
  BY IndexSteps
<1>2. N \in Nat /\ \A n \in 1..N : text[n] \in Rune
  OBVIOUS
<1>3. /\ Offset(text, 0) = 0 /\ Units(text, 0, mode) = 0
      /\ \A n \in 0..N : Offset(text, n) \in Nat /\ Units(text, n, mode) \in Nat
      /\ \A n \in 1..N : /\ Offset(text, n) = Offset(text, n - 1) + text[n].bytes
                         /\ Units(text, n, mode) = Units(text, n - 1, mode) + UnitsForRune(text[n], mode)
  BY OffsetSteps, UnitsSteps
<1>4. ASSUME NEW points, Good(points), NEW n \in 0..N
      PROVE  Good(Append(points, Checkpoint(Offset(text, n), Units(text, n, mode))))
  <2> DEFINE p == Checkpoint(Offset(text, n), Units(text, n, mode))
  <2>1. p \in Point /\ IsAfter(p, text, n, mode)
    BY <1>3 DEF Checkpoint, Point, IsAfter
  <2> HIDE DEF p
  <2>2. points \in Seq(Point) /\ Len(points) \in Nat /\ Len(points) > 0
    BY <1>4
  <2>3. /\ Append(points, p) \in Seq(Point) /\ Len(Append(points, p)) = Len(points) + 1
        /\ \A i \in 1..Len(points) : Append(points, p)[i] = points[i]
        /\ Append(points, p)[Len(points) + 1] = p
    BY <2>1, <2>2
  <2>4. \A i \in 1..Len(points) + 1 : i \in 1..Len(points) \/ i = Len(points) + 1
    BY <2>2
  <2>5. 1 \in 1..Len(points)
    BY <2>2
  <2> QED
    BY <1>4, <2>1, <2>2, <2>3, <2>4, <2>5 DEF p
<1> HIDE DEF Good
<1> DEFINE T == {n \in 0..N : /\ f[n].at = Offset(text, n) /\ f[n].units = Units(text, n, mode)
                              /\ Good(f[n].points)}
<1>5. 0 \in T
  <2>1. f[0].at = 0 /\ f[0].units = 0 /\ f[0].points = <<Checkpoint(0, 0)>>
    BY <1>1 DEF NoRunes
  <2>2. Good(<<Checkpoint(0, 0)>>)
    BY <1>2, <1>3 DEF Good, Checkpoint, Point, IsAfter
  <2>3. 0 \in 0..N /\ Good(f[0].points)
    BY <1>2, <2>1, <2>2
  <2>4. f[0].at = Offset(text, 0) /\ f[0].units = Units(text, 0, mode)
    BY <1>3, <2>1
  <2> QED
    BY <2>3, <2>4
<1>6. ASSUME NEW n \in 0..N - 1, n \in T
      PROVE  n + 1 \in T
  <2>1. n + 1 \in 1..N /\ n + 1 - 1 = n /\ n \in 0..N /\ n + 1 \in 0..N
    BY <1>2
  <2>2. f[n + 1] = AddRune(f[n], text[n + 1], mode) /\ f[n] \in Index /\ text[n + 1] \in Rune
    <3>1. f[n + 1] = AddRune(f[n + 1 - 1], text[n + 1], mode)
      BY <1>1, <2>1
    <3> QED
      BY <1>1, <1>2, <2>1, <3>1
  <2>3. /\ Offset(text, n + 1) = Offset(text, n) + text[n + 1].bytes
        /\ Units(text, n + 1, mode) = Units(text, n, mode) + UnitsForRune(text[n + 1], mode)
    <3>1. /\ Offset(text, n + 1) = Offset(text, n + 1 - 1) + text[n + 1].bytes
          /\ Units(text, n + 1, mode) = Units(text, n + 1 - 1, mode) + UnitsForRune(text[n + 1], mode)
      BY <1>3, <2>1
    <3> QED
      BY <2>1, <3>1
  <2>4. /\ f[n].at = Offset(text, n) /\ f[n].units = Units(text, n, mode) /\ Good(f[n].points)
    BY <1>6
  <2>5. /\ f[n + 1].at = Offset(text, n + 1) /\ f[n + 1].units = Units(text, n + 1, mode)
        /\ \/ f[n + 1].points = f[n].points
           \/ f[n + 1].points = Append(f[n].points, Checkpoint(Offset(text, n + 1), Units(text, n + 1, mode)))
    BY <2>2, <2>3, <2>4, AddRuneType
  <2>6. Good(f[n + 1].points)
    BY <1>4, <2>1, <2>4, <2>5
  <2> QED
    BY <2>1, <2>5, <2>6
<1>7. \A n \in 0..N : n \in T
  <2> HIDE DEF T, N
  <2> QED
    BY <1>2, <1>5, <1>6, UpTo
<1>8. /\ f[N].at = Offset(text, N) /\ f[N].units = Units(text, N, mode) /\ Good(f[N].points) /\ N \in 0..N
  BY <1>2, <1>7
<1>9. Good(WithEnd(f[N]))
  BY <1>4, <1>8 DEF WithEnd
<1> QED
  BY <1>1, <1>9 DEF Good


-----------------------------------------------------------------------------
\* Every nonempty finite interval's part has a greatest and a least one.
LEMMA GreatestOf ==
    ASSUME NEW N \in Nat, NEW T, T \subseteq 1..N, T # {}
    PROVE  Max(T) \in T /\ \A n \in T : n <= Max(T)
<1> DEFINE S == {N - n : n \in T}
<1>1. S \subseteq Nat /\ S # {}
  <2>1. \A n \in T : n \in 1..N /\ N - n \in Nat
    OBVIOUS
  <2>2. PICK n \in T : TRUE
    OBVIOUS
  <2>3. N - n \in S
    OBVIOUS
  <2> QED
    BY <2>1, <2>3
<1>2. PICK m \in S : \A k \in S : m <= k
  BY <1>1, LeastOf
<1>3. PICK n \in T : m = N - n
  BY <1>2
<1>4. ASSUME NEW k \in T
      PROVE  n >= k
  <2>1. N - k \in S /\ k \in Nat /\ n \in Nat
    OBVIOUS
  <2>2. N - n <= N - k
    BY <1>2, <1>3, <2>1
  <2> QED
    BY <2>1, <2>2
<1>5. Max(T) = CHOOSE x \in T : \A y \in T : x >= y
  BY DEF Max
<1>6. Max(T) \in T /\ \A y \in T : Max(T) >= y
  BY <1>4, <1>5
<1>7. \A y \in T : y \in Nat
  OBVIOUS
<1> QED
  BY <1>6, <1>7

LEMMA MinOf ==
    ASSUME NEW T, T \subseteq Nat, T # {}
    PROVE  Min(T) \in T /\ \A n \in T : Min(T) <= n
<1>1. PICK n \in T : \A k \in T : n <= k
  BY LeastOf
<1>2. Min(T) = CHOOSE x \in T : \A y \in T : x <= y
  BY DEF Min
<1> QED
  BY <1>1, <1>2

\* The last checkpoint up to a cursor is one of those, before it.
LEMMA LastCheckpoint ==
    ASSUME NEW text \in Seq(Rune), NEW mode, NEW c \in Nat
    PROVE  \E n \in 0..Len(text) : /\ IsAfter(LastUpTo(UnitsIndex(text, mode), c), text, n, mode)
                                   /\ Offset(text, n) <= c
<1> DEFINE points == UnitsIndex(text, mode)
           T == {i \in DOMAIN points : points[i].at <= c}
<1>1. /\ points \in Seq(Point) /\ Len(points) > 0 /\ points[1].at = 0
      /\ \A i \in 1..Len(points) : \E n \in 0..Len(text) : IsAfter(points[i], text, n, mode)
  BY CheckpointsAreExact
<1>2. LastUpTo(points, c) = points[Max(T)]
  BY DEF LastUpTo
<1> HIDE DEF points
<1>3. Len(points) \in Nat /\ DOMAIN points = 1..Len(points) /\ 1 \in DOMAIN points
  BY <1>1
<1>4. T \subseteq 1..Len(points) /\ 1 \in T
  BY <1>1, <1>3
<1>5. Max(T) \in T
  <2> HIDE DEF T
  <2> QED
    BY <1>3, <1>4, GreatestOf
<1>6. PICK n \in 0..Len(text) : IsAfter(points[Max(T)], text, n, mode)
  BY <1>1, <1>3, <1>5
<1>7. points[Max(T)].at = Offset(text, n) /\ points[Max(T)].at <= c
  BY <1>5, <1>6 DEF IsAfter, Checkpoint
<1> HIDE DEF T
<1> QED
  BY <1>2, <1>6, <1>7 DEF points

-----------------------------------------------------------------------------
\* The scan.
ScanOf(text, point, c, mode, f) ==
    f = [n \in 0..Len(text) |-> IF n = 0 THEN point ELSE Past(f[n - 1], text, n, c, mode)]

LEMMA ScanSteps ==
    ASSUME NEW text \in Seq(Rune), NEW point \in Point, NEW c, NEW mode
    PROVE  \E f \in [0..Len(text) -> Point] :
              /\ f[0] = point /\ \A n \in 1..Len(text) : f[n] = Past(f[n - 1], text, n, c, mode)
              /\ UnitsFrom(point, text, c, mode) = f[Len(text)].units
<1> DEFINE N == Len(text)
           g == [x \in (1..N) \X Point |-> Past(x[2], text, x[1], c, mode)]
           scan[n \in 0..N] == IF n = 0 THEN point ELSE Past(scan[n - 1], text, n, c, mode)
<1>1. N \in Nat /\ \A n \in 1..N : text[n].bytes \in Nat /\ UnitsForRune(text[n], mode) \in Nat
  <2>1. \A n \in 1..N : text[n] \in Rune
    OBVIOUS
  <2> QED
    BY <2>1 DEF Rune, UnitsForRune
<1>2. ASSUME NEW n \in 1..N, NEW u \in Point
      PROVE  Past(u, text, n, c, mode) \in Point
  <2>1. u.at + text[n].bytes \in Nat /\ u.units + UnitsForRune(text[n], mode) \in Nat
    BY <1>1 DEF Point
  <2>2. Checkpoint(u.at + text[n].bytes, u.units + UnitsForRune(text[n], mode)) \in Point
    BY <2>1 DEF Checkpoint, Point
  <2> QED
    BY <2>2 DEF Past
<1>3. g \in [(1..N) \X Point -> Point]
  BY <1>2
<1>4. PICK f \in [0..N -> Point] : Unfolds(f, N, point, g)
  <2> HIDE DEF g, N
  <2> QED
    BY <1>1, <1>3, Recursion
<1>5. ASSUME NEW n \in 1..N
      PROVE  f[n] = Past(f[n - 1], text, n, c, mode)
  <2>1. n - 1 \in 0..N
    BY <1>1
  <2>2. <<n, f[n - 1]>> \in (1..N) \X Point
    BY <1>4, <2>1
  <2>3. g[<<n, f[n - 1]>>] = Past(f[n - 1], text, n, c, mode)
    BY <2>2
  <2> HIDE DEF g
  <2> QED
    BY <1>4, <2>3 DEF Unfolds
<1>6. f[0] = point /\ ScanOf(text, point, c, mode, f)
  <2>1. f[0] = point
    BY <1>4 DEF Unfolds
  <2>2. \A n \in 0..N : n # 0 => n \in 1..N
    BY <1>1
  <2> HIDE DEF g
  <2> QED
    BY <1>4, <1>5, <2>1, <2>2 DEF ScanOf
<1>7. ScanOf(text, point, c, mode, scan)
  BY <1>6 DEF ScanOf
<1>8. UnitsFrom(point, text, c, mode) = scan[N].units
  BY DEF UnitsFrom
<1> HIDE DEF g, scan
<1>9. \A n \in 0..N : scan[n] = f[n]
  <2> DEFINE T == {n \in 0..N : scan[n] = f[n]}
  <2>1. 0 \in T
    BY <1>1, <1>6, <1>7 DEF ScanOf
  <2>2. ASSUME NEW n \in 0..N - 1, n \in T
        PROVE  n + 1 \in T
    <3>1. n + 1 \in 0..N /\ n + 1 # 0 /\ n + 1 - 1 = n
      BY <1>1
    <3> QED
      BY <2>2, <3>1, <1>6, <1>7 DEF ScanOf
  <2>3. \A n \in 0..N : n \in T
    <3> HIDE DEF T, N
    <3> QED
      BY <1>1, <2>1, <2>2, UpTo
  <2> QED
    BY <2>3
<1>10. N \in 0..N /\ f \in [0..Len(text) -> Point]
  BY <1>1, <1>4
<1> QED
  BY <1>5, <1>6, <1>8, <1>9, <1>10

\* From a checkpoint before the cursor the scan ends where the next rune does not.
LEMMA ScanCounts ==
    ASSUME NEW text \in Seq(Rune), NEW mode, NEW c \in Nat, NEW k \in 0..Len(text),
           Offset(text, k) <= c, NEW point, IsAfter(point, text, k, mode)
    PROVE  \E n \in 0..Len(text) : /\ Complete(text, n, c)
                                   /\ UnitsFrom(point, text, c, mode) = Units(text, n, mode)
<1> DEFINE N == Len(text)
           At(n) == Offset(text, n)
           In(n) == Units(text, n, mode)
<1>1. /\ N \in Nat /\ k \in Nat
      /\ \A n \in 0..N : At(n) \in Nat /\ In(n) \in Nat
      /\ \A n \in 1..N : At(n) = At(n - 1) + text[n].bytes
      /\ \A n \in 1..N : In(n) = In(n - 1) + UnitsForRune(text[n], mode)
      /\ \A i, j \in 0..N : i < j => At(i) < At(j)
  <2>1. /\ \A n \in 0..N : In(n) \in Nat
        /\ \A n \in 1..N : In(n) = In(n - 1) + UnitsForRune(text[n], mode)
    BY UnitsSteps
  <2>2. /\ \A n \in 0..N : At(n) \in Nat
        /\ \A n \in 1..N : At(n) = At(n - 1) + text[n].bytes
        /\ \A i, j \in 0..N : i < j => At(i) < At(j)
    BY OffsetSteps
  <2> QED
    BY <2>1, <2>2
<1>2. point \in Point
  <2>1. At(k) \in Nat /\ In(k) \in Nat
    BY <1>1
  <2>2. point = [at |-> At(k), units |-> In(k)]
    BY DEF IsAfter, Checkpoint
  <2> HIDE DEF At, In
  <2> QED
    BY <2>1, <2>2 DEF Point
<1>3. PICK f \in [0..N -> Point] :
            /\ f[0] = point /\ \A n \in 1..N : f[n] = Past(f[n - 1], text, n, c, mode)
            /\ UnitsFrom(point, text, c, mode) = f[N].units
  <2> HIDE DEF At, In
  <2> QED
    BY <1>2, ScanSteps
<1> DEFINE Reached(n, x) == /\ f[n].at = At(x) /\ f[n].units = In(x) /\ At(x) <= c
                            /\ n <= k => x = k
                            /\ n > k => x = n \/ (x < n /\ c < At(x + 1))
           T == {n \in 0..N : \E x \in 0..N : Reached(n, x)}
<1>4. 0 \in T
  <2>1. Reached(0, k)
    BY <1>1, <1>3 DEF IsAfter, Checkpoint
  <2>2. 0 \in 0..N
    BY <1>1
  <2> HIDE DEF Reached
  <2> QED
    BY <2>1, <2>2
<1>5. ASSUME NEW n \in 0..N - 1, n \in T
      PROVE  n + 1 \in T
  <2>1. n + 1 \in 1..N /\ n + 1 - 1 = n /\ n + 1 \in 0..N /\ n \in 0..N /\ n \in Nat
    BY <1>1
  <2>2. PICK x \in 0..N : Reached(n, x)
    BY <1>5
  <2>3. f[n + 1] = Past(f[n], text, n + 1, c, mode)
    <3>1. f[n + 1] = Past(f[n + 1 - 1], text, n + 1, c, mode)
      BY <1>3, <2>1
    <3> QED
      BY <2>1, <3>1
  <2>4. /\ At(n + 1) = At(n) + text[n + 1].bytes
        /\ In(n + 1) = In(n) + UnitsForRune(text[n + 1], mode)
    <3>1. \A m \in 1..N : At(m) = At(m - 1) + text[m].bytes
      BY <1>1
    <3>2. \A m \in 1..N : In(m) = In(m - 1) + UnitsForRune(text[m], mode)
      BY <1>1
    <3> HIDE DEF At, In, N
    <3>3. At(n + 1) = At(n + 1 - 1) + text[n + 1].bytes
      BY <2>1, <3>1
    <3>4. In(n + 1) = In(n + 1 - 1) + UnitsForRune(text[n + 1], mode)
      BY <2>1, <3>2
    <3> QED
      BY <2>1, <3>3, <3>4
  <2>5. At(n) \in Nat /\ At(n + 1) \in Nat /\ At(x) \in Nat /\ x \in Nat
    BY <1>1, <2>1
  <2> HIDE DEF At, In, Reached
  <2>6. CASE x = n /\ At(n + 1) <= c
    <3>1. f[n].at = At(n) /\ f[n].units = In(n) /\ n >= k
      BY <1>1, <2>1, <2>2, <2>6 DEF Reached
    <3>2. f[n + 1] = Checkpoint(At(n + 1), In(n + 1))
      <4>1. f[n].at = Offset(text, n + 1 - 1) /\ f[n].at + text[n + 1].bytes = At(n + 1)
        BY <2>1, <2>4, <3>1 DEF At
      <4> QED
        BY <2>3, <2>4, <2>6, <3>1, <4>1 DEF Past
    <3>3. Reached(n + 1, n + 1)
      BY <1>1, <2>1, <2>6, <3>1, <3>2 DEF Reached, Checkpoint
    <3> QED
      BY <2>1, <3>3
  <2>7. CASE x = n /\ c < At(n + 1)
    <3>1. f[n].at = At(n) /\ f[n].units = In(n) /\ n >= k /\ At(n) <= c
      <4>1. f[n].at = At(x) /\ f[n].units = In(x) /\ At(x) <= c /\ (n <= k => x = k)
        BY <2>2 DEF Reached
      <4>2. x = n
        BY <2>7
      <4>3. n >= k
        BY <1>1, <2>1, <4>1, <4>2
      <4> QED
        BY <4>1, <4>2, <4>3
    <3>2. f[n + 1] = f[n]
      <4>1. f[n].at + text[n + 1].bytes = At(n + 1)
        BY <2>4, <3>1
      <4> QED
        BY <2>3, <2>5, <2>7, <4>1 DEF Past
    <3>3. Reached(n + 1, n)
      BY <1>1, <2>1, <2>7, <3>1, <3>2 DEF Reached
    <3> QED
      BY <2>1, <3>3
  <2>8. CASE x # n
    <3>1. f[n].at = At(x) /\ At(x) # At(n)
      <4>1. f[n].at = At(x)
        BY <2>2 DEF Reached
      <4>2. x < n \/ n < x
        BY <2>1, <2>5, <2>8
      <4>3. At(x) < At(n) \/ At(n) < At(x)
        BY <1>1, <2>1, <4>2
      <4> QED
        BY <2>5, <4>1, <4>3
    <3>2. f[n + 1] = f[n]
      <4>1. f[n].at # Offset(text, n + 1 - 1)
        BY <2>1, <3>1 DEF At
      <4> QED
        BY <2>3, <4>1 DEF Past
    <3>3. Reached(n + 1, x)
      BY <1>1, <2>1, <2>2, <2>5, <2>8, <3>2 DEF Reached
    <3> QED
      BY <2>1, <3>3
  <2> QED
    BY <2>5, <2>6, <2>7, <2>8
<1>6. \A n \in 0..N : n \in T
  <2> HIDE DEF T, N
  <2> QED
    BY <1>1, <1>4, <1>5, UpTo
<1>7. PICK x \in 0..N : Reached(N, x)
  <2> HIDE DEF Reached
  <2>1. N \in T
    <3> HIDE DEF T
    <3> QED
      BY <1>1, <1>6
  <2> QED
    BY <2>1
<1>8. Complete(text, x, c)
  BY <1>1, <1>7 DEF Complete
<1> QED
  BY <1>3, <1>7, <1>8

\* UnitsAt counts what counting from the start counts.
LEMMA UnitsCounted ==
    ASSUME NEW text \in Seq(Rune), NEW mode, NEW c \in 0..Bytes(text)
    PROVE  \E n \in 0..Len(text) : /\ Complete(text, n, c)
                                   /\ UnitsAt(text, c, mode) = Units(text, n, mode)
<1>1. Bytes(text) \in Nat /\ c \in Nat /\ c <= Bytes(text)
  <2>1. Len(text) \in 0..Len(text)
    OBVIOUS
  <2>2. Bytes(text) \in Nat
    BY <2>1, OffsetSteps DEF Bytes
  <2> QED
    BY <2>2
<1>2. Clamp(c, text) = c
  BY <1>1 DEF Clamp
<1>3. UnitsAt(text, c, mode) = UnitsFrom(LastUpTo(UnitsIndex(text, mode), c), text, c, mode)
  BY <1>2 DEF UnitsAt
<1>4. PICK k \in 0..Len(text) : /\ IsAfter(LastUpTo(UnitsIndex(text, mode), c), text, k, mode)
                                /\ Offset(text, k) <= c
  BY <1>1, LastCheckpoint
<1> QED
  BY <1>1, <1>3, <1>4, ScanCounts

LEMMA RunesCounted ==
    ASSUME NEW text \in Seq(Rune), NEW c \in 0..Bytes(text)
    PROVE  UnitsAt(text, c, "rune") \in 0..Len(text) /\ Complete(text, UnitsAt(text, c, "rune"), c)
BY UnitsCounted, RunesCount


-----------------------------------------------------------------------------
\* Lines.
StartsOf(text, f) ==
    f = [n \in 0..Len(text) |-> IF n = 0 THEN <<0>> ELSE WithLine(f[n - 1], text, n)]

LEMMA LineStartSteps ==
    ASSUME NEW text \in Seq(Rune)
    PROVE  \E f \in [0..Len(text) -> Seq(Nat)] :
              /\ f[0] = <<0>> /\ LineStart(text) = f[Len(text)]
              /\ \A n \in 1..Len(text) : \/ f[n] = Append(f[n - 1], Offset(text, n))
                                         \/ f[n] = f[n - 1]
<1> DEFINE N == Len(text)
           U == Seq(Nat)
           g == [x \in (1..N) \X U |-> WithLine(x[2], text, x[1])]
           starts[n \in 0..N] == IF n = 0 THEN <<0>> ELSE WithLine(starts[n - 1], text, n)
<1>1. N \in Nat /\ <<0>> \in U
  OBVIOUS
<1>2. ASSUME NEW n \in 1..N, NEW s \in U
      PROVE  WithLine(s, text, n) \in U
  <2>1. n \in 0..Len(text) /\ Offset(text, n) \in Nat
    BY OffsetSteps
  <2> QED
    BY <2>1 DEF WithLine
<1>3. g \in [(1..N) \X U -> U]
  <2> HIDE DEF U
  <2> QED
    BY <1>2
<1>4. PICK f \in [0..N -> U] : Unfolds(f, N, <<0>>, g)
  <2> HIDE DEF g, N, U
  <2> QED
    BY <1>1, <1>3, Recursion
<1>5. ASSUME NEW n \in 1..N
      PROVE  f[n] = WithLine(f[n - 1], text, n)
  <2>1. n - 1 \in 0..N
    BY <1>1
  <2>2. <<n, f[n - 1]>> \in (1..N) \X U
    BY <1>4, <2>1
  <2> HIDE DEF U
  <2>3. g[<<n, f[n - 1]>>] = WithLine(f[n - 1], text, n)
    BY <2>2
  <2> HIDE DEF g
  <2> QED
    BY <1>4, <2>3 DEF Unfolds
<1>6. f[0] = <<0>> /\ StartsOf(text, f)
  <2>1. f[0] = <<0>>
    BY <1>4 DEF Unfolds
  <2>2. \A n \in 0..N : n # 0 => n \in 1..N
    BY <1>1
  <2> HIDE DEF g, U
  <2> QED
    BY <1>4, <1>5, <2>1, <2>2 DEF StartsOf
<1>7. StartsOf(text, starts)
  BY <1>6 DEF StartsOf
<1>8. LineStart(text) = starts[N]
  BY DEF LineStart
<1> HIDE DEF g, starts, U
<1>9. \A n \in 0..N : starts[n] = f[n]
  <2> DEFINE T == {n \in 0..N : starts[n] = f[n]}
  <2>1. 0 \in T
    BY <1>1, <1>6, <1>7 DEF StartsOf
  <2>2. ASSUME NEW n \in 0..N - 1, n \in T
        PROVE  n + 1 \in T
    <3>1. n + 1 \in 0..N /\ n + 1 # 0 /\ n + 1 - 1 = n
      BY <1>1
    <3>2. starts[n + 1] = WithLine(starts[n], text, n + 1)
      <4>1. \A k \in 0..N : k # 0 => starts[k] = WithLine(starts[k - 1], text, k)
        BY <1>7 DEF StartsOf
      <4>2. starts[n + 1] = WithLine(starts[n + 1 - 1], text, n + 1)
        BY <3>1, <4>1
      <4> QED
        BY <3>1, <4>2
    <3>3. f[n + 1] = WithLine(f[n], text, n + 1)
      BY <3>1, <1>6 DEF StartsOf
    <3> QED
      BY <2>2, <3>1, <3>2, <3>3
  <2>3. \A n \in 0..N : n \in T
    <3> HIDE DEF T, N
    <3> QED
      BY <1>1, <2>1, <2>2, UpTo
  <2> QED
    BY <2>3
<1>10. N \in 0..N /\ f \in [0..Len(text) -> Seq(Nat)]
  BY <1>1, <1>4 DEF U
<1> QED
  BY <1>5, <1>6, <1>8, <1>9, <1>10 DEF WithLine

\* Lines start at 0 and after newlines, in order.
Starts(starts, text, n) ==
    /\ starts \in Seq(Nat) /\ Len(starts) > 0 /\ starts[1] = 0
    /\ \A i, j \in 1..Len(starts) : i < j => starts[i] < starts[j]
    /\ \A i \in 1..Len(starts) : \E m \in 0..n : starts[i] = Offset(text, m)

LEMMA StartAppended ==
    ASSUME NEW text \in Seq(Rune), NEW n \in 1..Len(text), NEW starts, Starts(starts, text, n - 1)
    PROVE  /\ Starts(starts, text, n)
           /\ Starts(Append(starts, Offset(text, n)), text, n)
<1> DEFINE next == Append(starts, Offset(text, n))
           L == Len(starts)
<1>1. /\ starts \in Seq(Nat) /\ L > 0 /\ starts[1] = 0 /\ L \in Nat
      /\ \A i, j \in 1..L : i < j => starts[i] < starts[j]
  BY DEF Starts
<1>2. \A m \in 0..n - 1 : m \in 0..n /\ m < n /\ m \in 0..Len(text)
  OBVIOUS
<1>3. n \in 0..Len(text) /\ n \in 0..n /\ Offset(text, n) \in Nat
  BY OffsetSteps
<1>4. ASSUME NEW i \in 1..L
      PROVE  /\ \E m \in 0..n : starts[i] = Offset(text, m)
             /\ starts[i] < Offset(text, n)
  <2>1. PICK m \in 0..n - 1 : starts[i] = Offset(text, m)
    BY DEF Starts
  <2> QED
    BY <1>2, <1>3, <2>1, OffsetSteps
<1>5. Starts(starts, text, n)
  BY <1>1, <1>4 DEF Starts
<1>6. /\ next \in Seq(Nat) /\ Len(next) = L + 1 /\ next[L + 1] = Offset(text, n)
      /\ \A i \in 1..L : next[i] = starts[i]
  BY <1>1, <1>3
<1>7. \A i \in 1..L + 1 : i \in 1..L \/ i = L + 1
  BY <1>1
<1> HIDE DEF next
<1>8. \A i \in 1..L + 1 : \E m \in 0..n : next[i] = Offset(text, m)
  BY <1>3, <1>4, <1>6, <1>7
<1>9. \A i, j \in 1..L + 1 : i < j => next[i] < next[j]
  <2> SUFFICES ASSUME NEW i \in 1..L + 1, NEW j \in 1..L + 1, i < j
               PROVE  next[i] < next[j]
    OBVIOUS
  <2>1. i \in 1..L
    BY <1>1
  <2>2. CASE j \in 1..L
    BY <1>1, <1>6, <2>1, <2>2
  <2>3. CASE j = L + 1
    BY <1>4, <1>6, <2>1, <2>3
  <2> QED
    BY <1>7, <2>2, <2>3
<1>10. Starts(next, text, n)
  <2>1. 1 \in 1..L
    BY <1>1
  <2> QED
    BY <1>1, <1>6, <1>8, <1>9, <2>1 DEF Starts
<1> QED
  BY <1>5, <1>10 DEF next

LEMMA LinesAreInOrder ==
    ASSUME NEW text \in Seq(Rune)
    PROVE  Starts(LineStart(text), text, Len(text))
<1> DEFINE N == Len(text)
<1>1. PICK f \in [0..N -> Seq(Nat)] :
            /\ f[0] = <<0>> /\ LineStart(text) = f[N]
            /\ \A n \in 1..N : f[n] = Append(f[n - 1], Offset(text, n)) \/ f[n] = f[n - 1]
  BY LineStartSteps
<1> DEFINE T == {n \in 0..N : Starts(f[n], text, n)}
<1>2. N \in Nat /\ 0 \in 0..N /\ N \in 0..N
  OBVIOUS
<1>3. 0 \in T
  <2>1. 0 \in 0..0 /\ Offset(text, 0) = 0
    BY OffsetSteps
  <2>2. <<0>> \in Seq(Nat) /\ Len(<<0>>) = 1 /\ <<0>>[1] = 0 /\ \A i \in 1..1 : i = 1
    OBVIOUS
  <2>3. Starts(<<0>>, text, 0)
    BY <2>1, <2>2 DEF Starts
  <2> QED
    BY <1>1, <1>2, <2>3
<1>4. ASSUME NEW n \in 0..N - 1, n \in T
      PROVE  n + 1 \in T
  <2>1. n + 1 \in 1..N /\ n + 1 - 1 = n /\ n + 1 \in 0..N
    BY <1>2
  <2>2. f[n + 1] = Append(f[n], Offset(text, n + 1)) \/ f[n + 1] = f[n]
    <3>1. f[n + 1] = Append(f[n + 1 - 1], Offset(text, n + 1)) \/ f[n + 1] = f[n + 1 - 1]
      BY <1>1, <2>1
    <3> QED
      BY <2>1, <3>1
  <2>3. Starts(f[n], text, n + 1 - 1)
    BY <1>4, <2>1
  <2>4. Starts(f[n], text, n + 1) /\ Starts(Append(f[n], Offset(text, n + 1)), text, n + 1)
    BY <2>1, <2>3, StartAppended
  <2> QED
    BY <2>1, <2>2, <2>4
<1>5. \A n \in 0..N : n \in T
  <2> HIDE DEF T, N
  <2> QED
    BY <1>2, <1>3, <1>4, UpTo
<1> QED
  BY <1>1, <1>2, <1>5

\* The line a cursor is on: the last that starts at it or before it.
LineAt(starts, c) == Max({i \in DOMAIN starts : starts[i] <= c})
On(starts, line, c) == /\ line \in 1..Len(starts) /\ starts[line] <= c
                       /\ line < Len(starts) => c < starts[line + 1]
LEMMA LineIsFound ==
    ASSUME NEW text \in Seq(Rune), NEW n, NEW starts, Starts(starts, text, n), NEW c \in Nat
    PROVE  /\ On(starts, LineAt(starts, c), c)
           /\ \A line \in 1..Len(starts) : On(starts, line, c) => line = LineAt(starts, c)
<1> DEFINE L == Len(starts)
           T == {i \in DOMAIN starts : starts[i] <= c}
<1>1. /\ L \in Nat /\ DOMAIN starts = 1..L /\ 1 \in 1..L /\ starts[1] = 0
      /\ \A i \in 1..L : starts[i] \in Nat
      /\ \A i, j \in 1..L : i < j => starts[i] < starts[j]
  BY DEF Starts
<1>2. T \subseteq 1..L /\ 1 \in T
  BY <1>1
<1>3. Max(T) \in T /\ \A i \in T : i <= Max(T)
  <2> HIDE DEF T
  <2> QED
    BY <1>1, <1>2, GreatestOf
<1>4. LineAt(starts, c) = Max(T)
  BY DEF LineAt
<1> DEFINE line == LineAt(starts, c)
<1>5. line \in 1..L /\ starts[line] <= c /\ \A i \in 1..L : starts[i] <= c => i <= line
  BY <1>1, <1>3, <1>4
<1> HIDE DEF line
<1>6. ASSUME line < L
      PROVE  c < starts[line + 1]
  <2>1. line + 1 \in 1..L
    BY <1>1, <1>5, <1>6
  <2> QED
    BY <1>1, <1>5, <2>1
<1>7. ASSUME NEW i \in 1..L, On(starts, i, c)
      PROVE  i = line
  <2>1. i <= line
    BY <1>5, <1>7 DEF On
  <2>2. ASSUME i < line
        PROVE  FALSE
    <3>1. i < L /\ i + 1 \in 1..L /\ i + 1 <= line
      BY <1>1, <1>5, <2>2
    <3>2. starts[i + 1] <= starts[line]
      BY <1>1, <1>5, <3>1
    <3>3. c < starts[i + 1]
      BY <1>7, <3>1 DEF On
    <3> QED
      BY <1>1, <1>5, <3>1, <3>2, <3>3
  <2> QED
    BY <1>5, <2>1, <2>2
<1> QED
  BY <1>5, <1>6, <1>7 DEF line, On


-----------------------------------------------------------------------------
\* There and back.
LEMMA LocationOn ==
    ASSUME NEW text \in Seq(Rune), NEW c \in 0..Bytes(text)
    PROVE  /\ LocationAt(text, c).line = LineAt(LineStart(text), c)
           /\ LocationAt(text, c).column =
                 UnitsAt(text, c, "rune")
                    - UnitsAt(text, LineStart(text)[LocationAt(text, c).line], "rune") + 1
<1>1. Clamp(c, text) = c
  <2>1. Bytes(text) \in Nat
    <3>1. Len(text) \in 0..Len(text)
      OBVIOUS
    <3> QED
      BY <3>1, OffsetSteps DEF Bytes
  <2> QED
    BY <2>1 DEF Clamp
<1> QED
  BY <1>1 DEF LocationAt, Location, LineAt

LEMMA OffsetsInText ==
    ASSUME NEW text \in Seq(Rune)
    PROVE  /\ Bytes(text) \in Nat
           /\ \A n \in 0..Len(text) : Offset(text, n) \in 0..Bytes(text)
           /\ \A i, j \in 0..Len(text) : i <= j <=> Offset(text, i) <= Offset(text, j)
<1> DEFINE N == Len(text)
<1>1. N \in Nat /\ N \in 0..N /\ \A n \in 0..N : n \in Nat /\ n <= N
  OBVIOUS
<1>2. /\ \A n \in 0..N : Offset(text, n) \in Nat
      /\ \A i, j \in 0..N : i < j => Offset(text, i) < Offset(text, j)
  BY OffsetSteps
<1>3. Bytes(text) = Offset(text, N)
  BY DEF Bytes
<1> HIDE DEF N
<1>4. \A i, j \in 0..N : i <= j <=> Offset(text, i) <= Offset(text, j)
  <2> SUFFICES ASSUME NEW i \in 0..N, NEW j \in 0..N
               PROVE  i <= j <=> Offset(text, i) <= Offset(text, j)
    OBVIOUS
  <2>1. i \in Nat /\ j \in Nat /\ Offset(text, i) \in Nat /\ Offset(text, j) \in Nat
    BY <1>1, <1>2
  <2>2. CASE i < j
    BY <1>2, <2>1, <2>2
  <2>3. CASE j < i
    BY <1>2, <2>1, <2>3
  <2> QED
    BY <2>1, <2>2, <2>3
<1> QED
  BY <1>1, <1>2, <1>3, <1>4 DEF N

\* As many runes are complete at a cursor as start before it and end there.
LEMMA RunesReach ==
    ASSUME NEW text \in Seq(Rune), NEW c \in 0..Bytes(text), NEW m \in 0..Len(text)
    PROVE  UnitsAt(text, c, "rune") \in 0..Len(text)
           /\ (UnitsAt(text, c, "rune") >= m <=> Offset(text, m) <= c)
<1> DEFINE u == UnitsAt(text, c, "rune")
<1>1. u \in 0..Len(text) /\ Complete(text, u, c)
  BY RunesCounted
<1>2. c \in Nat
  BY OffsetsInText
<1> HIDE DEF u
<1>3. Offset(text, m) <= c <=> m <= u
  BY <1>1, <1>2, CompleteUpTo
<1>4. u \in Nat /\ m \in Nat
  BY <1>1
<1> QED
  BY <1>1, <1>3, <1>4 DEF u

LEMMA BoundaryCounts ==
    ASSUME NEW text \in Seq(Rune), NEW m \in 0..Len(text)
    PROVE  UnitsAt(text, Offset(text, m), "rune") = m
<1> DEFINE c == Offset(text, m)
           u == UnitsAt(text, c, "rune")
<1>1. c \in 0..Bytes(text) /\ c <= c
  BY OffsetsInText
<1>2. u \in 0..Len(text) /\ u >= m
  BY <1>1, RunesReach
<1>3. Offset(text, u) <= c
  BY <1>1, RunesCounted DEF Complete
<1> HIDE DEF u
<1>4. u <= m
  BY <1>2, <1>3, OffsetsInText
<1> QED
  BY <1>2, <1>4 DEF u

\* What lies between the start of a line and where it ends.
LineEnd(text, line) ==
    IF line < Len(LineStart(text)) THEN LineStart(text)[line + 1] ELSE Bytes(text)
CursorsUpTo(text, line, target) ==
    {c \in LineStart(text)[line]..LineEnd(text, line) - 1 : UnitsAt(text, c, "rune") >= target}
        \cup {LineEnd(text, line)}

LEMMA CursorFrom ==
    ASSUME NEW text \in Seq(Rune), NEW line \in Nat, NEW col \in Nat
    PROVE  /\ line + 1 > Len(LineStart(text)) => CursorAt(text, line, col) = Bytes(text)
           /\ line + 1 <= Len(LineStart(text)) =>
                 CursorAt(text, line, col) =
                    Min(CursorsUpTo(text, line + 1,
                                    UnitsAt(text, LineStart(text)[line + 1], "rune") + col))
<1>1. ~(line < 0) /\ ~(col < 0) /\ Len(LineStart(text)) \in Nat
  BY LinesAreInOrder DEF Starts
<1> QED
  BY <1>1 DEF CursorAt, CursorsUpTo, LineEnd

\* A line starts and ends after some number of runes, and starts before it ends.
LEMMA LineBounds ==
    ASSUME NEW text \in Seq(Rune), NEW line \in 1..Len(LineStart(text))
    PROVE  \E s, e \in 0..Len(text) :
              /\ LineStart(text)[line] = Offset(text, s) /\ LineEnd(text, line) = Offset(text, e)
              /\ s <= e /\ UnitsAt(text, Offset(text, s), "rune") = s
<1> DEFINE starts == LineStart(text)
           N == Len(text)
<1>1. /\ starts \in Seq(Nat) /\ N \in Nat /\ Len(starts) \in Nat
      /\ \A i, j \in 1..Len(starts) : i < j => starts[i] < starts[j]
      /\ \A i \in 1..Len(starts) : \E m \in 0..N : starts[i] = Offset(text, m)
  BY LinesAreInOrder DEF Starts
<1> HIDE DEF starts
<1>2. PICK s \in 0..N : starts[line] = Offset(text, s)
  BY <1>1 DEF starts
<1>3. PICK e \in 0..N : LineEnd(text, line) = Offset(text, e) /\ s <= e
  <2>1. CASE line < Len(starts)
    <3>1. line + 1 \in 1..Len(starts) /\ line \in 1..Len(starts) /\ line < line + 1
      BY <1>1, <2>1 DEF starts
    <3>2. PICK e \in 0..N : starts[line + 1] = Offset(text, e)
      BY <1>1, <3>1
    <3>3. Offset(text, s) < Offset(text, e)
      BY <1>1, <1>2, <3>1, <3>2
    <3>4. s <= e
      BY <1>1, <3>3, OffsetSteps
    <3> QED
      BY <2>1, <3>2, <3>4 DEF LineEnd, starts
  <2>2. CASE ~(line < Len(starts))
    <3>1. N \in 0..N /\ s <= N
      BY <1>1
    <3>2. LineEnd(text, line) = Offset(text, N)
      BY <2>2 DEF LineEnd, starts, Bytes
    <3> QED
      BY <3>1, <3>2
  <2> QED
    BY <2>1, <2>2
<1>4. UnitsAt(text, Offset(text, s), "rune") = s
  BY BoundaryCounts
<1> QED
  BY <1>2, <1>3, <1>4 DEF starts


LEMMA BackToCursor ==
    ASSUME NEW text \in Seq(Rune), NEW cursor \in Boundaries(text)
    PROVE  CursorAt(text, LocationAt(text, cursor).line - 1, LocationAt(text, cursor).column - 1) = cursor
<1> DEFINE starts == LineStart(text)
           line == LineAt(starts, cursor)
           N == Len(text)
<1>1. PICK m \in 0..N : cursor = Offset(text, m)
  BY DEF Boundaries
<1>2. cursor \in 0..Bytes(text) /\ Bytes(text) \in Nat /\ cursor \in Nat /\ N \in Nat /\ m \in Nat
  BY <1>1, OffsetsInText
<1>3. On(starts, line, cursor)
  BY <1>2, LinesAreInOrder, LineIsFound
<1>4. starts \in Seq(Nat) /\ Len(starts) \in Nat
  BY LinesAreInOrder DEF Starts
<1>5. LocationAt(text, cursor).line = line
  BY <1>2, LocationOn
<1>6. LocationAt(text, cursor).column = UnitsAt(text, cursor, "rune") - UnitsAt(text, starts[line], "rune") + 1
  BY <1>2, <1>5, LocationOn
<1> HIDE DEF line
<1>7. line \in 1..Len(starts) /\ starts[line] <= cursor
  BY <1>3 DEF On
<1>8. PICK s, e \in 0..N :
            /\ starts[line] = Offset(text, s) /\ LineEnd(text, line) = Offset(text, e)
            /\ s <= e /\ UnitsAt(text, Offset(text, s), "rune") = s
  BY <1>7, LineBounds
<1>9. /\ s \in Nat /\ e \in Nat /\ s <= m
      /\ Offset(text, s) \in 0..Bytes(text) /\ Offset(text, e) \in 0..Bytes(text)
  BY <1>1, <1>7, <1>8, OffsetsInText
<1>10. UnitsAt(text, cursor, "rune") = m
  BY <1>1, BoundaryCounts
<1>11. LocationAt(text, cursor).column - 1 = m - s /\ m - s \in Nat /\ s + (m - s) = m
  BY <1>2, <1>6, <1>8, <1>9, <1>10
<1>12. line - 1 \in Nat /\ line - 1 + 1 = line /\ line - 1 + 1 <= Len(starts)
  BY <1>4, <1>7
<1> DEFINE S == CursorsUpTo(text, line, m)
<1>13. CursorAt(text, line - 1, m - s) = Min(S)
  <2>1. CursorAt(text, line - 1, m - s) =
           Min(CursorsUpTo(text, line - 1 + 1, UnitsAt(text, starts[line - 1 + 1], "rune") + (m - s)))
    BY <1>11, <1>12, CursorFrom
  <2>2. UnitsAt(text, starts[line], "rune") + (m - s) = m
    BY <1>8, <1>11
  <2> QED
    BY <1>12, <2>1, <2>2
<1> DEFINE first == starts[line]
           end == LineEnd(text, line)
<1>14. first \in Nat /\ end \in Nat /\ first <= cursor /\ end <= Bytes(text)
  BY <1>2, <1>7, <1>8, <1>9
<1>15. S = {c \in first..end - 1 : UnitsAt(text, c, "rune") >= m} \cup {end}
  BY DEF CursorsUpTo
<1>16. cursor <= end /\ (cursor = end \/ cursor \in first..end - 1)
  <2>1. CASE line < Len(starts)
    <3>1. cursor < starts[line + 1] /\ end = starts[line + 1]
      BY <1>3, <2>1 DEF On, LineEnd
    <3> QED
      BY <1>2, <1>14, <3>1
  <2>2. CASE ~(line < Len(starts))
    <3>1. end = Bytes(text)
      BY <2>2 DEF LineEnd
    <3> QED
      BY <1>2, <1>14, <3>1
  <2> QED
    BY <2>1, <2>2
<1> HIDE DEF S, first, end
<1>17. cursor \in S
  <2>1. UnitsAt(text, cursor, "rune") >= m
    BY <1>2, <1>10
  <2> QED
    BY <1>15, <1>16, <2>1
<1>18. ASSUME NEW c \in S
       PROVE  c \in Nat /\ cursor <= c
  <2>1. CASE c = end
    BY <1>14, <1>16, <2>1
  <2>2. CASE c \in first..end - 1 /\ UnitsAt(text, c, "rune") >= m
    <3>1. c \in 0..Bytes(text) /\ c \in Nat
      BY <1>2, <1>14, <2>2
    <3> QED
      BY <1>1, <2>2, <3>1, RunesReach
  <2> QED
    BY <1>15, <2>1, <2>2
<1>19. Min(S) \in S /\ Min(S) <= cursor
  BY <1>17, <1>18, MinOf
<1>20. Min(S) = cursor
  BY <1>2, <1>18, <1>19
<1> QED
  BY <1>5, <1>11, <1>13, <1>20

LEMMA LineIsKept ==
    ASSUME NEW text \in Seq(Rune), NEW line \in Nat, line <= Len(LineStart(text)), NEW col \in Nat
    PROVE  /\ CursorAt(text, line, col) \in Boundaries(text)
           /\ LocationAt(text, CursorAt(text, line, col)).line \in {line + 1, line + 2, Len(LineStart(text))}
<1> DEFINE starts == LineStart(text)
           N == Len(text)
           L == Len(starts)
           cursor == CursorAt(text, line, col)
<1>1. /\ starts \in Seq(Nat) /\ N \in Nat /\ N \in 0..N /\ L \in Nat /\ L > 0
      /\ \A i \in 1..L : starts[i] \in Nat /\ \E m \in 0..N : starts[i] = Offset(text, m)
      /\ \A i, j \in 1..L : i < j => starts[i] < starts[j]
  BY LinesAreInOrder DEF Starts
<1>2. /\ Bytes(text) \in Nat /\ Bytes(text) = Offset(text, N)
      /\ \A n \in 0..N : Offset(text, n) \in 0..Bytes(text)
  BY OffsetsInText DEF Bytes
<1>3. \A n \in 0..N : Offset(text, n) \in Boundaries(text)
  BY DEF Boundaries
<1>4. ASSUME NEW c \in 0..Bytes(text), NEW i \in 1..L, On(starts, i, c)
      PROVE  LocationAt(text, c).line = i
  <2>1. c \in Nat
    BY <1>2
  <2>2. i = LineAt(starts, c)
    BY <1>4, <2>1, LinesAreInOrder, LineIsFound
  <2> QED
    BY <2>2, LocationOn
<1>5. LocationAt(text, Bytes(text)).line = L
  <2>1. L \in 1..L /\ \E m \in 0..N : starts[L] = Offset(text, m)
    BY <1>1
  <2>2. starts[L] <= Bytes(text) /\ Bytes(text) \in 0..Bytes(text)
    BY <1>2, <2>1
  <2>3. On(starts, L, Bytes(text))
    BY <1>1, <2>1, <2>2 DEF On
  <2> QED
    BY <1>4, <2>1, <2>2, <2>3
<1> HIDE DEF starts
<1>6. CASE line + 1 > L
  <2>1. cursor = Bytes(text)
    BY <1>6, CursorFrom DEF starts
  <2>2. cursor \in Boundaries(text)
    BY <1>1, <1>2, <1>3, <2>1
  <2> QED
    BY <1>5, <2>1, <2>2 DEF starts
<1>7. CASE line + 1 <= L
  <2>1. line + 1 \in 1..L
    BY <1>1, <1>7
  <2> DEFINE first == starts[line + 1]
             end == LineEnd(text, line + 1)
  <2>2. PICK s, e \in 0..N : /\ first = Offset(text, s) /\ end = Offset(text, e)
                             /\ s <= e /\ UnitsAt(text, Offset(text, s), "rune") = s
    BY <2>1, LineBounds DEF starts
  <2> DEFINE t == s + col
             S == CursorsUpTo(text, line + 1, t)
  <2>3. cursor = Min(S)
    <3>1. cursor = Min(CursorsUpTo(text, line + 1, UnitsAt(text, first, "rune") + col))
      BY <1>7, CursorFrom DEF starts
    <3>2. UnitsAt(text, first, "rune") = s
      BY <2>2
    <3> QED
      BY <3>1, <3>2
  <2>4. S = {c \in first..end - 1 : UnitsAt(text, c, "rune") >= t} \cup {end}
    BY DEF CursorsUpTo, starts
  <2>5. /\ first \in Nat /\ end \in Nat /\ end <= Bytes(text) /\ s \in Nat /\ t \in Nat
        /\ end \in 0..Bytes(text)
    BY <1>1, <1>2, <2>1, <2>2
  <2>6. /\ line + 1 < L => end = starts[line + 1 + 1]
        /\ ~(line + 1 < L) => end = Bytes(text)
    BY DEF LineEnd, starts
  <2> HIDE DEF first, end, S, cursor, t
  <2>7. cursor \in S /\ \A c \in S : cursor <= c
    <3>1. S \subseteq Nat /\ S # {}
      BY <2>4, <2>5
    <3> QED
      BY <2>3, <3>1, MinOf
  <2>8. CASE cursor = end
    <3>1. cursor \in Boundaries(text)
      BY <1>3, <2>2, <2>8
    <3>2. CASE line + 1 < L
      <4>1. line + 1 + 1 \in 1..L /\ line + 1 + 1 = line + 2
        BY <1>1, <3>2
      <4>2. line + 2 < L => line + 2 + 1 \in 1..L
        BY <1>1
      <4>3. On(starts, line + 2, end)
        <5> DEFINE m == line + 2
        <5>1. m \in 1..L /\ m = line + 1 + 1 /\ (m < L => m + 1 \in 1..L /\ m < m + 1)
          BY <1>1, <4>1, <4>2
        <5>2. end = starts[m]
          BY <2>6, <3>2, <4>1
        <5> HIDE DEF m
        <5>3. starts[m] \in Nat /\ (m < L => starts[m] < starts[m + 1])
          BY <1>1, <5>1
        <5>4. On(starts, m, end)
          BY <5>1, <5>2, <5>3 DEF On
        <5> QED
          BY <5>4 DEF m
      <4>4. LocationAt(text, cursor).line = line + 2
        BY <1>4, <2>5, <2>8, <4>1, <4>3
      <4> QED
        BY <3>1, <4>4 DEF cursor
    <3>3. CASE ~(line + 1 < L)
      <4>1. LocationAt(text, cursor).line = L
        BY <1>5, <2>6, <2>8, <3>3
      <4> QED
        BY <3>1, <4>1 DEF cursor, starts
    <3> QED
      BY <3>2, <3>3
  <2>9. CASE cursor # end
    <3>1. cursor \in first..end - 1 /\ UnitsAt(text, cursor, "rune") >= t
      BY <2>4, <2>7, <2>9
    <3>2. cursor \in Nat /\ cursor \in 0..Bytes(text) /\ first <= cursor /\ cursor < end
      BY <1>2, <2>5, <3>1
    <3>3. UnitsAt(text, cursor, "rune") \in 0..N
      BY <1>1, <3>2, RunesReach
    <3>4. t \in 0..N /\ s <= t
      BY <1>1, <2>5, <3>1, <3>3 DEF t
    <3>5. Offset(text, t) <= cursor
      BY <3>1, <3>2, <3>4, RunesReach
    <3>6. first <= Offset(text, t) /\ Offset(text, t) \in Nat
      BY <1>2, <2>2, <3>4, OffsetsInText
    <3>7. Offset(text, t) \in first..end - 1
      BY <2>5, <3>2, <3>5, <3>6
    <3>8. UnitsAt(text, Offset(text, t), "rune") >= t
      BY <2>5, <3>4, BoundaryCounts
    <3>9. Offset(text, t) \in S
      BY <2>4, <3>7, <3>8
    <3>10. cursor = Offset(text, t)
      BY <2>7, <3>2, <3>5, <3>6, <3>9
    <3>11. On(starts, line + 1, cursor)
      BY <2>1, <2>6, <3>2 DEF On, first
    <3>12. LocationAt(text, cursor).line = line + 1
      BY <1>4, <2>1, <3>2, <3>11
    <3>13. cursor \in Boundaries(text)
      BY <1>3, <3>4, <3>10
    <3> QED
      BY <3>12, <3>13 DEF cursor
  <2> QED
    BY <2>8, <2>9
<1>8. line + 1 > L \/ line + 1 <= L
  BY <1>1
<1> QED
  BY <1>6, <1>7, <1>8

\* pos.go on any text, whatever the distance of its checkpoints.
THEOREM EveryPositionIsExact ==
    ASSUME NEW text \in Seq(Rune)
    PROVE  UnitsAreCounted(text) /\ LocationsInvert(text)
<1>1. UnitsAreCounted(text)
  <2> SUFFICES ASSUME NEW cursor \in 0..Bytes(text), NEW mode \in Modes
               PROVE  \E n \in 0..Len(text) :
                         Complete(text, n, cursor) /\ UnitsAt(text, cursor, mode) = Units(text, n, mode)
    BY DEF UnitsAreCounted
  <2> QED
    BY UnitsCounted
<1>2. \A line \in 0..Len(LineStart(text)) : line \in Nat /\ line <= Len(LineStart(text))
  BY LinesAreInOrder DEF Starts
<1>3. \A col \in 0..Len(text) + 1 : col \in Nat
  OBVIOUS
<1>4. LocationsInvert(text)
  BY <1>2, <1>3, BackToCursor, LineIsKept DEF LocationsInvert
<1> QED
  BY <1>1, <1>4

-----------------------------------------------------------------------------
(***************************************************************************)
(* Numbers of varying length.                                              *)
(***************************************************************************)
Flagged(v, rest) == <<(v % Group) + Group>> \o rest
\* What Uvarint is on 0..N.
Varints(f, N) == \A v \in 0..N : f[v] = IF v >= Group THEN Flagged(v, f[v \div Group]) ELSE <<v>>

LEMMA GroupDivides ==
    ASSUME NEW v \in Nat
    PROVE  /\ v % Group \in 0..Group - 1 /\ v \div Group \in Nat
           /\ v = (v % Group) + Group * (v \div Group)
           /\ v >= Group => v \div Group < v
<1>1. Group \in Nat /\ Group >= 2
  BY BaseAssumption
<1>2. v % Group \in 0..Group - 1 /\ v \div Group \in Nat /\ v = (v % Group) + (v \div Group) * Group
  BY <1>1
<1> DEFINE r == v % Group
           q == v \div Group
<1>3. r \in Nat /\ q \in Nat /\ v = r + q * Group
  BY <1>1, <1>2
<1> HIDE DEF r, q
<1>4. q * Group = Group * q /\ q * 2 <= q * Group
  BY <1>1, <1>3
<1>5. v >= Group => q < v
  BY <1>1, <1>3, <1>4
<1> QED
  BY <1>2, <1>3, <1>4, <1>5 DEF r, q

LEMMA FlaggedType ==
    ASSUME NEW v \in Nat, NEW rest \in Seq(Nat)
    PROVE  /\ Flagged(v, rest) \in Seq(Nat) /\ Len(Flagged(v, rest)) = Len(rest) + 1
           /\ Flagged(v, rest)[1] = (v % Group) + Group
           /\ \A j \in 1..Len(rest) : Flagged(v, rest)[j + 1] = rest[j]
<1>1. (v % Group) + Group \in Nat
  BY GroupDivides, BaseAssumption
<1> QED
  BY <1>1 DEF Flagged

LEMMA VarintsAgree ==
    ASSUME NEW N \in Nat, NEW M \in Nat, NEW f, NEW g, Varints(f, N), Varints(g, M), N <= M
    PROVE  \A v \in 0..N : f[v] = g[v]
<1> DEFINE T == {v \in 0..N : f[v] # g[v]}
<1> SUFFICES ASSUME T # {}
             PROVE  FALSE
  OBVIOUS
<1>1. PICK v \in T : \A u \in T : v <= u
  <2>1. T \subseteq Nat
    OBVIOUS
  <2> HIDE DEF T
  <2> QED
    BY <2>1, LeastOf
<1>2. v \in 0..N /\ v \in 0..M /\ v \in Nat
  OBVIOUS
<1>3. CASE v >= Group
  <2>1. v \div Group \in 0..N /\ v \div Group < v
    BY <1>2, <1>3, GroupDivides
  <2>2. f[v \div Group] = g[v \div Group]
    BY <1>1, <1>2, <2>1
  <2>3. f[v] = Flagged(v, f[v \div Group]) /\ g[v] = Flagged(v, g[v \div Group])
    BY <1>2, <1>3 DEF Varints
  <2> QED
    BY <2>2, <2>3
<1>4. CASE ~(v >= Group)
  BY <1>2, <1>4 DEF Varints
<1> QED
  BY <1>3, <1>4

LEMMA VarintsExist ==
    ASSUME NEW N \in Nat
    PROVE  \E f \in [0..N -> Seq(Nat)] : Varints(f, N)
<1> DEFINE T == {n \in 0..N : \E f \in [0..n -> Seq(Nat)] : Varints(f, n)}
<1>0. Group \in Nat /\ Group >= 2
  BY BaseAssumption
<1>1. 0 \in T
  <2> DEFINE f == [v \in 0..0 |-> <<0>>]
  <2>1. f \in [0..0 -> Seq(Nat)] /\ Varints(f, 0)
    BY <1>0 DEF Varints
  <2> HIDE DEF f
  <2>2. 0 \in 0..N /\ \E h \in [0..0 -> Seq(Nat)] : Varints(h, 0)
    BY <2>1
  <2> QED
    BY <2>2
<1>2. ASSUME NEW n \in 0..N - 1, n \in T
      PROVE  n + 1 \in T
  <2>1. PICK f \in [0..n -> Seq(Nat)] : Varints(f, n)
    BY <1>2
  <2> DEFINE x == n + 1
             last == IF x >= Group THEN Flagged(x, f[x \div Group]) ELSE <<x>>
             g == [v \in 0..x |-> IF v = x THEN last ELSE f[v]]
  <2>2. n \in Nat /\ x \in Nat /\ x \in 0..x /\ x \in 0..N /\ \A v \in 0..x : v # x => v \in 0..n
    OBVIOUS
  <2>3. x >= Group => x \div Group \in 0..n
    <3>1. x >= Group => x \div Group \in Nat /\ x \div Group < x
      BY <2>2, GroupDivides
    <3> QED
      BY <2>2, <3>1
  <2>4. last \in Seq(Nat)
    BY <2>1, <2>2, <2>3, FlaggedType
  <2> HIDE DEF last
  <2>5. g \in [0..x -> Seq(Nat)] /\ g[x] = last /\ \A v \in 0..n : g[v] = f[v]
    BY <2>1, <2>2, <2>4
  <2> HIDE DEF g
  <2>6. ASSUME NEW v \in 0..x
        PROVE  g[v] = IF v >= Group THEN Flagged(v, g[v \div Group]) ELSE <<v>>
    <3>1. CASE v = x
      BY <2>3, <2>5, <3>1 DEF last
    <3>2. CASE v # x
      <4>1. v \in 0..n /\ v \in Nat
        BY <2>2, <3>2
      <4>2. v >= Group => v \div Group \in 0..n
        BY <2>2, <4>1, GroupDivides
      <4>3. f[v] = IF v >= Group THEN Flagged(v, f[v \div Group]) ELSE <<v>>
        BY <2>1, <4>1 DEF Varints
      <4> QED
        BY <2>5, <4>1, <4>2, <4>3
    <3> QED
      BY <3>1, <3>2
  <2> HIDE DEF x
  <2>7. \E h \in [0..x -> Seq(Nat)] : Varints(h, x)
    BY <2>5, <2>6 DEF Varints
  <2> QED
    BY <2>2, <2>7 DEF x
<1>3. \A n \in 0..N : n \in T
  <2> HIDE DEF T
  <2> QED
    BY <1>1, <1>2, UpTo
<1> QED
  BY <1>3

LEMMA UvarintUnfolds ==
    ASSUME NEW v \in Nat
    PROVE  /\ Uvarint[v] \in Seq(Nat)
           /\ Uvarint[v] = IF v >= Group THEN Flagged(v, Uvarint[v \div Group]) ELSE <<v>>
<1> DEFINE Of(n) == CHOOSE f \in [0..n -> Seq(Nat)] : Varints(f, n)
           F == [n \in Nat |-> Of(n)[n]]
<1>1. ASSUME NEW n \in Nat
      PROVE  Of(n) \in [0..n -> Seq(Nat)] /\ Varints(Of(n), n) /\ n \in 0..n
  <2>1. \E f \in [0..n -> Seq(Nat)] : Varints(f, n)
    BY VarintsExist
  <2>2. n \in 0..n
    OBVIOUS
  <2> QED
    BY <2>1, <2>2
<1> HIDE DEF Of
<1>2. ASSUME NEW n \in Nat
      PROVE  F[n] = IF n >= Group THEN Flagged(n, F[n \div Group]) ELSE <<n>>
  <2>1. Of(n)[n] = IF n >= Group THEN Flagged(n, Of(n)[n \div Group]) ELSE <<n>>
    BY <1>1 DEF Varints
  <2>2. ASSUME n >= Group
        PROVE  Of(n)[n \div Group] = F[n \div Group]
    <3> DEFINE q == n \div Group
    <3>1. q \in Nat /\ q < n
      BY <2>2, GroupDivides
    <3> HIDE DEF q
    <3>2. Of(q)[q] = Of(n)[q]
      <4>1. Varints(Of(q), q) /\ Varints(Of(n), n) /\ q <= n /\ q \in 0..q
        BY <1>1, <3>1
      <4> QED
        BY <3>1, <4>1, VarintsAgree
    <3> QED
      BY <3>1, <3>2 DEF q
  <2> QED
    BY <2>1, <2>2
<1>3. F = [n \in Nat |-> IF n >= Group THEN <<(n % Group) + Group>> \o F[n \div Group] ELSE <<n>>]
  <2> HIDE DEF F
  <2>1. F = [n \in Nat |-> F[n]]
    BY DEF F
  <2> QED
    BY <1>2, <2>1 DEF Flagged
<1> HIDE DEF F
<1>4. Uvarint = [n \in Nat |-> IF n >= Group THEN <<(n % Group) + Group>> \o Uvarint[n \div Group] ELSE <<n>>]
  BY <1>3 DEF Uvarint
<1>5. ASSUME NEW n \in Nat
      PROVE  Varints(Uvarint, n)
  <2>1. \A u \in 0..n : u \in Nat
    OBVIOUS
  <2> QED
    BY <1>4, <2>1 DEF Varints, Flagged
<1>6. Uvarint[v] = Of(v)[v]
  BY <1>1, <1>5, VarintsAgree
<1>7. Uvarint[v] \in Seq(Nat)
  BY <1>1, <1>6
<1>8. Uvarint[v] = IF v >= Group THEN Flagged(v, Uvarint[v \div Group]) ELSE <<v>>
  <2>1. v \in 0..v
    OBVIOUS
  <2> QED
    BY <1>5, <2>1 DEF Varints
<1> QED
  BY <1>7, <1>8


\* Bytes that are flagged, but the last, and the number they are.
IsValue(h, s) == /\ h[0] = s[Len(s)]
                 /\ \A n \in 1..Len(s) - 1 : h[n] = s[Len(s) - n] - Group + Group * h[n - 1]
IsVarint(s, v) ==
    /\ s \in Seq(Nat) /\ Len(s) >= 1 /\ s[Len(s)] < Group
    /\ \A j \in 1..Len(s) - 1 : s[j] >= Group
    /\ \A h : IsValue(h, s) => h[Len(s) - 1] = v

LEMMA OneByteVarint ==
    ASSUME NEW v \in Nat, v < Group
    PROVE  IsVarint(<<v>>, v)
<1>1. <<v>> \in Seq(Nat) /\ Len(<<v>>) = 1 /\ <<v>>[1] = v
  OBVIOUS
<1>2. \A h : IsValue(h, <<v>>) => h[0] = v
  BY <1>1 DEF IsValue
<1> QED
  BY <1>1, <1>2 DEF IsVarint

LEMMA LongerVarint ==
    ASSUME NEW v \in Nat, v >= Group, NEW t, IsVarint(t, v \div Group)
    PROVE  IsVarint(Flagged(v, t), v)
<1> DEFINE s == Flagged(v, t)
           q == v \div Group
           L == Len(t)
<1>1. /\ t \in Seq(Nat) /\ L \in Nat /\ L >= 1 /\ t[L] < Group
      /\ \A j \in 1..L - 1 : t[j] >= Group
      /\ \A h : IsValue(h, t) => h[L - 1] = q
  BY DEF IsVarint
<1>2. /\ s \in Seq(Nat) /\ Len(s) = L + 1 /\ s[1] = (v % Group) + Group
      /\ \A j \in 1..L : s[j + 1] = t[j]
  BY <1>1, FlaggedType
<1>3. v % Group \in Nat /\ q \in Nat /\ v = (v % Group) + Group * q /\ Group \in Nat /\ v % Group < Group
  BY GroupDivides, BaseAssumption
<1> HIDE DEF s, q
<1>4. \A j \in 1..L + 1 : j # 1 => j - 1 \in 1..L /\ s[j] = t[j - 1]
  <2> SUFFICES ASSUME NEW j \in 1..L + 1, j # 1
               PROVE  j - 1 \in 1..L /\ s[j] = t[j - 1]
    OBVIOUS
  <2>1. j - 1 \in 1..L /\ j - 1 + 1 = j
    BY <1>1
  <2>2. s[j - 1 + 1] = t[j - 1]
    BY <1>2, <2>1
  <2> QED
    BY <2>1, <2>2
<1>5. s[L + 1] = t[L]
  <2>1. L \in 1..L
    BY <1>1
  <2> HIDE DEF L
  <2> QED
    BY <1>2, <2>1
<1>6. ASSUME NEW j \in 1..L
      PROVE  s[j] >= Group
  <2>1. CASE j = 1
    BY <1>2, <1>3, <2>1
  <2>2. CASE j # 1
    <3>1. j - 1 \in 1..L - 1 /\ s[j] = t[j - 1]
      BY <1>1, <1>4, <2>2
    <3> QED
      BY <1>1, <3>1
  <2> QED
    BY <2>1, <2>2
<1>7. ASSUME NEW h, IsValue(h, s)
      PROVE  h[L] = v
  <2>1. /\ h[0] = s[L + 1]
        /\ \A n \in 1..L : h[n] = s[L + 1 - n] - Group + Group * h[n - 1]
    BY <1>1, <1>2, <1>7 DEF IsValue
  <2>2. ASSUME NEW n \in 1..L - 1
        PROVE  h[n] = t[L - n] - Group + Group * h[n - 1]
    <3>1. L + 1 - n \in 1..L + 1 /\ L + 1 - n # 1 /\ L + 1 - n - 1 = L - n /\ n \in 1..L
      BY <1>1
    <3>2. s[L + 1 - n] = t[L - n]
      BY <1>4, <3>1
    <3> QED
      BY <2>1, <3>1, <3>2
  <2>3. IsValue(h, t)
    BY <1>5, <2>1, <2>2 DEF IsValue
  <2>4. h[L - 1] = q
    BY <1>1, <2>3
  <2>5. L \in 1..L /\ L + 1 - L = 1
    BY <1>1
  <2>6. h[L] = s[1] - Group + Group * h[L - 1]
    BY <2>1, <2>5
  <2>7. h[L] = s[1] - Group + Group * q
    BY <2>4, <2>6
  <2> DEFINE m == Group * q
  <2>8. m \in Nat
    BY <1>3
  <2> HIDE DEF m
  <2>9. h[L] = (v % Group) + Group - Group + m /\ v = (v % Group) + m
    BY <1>2, <1>3, <2>7 DEF m
  <2> QED
    BY <1>3, <2>8, <2>9
<1> QED
  BY <1>1, <1>2, <1>5, <1>6, <1>7 DEF IsVarint, s

LEMMA UvarintIsVarint ==
    ASSUME NEW v \in Nat
    PROVE  IsVarint(Uvarint[v], v)
<1> DEFINE T == {u \in Nat : ~IsVarint(Uvarint[u], u)}
<1> SUFFICES ASSUME T # {}
             PROVE  FALSE
  OBVIOUS
<1>1. PICK u \in T : \A w \in T : u <= w
  <2>1. T \subseteq Nat
    OBVIOUS
  <2> HIDE DEF T
  <2> QED
    BY <2>1, LeastOf
<1>2. u \in Nat /\ Group \in Nat
  BY BaseAssumption
<1>3. CASE u >= Group
  <2>1. u \div Group \in Nat /\ u \div Group < u
    BY <1>2, <1>3, GroupDivides
  <2>2. IsVarint(Uvarint[u \div Group], u \div Group)
    BY <1>1, <1>2, <2>1
  <2>3. Uvarint[u] = Flagged(u, Uvarint[u \div Group])
    BY <1>2, <1>3, UvarintUnfolds
  <2> QED
    BY <1>2, <1>3, <2>2, <2>3, LongerVarint
<1>4. CASE ~(u >= Group)
  <2>1. u < Group
    BY <1>2, <1>4
  <2>2. Uvarint[u] = <<u>>
    BY <1>2, <1>4, UvarintUnfolds
  <2> QED
    BY <1>2, <2>1, <2>2, OneByteVarint
<1> QED
  BY <1>3, <1>4

\* A number that is in the data at a position is read there.
ValueOfBytes(data, pos, end, f) ==
    f = [n \in 0..end - pos |->
            IF n = 0 THEN data[end] ELSE data[end - n] - Group + Group * f[n - 1]]

LEMMA ValueSteps ==
    ASSUME NEW data \in Seq(Nat), NEW pos \in 1..Len(data), NEW end \in pos..Len(data)
    PROVE  \E f : ValueOfBytes(data, pos, end, f)
<1> DEFINE N == end - pos
           g == [x \in (1..N) \X Int |-> data[end - x[1]] - Group + Group * x[2]]
<1>1. N \in Nat /\ end \in 1..Len(data) /\ \A n \in 1..N : end - n \in 1..Len(data)
  OBVIOUS
<1>2. data[end] \in Int /\ \A n \in 1..N : data[end - n] \in Int
  BY <1>1
<1>3. \A n \in 1..N, u \in Int : data[end - n] - Group + Group * u \in Int
  BY <1>2, BaseAssumption
<1>4. g \in [(1..N) \X Int -> Int]
  BY <1>3
<1>5. PICK f \in [0..N -> Int] : Unfolds(f, N, data[end], g)
  <2> HIDE DEF g, N
  <2> QED
    BY <1>1, <1>2, <1>4, Recursion
<1>6. ASSUME NEW n \in 1..N
      PROVE  f[n] = data[end - n] - Group + Group * f[n - 1]
  <2>1. n - 1 \in 0..N
    BY <1>1
  <2>2. <<n, f[n - 1]>> \in (1..N) \X Int
    BY <1>5, <2>1
  <2> HIDE DEF N
  <2>3. g[<<n, f[n - 1]>>] = data[end - n] - Group + Group * f[n - 1]
    BY <2>2
  <2> HIDE DEF g
  <2> QED
    BY <1>5, <2>3 DEF Unfolds
<1>7. f[0] = data[end]
  BY <1>5 DEF Unfolds
<1>8. \A n \in 0..N : n # 0 => n \in 1..N
  BY <1>1
<1> HIDE DEF g
<1>9. f = [n \in 0..N |-> IF n = 0 THEN data[end] ELSE data[end - n] - Group + Group * f[n - 1]]
  <2> HIDE DEF N
  <2> QED
    BY <1>5, <1>6, <1>7, <1>8
<1> QED
  BY <1>9 DEF ValueOfBytes

LEMMA ReadsAVarint ==
    ASSUME NEW data \in Seq(Nat), NEW pos \in 1..Len(data), NEW v, NEW s, IsVarint(s, v),
           pos + Len(s) - 1 <= Len(data), \A j \in 1..Len(s) : data[pos + j - 1] = s[j]
    PROVE  ReadUvarint(data, pos) = [v |-> v, pos |-> pos + Len(s)]
<1> DEFINE L == Len(s)
           end == pos + L - 1
           E == {e \in pos..Len(data) : data[e] < Group}
           value[n \in 0..end - pos] ==
               IF n = 0 THEN data[end] ELSE data[end - n] - Group + Group * value[n - 1]
<1>1. /\ s \in Seq(Nat) /\ L \in Nat /\ L >= 1 /\ s[L] < Group /\ \A j \in 1..L - 1 : s[j] >= Group
      /\ \A h : IsValue(h, s) => h[L - 1] = v
  BY DEF IsVarint
<1>2. Len(data) \in Nat /\ pos \in Nat /\ end \in pos..Len(data) /\ end - pos = L - 1 /\ end + 1 = pos + L
  BY <1>1
<1>3. \A e \in pos..end : e - pos + 1 \in 1..L /\ data[e] = s[e - pos + 1]
  <2> SUFFICES ASSUME NEW e \in pos..end
               PROVE  e - pos + 1 \in 1..L /\ data[e] = s[e - pos + 1]
    OBVIOUS
  <2>1. e - pos + 1 \in 1..L /\ pos + (e - pos + 1) - 1 = e
    BY <1>1, <1>2
  <2>2. data[pos + (e - pos + 1) - 1] = s[e - pos + 1]
    BY <2>1
  <2> QED
    BY <2>1, <2>2
<1>4. Min(E) = end
  <2>1. E \subseteq Nat
    BY <1>2
  <2>2. end \in E
    <3>1. end \in pos..end /\ end - pos + 1 = L
      BY <1>1, <1>2
    <3>2. data[end] = s[L]
      BY <1>3, <3>1
    <3> QED
      BY <1>1, <1>2, <3>2
  <2>3. ASSUME NEW e \in E, e < end
        PROVE  FALSE
    <3>1. e \in pos..end /\ data[e] < Group
      <4>1. e \in pos..Len(data) /\ data[e] < Group
        OBVIOUS
      <4> HIDE DEF E, end
      <4> QED
        BY <1>2, <2>3, <4>1
    <3>2. data[e] = s[e - pos + 1] /\ e - pos + 1 \in 1..L - 1
      BY <1>1, <1>2, <1>3, <2>3, <3>1
    <3>3. \A j \in 1..L - 1 : s[j] >= Group /\ s[j] \in Nat
      <4>1. \A j \in 1..L : s[j] \in Nat
        <5>1. s \in [1..Len(s) -> Nat]
          <6>1. s \in Seq(Nat)
            BY <1>1
          <6> QED
            BY <6>1
        <5> QED
          BY <5>1
      <4>2. \A j \in 1..L - 1 : j \in 1..L
        BY <1>1
      <4>3. \A j \in 1..L - 1 : s[j] >= Group
        BY <1>1
      <4> HIDE DEF L
      <4> QED
        BY <4>1, <4>2, <4>3
    <3> DEFINE x == s[e - pos + 1]
    <3>4. x >= Group /\ x \in Nat
      BY <3>2, <3>3
    <3>5. Group \in Nat
      BY BaseAssumption
    <3>6. x < Group
      BY <3>1, <3>2
    <3> HIDE DEF x
    <3> QED
      BY <3>4, <3>5, <3>6
  <2>4. Min(E) \in E /\ Min(E) <= end
    <3> HIDE DEF E, end
    <3> QED
      BY <2>1, <2>2, MinOf
  <2>5. Min(E) \in Nat /\ end \in Nat
    BY <1>2, <2>1, <2>4
  <2> HIDE DEF E, end
  <2> QED
    BY <2>3, <2>4, <2>5
<1>5. ReadUvarint(data, pos) = [v |-> value[end - pos], pos |-> end + 1]
  <2> HIDE DEF end
  <2> QED
    BY <1>4 DEF ReadUvarint
<1> HIDE DEF end, E
<1>6. ValueOfBytes(data, pos, end, value)
  <2>1. \E f : ValueOfBytes(data, pos, end, f)
    BY <1>2, ValueSteps
  <2> QED
    BY <2>1 DEF ValueOfBytes
<1> HIDE DEF value
<1>7. IsValue(value, s)
  <2>1. \A n \in 0..L - 1 : value[n] = IF n = 0 THEN data[end] ELSE data[end - n] - Group + Group * value[n - 1]
    BY <1>2, <1>6 DEF ValueOfBytes
  <2>2. ASSUME NEW n \in 1..L - 1
        PROVE  value[n] = s[L - n] - Group + Group * value[n - 1]
    <3>1. n \in 0..L - 1 /\ n # 0
      BY <1>1
    <3>2. end - n \in pos..end /\ end - n - pos + 1 = L - n
      BY <1>1, <1>2
    <3>3. data[end - n] = s[L - n]
      BY <1>3, <3>2
    <3> QED
      BY <2>1, <3>1, <3>3
  <2>3. value[0] = s[L]
    <3>1. 0 \in 0..L - 1 /\ end \in pos..end /\ end - pos + 1 = L
      BY <1>1, <1>2
    <3> QED
      BY <1>3, <2>1, <3>1
  <2> QED
    BY <2>2, <2>3 DEF IsValue
<1>8. value[L - 1] = v
  BY <1>1, <1>7
<1> QED
  BY <1>2, <1>5, <1>8

\* Differences of either sign.
LEMMA ZigzagInverse ==
    ASSUME NEW n \in Int
    PROVE  Zigzag(n) \in Nat /\ UnZigzag(Zigzag(n)) = n
<1>1. CASE n >= 0
  BY <1>1 DEF Zigzag, UnZigzag
<1>2. CASE n < 0
  <2>1. Zigzag(n) = -2 * n - 1
    BY <1>2 DEF Zigzag
  <2>2. -2 * n - 1 \in Nat /\ (-2 * n - 1) % 2 = 1 /\ (-2 * n - 1) \div 2 = -n - 1
    BY <1>2
  <2> QED
    BY <2>1, <2>2 DEF UnZigzag
<1> QED
  BY <1>1, <1>2


-----------------------------------------------------------------------------
(***************************************************************************)
(* The entries of a source map as bytes, and back.                         *)
(***************************************************************************)
\* Entries of numbers, at offsets that do not go back.
IsMap(entries) ==
    /\ entries \in Seq([1..8 -> Nat])
    /\ \A i \in 2..Len(entries) : entries[i - 1][1] <= entries[i][1]
\* What is written of an entry.
Delta(entries, i) == IF i = 1 THEN entries[1] ELSE DifferenceTo(entries[i], entries, i)

LEMMA DeltaType ==
    ASSUME NEW entries, IsMap(entries), NEW i \in 1..Len(entries), NEW f \in 1..8
    PROVE  /\ Delta(entries, i)[f] \in Int
           /\ ~Signed(i, f) => Delta(entries, i)[f] \in Nat
           /\ i > 1 => entries[i - 1][f] + Delta(entries, i)[f] = entries[i][f]
<1>1. \A k \in 1..Len(entries) : entries[k] \in [1..8 -> Nat] /\ entries[k][f] \in Nat
  <2>1. \A k \in 1..Len(entries) : entries[k] \in [1..8 -> Nat]
    BY DEF IsMap
  <2> QED
    BY <2>1
<1>2. CASE i = 1
  BY <1>1, <1>2 DEF Delta
<1>3. CASE i > 1
  <2>1. i - 1 \in 1..Len(entries) /\ i \in 2..Len(entries)
    BY <1>3 DEF IsMap
  <2>2. entries[i][f] \in Nat /\ entries[i - 1][f] \in Nat
    BY <1>1, <2>1
  <2>3. Delta(entries, i)[f] = entries[i][f] - entries[i - 1][f]
    BY <1>3 DEF Delta, DifferenceTo, Difference
  <2>4. f = 1 => entries[i - 1][f] <= entries[i][f]
    BY <2>1 DEF IsMap
  <2>5. ~Signed(i, f) => f = 1
    BY <1>3 DEF Signed
  <2> QED
    BY <1>3, <2>2, <2>3, <2>4, <2>5
<1> QED
  BY <1>2, <1>3

LEMMA NumberType ==
    ASSUME NEW entries, IsMap(entries), NEW i \in 1..Len(entries), NEW f \in 1..8
    PROVE  /\ Number(entries, i, f) \in Nat
           /\ Delta(entries, i)[f] =
                 IF Signed(i, f) THEN UnZigzag(Number(entries, i, f)) ELSE Number(entries, i, f)
<1> DEFINE d == Delta(entries, i)[f]
<1>1. d \in Int /\ (~Signed(i, f) => d \in Nat)
  BY DeltaType
<1>2. Number(entries, i, f) = IF Signed(i, f) THEN Zigzag(d) ELSE d
  BY DEF Number, Delta
<1> HIDE DEF d
<1>3. Number(entries, i, f) \in Nat
  BY <1>1, <1>2, ZigzagInverse
<1>4. d = IF Signed(i, f) THEN UnZigzag(Number(entries, i, f)) ELSE Number(entries, i, f)
  BY <1>1, <1>2, ZigzagInverse
<1> QED
  BY <1>3, <1>4 DEF d

\* Number n of the whole.
NumberAt(entries, n) == Number(entries, ((n - 1) \div 8) + 1, ((n - 1) % 8) + 1)

LEMMA Eights ==
    ASSUME NEW N \in Nat, NEW n \in 1..8 * N
    PROVE  ((n - 1) \div 8) + 1 \in 1..N /\ ((n - 1) % 8) + 1 \in 1..8
OBVIOUS

LEMMA FieldAt ==
    ASSUME NEW N \in Nat, NEW i \in 1..N, NEW f \in 1..8
    PROVE  /\ 8 * (i - 1) + f \in 1..8 * N
           /\ \A entries : NumberAt(entries, 8 * (i - 1) + f) = Number(entries, i, f)
<1> DEFINE n == 8 * (i - 1) + f
<1>1. n \in 1..8 * N /\ ((n - 1) \div 8) + 1 = i /\ ((n - 1) % 8) + 1 = f
  OBVIOUS
<1> HIDE DEF n
<1>2. \A entries : NumberAt(entries, n) = Number(entries, i, f)
  BY <1>1 DEF NumberAt
<1> QED
  BY <1>1, <1>2 DEF n

LEMMA VarintAppended ==
    ASSUME NEW buf \in Seq(Nat), NEW v \in Nat
    PROVE  /\ AppendUvarint(buf, v) \in Seq(Nat) /\ Len(Uvarint[v]) \in Nat /\ Len(Uvarint[v]) >= 1
           /\ Len(AppendUvarint(buf, v)) = Len(buf) + Len(Uvarint[v])
           /\ \A j \in 1..Len(buf) : AppendUvarint(buf, v)[j] = buf[j]
           /\ \A j \in 1..Len(Uvarint[v]) : AppendUvarint(buf, v)[Len(buf) + j] = Uvarint[v][j]
<1>1. Uvarint[v] \in Seq(Nat) /\ Len(Uvarint[v]) >= 1
  BY UvarintIsVarint DEF IsVarint
<1> QED
  BY <1>1 DEF AppendUvarint

OutOf(entries, f) ==
    f = [n \in 0..8 * Len(entries) |->
            IF n = 0 THEN <<>>
            ELSE AppendUvarint(f[n - 1], Number(entries, ((n - 1) \div 8) + 1, ((n - 1) % 8) + 1))]
\* The numbers one after the other.
Written(entries, out) ==
    /\ out \in [0..8 * Len(entries) -> Seq(Nat)] /\ out[0] = <<>>
    /\ \A n \in 1..8 * Len(entries) : out[n] = AppendUvarint(out[n - 1], NumberAt(entries, n))

LEMMA DeltaEncodeSteps ==
    ASSUME NEW entries, IsMap(entries)
    PROVE  \E out : Written(entries, out) /\ DeltaEncode(entries) = out[8 * Len(entries)]
<1> DEFINE N == 8 * Len(entries)
           U == Seq(Nat)
           g == [x \in (1..N) \X U |-> AppendUvarint(x[2], NumberAt(entries, x[1]))]
           out[n \in 0..N] ==
               IF n = 0 THEN <<>>
               ELSE AppendUvarint(out[n - 1], Number(entries, ((n - 1) \div 8) + 1, ((n - 1) % 8) + 1))
<1>1. Len(entries) \in Nat /\ N \in Nat /\ <<>> \in U
  BY DEF IsMap
<1>2. ASSUME NEW n \in 1..N, NEW u \in U
      PROVE  AppendUvarint(u, NumberAt(entries, n)) \in U
  <2>1. ((n - 1) \div 8) + 1 \in 1..Len(entries) /\ ((n - 1) % 8) + 1 \in 1..8
    BY <1>1, Eights
  <2>2. NumberAt(entries, n) \in Nat
    BY <2>1, NumberType DEF NumberAt
  <2> QED
    BY <2>2, VarintAppended
<1> HIDE DEF U
<1>3. g \in [(1..N) \X U -> U]
  BY <1>2
<1>4. PICK f \in [0..N -> U] : Unfolds(f, N, <<>>, g)
  <2> HIDE DEF g, N
  <2> QED
    BY <1>1, <1>3, Recursion
<1>5. ASSUME NEW n \in 1..N
      PROVE  f[n] = AppendUvarint(f[n - 1], NumberAt(entries, n))
  <2>1. n - 1 \in 0..N
    BY <1>1
  <2>2. <<n, f[n - 1]>> \in (1..N) \X U
    BY <1>4, <2>1
  <2> HIDE DEF N
  <2>3. g[<<n, f[n - 1]>>] = AppendUvarint(f[n - 1], NumberAt(entries, n))
    BY <2>2
  <2> HIDE DEF g
  <2> QED
    BY <1>4, <2>3 DEF Unfolds
<1>6. f[0] = <<>> /\ OutOf(entries, f)
  <2>1. f[0] = <<>>
    BY <1>4 DEF Unfolds
  <2>2. \A n \in 0..N : n # 0 => n \in 1..N
    BY <1>1
  <2> HIDE DEF g
  <2> QED
    BY <1>4, <1>5, <2>1, <2>2 DEF OutOf, NumberAt
<1>7. OutOf(entries, out)
  BY <1>6 DEF OutOf
<1>8. DeltaEncode(entries) = out[N]
  BY DEF DeltaEncode
<1> HIDE DEF g, out
<1>9. \A n \in 0..N : out[n] = f[n]
  <2> DEFINE T == {n \in 0..N : out[n] = f[n]}
  <2>1. 0 \in T
    BY <1>1, <1>6, <1>7 DEF OutOf
  <2>2. ASSUME NEW n \in 0..N - 1, n \in T
        PROVE  n + 1 \in T
    <3>1. n + 1 \in 0..N /\ n + 1 # 0 /\ n + 1 - 1 = n
      BY <1>1
    <3>2. \A k \in 0..N : k # 0 => out[k] = AppendUvarint(out[k - 1], NumberAt(entries, k))
      BY <1>7 DEF OutOf, NumberAt
    <3>3. \A k \in 0..N : k # 0 => f[k] = AppendUvarint(f[k - 1], NumberAt(entries, k))
      BY <1>6 DEF OutOf, NumberAt
    <3> HIDE DEF N
    <3>4. /\ out[n + 1] = AppendUvarint(out[n + 1 - 1], NumberAt(entries, n + 1))
          /\ f[n + 1] = AppendUvarint(f[n + 1 - 1], NumberAt(entries, n + 1))
      BY <3>1, <3>2, <3>3
    <3> QED
      BY <2>2, <3>1, <3>4
  <2>3. \A n \in 0..N : n \in T
    <3> HIDE DEF T, N
    <3> QED
      BY <1>1, <2>1, <2>2, UpTo
  <2> QED
    BY <2>3
<1>10. f[N] = out[N]
  BY <1>1, <1>9
<1>11. Written(entries, f)
  BY <1>4, <1>5, <1>6 DEF Written, U
<1> QED
  BY <1>8, <1>10, <1>11


Appends(out, n, v) ==
    /\ Len(out[n - 1]) \in Nat /\ Len(Uvarint[v]) \in Nat /\ Len(Uvarint[v]) >= 1
    /\ Len(out[n]) = Len(out[n - 1]) + Len(Uvarint[v])
    /\ \A j \in 1..Len(out[n - 1]) : out[n][j] = out[n - 1][j]
    /\ \A j \in 1..Len(Uvarint[v]) : out[n][Len(out[n - 1]) + j] = Uvarint[v][j]

LEMMA NumberWritten ==
    ASSUME NEW entries, IsMap(entries), NEW out, Written(entries, out),
           NEW n \in 1..8 * Len(entries), NEW v, v = NumberAt(entries, n)
    PROVE  v \in Nat /\ Appends(out, n, v)
<1>1. Len(entries) \in Nat /\ n - 1 \in 0..8 * Len(entries) /\ n \in 0..8 * Len(entries)
  BY DEF IsMap
<1>2. v \in Nat
  <2>1. ((n - 1) \div 8) + 1 \in 1..Len(entries) /\ ((n - 1) % 8) + 1 \in 1..8
    BY <1>1, Eights
  <2> QED
    BY <2>1, NumberType DEF NumberAt
<1> DEFINE b == out[n - 1]
<1>3. b \in Seq(Nat) /\ out[n] \in Seq(Nat)
  BY <1>1 DEF Written
<1>4. out[n] = AppendUvarint(b, v)
  BY DEF Written
<1> HIDE DEF b
<1>5. Len(b) \in Nat
  BY <1>3
<1>6. /\ Len(Uvarint[v]) \in Nat /\ Len(Uvarint[v]) >= 1
      /\ Len(AppendUvarint(b, v)) = Len(b) + Len(Uvarint[v])
      /\ \A j \in 1..Len(b) : AppendUvarint(b, v)[j] = b[j]
      /\ \A j \in 1..Len(Uvarint[v]) : AppendUvarint(b, v)[Len(b) + j] = Uvarint[v][j]
  BY <1>2, <1>3, VarintAppended
<1>7. /\ Len(b) \in Nat /\ Len(Uvarint[v]) \in Nat /\ Len(Uvarint[v]) >= 1
      /\ Len(out[n]) = Len(b) + Len(Uvarint[v])
      /\ \A j \in 1..Len(b) : out[n][j] = b[j]
      /\ \A j \in 1..Len(Uvarint[v]) : out[n][Len(b) + j] = Uvarint[v][j]
  BY <1>2, <1>3, <1>4, <1>5, <1>6
<1> QED
  BY <1>2, <1>7 DEF b, Appends

\* What has been written stays, and each number takes a byte at least.
Stays(out, n, k) == /\ Len(out[n]) + (k - n) <= Len(out[k])
                    /\ \A j \in 1..Len(out[n]) : out[k][j] = out[n][j]

LEMMA WrittenStays ==
    ASSUME NEW entries, IsMap(entries), NEW out, Written(entries, out),
           NEW n \in 0..8 * Len(entries), NEW m \in 0..8 * Len(entries), n <= m
    PROVE  Len(out[n]) \in Nat /\ Stays(out, n, m)
<1> DEFINE N == 8 * Len(entries)
           T == {k \in 0..N : n <= k => Stays(out, n, k)}
           L(k) == Len(out[k])
<1>1. Len(entries) \in Nat /\ N \in Nat /\ n \in Nat /\ m \in Nat
  BY DEF IsMap
<1>2. \A k \in 0..N : L(k) \in Nat
  BY DEF Written
<1>3. Stays(out, n, n)
  <2>1. L(n) \in Nat
    BY <1>2
  <2>2. Len(out[n]) + (n - n) <= Len(out[n])
    BY <1>1, <2>1
  <2> QED
    BY <2>2 DEF Stays
<1>4. ASSUME NEW k \in 1..N
      PROVE  L(k) >= L(k - 1) + 1 /\ \A j \in 1..L(k - 1) : out[k][j] = out[k - 1][j]
  <2> DEFINE v == NumberAt(entries, k)
  <2>1. v = NumberAt(entries, k) /\ k \in 1..8 * Len(entries)
    OBVIOUS
  <2> HIDE DEF v
  <2>2. Appends(out, k, v)
    BY <2>1, NumberWritten
  <2> QED
    BY <2>2 DEF Appends
<1>5. 0 \in T
  <2>1. n <= 0 => n = 0
    BY <1>1
  <2>2. n <= 0 => Stays(out, n, 0)
    BY <1>3, <2>1
  <2> QED
    BY <1>1, <2>2
<1>6. ASSUME NEW k \in 0..N - 1, k \in T
      PROVE  k + 1 \in T
  <2>1. k + 1 \in 1..N /\ k + 1 - 1 = k /\ k + 1 \in 0..N /\ k \in 0..N /\ k \in Nat
    BY <1>1
  <2>2. /\ L(k + 1) >= L(k + 1 - 1) + 1
        /\ \A j \in 1..L(k + 1 - 1) : out[k + 1][j] = out[k + 1 - 1][j]
    <3> HIDE DEF L, N
    <3> QED
      BY <1>4, <2>1
  <2>3. L(k + 1) >= L(k) + 1 /\ \A j \in 1..L(k) : out[k + 1][j] = out[k][j]
    BY <2>1, <2>2
  <2>4. L(n) \in Nat /\ L(k) \in Nat /\ L(k + 1) \in Nat
    BY <1>2, <2>1
  <2>5. CASE n <= k
    <3>1. Stays(out, n, k)
      BY <1>6, <2>5
    <3>2. L(n) + (k - n) <= L(k) /\ \A j \in 1..L(n) : out[k][j] = out[n][j]
      BY <3>1 DEF Stays
    <3> HIDE DEF L
    <3>3. L(n) + (k + 1 - n) <= L(k + 1) /\ L(n) <= L(k)
      BY <1>1, <2>1, <2>3, <2>4, <2>5, <3>2
    <3>4. \A j \in 1..L(n) : j \in 1..L(k)
      BY <2>4, <3>3
    <3>5. \A j \in 1..L(n) : out[k + 1][j] = out[n][j]
      BY <2>3, <3>2, <3>4
    <3>6. Stays(out, n, k + 1)
      <4> DEFINE x == k + 1
      <4>0. L(n) = Len(out[n]) /\ L(x) = Len(out[x])
        BY DEF L
      <4>1. Len(out[n]) + (x - n) <= Len(out[x])
        <5>1. x = k + 1
          OBVIOUS
        <5> HIDE DEF x
        <5>2. L(n) + (x - n) <= L(x)
          BY <3>3, <5>1
        <5> QED
          BY <4>0, <5>2
      <4>2. \A j \in 1..Len(out[n]) : out[x][j] = out[n][j]
        BY <3>5 DEF L
      <4> HIDE DEF x
      <4>3. Stays(out, n, x)
        BY <4>1, <4>2 DEF Stays
      <4> QED
        BY <4>3 DEF x
    <3> QED
      BY <2>1, <3>6
  <2>6. CASE n = k + 1
    BY <1>3, <2>1, <2>6
  <2>7. CASE n > k + 1
    BY <1>1, <2>1, <2>7
  <2> QED
    BY <1>1, <2>1, <2>5, <2>6, <2>7
<1>7. \A k \in 0..N : k \in T
  <2> HIDE DEF T, N
  <2> QED
    BY <1>1, <1>5, <1>6, UpTo
<1>8. m \in T
  <2> HIDE DEF T
  <2> QED
    BY <1>7
<1>9. L(n) \in Nat
  BY <1>2
<1> QED
  BY <1>8, <1>9

\* Where one number ends the next is read.
LEMMA NumberIsRead ==
    ASSUME NEW entries, IsMap(entries), NEW out, Written(entries, out),
           NEW n \in 1..8 * Len(entries)
    PROVE  ReadUvarint(out[8 * Len(entries)], Len(out[n - 1]) + 1) =
              [v |-> NumberAt(entries, n), pos |-> Len(out[n]) + 1]
<1> DEFINE N == 8 * Len(entries)
           data == out[N]
           o == Len(out[n - 1])
           l == Len(out[n])
           v == NumberAt(entries, n)
           s == Uvarint[v]
<1>1. Len(entries) \in Nat /\ N \in Nat /\ n \in 0..N /\ N \in 0..N /\ n <= N /\ n \in Nat
  BY DEF IsMap
<1>2. data \in Seq(Nat)
  BY <1>1 DEF Written
<1>3. /\ v \in Nat /\ o \in Nat /\ Len(s) \in Nat /\ Len(s) >= 1
      /\ l = o + Len(s)
      /\ \A j \in 1..Len(s) : out[n][o + j] = s[j]
  <2>1. v = NumberAt(entries, n)
    OBVIOUS
  <2> HIDE DEF v
  <2>2. v \in Nat /\ Appends(out, n, v)
    BY <2>1, NumberWritten
  <2> QED
    BY <2>2 DEF Appends
<1>4. l + (N - n) <= Len(data) /\ \A j \in 1..l : data[j] = out[n][j]
  <2>1. Stays(out, n, N)
    BY <1>1, WrittenStays
  <2> QED
    BY <2>1 DEF Stays
<1>5. IsVarint(s, v)
  BY <1>3, UvarintIsVarint
<1>6. Len(data) \in Nat
  BY <1>2
<1> HIDE DEF N, v, s, data, o, l
<1>7. o + 1 \in 1..Len(data) /\ (o + 1) + Len(s) - 1 <= Len(data) /\ (o + 1) + Len(s) = l + 1
  BY <1>1, <1>3, <1>4, <1>6
<1>8. \A j \in 1..Len(s) : data[(o + 1) + j - 1] = s[j]
  <2> SUFFICES ASSUME NEW j \in 1..Len(s)
               PROVE  data[(o + 1) + j - 1] = s[j]
    OBVIOUS
  <2>1. (o + 1) + j - 1 = o + j /\ o + j \in 1..l
    BY <1>3
  <2> QED
    BY <1>3, <1>4, <2>1
<1>9. ReadUvarint(data, o + 1) = [v |-> v, pos |-> (o + 1) + Len(s)]
  BY <1>2, <1>5, <1>7, <1>8, ReadsAVarint
<1> QED
  BY <1>7, <1>9 DEF data, o, l, v, N

\* The first of a sequence's elements, and one more.
FirstOf(s, n) == [x \in 1..n |-> s[x]]
LEMMA OneMore ==
    ASSUME NEW S, NEW s, NEW n \in Nat, \A x \in 1..n + 1 : s[x] \in S
    PROVE  /\ FirstOf(s, n) \in Seq(S) /\ Len(FirstOf(s, n)) = n
           /\ Append(FirstOf(s, n), s[n + 1]) = FirstOf(s, n + 1)
<1>1. FirstOf(s, n) \in Seq(S) /\ Len(FirstOf(s, n)) = n
  BY DEF FirstOf
<1>2. FirstOf(s, n + 1) \in Seq(S) /\ Len(FirstOf(s, n + 1)) = n + 1
  BY DEF FirstOf
<1>3. s[n + 1] \in S
  OBVIOUS
<1> DEFINE a == Append(FirstOf(s, n), s[n + 1])
<1>4. /\ a \in Seq(S) /\ Len(a) = n + 1 /\ a[n + 1] = s[n + 1]
      /\ \A x \in 1..n : a[x] = FirstOf(s, n)[x]
  BY <1>1, <1>3
<1>5. \A x \in 1..n + 1 : a[x] = s[x]
  <2>1. \A x \in 1..n : a[x] = s[x]
    BY <1>4 DEF FirstOf
  <2>2. \A x \in 1..n + 1 : x \in 1..n \/ x = n + 1
    OBVIOUS
  <2> HIDE DEF a
  <2> QED
    BY <1>4, <2>1, <2>2
<1> HIDE DEF a
<1>6. a = FirstOf(s, n + 1)
  <2>1. a = [x \in 1..n + 1 |-> a[x]]
    BY <1>4
  <2> QED
    BY <1>5, <2>1 DEF FirstOf
<1> QED
  BY <1>1, <1>6 DEF a

\* An entry is read where it was written.
EntryOf(data, pos, i, f) ==
    f = [k \in 0..8 |-> IF k = 0 THEN [pos |-> pos, e |-> <<>>] ELSE ReadField(f[k - 1], data, i, k)]

LEMMA EntryIsRead ==
    ASSUME NEW entries, IsMap(entries), NEW out, Written(entries, out), NEW i \in 1..Len(entries)
    PROVE  ReadEntry(out[8 * Len(entries)], Len(out[8 * (i - 1)]) + 1, i) =
              [pos |-> Len(out[8 * i]) + 1, e |-> FirstOf(Delta(entries, i), 8)]
<1> DEFINE data == out[8 * Len(entries)]
           pos == Len(out[8 * (i - 1)]) + 1
           d == Delta(entries, i)
           f == [k \in 0..8 |-> [pos |-> Len(out[8 * (i - 1) + k]) + 1, e |-> FirstOf(d, k)]]
           read[k \in 0..8] ==
               IF k = 0 THEN [pos |-> pos, e |-> <<>>] ELSE ReadField(read[k - 1], data, i, k)
<1>1. Len(entries) \in Nat /\ i \in Nat /\ 8 * (i - 1) \in Nat /\ 8 * (i - 1) + 0 = 8 * (i - 1)
      /\ 8 * (i - 1) + 8 = 8 * i
  BY DEF IsMap
<1>2. \A k \in 1..8 : d[k] \in Int
  BY DeltaType
<1>3. f[0] = [pos |-> pos, e |-> <<>>]
  <2>1. FirstOf(d, 0) = <<>>
    BY DEF FirstOf
  <2>2. f[0] = [pos |-> Len(out[8 * (i - 1) + 0]) + 1, e |-> FirstOf(d, 0)]
    OBVIOUS
  <2> QED
    BY <1>1, <2>1, <2>2
<1> HIDE DEF d
<1>4. ASSUME NEW k \in 1..8
      PROVE  f[k] = ReadField(f[k - 1], data, i, k)
  <2> DEFINE n == 8 * (i - 1) + k
  <2>1. n \in 1..8 * Len(entries) /\ NumberAt(entries, n) = Number(entries, i, k)
    BY <1>1, FieldAt
  <2>2. k - 1 \in 0..8 /\ k - 1 \in Nat /\ k - 1 + 1 = k /\ k \in 0..8 /\ n - 1 = 8 * (i - 1) + (k - 1)
    BY <1>1
  <2>3. f[k - 1] = [pos |-> Len(out[n - 1]) + 1, e |-> FirstOf(d, k - 1)]
    BY <2>2
  <2>4. f[k] = [pos |-> Len(out[n]) + 1, e |-> FirstOf(d, k)]
    BY <2>2
  <2> HIDE DEF n, f
  <2>5. ReadUvarint(data, Len(out[n - 1]) + 1) = [v |-> Number(entries, i, k), pos |-> Len(out[n]) + 1]
    BY <2>1, NumberIsRead
  <2>6. d[k] = IF Signed(i, k) THEN UnZigzag(Number(entries, i, k)) ELSE Number(entries, i, k)
    BY NumberType DEF d
  <2>7. Append(FirstOf(d, k - 1), d[k]) = FirstOf(d, k)
    <3> DEFINE m == k - 1
    <3>1. m \in Nat /\ m + 1 = k /\ m = k - 1
      OBVIOUS
    <3>2. \A x \in 1..k : x \in 1..8
      BY <2>2
    <3> HIDE DEF m
    <3>3. \A x \in 1..m + 1 : d[x] \in Int
      BY <1>2, <3>1, <3>2
    <3>4. Append(FirstOf(d, m), d[m + 1]) = FirstOf(d, m + 1)
      <4>1. m \in Nat
        BY <3>1
      <4> QED
        BY <3>3, <4>1, OneMore
    <3> QED
      BY <3>1, <3>4
  <2> HIDE DEF data
  <2> DEFINE u == ReadUvarint(data, f[k - 1].pos)
             r == f[k - 1]
  <2>8. u = [v |-> Number(entries, i, k), pos |-> Len(out[n]) + 1] /\ r.e = FirstOf(d, k - 1)
    BY <2>3, <2>5
  <2>9. u.v = Number(entries, i, k) /\ u.pos = Len(out[n]) + 1
    <3> HIDE DEF u
    <3> QED
      BY <2>8
  <2>10. ReadField(r, data, i, k) =
            [pos |-> u.pos, e |-> Append(r.e, IF Signed(i, k) THEN UnZigzag(u.v) ELSE u.v)]
    BY DEF ReadField
  <2>11. ReadField(f[k - 1], data, i, k) =
            [pos |-> Len(out[n]) + 1, e |-> Append(FirstOf(d, k - 1), d[k])]
    BY <2>6, <2>8, <2>9, <2>10
  <2> QED
    BY <2>4, <2>7, <2>11
<1>5. EntryOf(data, pos, i, f)
  <2>1. \A k \in 0..8 : k # 0 => k \in 1..8
    OBVIOUS
  <2>2. f = [k \in 0..8 |-> f[k]]
    OBVIOUS
  <2> HIDE DEF f, data, pos
  <2> QED
    BY <1>3, <1>4, <2>1, <2>2 DEF EntryOf
<1>6. EntryOf(data, pos, i, read)
  <2> HIDE DEF f, data, pos
  <2> QED
    BY <1>5 DEF EntryOf
<1>7. ReadEntry(data, pos, i) = read[8]
  BY DEF ReadEntry
<1>8. f[8] = [pos |-> Len(out[8 * i]) + 1, e |-> FirstOf(d, 8)]
  BY <1>1
<1> HIDE DEF f, data, pos, read
<1>9. \A k \in 0..8 : read[k] = f[k]
  <2> DEFINE T == {k \in 0..8 : read[k] = f[k]}
  <2>1. 0 \in T
    BY <1>5, <1>6 DEF EntryOf
  <2>2. ASSUME NEW k \in 0..8 - 1, k \in T
        PROVE  k + 1 \in T
    <3>1. k + 1 \in 0..8 /\ k + 1 # 0 /\ k + 1 - 1 = k
      OBVIOUS
    <3>2. \A x \in 0..8 : x # 0 => read[x] = ReadField(read[x - 1], data, i, x)
      BY <1>6 DEF EntryOf
    <3>3. \A x \in 0..8 : x # 0 => f[x] = ReadField(f[x - 1], data, i, x)
      BY <1>5 DEF EntryOf
    <3>4. /\ read[k + 1] = ReadField(read[k + 1 - 1], data, i, k + 1)
          /\ f[k + 1] = ReadField(f[k + 1 - 1], data, i, k + 1)
      BY <3>1, <3>2, <3>3
    <3> QED
      BY <2>2, <3>1, <3>4
  <2>3. \A k \in 0..8 : k \in T
    <3> HIDE DEF T
    <3> QED
      BY <2>1, <2>2, UpTo
  <2> QED
    BY <2>3
<1> QED
  BY <1>7, <1>8, <1>9 DEF data, pos, d

\* The entries that have been read, and where the next one starts.
Read(out, entries, m) == [pos |-> Len(out[8 * m]) + 1, entries |-> FirstOf(entries, m)]

LEMMA DecodeStep ==
    ASSUME NEW entries, IsMap(entries), NEW out, Written(entries, out),
           NEW m \in 0..Len(entries) - 1
    PROVE  DecodeNext(Read(out, entries, m), out[8 * Len(entries)]) = Read(out, entries, m + 1)
<1> DEFINE data == out[8 * Len(entries)]
           r == Read(out, entries, m)
           i == Len(r.entries) + 1
           next == ReadEntry(data, r.pos, i)
           e == IF i = 1 THEN next.e ELSE [f \in 1..8 |-> r.entries[i - 1][f] + next.e[f]]
           S == [1..8 -> Nat]
<1>1. /\ Len(entries) \in Nat /\ m \in Nat /\ m + 1 \in 1..Len(entries) /\ m + 1 - 1 = m
      /\ 8 * m \in 0..8 * Len(entries) /\ 8 * Len(entries) \in 0..8 * Len(entries)
      /\ 8 * m <= 8 * Len(entries) /\ 8 * Len(entries) - 8 * m >= 1
  BY DEF IsMap
<1>2. \A x \in 1..Len(entries) : entries[x] \in S
  BY DEF IsMap
<1> HIDE DEF S
<1>3. /\ FirstOf(entries, m) \in Seq(S) /\ Len(FirstOf(entries, m)) = m
      /\ Append(FirstOf(entries, m), entries[m + 1]) = FirstOf(entries, m + 1)
  <2>1. \A x \in 1..m + 1 : entries[x] \in S
    BY <1>1, <1>2
  <2> QED
    BY <1>1, <2>1, OneMore
<1>4. r.pos = Len(out[8 * m]) + 1 /\ r.entries = FirstOf(entries, m)
  BY DEF Read
<1>5. i = m + 1
  BY <1>3, <1>4
<1>6. next = [pos |-> Len(out[8 * (m + 1)]) + 1, e |-> FirstOf(Delta(entries, m + 1), 8)]
  <2> DEFINE k == m + 1
  <2>1. k \in 1..Len(entries) /\ k - 1 = m
    BY <1>1
  <2> HIDE DEF k
  <2>2. ReadEntry(out[8 * Len(entries)], Len(out[8 * (k - 1)]) + 1, k) =
           [pos |-> Len(out[8 * k]) + 1, e |-> FirstOf(Delta(entries, k), 8)]
    BY <2>1, EntryIsRead
  <2>3. ReadEntry(out[8 * Len(entries)], Len(out[8 * m]) + 1, k) =
           [pos |-> Len(out[8 * k]) + 1, e |-> FirstOf(Delta(entries, k), 8)]
    BY <2>1, <2>2
  <2> HIDE DEF r, i
  <2> QED
    BY <1>4, <1>5, <2>3 DEF k
<1>7. ~(r.pos > Len(data))
  <2>1. Len(out[8 * m]) \in Nat /\ Stays(out, 8 * m, 8 * Len(entries))
    BY <1>1, WrittenStays
  <2>2. Len(out[8 * m]) + (8 * Len(entries) - 8 * m) <= Len(data)
    BY <2>1 DEF Stays
  <2>3. Len(data) \in Nat
    <3>1. data \in Seq(Nat)
      BY <1>1 DEF Written
    <3> QED
      BY <3>1
  <2> DEFINE a == Len(out[8 * m])
             b == 8 * Len(entries) - 8 * m
             c == Len(data)
  <2>4. a \in Nat /\ b \in Int /\ b >= 1 /\ c \in Nat /\ a + b <= c /\ r.pos = a + 1
    <3>1. b \in Int /\ b >= 1
      BY <1>1
    <3>2. a \in Nat /\ c \in Nat
      BY <2>1, <2>3
    <3>3. a + b <= c
      BY <2>2
    <3>4. r.pos = a + 1
      BY <1>4
    <3> QED
      BY <3>1, <3>2, <3>3, <3>4
  <2>5. ~(r.pos > c)
    <3> HIDE DEF r, a, b, c
    <3> QED
      BY <2>4
  <2> QED
    BY <2>5
<1> HIDE DEF r, i, next, data
<1>8. next.pos = Len(out[8 * (m + 1)]) + 1 /\ next.e = FirstOf(Delta(entries, m + 1), 8)
  BY <1>6
<1>9. e = entries[m + 1]
  <2>1. entries[m + 1] \in [1..8 -> Nat]
    BY <1>1, <1>2 DEF S
  <2>2. entries[m + 1] = [f \in 1..8 |-> entries[m + 1][f]]
    BY <2>1
  <2>3. CASE m = 0
    <3>1. e = FirstOf(Delta(entries, m + 1), 8)
      BY <1>1, <1>5, <1>8, <2>3
    <3>2. Delta(entries, m + 1) = entries[m + 1]
      BY <2>3 DEF Delta
    <3> QED
      BY <2>2, <3>1, <3>2 DEF FirstOf
  <2>4. CASE m # 0
    <3>1. i # 1 /\ i - 1 = m /\ m \in 1..m /\ m + 1 > 1
      BY <1>1, <1>5, <2>4
    <3>2. r.entries[m] = entries[m]
      BY <1>4, <3>1 DEF FirstOf
    <3>3. e = [f \in 1..8 |-> entries[m][f] + next.e[f]]
      BY <3>1, <3>2
    <3>4. ASSUME NEW f \in 1..8
          PROVE  entries[m][f] + next.e[f] = entries[m + 1][f]
      <4>1. next.e[f] = Delta(entries, m + 1)[f]
        BY <1>8 DEF FirstOf
      <4> DEFINE k == m + 1
      <4>2. k \in 1..Len(entries) /\ k - 1 = m /\ k > 1
        BY <1>1, <3>1
      <4> HIDE DEF k
      <4>3. entries[k - 1][f] + Delta(entries, k)[f] = entries[k][f]
        BY <4>2, DeltaType
      <4>4. entries[m][f] + Delta(entries, k)[f] = entries[k][f]
        BY <4>2, <4>3
      <4> QED
        BY <4>1, <4>4 DEF k
    <3> HIDE DEF e
    <3> QED
      BY <2>2, <3>3, <3>4
  <2> QED
    BY <2>3, <2>4
<1>10. DecodeNext(r, data) = IF r.pos > Len(data) THEN r
                             ELSE [pos |-> next.pos, entries |-> Append(r.entries, e)]
  BY DEF DecodeNext, next, i
<1> HIDE DEF e
<1>11. DecodeNext(r, data) = [pos |-> Len(out[8 * (m + 1)]) + 1, entries |-> FirstOf(entries, m + 1)]
  BY <1>3, <1>4, <1>7, <1>8, <1>9, <1>10
<1> QED
  BY <1>11 DEF r, data, Read

LEMMA DecodeEnd ==
    ASSUME NEW entries, IsMap(entries), NEW out, Written(entries, out)
    PROVE  DecodeNext(Read(out, entries, Len(entries)), out[8 * Len(entries)])
              = Read(out, entries, Len(entries))
<1> DEFINE data == out[8 * Len(entries)]
           r == Read(out, entries, Len(entries))
<1>1. Len(entries) \in Nat
  BY DEF IsMap
<1>2. Len(data) \in Nat
  <2>1. data \in Seq(Nat)
    BY <1>1 DEF Written
  <2> QED
    BY <2>1
<1>3. r.pos = Len(data) + 1
  BY DEF Read
<1> HIDE DEF r, data
<1>4. r.pos > Len(data)
  BY <1>2, <1>3
<1>5. DecodeNext(r, data) = r
  BY <1>4 DEF DecodeNext
<1> QED
  BY <1>5 DEF r, data

ReadOf(data, f) ==
    f = [n \in 0..Len(data) |->
            IF n = 0 THEN [pos |-> 1, entries |-> <<>>] ELSE DecodeNext(f[n - 1], data)]

\* The entries are read back.
LEMMA MapIsReadBack ==
    ASSUME NEW entries, IsMap(entries)
    PROVE  DeltaDecode(DeltaEncode(entries)) = entries
<1>1. PICK out : Written(entries, out) /\ DeltaEncode(entries) = out[8 * Len(entries)]
  BY DeltaEncodeSteps
<1> DEFINE N == Len(entries)
           data == out[8 * Len(entries)]
           Clip(n) == IF n <= N THEN n ELSE N
           R(m) == Read(out, entries, m)
           f == [n \in 0..Len(data) |-> R(Clip(n))]
           read[n \in 0..Len(data)] ==
               IF n = 0 THEN [pos |-> 1, entries |-> <<>>] ELSE DecodeNext(read[n - 1], data)
<1>2. N \in Nat /\ 0 \in 0..8 * N /\ 8 * N \in 0..8 * N /\ 0 <= 8 * N
  BY DEF IsMap
<1>3. Len(data) \in Nat
  <2>1. data \in Seq(Nat)
    BY <1>1, <1>2 DEF Written
  <2> QED
    BY <2>1
<1>4. out[0] = <<>>
  BY <1>1 DEF Written
<1>5. N <= Len(data)
  <2>1. Len(out[0]) \in Nat /\ Stays(out, 0, 8 * N)
    BY <1>1, <1>2, WrittenStays
  <2>2. Len(out[0]) + (8 * N - 0) <= Len(data)
    BY <2>1 DEF Stays
  <2> DEFINE a == Len(out[0])
             c == Len(data)
  <2>3. a \in Nat /\ c \in Nat /\ a + (8 * N - 0) <= c
    BY <1>3, <2>1, <2>2
  <2>4. N <= c
    <3> HIDE DEF a, c, N
    <3> QED
      BY <1>2, <2>3
  <2> QED
    BY <2>4
<1>6. R(0) = [pos |-> 1, entries |-> <<>>]
  <2>1. FirstOf(entries, 0) = <<>>
    BY DEF FirstOf
  <2>2. Len(out[8 * 0]) = 0
    BY <1>4
  <2>3. Len(out[8 * 0]) + 1 = 1
    BY <2>2
  <2> QED
    BY <2>1, <2>3 DEF Read
<1>7. \A m \in 0..N - 1 : DecodeNext(R(m), data) = R(m + 1)
  BY <1>1, DecodeStep
<1>8. DecodeNext(R(N), data) = R(N)
  BY <1>1, DecodeEnd
<1>9. R(N).entries = entries
  <2>1. entries = [x \in 1..N |-> entries[x]]
    BY DEF IsMap
  <2>2. FirstOf(entries, N) = entries
    BY <2>1 DEF FirstOf
  <2> QED
    BY <2>2 DEF Read
<1>10. DeltaDecode(data) = read[Len(data)].entries
  BY DEF DeltaDecode
<1> HIDE DEF R, data, N
<1>11. ASSUME NEW n \in 0..Len(data), n # 0
       PROVE  f[n] = DecodeNext(f[n - 1], data)
  <2>1. n - 1 \in 0..Len(data) /\ n - 1 + 1 = n /\ n \in Nat
    BY <1>3, <1>11
  <2>2. f[n] = R(Clip(n)) /\ f[n - 1] = R(Clip(n - 1))
    BY <2>1
  <2>3. CASE n <= N
    <3>1. n - 1 \in 0..N - 1 /\ Clip(n - 1) = n - 1 /\ Clip(n) = n
      BY <1>2, <1>11, <2>1, <2>3
    <3>2. DecodeNext(R(n - 1), data) = R(n - 1 + 1)
      BY <1>7, <3>1
    <3> QED
      BY <2>1, <2>2, <3>1, <3>2
  <2>4. CASE n > N
    <3>1. Clip(n - 1) = N /\ Clip(n) = N
      BY <1>2, <2>1, <2>4
    <3> QED
      BY <1>8, <2>2, <3>1
  <2> QED
    BY <1>2, <2>1, <2>3, <2>4
<1>12. f[0] = [pos |-> 1, entries |-> <<>>]
  <2>1. 0 \in 0..Len(data) /\ Clip(0) = 0
    BY <1>2, <1>3
  <2> QED
    BY <1>6, <2>1
<1>13. ReadOf(data, f)
  <2>1. f = [n \in 0..Len(data) |-> f[n]]
    OBVIOUS
  <2> HIDE DEF f
  <2> QED
    BY <1>11, <1>12, <2>1 DEF ReadOf
<1>14. ReadOf(data, read)
  <2> HIDE DEF f
  <2> QED
    BY <1>13 DEF ReadOf
<1>15. f[Len(data)] = R(N)
  <2>1. Len(data) \in 0..Len(data) /\ Clip(Len(data)) = N
    BY <1>2, <1>3, <1>5
  <2> QED
    BY <2>1
<1> HIDE DEF f, read, Clip
<1>16. \A n \in 0..Len(data) : read[n] = f[n]
  <2> DEFINE L == Len(data)
             T == {n \in 0..L : read[n] = f[n]}
  <2>1. 0 \in T
    BY <1>3, <1>13, <1>14 DEF ReadOf
  <2>2. ASSUME NEW n \in 0..L - 1, n \in T
        PROVE  n + 1 \in T
    <3>1. n + 1 \in 0..L /\ n + 1 # 0 /\ n + 1 - 1 = n
      BY <1>3
    <3>2. \A k \in 0..L : k # 0 => read[k] = DecodeNext(read[k - 1], data)
      BY <1>14 DEF ReadOf
    <3>3. \A k \in 0..L : k # 0 => f[k] = DecodeNext(f[k - 1], data)
      BY <1>13 DEF ReadOf
    <3> HIDE DEF L
    <3>4. read[n + 1] = DecodeNext(read[n + 1 - 1], data) /\ f[n + 1] = DecodeNext(f[n + 1 - 1], data)
      BY <3>1, <3>2, <3>3
    <3> QED
      BY <2>2, <3>1, <3>4
  <2>3. \A n \in 0..L : n \in T
    <3> HIDE DEF T
    <3>1. L \in Nat
      BY <1>3
    <3> HIDE DEF L
    <3> QED
      BY <2>1, <2>2, <3>1, UpTo
  <2> QED
    BY <2>3
<1>17. read[Len(data)] = R(N)
  <2>1. Len(data) \in 0..Len(data)
    BY <1>3
  <2> QED
    BY <1>15, <1>16, <2>1
<1>18. DeltaDecode(data) = entries
  BY <1>9, <1>10, <1>17
<1> QED
  BY <1>1, <1>18 DEF data

-----------------------------------------------------------------------------
(***************************************************************************)
(* The source map of a program, an instruction after the other.            *)
(***************************************************************************)
Entries == Seq([1..8 -> Nat])
LastOf(entries) == IF Len(entries) = 0 THEN ZeroSource ELSE Source(entries[Len(entries)])

LEMMA EntryType ==
    ASSUME NEW at \in Nat, NEW src \in [1..7 -> Nat]
    PROVE  Entry(at, src) \in [1..8 -> Nat] /\ Entry(at, src)[1] = at /\ Source(Entry(at, src)) = src
<1>1. \A f \in 1..8 : f # 1 => f - 1 \in 1..7 /\ src[f - 1] \in Nat
  <2>1. \A f \in 1..8 : f # 1 => f - 1 \in 1..7
    OBVIOUS
  <2> QED
    BY <2>1
<1>2. Entry(at, src) \in [1..8 -> Nat]
  BY <1>1 DEF Entry
<1>3. 1 \in 1..8 /\ Entry(at, src)[1] = at
  BY DEF Entry
<1>4. \A f \in 1..7 : Entry(at, src)[f + 1] = src[f]
  <2> SUFFICES ASSUME NEW f \in 1..7
               PROVE  Entry(at, src)[f + 1] = src[f]
    OBVIOUS
  <2>1. f + 1 \in 1..8 /\ f + 1 # 1 /\ f + 1 - 1 = f
    OBVIOUS
  <2>2. Entry(at, src)[f + 1] = src[f + 1 - 1]
    BY <2>1 DEF Entry
  <2> QED
    BY <2>1, <2>2
<1>5. src = [f \in 1..7 |-> src[f]]
  OBVIOUS
<1>6. Source(Entry(at, src)) = src
  BY <1>4, <1>5 DEF Source
<1> QED
  BY <1>2, <1>3, <1>6

\* At an address that all entries are at or before, the last one counts.
LEMMA LocationAtEnd ==
    ASSUME NEW entries \in Entries, NEW pc, \A i \in 1..Len(entries) : entries[i][1] <= pc
    PROVE  LocationOf(entries, pc) = LastOf(entries)
<1> DEFINE before == {i \in DOMAIN entries : entries[i][1] <= pc}
           L == Len(entries)
<1>1. L \in Nat /\ DOMAIN entries = 1..L
  BY DEF Entries
<1>2. before = 1..L
  BY <1>1
<1>3. LocationOf(entries, pc) = IF before = {} THEN ZeroSource ELSE Source(entries[Max(before)])
  BY DEF LocationOf
<1> HIDE DEF before
<1>4. CASE L = 0
  BY <1>2, <1>3, <1>4 DEF LastOf
<1>5. CASE L # 0
  <2> HIDE DEF L
  <2>1. L \in before /\ before # {} /\ before \subseteq 1..L
    BY <1>1, <1>2, <1>5
  <2>2. Max(before) \in before /\ \A n \in before : n <= Max(before)
    BY <1>1, <2>1, GreatestOf
  <2>3. Max(before) = L
    <3> DEFINE x == Max(before)
    <3>1. x \in 1..L /\ L <= x
      BY <2>1, <2>2
    <3>2. x = L
      <4> HIDE DEF x
      <4> QED
        BY <1>1, <3>1
    <3> QED
      BY <3>2
  <2> QED
    BY <1>3, <1>5, <2>1, <2>3 DEF LastOf, L
<1> QED
  BY <1>4, <1>5

\* An entry behind an address does not count there.
LEMMA LocationBefore ==
    ASSUME NEW entries \in Entries, NEW e \in [1..8 -> Nat], NEW pc \in Nat, pc < e[1]
    PROVE  LocationOf(Append(entries, e), pc) = LocationOf(entries, pc)
<1> DEFINE more == Append(entries, e)
           L == Len(entries)
           before(s) == {i \in DOMAIN s : s[i][1] <= pc}
<1>1. /\ L \in Nat /\ DOMAIN entries = 1..L /\ DOMAIN more = 1..L + 1 /\ more[L + 1] = e
      /\ \A i \in 1..L : more[i] = entries[i]
  <2>1. L \in Nat /\ DOMAIN entries = 1..L
    BY DEF Entries
  <2>2. more \in Entries /\ Len(more) = L + 1
    BY DEF Entries
  <2>3. DOMAIN more = 1..L + 1
    BY <2>2 DEF Entries
  <2>4. more[L + 1] = e
    BY DEF Entries
  <2>5. \A i \in 1..L : more[i] = entries[i]
    BY DEF Entries
  <2> QED
    BY <2>1, <2>3, <2>4, <2>5
<1> HIDE DEF more, L
<1>2. e[1] \in Nat /\ ~(e[1] <= pc)
  OBVIOUS
<1>3. before(more) = before(entries)
  <2>1. ASSUME NEW i \in before(more)
        PROVE  i \in before(entries)
    <3>1. i \in 1..L + 1 /\ more[i][1] <= pc
      BY <1>1
    <3>2. i # L + 1
      <4>1. ~(more[L + 1][1] <= pc)
        BY <1>1, <1>2
      <4> QED
        BY <3>1, <4>1
    <3>3. i \in 1..L
      <4>1. L \in Nat /\ i \in 1..L + 1 /\ i # L + 1
        BY <1>1, <3>1, <3>2
      <4> QED
        BY <4>1
    <3>4. i \in DOMAIN entries /\ entries[i][1] <= pc
      BY <1>1, <3>1, <3>3
    <3> QED
      BY <3>4
  <2>2. ASSUME NEW i \in before(entries)
        PROVE  i \in before(more)
    <3>1. i \in 1..L /\ entries[i][1] <= pc
      BY <1>1
    <3>2. i \in 1..L + 1
      BY <1>1, <3>1
    <3> QED
      BY <1>1, <3>1, <3>2
  <2> HIDE DEF before
  <2>3. before(more) \subseteq before(entries) /\ before(entries) \subseteq before(more)
    BY <2>1, <2>2
  <2> QED
    BY <2>3
<1>4. \A s : LocationOf(s, pc) = IF before(s) = {} THEN ZeroSource ELSE Source(s[Max(before(s))])
  BY DEF LocationOf
<1>5. before(entries) # {} => Max(before(entries)) \in 1..L
  <2> DEFINE T == before(entries)
  <2>1. T \subseteq 1..L
    BY <1>1
  <2> HIDE DEF T
  <2>2. T # {} => Max(T) \in T
    BY <1>1, <2>1, GreatestOf
  <2>3. T # {} => Max(T) \in 1..L
    BY <2>1, <2>2
  <2> QED
    BY <2>3 DEF T
<1> HIDE DEF before
<1>6. LocationOf(more, pc) = LocationOf(entries, pc)
  BY <1>1, <1>3, <1>4, <1>5
<1> QED
  BY <1>6 DEF more

\* What the entries of the first n instructions are.
Mapped(p, n, map) ==
    /\ map.entries \in Entries
    /\ \A i \in 2..Len(map.entries) : map.entries[i - 1][1] <= map.entries[i][1]
    /\ \A i \in 1..Len(map.entries) : map.entries[i][1] < Address(p, n + 1)
    /\ map.last = LastOf(map.entries)
    /\ \A k \in 1..n + 1 : Address(p, k) <= Address(p, n + 1)
    /\ \A k \in 1..n : \A pc \in Address(p, k)..Address(p, k + 1) - 1 :
          LocationOf(map.entries, pc) = p[k].src

LEMMA LabelSize ==
    ASSUME NEW i, IsLabel(i)
    PROVE  SizeInBytes(i) = 0
BY DEF IsLabel, SizeInBytes, OneByte, Calls

LEMMA NoEntry ==
    ASSUME NEW S, NEW p \in Seq(S), NEW n \in 0..Len(p) - 1, NEW map, Mapped(p, n, map),
           IsLabel(p[n + 1]) \/ p[n + 1].src = map.last
    PROVE  Mapped(p, n + 1, map)
<1> DEFINE m == n + 1
           a == Address(p, m)
           b == Address(p, m + 1)
           E == map.entries
<1>1. Len(p) \in Nat /\ n \in Nat /\ m \in 1..Len(p) /\ m + 1 \in 1..Len(p) + 1 /\ m \in 1..Len(p) + 1
  OBVIOUS
<1>2. /\ E \in Entries /\ map.last = LastOf(E)
      /\ \A i \in 2..Len(E) : E[i - 1][1] <= E[i][1]
      /\ \A i \in 1..Len(E) : E[i][1] < a
      /\ \A k \in 1..m : Address(p, k) <= a
      /\ \A k \in 1..n : \A pc \in Address(p, k)..Address(p, k + 1) - 1 : LocationOf(E, pc) = p[k].src
  BY DEF Mapped
<1>3. a \in Nat /\ b \in Nat /\ b = a + SizeInBytes(p[m]) /\ SizeInBytes(p[m]) \in Nat
  <2> HIDE DEF m
  <2> QED
    BY <1>1, AddressSteps, SizeType
<1>4. IsLabel(p[m]) => SizeInBytes(p[m]) = 0
  BY LabelSize
<1>5. \A k \in 1..Len(p) + 1 : Address(p, k) \in Nat
  BY AddressSteps
<1>6. \A i \in 1..Len(E) : E[i][1] \in Nat
  <2>1. \A i \in 1..Len(E) : E[i] \in [1..8 -> Nat]
    BY <1>2 DEF Entries
  <2> QED
    BY <2>1
<1>7. IsLabel(p[m]) \/ p[m].src = map.last
  OBVIOUS
<1> HIDE DEF E, a, b, m
<1>8. \A k \in 1..m + 1 : Address(p, k) <= b
  <2> SUFFICES ASSUME NEW k \in 1..m + 1
               PROVE  Address(p, k) <= b
    OBVIOUS
  <2>1. CASE k \in 1..m
    <3>1. Address(p, k) <= a /\ Address(p, k) \in Nat
      BY <1>1, <1>2, <1>5, <2>1
    <3> QED
      BY <1>3, <3>1
  <2>2. CASE k = m + 1
    BY <1>3, <2>2 DEF b
  <2> QED
    BY <1>1, <2>1, <2>2
<1>9. \A i \in 1..Len(E) : E[i][1] < b
  BY <1>2, <1>3, <1>6
<1>10. ASSUME NEW k \in 1..m, NEW pc \in Address(p, k)..Address(p, k + 1) - 1
       PROVE  LocationOf(E, pc) = p[k].src
  <2>1. CASE k \in 1..n
    BY <1>2, <2>1
  <2>2. CASE k = m
    <3>1. pc \in a..b - 1
      BY <2>2 DEF a, b
    <3>2. ~IsLabel(p[m])
      BY <1>3, <1>4, <3>1
    <3>3. ASSUME NEW i \in 1..Len(E)
          PROVE  E[i][1] <= pc
      <4> DEFINE x == E[i][1]
      <4>1. x \in Nat /\ x < a
        BY <1>2, <1>6
      <4> HIDE DEF x
      <4>2. x <= pc
        BY <1>3, <3>1, <4>1
      <4> QED
        BY <4>2 DEF x
    <3>4. LocationOf(E, pc) = LastOf(E)
      BY <1>2, <3>3, LocationAtEnd
    <3> QED
      BY <1>2, <1>7, <2>2, <3>2, <3>4
  <2> QED
    BY <1>1, <2>1, <2>2 DEF m
<1> QED
  BY <1>2, <1>8, <1>9, <1>10 DEF Mapped, E, b, m

LEMMA OneEntry ==
    ASSUME NEW S, NEW p \in Seq(S), NEW n \in 0..Len(p) - 1, NEW map, Mapped(p, n, map),
           IsInstr(p[n + 1]), ~IsLabel(p[n + 1]), NEW next,
           next.last = p[n + 1].src,
           next.entries = Append(map.entries, Entry(Address(p, n + 1), p[n + 1].src))
    PROVE  Mapped(p, n + 1, next)
<1> DEFINE m == n + 1
           a == Address(p, m)
           b == Address(p, m + 1)
           E == map.entries
           e == Entry(a, p[m].src)
           F == Append(E, e)
           L == Len(E)
<1>1. Len(p) \in Nat /\ n \in Nat /\ m \in 1..Len(p) /\ m + 1 \in 1..Len(p) + 1 /\ m \in 1..Len(p) + 1
  OBVIOUS
<1>2. /\ E \in Entries /\ map.last = LastOf(E)
      /\ \A i \in 2..L : E[i - 1][1] <= E[i][1]
      /\ \A i \in 1..L : E[i][1] < a
      /\ \A k \in 1..m : Address(p, k) <= a
      /\ \A k \in 1..n : \A pc \in Address(p, k)..Address(p, k + 1) - 1 : LocationOf(E, pc) = p[k].src
  BY DEF Mapped
<1>3. a \in Nat /\ b \in Nat /\ b > a
  <2>1. p[m].op \in Op /\ ~IsLabel(p[m])
    BY DEF IsInstr
  <2> HIDE DEF m
  <2>2. SizeInBytes(p[m]) \in Nat /\ SizeInBytes(p[m]) > 0
    BY <2>1, SizeType
  <2>3. a \in Nat /\ b \in Nat /\ b = a + SizeInBytes(p[m])
    BY <1>1, AddressSteps
  <2> QED
    BY <2>2, <2>3
<1>4. \A k \in 1..Len(p) + 1 : Address(p, k) \in Nat
  BY AddressSteps
<1>5. L \in Nat /\ \A i \in 1..L : E[i][1] \in Nat
  <2>1. L \in Nat /\ \A i \in 1..L : E[i] \in [1..8 -> Nat]
    BY <1>2 DEF Entries
  <2> HIDE DEF L, E
  <2>2. \A i \in 1..L : E[i][1] \in Nat
    BY <2>1
  <2> QED
    BY <2>1, <2>2
<1>6. e \in [1..8 -> Nat] /\ e[1] = a /\ Source(e) = p[m].src
  <2>1. p[m].src \in [1..7 -> Nat]
    BY DEF IsInstr
  <2> HIDE DEF m, a
  <2> QED
    BY <1>3, <2>1, EntryType
<1>7. next.last = p[m].src /\ next.entries = F
  OBVIOUS
<1> HIDE DEF E, a, b, m, e
<1>8. F \in Entries /\ Len(F) = L + 1 /\ F[L + 1] = e /\ \A i \in 1..L : F[i] = E[i]
  BY <1>2, <1>6 DEF Entries
<1> HIDE DEF F, L
<1>9. \A k \in 1..m + 1 : Address(p, k) <= b
  <2> SUFFICES ASSUME NEW k \in 1..m + 1
               PROVE  Address(p, k) <= b
    OBVIOUS
  <2>1. CASE k \in 1..m
    <3>1. Address(p, k) <= a /\ Address(p, k) \in Nat
      BY <1>1, <1>2, <1>4, <2>1
    <3> QED
      BY <1>3, <3>1
  <2>2. CASE k = m + 1
    BY <1>3, <2>2 DEF b
  <2> QED
    BY <1>1, <2>1, <2>2
<1>10. \A i \in 1..L + 1 : F[i][1] \in Nat /\ F[i][1] <= a
  <2> SUFFICES ASSUME NEW i \in 1..L + 1
               PROVE  F[i][1] \in Nat /\ F[i][1] <= a
    OBVIOUS
  <2>1. CASE i \in 1..L
    <3> DEFINE x == E[i][1]
    <3>1. x \in Nat /\ x < a
      BY <1>2, <1>5, <2>1
    <3>2. F[i][1] = x
      BY <1>8, <2>1
    <3> HIDE DEF x
    <3>3. x <= a
      BY <1>3, <3>1
    <3> QED
      BY <3>1, <3>2, <3>3
  <2>2. CASE i = L + 1
    <3>1. F[i][1] = a
      BY <1>6, <1>8, <2>2
    <3> QED
      BY <1>3, <3>1
  <2> QED
    BY <1>5, <2>1, <2>2
<1>11. \A i \in 2..L + 1 : F[i - 1][1] <= F[i][1]
  <2> SUFFICES ASSUME NEW i \in 2..L + 1
               PROVE  F[i - 1][1] <= F[i][1]
    OBVIOUS
  <2>1. CASE i \in 2..L
    <3>1. i \in 1..L /\ i - 1 \in 1..L
      BY <1>5, <2>1
    <3> QED
      BY <1>2, <1>8, <2>1, <3>1
  <2>2. CASE i = L + 1
    <3>1. i - 1 \in 1..L + 1
      BY <1>5
    <3> QED
      BY <1>6, <1>8, <1>10, <2>2, <3>1
  <2> QED
    BY <1>5, <2>1, <2>2
<1>12. p[m].src = LastOf(F)
  <2>1. Len(F) # 0 /\ F[Len(F)] = e
    BY <1>5, <1>8
  <2> QED
    BY <1>6, <2>1 DEF LastOf
<1>13. ASSUME NEW k \in 1..m, NEW pc \in Address(p, k)..Address(p, k + 1) - 1
       PROVE  LocationOf(F, pc) = p[k].src
  <2>1. CASE k \in 1..n
    <3>1. k + 1 \in 1..m /\ k + 1 \in 1..Len(p) + 1 /\ k \in 1..Len(p) + 1
      BY <1>1, <2>1 DEF m
    <3>2. Address(p, k + 1) <= a /\ Address(p, k + 1) \in Nat /\ Address(p, k) \in Nat
      BY <1>2, <1>4, <3>1
    <3>3. pc \in Nat /\ pc < e[1]
      <4> DEFINE x == Address(p, k)
                 y == Address(p, k + 1)
      <4>1. pc \in x..y - 1 /\ x \in Nat /\ y \in Nat /\ y <= a
        BY <3>2
      <4> HIDE DEF x, y
      <4>2. pc \in Nat /\ pc < a
        BY <1>3, <4>1
      <4> QED
        BY <1>6, <4>2
    <3>4. LocationOf(F, pc) = LocationOf(E, pc)
      BY <1>2, <1>6, <3>3, LocationBefore DEF F
    <3> QED
      BY <1>2, <2>1, <3>4
  <2>2. CASE k = m
    <3>1. pc \in a..b - 1
      BY <2>2 DEF a, b
    <3>2. \A i \in 1..Len(F) : F[i][1] <= pc
      BY <1>3, <1>8, <1>10, <3>1
    <3>3. LocationOf(F, pc) = LastOf(F)
      BY <1>8, <3>2, LocationAtEnd
    <3> QED
      BY <1>12, <2>2, <3>3
  <2> QED
    BY <1>1, <2>1, <2>2 DEF m
<1>14. \A i \in 1..Len(F) : F[i][1] < b
  BY <1>3, <1>8, <1>10
<1>15. \A i \in 2..Len(F) : F[i - 1][1] <= F[i][1]
  BY <1>8, <1>11
<1> QED
  BY <1>7, <1>8, <1>9, <1>12, <1>13, <1>14, <1>15 DEF Mapped, b, m

NoSource == [last |-> ZeroSource, entries |-> <<>>]
MapOf(p, f) == f = [n \in 0..Len(p) |-> IF n = 0 THEN NoSource ELSE AddEntry(f[n - 1], p, n)]

LEMMA BuildSourceMapSteps ==
    ASSUME NEW S, NEW p \in Seq(S), IsCode(p)
    PROVE  \E f : MapOf(p, f) /\ BuildSourceMap(p) = f[Len(p)].entries
<1> DEFINE N == Len(p)
           U == [last : [1..7 -> Nat], entries : Entries]
           g == [x \in (1..N) \X U |-> AddEntry(x[2], p, x[1])]
           map[n \in 0..N] ==
               IF n = 0 THEN [last |-> ZeroSource, entries |-> <<>>] ELSE AddEntry(map[n - 1], p, n)
<1>1. N \in Nat
  OBVIOUS
<1>2. NoSource \in U
  <2>1. ZeroSource \in [1..7 -> Nat]
    BY DEF ZeroSource
  <2> QED
    BY <2>1 DEF NoSource, Entries
<1>3. ASSUME NEW n \in 1..N, NEW u \in U
      PROVE  AddEntry(u, p, n) \in U
  <2>1. p[n].src \in [1..7 -> Nat]
    <3>1. IsInstr(p[n])
      BY DEF IsCode
    <3> QED
      BY <3>1 DEF IsInstr
  <2>2. n \in 1..Len(p) + 1
    BY <1>1
  <2>3. Address(p, n) \in Nat
    BY <2>2, AddressSteps
  <2> DEFINE e == Entry(Address(p, n), p[n].src)
  <2>4. e \in [1..8 -> Nat]
    BY <2>1, <2>3, EntryType
  <2> HIDE DEF e
  <2>5. Append(u.entries, e) \in Entries
    BY <2>4 DEF Entries
  <2>6. [last |-> p[n].src, entries |-> Append(u.entries, e)] \in U
    BY <2>1, <2>5
  <2> HIDE DEF U
  <2> QED
    BY <2>6 DEF AddEntry, e
<1> HIDE DEF U
<1>4. g \in [(1..N) \X U -> U]
  BY <1>3
<1>5. PICK f \in [0..N -> U] : Unfolds(f, N, NoSource, g)
  <2> HIDE DEF g, N
  <2> QED
    BY <1>1, <1>2, <1>4, Recursion
<1>6. ASSUME NEW n \in 1..N
      PROVE  f[n] = AddEntry(f[n - 1], p, n)
  <2>1. n - 1 \in 0..N
    BY <1>1
  <2>2. <<n, f[n - 1]>> \in (1..N) \X U
    BY <1>5, <2>1
  <2> HIDE DEF N
  <2>3. g[<<n, f[n - 1]>>] = AddEntry(f[n - 1], p, n)
    BY <2>2
  <2> HIDE DEF g
  <2> QED
    BY <1>5, <2>3 DEF Unfolds
<1>7. MapOf(p, f)
  <2>1. f[0] = NoSource
    BY <1>5 DEF Unfolds
  <2>2. \A n \in 0..N : n # 0 => n \in 1..N
    BY <1>1
  <2>3. f = [n \in 0..N |-> f[n]]
    BY <1>5
  <2> HIDE DEF g
  <2> QED
    BY <1>6, <2>1, <2>2, <2>3 DEF MapOf
<1>8. MapOf(p, map)
  BY <1>7 DEF MapOf, NoSource
<1>9. BuildSourceMap(p) = map[N].entries
  BY DEF BuildSourceMap
<1> HIDE DEF map
<1> QED
  BY <1>8, <1>9

LEMMA EveryInstructionIsMapped ==
    ASSUME NEW S, NEW p \in Seq(S), IsCode(p)
    PROVE  \E map : Mapped(p, Len(p), map) /\ BuildSourceMap(p) = map.entries
<1> DEFINE N == Len(p)
<1>1. PICK f : MapOf(p, f) /\ BuildSourceMap(p) = f[N].entries
  BY BuildSourceMapSteps
<1>2. N \in Nat
  OBVIOUS
<1>3. f[0] = NoSource /\ \A n \in 0..N : n # 0 => f[n] = AddEntry(f[n - 1], p, n)
  <2>1. 0 \in 0..N
    BY <1>2
  <2> QED
    BY <1>1, <2>1 DEF MapOf
<1> DEFINE T == {n \in 0..N : Mapped(p, n, f[n])}
<1>4. Mapped(p, 0, NoSource)
  <2>1. NoSource.entries = <<>> /\ <<>> \in Entries /\ NoSource.last = ZeroSource /\ Len(<<>>) = 0
    BY DEF NoSource, Entries
  <2>2. LastOf(<<>>) = ZeroSource
    BY DEF LastOf
  <2>3. Address(p, 1) \in Nat
    <3>1. 1 \in 1..N + 1
      BY <1>2
    <3> QED
      BY <3>1, AddressSteps
  <2>4. \A k \in 1..0 + 1 : Address(p, k) <= Address(p, 0 + 1)
    BY <2>3
  <2> QED
    BY <2>1, <2>2, <2>4 DEF Mapped
<1>5. 0 \in T
  BY <1>2, <1>3, <1>4
<1>6. ASSUME NEW n \in 0..N - 1, n \in T
      PROVE  n + 1 \in T
  <2>1. n + 1 \in 0..N /\ n + 1 # 0 /\ n + 1 - 1 = n /\ n + 1 \in 1..N
    BY <1>2
  <2>2. Mapped(p, n, f[n])
    BY <1>6
  <2>3. f[n + 1] = AddEntry(f[n], p, n + 1)
    <3>1. f[n + 1] = AddEntry(f[n + 1 - 1], p, n + 1)
      BY <1>3, <2>1
    <3> QED
      BY <2>1, <3>1
  <2>4. IsInstr(p[n + 1])
    BY <2>1 DEF IsCode
  <2> DEFINE next == f[n + 1]
  <2>5. next = AddEntry(f[n], p, n + 1)
    BY <2>3
  <2> HIDE DEF next
  <2>6. CASE IsLabel(p[n + 1]) \/ p[n + 1].src = f[n].last
    <3>1. next = f[n]
      BY <2>5, <2>6 DEF AddEntry
    <3> QED
      BY <2>1, <2>2, <2>6, <3>1, NoEntry DEF next
  <2>7. CASE ~(IsLabel(p[n + 1]) \/ p[n + 1].src = f[n].last)
    <3>1. next = [last |-> p[n + 1].src,
                  entries |-> Append(f[n].entries, Entry(Address(p, n + 1), p[n + 1].src))]
      BY <2>5, <2>7 DEF AddEntry
    <3>2. next.last = p[n + 1].src
      BY <3>1
    <3>3. next.entries = Append(f[n].entries, Entry(Address(p, n + 1), p[n + 1].src))
      BY <3>1
    <3>4. Mapped(p, n + 1, next)
      BY <2>2, <2>4, <2>7, <3>2, <3>3, OneEntry
    <3> QED
      BY <2>1, <3>4 DEF next
  <2> QED
    BY <2>6, <2>7
<1>7. \A n \in 0..N : n \in T
  <2> HIDE DEF T, N
  <2> QED
    BY <1>2, <1>5, <1>6, UpTo
<1>8. Mapped(p, N, f[N])
  BY <1>2, <1>7
<1> QED
  BY <1>1, <1>8

\* Of every program, at every byte of every instruction: the location that is
\* found in the source map, once it has been written out and read back
\* (query_source_map.go), is the one the instruction was compiled from.
THEOREM EverySourceIsFound ==
    ASSUME NEW S, NEW p \in Seq(S), IsCode(p)
    PROVE  SourcesAreFound(p)
<1>1. PICK map : Mapped(p, Len(p), map) /\ BuildSourceMap(p) = map.entries
  BY EveryInstructionIsMapped
<1>2. IsMap(map.entries)
  BY <1>1 DEF Mapped, IsMap, Entries
<1>3. DeltaDecode(DeltaEncode(BuildSourceMap(p))) = map.entries
  BY <1>1, <1>2, MapIsReadBack
<1>4. \A k \in DOMAIN p : \A pc \in Address(p, k)..Address(p, k + 1) - 1 :
         LocationOf(map.entries, pc) = p[k].src
  BY <1>1 DEF Mapped
<1> QED
  BY <1>3, <1>4 DEF SourcesAreFound

-----------------------------------------------------------------------------
(***************************************************************************)
(* The two properties of a run, which picks from a few texts and programs, *)
(* for every text and for every program the compiler may leave.            *)
(***************************************************************************)
Code == {p \in Seq(Instruction) : IsCode(p)}
AlgorithmsSpec == Init /\ [][Pick("text", Seq(Rune)) \/ Pick("program", Code)]_vars

\* What has been picked is one of them.
CaseOK == /\ Given("text") => given.case \in Seq(Rune)
          /\ Given("program") => given.case \in Code

LEMMA PickedCase ==
    ASSUME NEW kind, NEW cases, Pick(kind, cases)
    PROVE  given'.kind = kind /\ given'.case \in cases
BY DEF Pick

LEMMA CaseIsKept == AlgorithmsSpec => []CaseOK
<1>1. Init => CaseOK
  BY DEF Init, CaseOK, Given
<1>2. CaseOK /\ [Pick("text", Seq(Rune)) \/ Pick("program", Code)]_vars => CaseOK'
  <2> SUFFICES ASSUME CaseOK, [Pick("text", Seq(Rune)) \/ Pick("program", Code)]_vars
               PROVE  CaseOK'
    OBVIOUS
  <2>1. CASE Pick("text", Seq(Rune))
    <3>1. given'.kind = "text" /\ given'.case \in Seq(Rune)
      BY <2>1, PickedCase
    <3> QED
      BY <3>1 DEF CaseOK, Given
  <2>2. CASE Pick("program", Code)
    <3>1. given'.kind = "program" /\ given'.case \in Code
      BY <2>2, PickedCase
    <3> QED
      BY <3>1 DEF CaseOK, Given
  <2>3. CASE UNCHANGED vars
    BY <2>3 DEF CaseOK, Given, vars
  <2> QED
    BY <2>1, <2>2, <2>3
<1> QED
  BY <1>1, <1>2, PTL DEF AlgorithmsSpec

\* Every unit and every location of every text is what counting from its start
\* finds (go/pos.go).
THEOREM PositionsExact == AlgorithmsSpec => []PositionsAreExact
<1>1. CaseOK => PositionsAreExact
  BY EveryPositionIsExact DEF CaseOK, PositionsAreExact
<1> QED
  BY <1>1, CaseIsKept, PTL

\* Every program the compiler may leave is what the machine reads, and the
\* source of every byte of it is found (vm_encoder.go, vm.go,
\* query_source_map.go).
THEOREM ProgramsRead == AlgorithmsSpec => []ProgramsAreRead
<1>1. CaseOK => ProgramsAreRead
  <2> SUFFICES ASSUME CaseOK, Given("program")
               PROVE  MachineReadsProgram(given.case) /\ SourcesAreFound(given.case)
    BY DEF ProgramsAreRead
  <2> DEFINE p == given.case
  <2>1. p \in Seq(Instruction) /\ IsCode(p)
    BY DEF CaseOK, Code
  <2> HIDE DEF p
  <2>2. MachineReadsProgram(p)
    BY <2>1, EveryProgramIsRead
  <2>3. SourcesAreFound(p)
    BY <2>1, EverySourceIsFound
  <2> QED
    BY <2>2, <2>3 DEF p
<1> QED
  BY <1>1, CaseIsKept, PTL
=============================================================================
