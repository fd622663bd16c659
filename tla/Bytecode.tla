------------------------------ MODULE Bytecode ------------------------------
(***************************************************************************)
(* From the instructions of a program to bytes (go/vm_encoder.go,          *)
(* go/vm_instructions.go), what the machine reads back at an address       *)
(* (go/vm.go), and the source map (go/query_source_map.go).  Module VM     *)
(* takes the instructions of a program for its addresses; this module is   *)
(* why it may.                                                             *)
(***************************************************************************)
EXTENDS Integers, SequencesExt, FiniteSetsExt

CONSTANTS
    Base,       \* a byte holds 0 .. Base - 1 (256)
    Group       \* a byte of a varint holds 0 .. Group - 1, and a flag (128)
ASSUME BaseAssumption == Base \in Nat \ {0, 1} /\ Group \in Nat \ {0, 1}

U16 == Base * Base
U32 == U16 * U16

(***************************************************************************)
(* An instruction: its name, the label it jumps to (0 without one), its    *)
(* operands, and its source location.  An operand of set and span is the   *)
(* charset itself.                                                         *)
(***************************************************************************)
Instr(op, label, args, src) == [op |-> op, label |-> label, args |-> args, src |-> src]
Jumps == {"choice", "choice_pred", "commit", "cap_commit", "partial_commit",
          "cap_partial_commit", "back_commit", "cap_back_commit", "jump"}
Calls == {"call", "call_lr"}
OneByte == {"any", "fail", "fail_twice", "return", "return_lr", "cap_return", "cap_return_lr",
            "halt", "cap_end", "cap_term_begin_offset", "cap_end_offset"}
OfSets == {"set", "span"}
WithNumber == {"throw", "cap_begin", "cap_term", "cap_non_term_begin_offset"}
Op == Jumps \cup Calls \cup OneByte \cup OfSets \cup WithNumber
        \cup {"label", "char", "range", "cap_non_term"}
Arity(op) == CASE op \in {"range", "cap_non_term"} -> 2
               [] op \in {"char", "call_lr"} \cup OfSets \cup WithNumber -> 1
               [] OTHER -> 0
IsLabel(i) == i.op = "label"

FitsOneTooMany(c) == c <= U16   \* mutation
FitsU16(c) == c < U16
Fit(args) == \A i \in DOMAIN args : FitsU16(args[i])

\* SizeInBytes, by the constants of vm.go.
SizeInBytes(i) ==
    CASE i.op = "label" -> 0
      [] i.op \in OneByte -> 1
      [] i.op = "char" -> IF Fit(i.args) THEN 3 ELSE 5
      [] i.op = "range" -> IF Fit(i.args) THEN 5 ELSE 9
      [] i.op \in Calls -> 4
      [] i.op = "cap_non_term" -> 5
      [] OTHER -> 3

-----------------------------------------------------------------------------
(***************************************************************************)
(* Encode: the addresses of the labels, then the bytes.                    *)
(***************************************************************************)
Address(p, k) ==
    LET at[n \in 0..Len(p)] == IF n = 0 THEN 0 ELSE at[n - 1] + SizeInBytes(p[n])
    IN at[k - 1]
SizeOf(p) == Address(p, Len(p) + 1)
\* Mutation: the label counts for an instruction.
LabelAfter(p, label) ==
    1 + Address(p, CHOOSE k \in DOMAIN p : IsLabel(p[k]) /\ p[k].label = label)
LabelAt(p, label) == Address(p, CHOOSE k \in DOMAIN p : IsLabel(p[k]) /\ p[k].label = label)

\* AppendUint16 and AppendUint32: little-endian, and what does not fit is cut off.
Bytes2(v) == <<v % Base, (v \div Base) % Base>>
Bytes4(v) == Bytes2(v % U16) \o Bytes2(v \div U16)

\* addSet: a charset is kept once.
AddSet(sets, i) == IF i.op \in OfSets /\ i.args[1] \notin ToSet(sets)
                   THEN Append(sets, i.args[1]) ELSE sets
Sets(p) ==
    LET sets[n \in 0..Len(p)] == IF n = 0 THEN <<>> ELSE AddSet(sets[n - 1], p[n])
    IN sets[Len(p)]
SetIndex(p, cs) == (CHOOSE k \in DOMAIN Sets(p) : Sets(p)[k] = cs) - 1

EncodeInstr(p, i) ==
    CASE i.op = "label" -> <<>>
      [] i.op \in OneByte -> <<i.op>>
      [] i.op = "char" /\ Fit(i.args) -> <<"char">> \o Bytes2(i.args[1])
      [] i.op = "char" /\ ~Fit(i.args) -> <<"char32">> \o Bytes4(i.args[1])
      [] i.op = "range" /\ Fit(i.args) -> <<"range">> \o Bytes2(i.args[1]) \o Bytes2(i.args[2])
      [] i.op = "range" /\ ~Fit(i.args) -> <<"range32">> \o Bytes4(i.args[1]) \o Bytes4(i.args[2])
      [] i.op \in OfSets -> <<i.op>> \o Bytes2(SetIndex(p, i.args[1]))
      [] i.op \in Jumps -> <<i.op>> \o Bytes2(LabelAt(p, i.label))
      [] i.op = "call" -> <<i.op>> \o Bytes2(LabelAt(p, i.label)) \o <<0>>
      [] i.op = "call_lr" -> <<i.op>> \o Bytes2(LabelAt(p, i.label)) \o <<i.args[1] % Base>>
      [] i.op = "cap_non_term" -> <<i.op>> \o Bytes2(i.args[1]) \o Bytes2(i.args[2])
      [] OTHER -> <<i.op>> \o Bytes2(i.args[1])
Encode(p) ==
    LET code[n \in 0..Len(p)] == IF n = 0 THEN <<>> ELSE code[n - 1] \o EncodeInstr(p, p[n])
    IN code[Len(p)]

-----------------------------------------------------------------------------
(***************************************************************************)
(* What the loop of the machine makes of the bytes at an address.          *)
(***************************************************************************)
DecodeU16(code, at) == code[at + 1] + code[at + 2] * Base
DecodeU32(code, at) == DecodeU16(code, at) + DecodeU16(code, at + 2) * U16

\* Fetched: the operation, the address it may go to (-1 without one), its
\* operands, and where the machine goes on.
Fetched(op, to, args, next) == [op |-> op, to |-> to, args |-> args, next |-> next]
Fetch(code, sets, pc) ==
    LET op == code[pc + 1]
        u16 == DecodeU16(code, pc + 1)
        second == DecodeU16(code, pc + 3)
    IN CASE op \in OneByte -> Fetched(op, -1, <<>>, pc + 1)
         [] op = "char" -> Fetched("char", -1, <<u16>>, pc + 3)
         [] op = "char32" -> Fetched("char", -1, <<DecodeU32(code, pc + 1)>>, pc + 5)
         [] op = "range" -> Fetched("range", -1, <<u16, second>>, pc + 5)
         [] op = "range32" -> Fetched("range", -1, <<DecodeU32(code, pc + 1),
                                                    DecodeU32(code, pc + 5)>>, pc + 9)
         [] op \in OfSets -> Fetched(op, -1, <<sets[u16 + 1]>>, pc + 3)
         [] op \in Jumps -> Fetched(op, u16, <<>>, pc + 3)
         [] op = "call" -> Fetched(op, u16, <<>>, pc + 4)
         [] op = "call_lr" -> Fetched(op, u16, <<code[pc + 4]>>, pc + 4)
         [] op = "cap_non_term" -> Fetched(op, -1, <<u16, second>>, pc + 5)
         [] OTHER -> Fetched(op, -1, <<u16>>, pc + 3)

Meant(p, k) ==
    Fetched(p[k].op,
            IF p[k].op \in Jumps \cup Calls THEN LabelAt(p, p[k].label) ELSE -1,
            p[k].args,
            Address(p, k) + SizeInBytes(p[k]))

(***************************************************************************)
(* The machine finds at the address of each instruction that instruction,  *)
(* its jumps lead to the instructions their labels stand before, it goes   *)
(* on at the next one, and each has an address of its own, in every program*)
(* of which the addresses fit into two bytes, and so do ids and offsets.   *)
(***************************************************************************)
\* What the compiler may leave: operands that are 32-bit numbers, but those of
\* set and span, a source location each, and each label once.
IsInstr(i) ==
    /\ i.op \in Op
    /\ i.src \in [1..7 -> Nat]
    /\ i.args = CASE Arity(i.op) = 0 -> <<>>
                  [] Arity(i.op) = 1 -> <<i.args[1]>>
                  [] Arity(i.op) = 2 -> <<i.args[1], i.args[2]>>
    /\ i.op \notin OfSets => \A a \in DOMAIN i.args : i.args[a] \in 0..U32 - 1
IsCode(p) ==
    /\ \A k \in DOMAIN p : IsInstr(p[k])
    /\ \A k \in DOMAIN p : p[k].op \in Jumps \cup Calls =>
          \E j \in DOMAIN p : IsLabel(p[j]) /\ p[j].label = p[k].label
    /\ \A j, k \in DOMAIN p : IsLabel(p[j]) /\ IsLabel(p[k]) /\ p[j].label = p[k].label => j = k

Limit(op) == CASE op \in {"char", "range"} -> U32
               [] op = "call_lr" -> Base
               [] OTHER -> U16
ProgramFits(p) ==
    /\ \A k \in DOMAIN p : IsLabel(p[k]) => FitsU16(Address(p, k))
    /\ \A k \in DOMAIN p : p[k].op \notin OfSets =>
          \A a \in DOMAIN p[k].args : p[k].args[a] < Limit(p[k].op)
    /\ Len(Sets(p)) <= U16
MachineReadsProgram(p) ==
    /\ Len(Encode(p)) = SizeOf(p)
    /\ \A j, k \in DOMAIN p : j < k /\ ~IsLabel(p[j]) => Address(p, j) < Address(p, k)
    /\ ProgramFits(p) =>
          \A k \in DOMAIN p : ~IsLabel(p[k]) =>
              Fetch(Encode(p), Sets(p), Address(p, k)) = Meant(p, k)

-----------------------------------------------------------------------------
(***************************************************************************)
(* The source map: an entry wherever the location changes, in numbers of   *)
(* varying length, all but the first as differences.  A location is a      *)
(* sequence of numbers: file, line, column and cursor of start and end.    *)
(***************************************************************************)
ZeroSource == <<0, 0, 0, 0, 0, 0, 0>>
Entry(at, src) == [f \in 1..8 |-> IF f = 1 THEN at ELSE src[f - 1]]
Source(entry) == [f \in 1..7 |-> entry[f + 1]]
AddEntry(map, p, k) ==
    IF IsLabel(p[k]) \/ p[k].src = map.last THEN map
    ELSE [last |-> p[k].src, entries |-> Append(map.entries, Entry(Address(p, k), p[k].src))]
BuildSourceMap(p) ==
    LET map[n \in 0..Len(p)] ==
            IF n = 0 THEN [last |-> ZeroSource, entries |-> <<>>] ELSE AddEntry(map[n - 1], p, n)
    IN map[Len(p)].entries

Uvarint[v \in Nat] ==
    IF v >= Group THEN <<(v % Group) + Group>> \o Uvarint[v \div Group] ELSE <<v>>
AppendUvarint(buf, v) == buf \o Uvarint[v]
Zigzag(n) == IF n >= 0 THEN 2 * n ELSE -2 * n - 1
UnZigzag(u) == IF u % 2 = 0 THEN u \div 2 ELSE -(u \div 2) - 1

\* [v, pos]: the number that starts at a position, and the position after it.
ReadUvarint(data, pos) ==
    LET end == Min({e \in pos..Len(data) : data[e] < Group})
        value[n \in 0..end - pos] ==
            IF n = 0 THEN data[end] ELSE data[end - n] - Group + Group * value[n - 1]
    IN [v |-> value[end - pos], pos |-> end + 1]

Difference(e, prev) == [f \in 1..8 |-> e[f] - prev[f]]
DifferenceToFirst(e, entries, i) == Difference(e, entries[1])   \* mutation
DifferenceTo(e, entries, i) == Difference(e, entries[i - 1])
\* The offset only grows; the other fields are signed, but in the first entry.
Signed(i, f) == i > 1 /\ f > 1
\* What is written for a field of an entry.
Number(entries, i, f) ==
    LET e == IF i = 1 THEN entries[1] ELSE DifferenceTo(entries[i], entries, i)
    IN IF Signed(i, f) THEN Zigzag(e[f]) ELSE e[f]
\* Number n is the next field of its entry.
DeltaEncode(entries) ==
    LET out[n \in 0..8 * Len(entries)] ==
            IF n = 0 THEN <<>>
            ELSE AppendUvarint(out[n - 1], Number(entries, ((n - 1) \div 8) + 1, ((n - 1) % 8) + 1))
    IN out[8 * Len(entries)]

ReadField(read, data, i, f) ==
    LET n == ReadUvarint(data, read.pos)
    IN [pos |-> n.pos, e |-> Append(read.e, IF Signed(i, f) THEN UnZigzag(n.v) ELSE n.v)]
ReadEntry(data, pos, i) ==
    LET read[f \in 0..8] ==
            IF f = 0 THEN [pos |-> pos, e |-> <<>>] ELSE ReadField(read[f - 1], data, i, f)
    IN read[8]
DecodeNext(read, data) ==
    LET i == Len(read.entries) + 1
        next == ReadEntry(data, read.pos, i)
        e == IF i = 1 THEN next.e ELSE [f \in 1..8 |-> read.entries[i - 1][f] + next.e[f]]
    IN IF read.pos > Len(data) THEN read
       ELSE [pos |-> next.pos, entries |-> Append(read.entries, e)]
\* An entry has a byte at least.
DeltaDecode(data) ==
    LET read[n \in 0..Len(data)] ==
            IF n = 0 THEN [pos |-> 1, entries |-> <<>>] ELSE DecodeNext(read[n - 1], data)
    IN read[Len(data)].entries

\* LocationAt: the last entry at the address or before it.
LocationOf(entries, pc) ==
    LET before == {i \in DOMAIN entries : entries[i][1] <= pc}
    IN IF before = {} THEN ZeroSource ELSE Source(entries[Max(before)])

\* The debugger that stops at any byte of an instruction is told the location
\* the instruction was compiled from.
SourcesAreFound(p) ==
    LET entries == DeltaDecode(DeltaEncode(BuildSourceMap(p)))
    IN \A k \in DOMAIN p : \A pc \in Address(p, k)..Address(p, k + 1) - 1 :
          LocationOf(entries, pc) = p[k].src
=============================================================================
