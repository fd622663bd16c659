----------------------------- MODULE Positions -----------------------------
(***************************************************************************)
(* The position index (go/pos.go): byte offsets of a text (cursors), the   *)
(* lines and columns an editor counts in, and the UTF-16 offsets a browser *)
(* counts in, found through sparse checkpoints.  A text is a sequence of   *)
(* runes; what matters of one is the number of its bytes, the number of    *)
(* its UTF-16 units, and whether it ends a line.                           *)
(***************************************************************************)
EXTENDS Integers, SequencesExt, FiniteSetsExt

CONSTANT Stride     \* bytes between checkpoints (64)
ASSUME StrideAssumption == Stride \in Nat \ {0}

\* Four bytes are a surrogate pair; what is no UTF-8 is read as a rune of one byte.
Rune == {r \in [bytes : 1..4, u16 : 1..2, newline : BOOLEAN] :
            (r.u16 = 2 <=> r.bytes = 4) /\ (r.newline => r.bytes = 1)}
Modes == {"rune", "utf16"}
UnitsForRune(r, mode) == IF mode = "utf16" THEN r.u16 ELSE 1

\* The sums of the first n numbers of a sequence.
Sums(numbers) ==
    LET sum[n \in 0..Len(numbers)] == IF n = 0 THEN 0 ELSE sum[n - 1] + numbers[n]
    IN sum
\* The bytes and the units of the first n runes.
Offset(text, n) == Sums([i \in 1..Len(text) |-> text[i].bytes])[n]
Units(text, n, mode) == Sums([i \in 1..Len(text) |-> UnitsForRune(text[i], mode)])[n]
Bytes(text) == Offset(text, Len(text))
Boundaries(text) == {Offset(text, n) : n \in 0..Len(text)}

-----------------------------------------------------------------------------
(***************************************************************************)
(* newUnitsIndex: checkpoints <<byte offset, unit offset>>, the first at 0,*)
(* then after every Stride bytes at least, and one at the end.             *)
(***************************************************************************)
Checkpoint(at, units) == [at |-> at, units |-> units]
WithRune(ix, r, mode) ==
    LET at == ix.at + r.bytes
        units == ix.units + UnitsForRune(r, mode)
        since == ix.since + r.bytes
    IN [at |-> at, units |-> units,
        since |-> IF since >= Stride THEN 0 ELSE since,
        points |-> IF since >= Stride THEN Append(ix.points, Checkpoint(at, units)) ELSE ix.points]
\* Mutation: the units before the rune.
WithRuneLate(ix, r, mode) ==
    LET next == WithRune(ix, r, mode)
    IN [next EXCEPT !.points = IF @ = ix.points THEN @
                               ELSE Append(ix.points, Checkpoint(next.at, ix.units))]
AddRune(ix, r, mode) == WithRune(ix, r, mode)
WithEnd(ix) == IF Last(ix.points).at = ix.at THEN ix.points
               ELSE Append(ix.points, Checkpoint(ix.at, ix.units))
UnitsIndex(text, mode) ==
    LET index[n \in 0..Len(text)] ==
            IF n = 0 THEN [at |-> 0, units |-> 0, since |-> 0, points |-> <<Checkpoint(0, 0)>>]
            ELSE AddRune(index[n - 1], text[n], mode)
    IN WithEnd(index[Len(text)])

Clamp(cursor, text) == CASE cursor < 0 -> 0
                         [] cursor > Bytes(text) -> Bytes(text)
                         [] OTHER -> cursor

\* UnitsAt: from the last checkpoint, over the runes that end at the cursor or
\* before it; a rune is passed where it starts.
LastUpTo(points, c) == points[Max({i \in DOMAIN points : points[i].at <= c})]
Past(point, text, n, c, mode) ==
    LET next == point.at + text[n].bytes
    IN IF point.at = Offset(text, n - 1) /\ next <= c
       THEN Checkpoint(next, point.units + UnitsForRune(text[n], mode)) ELSE point
UnitsFrom(point, text, c, mode) ==
    LET scan[n \in 0..Len(text)] ==
            IF n = 0 THEN point ELSE Past(scan[n - 1], text, n, c, mode)
    IN scan[Len(text)].units
UnitsAt(text, cursor, mode) ==
    LET c == Clamp(cursor, text)
    IN UnitsFrom(LastUpTo(UnitsIndex(text, mode), c), text, c, mode)
CursorU16(text, cursor) == UnitsAt(text, cursor, "utf16")

-----------------------------------------------------------------------------
\* newPosIndex: the offsets at which lines start.
WithLine(starts, text, n) ==
    IF text[n].newline THEN Append(starts, Offset(text, n)) ELSE starts
LineStart(text) ==
    LET starts[n \in 0..Len(text)] ==
            IF n = 0 THEN <<0>> ELSE WithLine(starts[n - 1], text, n)
    IN starts[Len(text)]

Location(line, column, cursor) == [line |-> line, column |-> column, cursor |-> cursor]
LocationAt(text, cursor) ==
    LET c == Clamp(cursor, text)
        starts == LineStart(text)
        line == Max({i \in DOMAIN starts : starts[i] <= c})
    IN Location(line, UnitsAt(text, c, "rune") - UnitsAt(text, starts[line], "rune") + 1, c)

\* CursorAt: the first byte of the line at which as many runes are complete.
\* A column past the end of its line gives the start of the next.
CursorAt(text, line0, col0) ==
    LET starts == LineStart(text)
        line == IF line0 < 0 THEN 1 ELSE line0 + 1
        col == IF col0 < 0 THEN 0 ELSE col0
        start == starts[line]
        end == IF line < Len(starts) THEN starts[line + 1] ELSE Bytes(text)
        target == UnitsAt(text, start, "rune") + col
    IN IF line > Len(starts) THEN Bytes(text)
       ELSE Min({c \in start..end - 1 : UnitsAt(text, c, "rune") >= target} \cup {end})

-----------------------------------------------------------------------------
(***************************************************************************)
(* What the index promises for a text, whatever the checkpoints.           *)
(***************************************************************************)
\* The first n runes are those that end at the cursor or before it.
Complete(text, n, cursor) ==
    Offset(text, n) <= cursor /\ (n < Len(text) => cursor < Offset(text, n + 1))
UnitsAreCounted(text) ==
    \A cursor \in 0..Bytes(text), mode \in Modes :
        \E n \in 0..Len(text) :
            Complete(text, n, cursor) /\ UnitsAt(text, cursor, mode) = Units(text, n, mode)

\* An editor that is told where something is and asks for that position gets
\* the cursor it came from.  Asking for any position, a column past the end of
\* the line or a line past the end of the text among them, gives the boundary of
\* a character; it lies on the line asked for, at the start of the next one, or
\* on the last line.
LocationsInvert(text) ==
    /\ \A cursor \in Boundaries(text) :
          LET at == LocationAt(text, cursor)
          IN CursorAt(text, at.line - 1, at.column - 1) = cursor
    /\ \A line \in 0..Len(LineStart(text)), col \in 0..Len(text) + 1 :
          LET cursor == CursorAt(text, line, col)
          IN /\ cursor \in Boundaries(text)
             /\ LocationAt(text, cursor).line \in {line + 1, line + 2, Len(LineStart(text))}
=============================================================================
