----------------------------- MODULE TermScreen -----------------------------
(* The screen that the runtime keeps of a terminal (mf-terminal            *)
(* src/term_screen.rs): every byte of the output goes through a parser and *)
(* moves a cursor over two grids, and a resize by a viewer comes between   *)
(* any two of them.  Snapshots and the sniffing of an agent's state read   *)
(* the grid.  Cells are blank or inked; colours other than the one that an *)
(* extended sequence sets, and the characters themselves, are left out.    *)
EXTENDS Integers, Sequences, SequencesExt, FiniteSetsExt

CONSTANTS
    Sizes,          \* the sizes <<rows, cols>> a viewer may ask for
    OscLimit,       \* bytes of a title string before it is given up
    MaxTokens       \* a bound of the instance: tokens fed and resizes

VARIABLES
    screen,         \* the Screen
    strayed,        \* the cursor was restored from outside the grid
    tokens

screenVars == <<screen, strayed, tokens>>

Blank == " "
Ink == "x"
Low(a, b) == IF a < b THEN a ELSE b
High(a, b) == IF a > b THEN a ELSE b
Less(a, b) == High(a - b, 0)
BlankRow(cols) == [c \in 1..cols |-> Blank]
PlainPen == [bold |-> FALSE, reverse |-> FALSE, fg |-> "default"]

\* Screen::new.  Rows and columns count from 0, as the cursor does.
NewScreen(rows, cols) ==
    LET r == High(rows, 2)  c == High(cols, 4)
        grid == [i \in 1..r |-> BlankRow(c)]
    IN  [rows |-> r, cols |-> c, main |-> grid, alt |-> grid, onAlt |-> FALSE,
         at |-> <<0, 0>>, kept |-> <<0, 0>>, pen |-> PlainPen, keptPen |-> PlainPen,
         top |-> 0, bottom |-> r - 1, state |-> "ground", need |-> 0, have |-> 0,
         osc |-> <<>>, title |-> "", visible |-> TRUE]

Grid(s) == IF s.onAlt THEN s.alt ELSE s.main
WithGrid(s, g) == IF s.onAlt THEN [s EXCEPT !.alt = g] ELSE [s EXCEPT !.main = g]
PlaceAt(s, r, c) == [s EXCEPT !.at = <<r, c>>]
RowAt(s) == s.at[1]
ColAt(s) == s.at[2]

\* What the row under the cursor becomes: nothing if there is none.
OnRow(s, Cell(_)) ==
    IF RowAt(s) >= s.rows THEN s
    ELSE WithGrid(s, [Grid(s) EXCEPT ![RowAt(s) + 1] = [i \in 1..s.cols |-> Cell(i - 1)]])
Here(s, c) == Grid(s)[RowAt(s) + 1][c + 1]

Fitted(grid, rows, cols) ==
    [r \in 1..rows |-> [c \in 1..cols |->
        IF r <= Len(grid) /\ c <= Len(grid[r]) THEN grid[r][c] ELSE Blank]]
\* resize without the clamp of the cursor.
ResizedLoosely(s, rows, cols) ==
    LET r == High(rows, 2)  c == High(cols, 4)
    IN  [s EXCEPT !.rows = r, !.cols = c, !.main = Fitted(@, r, c), !.alt = Fitted(@, r, c),
                  !.top = 0, !.bottom = r - 1]
\* resize: both grids, and the cursor; the kept cursor is left as it is.
Resized(s, rows, cols) ==
    LET r == High(rows, 2)  c == High(cols, 4)
    IN  [s EXCEPT !.rows = r, !.cols = c, !.main = Fitted(@, r, c), !.alt = Fitted(@, r, c),
                  !.at = <<Low(@[1], r - 1), Low(@[2], c - 1)>>, !.top = 0, !.bottom = r - 1]

\* scroll_up, scroll_down: the lines of the region.
Times(n, Do(_), s) == FoldLeft(LAMBDA a, i : Do(a), s, [i \in 1..n |-> i])
OutIn(grid, out, in, cols) == InsertAt(RemoveAt(grid, out + 1), in + 1, BlankRow(cols))
ScrollUp(s, n) ==
    Times(n, LAMBDA a : WithGrid(a, OutIn(Grid(a), a.top, a.bottom, a.cols)), s)
ScrollDown(s, n) ==
    Times(n, LAMBDA a : WithGrid(a, OutIn(Grid(a), a.bottom, a.top, a.cols)), s)

Linefeed(s) ==
    IF RowAt(s) = s.bottom THEN ScrollUp(s, 1)
    ELSE IF RowAt(s) + 1 < s.rows THEN PlaceAt(s, RowAt(s) + 1, ColAt(s)) ELSE s
ReverseIndex(s) ==
    IF RowAt(s) = s.top THEN ScrollDown(s, 1) ELSE PlaceAt(s, Less(RowAt(s), 1), ColAt(s))

\* put_char: a full line goes on with the next, at the last column.
PutChar(s) ==
    LET w == OnRow(s, LAMBDA c : IF c = ColAt(s) THEN Ink ELSE Here(s, c))
    IN  IF ColAt(s) + 1 < s.cols THEN PlaceAt(w, RowAt(s), ColAt(s) + 1)
        ELSE Linefeed(PlaceAt(w, RowAt(s), s.cols - 1))

Reset(s) == NewScreen(s.rows, s.cols)

(***************************************************************************)
(* Control sequences.                                                      *)
(***************************************************************************)
Semi == -1

\* The digits and separators of a sequence: a separator opens a field, a
\* digit goes into the last one.
Params(bytes) ==
    FoldLeft(LAMBDA fields, b :
                IF b = Semi THEN Append(fields, 0)
                ELSE IF fields = <<>> THEN <<b>>
                ELSE [fields EXCEPT ![Len(fields)] = @ * 10 + b], <<>>, bytes)
P(ps, i) == IF i <= Len(ps) THEN ps[i] ELSE 0
P1(ps, i) == IF P(ps, i) = 0 THEN 1 ELSE P(ps, i)

\* Every field an attribute of its own.
FieldsAlone(ps, i) == 1
\* sgr: a colour takes the fields that belong to it.
Extended(ps, i) == P(ps, i + 1) \in {2, 5}
FieldsTaken(ps, i) ==
    IF ps[i] \in {38, 48} /\ Extended(ps, i) THEN IF P(ps, i + 1) = 5 THEN 3 ELSE 5 ELSE 1
Attribute(pen, ps, i) ==
    CASE ps[i] = 0 -> PlainPen
      [] ps[i] = 1 -> [pen EXCEPT !.bold = TRUE]
      [] ps[i] = 22 -> [pen EXCEPT !.bold = FALSE]
      [] ps[i] = 7 -> [pen EXCEPT !.reverse = TRUE]
      [] ps[i] = 27 -> [pen EXCEPT !.reverse = FALSE]
      [] ps[i] = 39 -> [pen EXCEPT !.fg = "default"]
      [] ps[i] \in 30..37 -> [pen EXCEPT !.fg = "palette"]
      [] ps[i] = 38 /\ Extended(ps, i) -> [pen EXCEPT !.fg = "extended"]
      [] OTHER -> pen
Sgr(pen, params) ==
    LET ps == IF params = <<>> THEN <<0>> ELSE params
    IN  FoldLeft(LAMBDA a, i :
                    IF i < a.next THEN a
                    ELSE [pen |-> Attribute(a.pen, ps, i), next |-> i + FieldsTaken(ps, i)],
                 [pen |-> pen, next |-> 1], [i \in 1..Len(ps) |-> i]).pen

EraseLine(s, mode) ==
    OnRow(s, LAMBDA c : IF (mode = 0 /\ c < ColAt(s)) \/ (mode = 1 /\ c > ColAt(s))
                        THEN Here(s, c) ELSE Blank)
EraseDisplay(s, mode) ==
    LET line == IF mode \in {0, 1} THEN EraseLine(s, mode) ELSE s
    IN  WithGrid(line, [r \in 1..s.rows |->
            IF (mode = 0 /\ r - 1 <= RowAt(s)) \/ (mode = 1 /\ r - 1 >= RowAt(s))
            THEN Grid(line)[r] ELSE BlankRow(s.cols)])

\* line_text, tail_lines: upwards, the lines that are not blank, until n.
Inked(row) == \E c \in 1..Len(row) : row[c] = Ink
TailLines(s, n) ==
    FoldLeft(LAMBDA out, r :
                IF Len(out) < n /\ Inked(Grid(s)[s.rows + 1 - r])
                THEN <<Grid(s)[s.rows + 1 - r]>> \o out ELSE out,
             <<>>, [r \in 1..s.rows |-> r])

InsertChars(s, n) ==
    OnRow(s, LAMBDA c : IF c < ColAt(s) THEN Here(s, c)
                        ELSE IF c < ColAt(s) + n THEN Blank ELSE Here(s, c - n))
DeleteChars(s, n) ==
    OnRow(s, LAMBDA c : IF c < ColAt(s) THEN Here(s, c)
                        ELSE IF c + n < s.cols THEN Here(s, c + n) ELSE Blank)
EraseChars(s, n) ==
    OnRow(s, LAMBDA c : IF c \in ColAt(s)..(ColAt(s) + n - 1) THEN Blank ELSE Here(s, c))

\* IL and DL look at the bottom of the region only; DL puts the new line
\* before the last one when the region ends with the screen.
InsertLines(s, n) ==
    Times(n, LAMBDA a : IF RowAt(a) > a.bottom THEN a
        ELSE WithGrid(a, OutIn(Grid(a), a.bottom, High(RowAt(a), a.top), a.cols)), s)
DeleteLinesAnywhere(s, n) ==
    Times(n, LAMBDA a : WithGrid(a, OutIn(Grid(a), RowAt(a), a.bottom, a.cols)), s)
DeleteLines(s, n) ==
    Times(n, LAMBDA a : IF RowAt(a) > a.bottom THEN a
        ELSE WithGrid(a, OutIn(Grid(a), RowAt(a), Low(a.bottom, a.rows - 2), a.cols)), s)

\* A region taken as it is asked for.
RegionAsAsked(s, ps) ==
    [s EXCEPT !.top = P1(ps, 1) - 1, !.bottom = P1(ps, 2) - 1, !.at = <<0, 0>>]
Region(s, ps) ==
    LET top == P1(ps, 1) - 1  bottom == P1(ps, 2) - 1
        good == top < bottom /\ bottom < s.rows
    IN  [s EXCEPT !.top = IF good THEN top ELSE 0,
                  !.bottom = IF good THEN bottom ELSE s.rows - 1, !.at = <<0, 0>>]

MoveCursor(s, f, ps) ==
    LET n == P1(ps, 1)
        Down(k) == Low(RowAt(s) + k, s.rows - 1)
    IN  CASE f = "A" -> PlaceAt(s, Less(RowAt(s), n), ColAt(s))
          [] f = "B" -> PlaceAt(s, Down(n), ColAt(s))
          [] f = "C" -> PlaceAt(s, RowAt(s), Low(ColAt(s) + n, s.cols - 1))
          [] f = "D" -> PlaceAt(s, RowAt(s), Less(ColAt(s), n))
          [] f = "E" -> PlaceAt(s, Down(n), 0)
          [] f = "F" -> PlaceAt(s, Less(RowAt(s), n), 0)
          [] f = "G" -> PlaceAt(s, RowAt(s), Low(n - 1, s.cols - 1))
          [] f = "H" -> PlaceAt(s, Low(n - 1, s.rows - 1), Low(P1(ps, 2) - 1, s.cols - 1))
          [] f = "d" -> PlaceAt(s, Low(n - 1, s.rows - 1), ColAt(s))
CursorMoves == {"A", "B", "C", "D", "E", "F", "G", "H", "d"}

\* The switch to the other grid as a clearing of the one in use.
SetAltInPlace(s, on, clear) ==
    LET grid == [r \in 1..s.rows |-> BlankRow(s.cols)]
    IN  [s EXCEPT !.onAlt = on, !.at = <<0, 0>>, !.main = IF on /\ clear THEN grid ELSE @]
SetAlt(s, on, clear) ==
    IF on /\ ~s.onAlt
    THEN [s EXCEPT !.kept = s.at, !.onAlt = TRUE, !.at = <<0, 0>>,
                   !.alt = IF clear THEN [r \in 1..s.rows |-> BlankRow(s.cols)] ELSE @]
    ELSE IF ~on /\ s.onAlt THEN [s EXCEPT !.onAlt = FALSE, !.at = s.kept] ELSE s
Mode(s, on, code) ==
    CASE code = 25 -> [s EXCEPT !.visible = on]
      [] code \in {47, 1047} -> SetAlt(s, on, FALSE)
      [] code = 1048 -> IF on THEN [s EXCEPT !.kept = s.at] ELSE [s EXCEPT !.at = s.kept]
      [] code = 1049 -> SetAlt(s, on, TRUE)
      [] OTHER -> s

Csi(s, f, ps) ==
    LET n == P1(ps, 1)
    IN  CASE f \in CursorMoves -> MoveCursor(s, f, ps)
          [] f = "m" -> [s EXCEPT !.pen = Sgr(@, ps)]
          [] f = "J" -> EraseDisplay(s, P(ps, 1))
          [] f = "K" -> EraseLine(s, P(ps, 1))
          [] f = "X" -> EraseChars(s, n)
          [] f = "@" -> InsertChars(s, n)
          [] f = "P" -> DeleteChars(s, n)
          [] f = "L" -> InsertLines(s, n)
          [] f = "M" -> DeleteLines(s, n)
          [] f = "S" -> ScrollUp(s, n)
          [] f = "T" -> ScrollDown(s, n)
          [] f = "r" -> Region(s, ps)
          [] f \in {"?h", "?l"} -> Mode(s, f = "?h", P(ps, 1))

Escape(s, b) ==
    CASE b = "7" -> [s EXCEPT !.kept = s.at, !.keptPen = s.pen]
      [] b = "8" -> [s EXCEPT !.at = s.kept, !.pen = s.keptPen]
      [] b = "M" -> ReverseIndex(s)
      [] b = "D" -> Linefeed(s)
      [] b = "E" -> Linefeed(PlaceAt(s, RowAt(s), 0))
      [] b = "c" -> Reset(s)
      [] b = "]" -> [s EXCEPT !.state = "osc", !.osc = <<>>]
      [] b = "P" -> [s EXCEPT !.state = "string"]
      [] OTHER -> s

(***************************************************************************)
(* FedBytes.  The bytes of one control sequence are taken together: nothing   *)
(* changes before its last byte.  The strings, and the bytes of one        *)
(* character, may be cut by anything.                                      *)
(***************************************************************************)
\* ground: a character of several bytes is collected; a byte that does not
\* belong to it is drawn as a replacement, and lost.
Collected(s, b) ==
    IF s.need = 0
    THEN IF b = "lead" THEN [s EXCEPT !.need = 3, !.have = 1] ELSE PutChar(s)
    ELSE IF b = "lead" THEN PutChar([s EXCEPT !.need = 0])
    ELSE IF s.have + 1 < s.need THEN [s EXCEPT !.have = @ + 1]
    ELSE PutChar([s EXCEPT !.need = 0])

Ground(s, b) ==
    CASE b = "char" -> PutChar(s)
      [] b = "cr" -> PlaceAt(s, RowAt(s), 0)
      [] b = "lf" -> Linefeed(s)
      [] b = "bs" -> PlaceAt(s, RowAt(s), Less(ColAt(s), 1))
      [] b = "tab" -> PlaceAt(s, RowAt(s), Low((ColAt(s) \div 8 + 1) * 8, s.cols - 1))
      [] b \in {"lead", "cont"} -> Collected(s, b)
      [] OTHER -> s

\* osc_done: a title, when there is one.
TitleDone(s) ==
    [s EXCEPT !.state = "ground", !.title = IF s.osc = <<>> THEN @ ELSE "given"]
InOsc(s, b) ==
    CASE b = "bel" -> TitleDone(s)
      [] b # "bel" /\ Len(s.osc) = OscLimit -> [s EXCEPT !.osc = <<>>, !.state = "ground"]
      [] OTHER -> [s EXCEPT !.osc = Append(@, b)]

\* step, of one token: a byte, or an escape with all that belongs to it.  A
\* string that an escape interrupts ends there, and the rest of the escape is
\* text after a title and an escape after any other string.
Byte(s, b) ==
    CASE s.state = "ground" -> Ground(s, b)
      [] s.state = "osc" -> InOsc(s, b)
      [] s.state = "string" -> s
Finals(f) == IF f \in {"?h", "?l"} THEN 2 ELSE 1
Typed(s, n) == Times(n, PutChar, s)
EscapeToken(s, t) ==
    LET Act(a) == IF t.esc = "[" THEN Csi(a, t.f, Params(t.ps)) ELSE Escape(a, t.esc)
    IN  CASE s.state = "ground" -> Act(s)
          [] s.state = "osc" -> IF t.esc = "\\" THEN TitleDone(s)
                                ELSE Typed([s EXCEPT !.state = "ground"],
                                           IF t.esc = "[" THEN Len(t.ps) + Finals(t.f) ELSE 0)
          [] s.state = "string" -> Act([s EXCEPT !.state = "ground"])

(***************************************************************************)
(* What is fed, and by whom.                                               *)
(***************************************************************************)
FedBytes == {"char", "cr", "lf", "bs", "tab", "lead", "cont", "bel"}
Esc(b) == [esc |-> b, f |-> "", ps |-> <<>>]
C(f, ps) == [esc |-> "[", f |-> f, ps |-> ps]
Escapes == {Esc(b) : b \in {"7", "8", "M", "D", "E", "c", "]", "P", "\\"}}
ControlSequences ==
    {C(f, <<>>) : f \in CursorMoves \cup {"m", "J", "K", "L", "M", "S", "T", "r"}}
    \cup {C(f, <<2>>) : f \in {"A", "B", "D", "G", "J", "K", "X", "@", "P", "M"}}
    \cup {C("K", <<1>>), C("J", <<1>>), C("H", <<2, Semi, 3>>), C("H", <<9, Semi, 9>>),
          C("H", <<Semi, 2>>), C("r", <<2, Semi, 3>>), C("r", <<1, Semi, 2>>),
          C("m", <<7>>), C("m", <<3, 8, Semi, 5, Semi, 1>>)}
    \cup {C(f, <<n>>) : f \in {"?h", "?l"}, n \in {25, 47, 1048, 1049}}

Outside(s) == RowAt(s) >= s.rows \/ ColAt(s) >= s.cols

Becomes(s) ==
    /\ tokens < MaxTokens
    /\ screen' = s
    /\ strayed' = (Outside(s) /\ (strayed \/ s.at = screen.kept))
    /\ tokens' = tokens + 1

FeedByte == \E b \in FedBytes : Becomes(Byte(screen, b))
FeedEscape == \E t \in Escapes : Becomes(EscapeToken(screen, t))
FeedSequence == \E t \in ControlSequences : Becomes(EscapeToken(screen, t))
ResizeScreen == \E z \in Sizes : Becomes(Resized(screen, z[1], z[2]))

\* Screens with something on them.
Fed(s, ts) == FoldLeft(LAMBDA a, t : IF t \in FedBytes THEN Byte(a, t) ELSE EscapeToken(a, t), s, ts)
Written(s) == Fed(s, <<"char", "char", "cr", "lf", "char", "lf", "char">>)

ScreenInit ==
    /\ \E z \in Sizes : screen = Written(NewScreen(z[1], z[2]))
    /\ strayed = FALSE
    /\ tokens = 0

ScreenNext == FeedByte \/ FeedEscape \/ FeedSequence \/ ResizeScreen

(***************************************************************************)
(* Properties.                                                             *)
(***************************************************************************)
\* Both grids keep the size of the screen whatever lines are scrolled, put in
\* and taken out, through resizes: every index the code takes is in range.
GridsFit ==
    \A g \in {screen.main, screen.alt} :
        Len(g) = screen.rows /\ \A r \in 1..Len(g) : Len(g[r]) = screen.cols

\* The region is a range of at least two lines of the screen.
RegionFits == 0 <= screen.top /\ screen.top < screen.bottom /\ screen.bottom < screen.rows

\* The cursor is on the screen, unless it was kept on a larger one.
CursorOnScreen == Outside(screen) => strayed

\* A title string holds at most its limit, and is over when it reaches it.
TitleBounded == Len(screen.osc) <= OscLimit

\* The fields of an extended colour are not taken for attributes.
ColourIsOnlyColour ==
    \A ps \in {<<38, 5, 1>>, <<38, 2, 1, 7, 1>>, <<48, 5, 7>>} :
        LET pen == Sgr(screen.pen, ps)
        IN  pen.bold = screen.pen.bold /\ pen.reverse = screen.pen.reverse

\* The lines outside the region stay where they are when the
\* region scrolls, and deleting a line loses no other line and no order.
Text(grid) == SelectSeq(grid, Inked)
LinesStay ==
    /\ \A t \in {Linefeed(screen), ReverseIndex(screen),
                 ScrollUp(screen, 1), ScrollDown(screen, 1)} :
        \A r \in 1..screen.rows :
            r - 1 \notin screen.top..screen.bottom => Grid(t)[r] = Grid(screen)[r]
    /\ RowAt(screen) <= screen.bottom =>
        Text(Grid(DeleteLines(screen, 1))) = Text(RemoveAt(Grid(screen), RowAt(screen) + 1))

\* What is read of the end of the screen is the end of its text, in order.
TailIsEnd == \A n \in 1..2 : IsSuffix(TailLines(screen, n), Text(Grid(screen)))

\* The grids, the region and the cursor fit each other after any bytes.
ScreenSafety ==
    /\ GridsFit /\ RegionFits /\ CursorOnScreen
    /\ TitleBounded /\ ColourIsOnlyColour
    /\ LinesStay /\ TailIsEnd

\* What a program draws on the other grid leaves the main one as it was.
MainIsKept ==
    [][screen.onAlt /\ screen'.onAlt /\ screen'.rows = screen.rows /\ screen'.cols = screen.cols
        => screen'.main = screen.main]_screenVars
=============================================================================
