------------------------------ MODULE Console ------------------------------
(***************************************************************************)
(* kprintf: a call formats its arguments into a static buffer (vsnprintf,  *)
(* i_to_nstr and u_to_nstr of libc/stdarg.c), then prints the buffer one   *)
(* character at a time, moving the cursor and scrolling the screen         *)
(* (memmove and memset of libc/string.c).                                  *)
(*                                                                         *)
(* A format is a sequence of items: a character of its own or a conversion *)
(* with its argument.  Cells of the screen are characters, without their   *)
(* attribute byte.                                                         *)
(***************************************************************************)
EXTENDS Integers, Sequences, SequencesExt

CONSTANTS Rows, Columns,  \* of the screen: 25 and 80
          TabWidth,       \* of a horizontal tab: 4
          BufSize,        \* n, the size of the buffer: 1024
          Memory,         \* bytes modelled from the start of the buffer
          Word,           \* number of values of size_t and uint32_t: 2^32
          Chars,          \* the values of a byte
          Formats,        \* what clients print
          MaxCalls        \* bound on the calls of kprintf

ASSUME SizesAssumption ==
    /\ Rows \in Nat \ {0} /\ Columns \in Nat \ {0} /\ TabWidth \in Nat /\ MaxCalls \in Nat
    /\ BufSize \in Nat \ {0} /\ Memory \in Nat /\ BufSize <= Memory
    /\ Word \in Nat /\ BufSize < Word

VARIABLES
    memory,        \* the buffer, and the bytes that follow it
    screen,        \* the cells, row after row
    line, column,  \* the static variables of kprintf
    items,         \* the format of the last call
    index,         \* i, the character of the buffer to print next; -1 between calls
    calls,         \* calls so far
    paper          \* every row ever printed, as if nothing scrolled away

vars == <<memory, screen, line, column, items, index, calls, paper>>

NUL == "NUL"

\* The items of a format.  A conversion that vsnprintf does not know prints
\* nothing, as an empty text does.
Literal(c)            == [kind |-> "char", size |-> 1, char |-> c]
CharArg(c)            == [kind |-> "char", size |-> 2, char |-> c]      \* %c %%
TextArg(s)            == [kind |-> "text", size |-> 2, text |-> s]      \* %s
UnsignedArg(v, base)  == [kind |-> "unsigned", size |-> 2, value |-> v, base |-> base]  \* %b %u %p
IntArg(v, base)       == [kind |-> "int", size |-> 2, value |-> v, base |-> base]       \* %d %o %x

Bases == {2, 8, 10, 16}

\* A format and a text end at their first NUL; %c may print one.
FormatItems ==
    [kind : {"char"}, size : {1}, char : Chars \ {NUL}]
      \cup [kind : {"char"}, size : {2}, char : Chars]
      \cup [kind : {"text"}, size : {2}, text : Seq(Chars \ {NUL})]
      \cup [kind : {"unsigned"}, size : {2}, value : 0..(Word - 1), base : Bases]
      \cup [kind : {"int"}, size : {2}, value : (-(Word \div 2))..(Word \div 2 - 1), base : Bases]

ASSUME CharsAssumption ==
    /\ {NUL, "cr", "nl", "tab", "bs", "-", "b", "x", "boot", "beyond"} \subseteq Chars
    /\ {"0", "1", "2", "3", "4", "5", "6", "7"} \subseteq Chars
    /\ {"8", "9", "A", "B", "C", "D", "E", "F"} \subseteq Chars

ASSUME FormatsAssumption == \A f \in Formats : f \in Seq(FormatItems)

----------------------------------------------------------------------------
(***************************************************************************)
(* Numbers.  A conversion yields the memory it leaves and the width of     *)
(* what it wrote.                                                          *)
(***************************************************************************)
Digits == <<"0", "1", "2", "3", "4", "5", "6", "7", "8", "9", "A", "B", "C", "D", "E", "F">>

Prefix(base) == CASE base = 2 -> <<"0", "b">> [] base = 16 -> <<"0", "x">> [] OTHER -> <<>>

\* The characters s stored from byte b on.
Write(mem, b, s) ==
    [x \in DOMAIN mem |-> IF x - b \in 0..(Len(s) - 1) THEN s[x - b + 1] ELSE mem[x]]

\* value, divided by the base once, twice, ...
Quotients(value, base, n) ==
    LET left[k \in 0..n] == IF k = 0 THEN value ELSE left[k - 1] \div base IN left

\* The do-while loop: digits from the lowest up, until nothing is left of the
\* value or the room is used up.
LowFirst(value, base, room) ==
    LET left  == Quotients(value, base, room)
        count == Min({k \in 1..room : k = room \/ left[k] = 0})
    IN  [digits |-> [k \in 1..count |-> Digits[(left[k - 1] % base) + 1]],
         left   |-> left[count]]

\* Mutant of Reversed: the prefix is turned round as well.
ReversedAll(s, j) == Reverse(s)

\* The digits put in order, behind a prefix of length j.
Reversed(s, j) == SubSeq(s, 1, j) \o Reverse(SubSeq(s, j + 1, Len(s)))

UToNstr(mem, b, value, n, base) ==
    LET j      == Len(Prefix(base))
        number == LowFirst(value, base, n - j)
        digits == number.digits
    IN  IF n = 0 THEN [mem |-> mem, width |-> 0]
        ELSE IF j > 0 /\ n <= 2 THEN [mem |-> Write(mem, b, <<NUL>>), width |-> 0]
        ELSE IF number.left = 0
             THEN [mem |-> Write(mem, b, Reversed(Prefix(base) \o digits, j) \o <<NUL>>),
                   width |-> j + Len(digits)]
             ELSE [mem |-> Write(Write(mem, b, Prefix(base) \o digits), b, <<NUL>>),
                   width |-> 0]

IToNstr(mem, b, value, n, base) ==
    LET r == UToNstr(mem, b + 1, (-value) % Word, (n - 1) % Word, base)
    IN  IF value >= 0 THEN UToNstr(mem, b, value, n, base)
        ELSE IF r.width > 0 THEN [mem |-> Write(r.mem, b, <<"-">>), width |-> r.width + 1]
        ELSE r

----------------------------------------------------------------------------
(***************************************************************************)
(* vsnprintf: i characters of the format are read, j bytes written.  The   *)
(* loop watches i only, the conversions are told what room j leaves.       *)
(***************************************************************************)
\* Mutant of StringRoom: no room is left for the terminator.
StringRoomOneMore(j) == (BufSize - j) % Word

\* n-j-1, where a text stops.
StringRoom(j) == (BufSize - j - 1) % Word

PutItem(r, item) ==
    LET number == CASE item.kind = "int" ->
                         IToNstr(r.mem, r.j, item.value, (BufSize - r.j) % Word, item.base)
                    [] item.kind = "unsigned" ->
                         UToNstr(r.mem, r.j, item.value, (BufSize - r.j) % Word, item.base)
        chars  == CASE item.kind = "char" -> <<item.char>>
                    [] item.kind = "text" ->
                         SubSeq(item.text, 1, Min({Len(item.text), StringRoom(r.j)}))
    IN  IF r.i + item.size > BufSize - 1 THEN [r EXCEPT !.i = BufSize - 1]
        ELSE IF item.kind \in {"int", "unsigned"}
             THEN [mem |-> number.mem, i |-> r.i + item.size, j |-> r.j + number.width]
             ELSE [mem |-> Write(r.mem, r.j, chars), i |-> r.i + item.size,
                   j |-> r.j + Len(chars)]

\* Where the loop stands after each item.
Formatted(mem, format) ==
    LET r[k \in 0..Len(format)] == IF k = 0 THEN [mem |-> mem, i |-> 0, j |-> 0]
                                   ELSE PutItem(r[k - 1], format[k])
    IN  r

Vsnprintf(mem, format) ==
    LET r == Formatted(mem, format)[Len(format)] IN Write(r.mem, r.j, <<NUL>>)

----------------------------------------------------------------------------
(***************************************************************************)
(* The screen.                                                             *)
(***************************************************************************)
\* Mutant of CopyOrder: the directions are swapped.
CopyOrderSwapped(dest, src, num) ==
    IF src < dest THEN [k \in 1..num |-> k - 1] ELSE [k \in 1..num |-> num - k]

\* The order in which memmove copies num cells: it depends on which of the
\* buffers comes first, since they may overlap.
CopyOrder(dest, src, num) ==
    IF src >= dest THEN [k \in 1..num |-> k - 1] ELSE [k \in 1..num |-> num - k]

CopyCell(cells, to, from) == [cells EXCEPT ![to] = cells[from]]

\* The cells after each copy.
Copies(cells, dest, src, num) ==
    LET at == CopyOrder(dest, src, num)
        s[k \in 0..num] == IF k = 0 THEN cells
                           ELSE CopyCell(s[k - 1], dest + at[k], src + at[k])
    IN  s

Memmove(cells, dest, src, num) == Copies(cells, dest, src, num)[num]

Memset(cells, dest, num) ==
    [x \in DOMAIN cells |-> IF x - dest \in 0..(num - 1) THEN NUL ELSE cells[x]]

\* The last rows move up by one, the bottom row is cleared.
ScrolledUp(cells) ==
    Memset(Memmove(cells, 0, Columns, Columns * (Rows - 1)), Columns * (Rows - 1), Columns)

\* Mutant of OffScreen: the last row is counted from 1.
OffScreenLate(l) == l > Rows

OffScreen(l) == l > Rows - 1

Escapes == {"cr", "nl", "tab", "bs"}

ColumnAfter(c) ==
    CASE c \in {"cr", "nl"} -> 0
      [] c = "tab" -> column + TabWidth
      [] c = "bs"  -> IF column > 0 THEN column - 1 ELSE 0
      [] OTHER     -> column + 1

----------------------------------------------------------------------------
BlankRow(c) == [x \in 0..(Columns - 1) |-> c]

Init ==
    /\ memory = [b \in 0..(Memory - 1) |-> IF b < BufSize THEN NUL ELSE "beyond"]
    /\ screen = [x \in 0..(Rows * Columns - 1) |-> "boot"]
    /\ line = 0 /\ column = 0
    /\ items = <<>> /\ index = -1 /\ calls = 0
    /\ paper = [r \in 1..Rows |-> BlankRow("boot")]

\* kprintf formats.
Kprintf(format) ==
    /\ index = -1 /\ calls < MaxCalls
    /\ memory' = Vsnprintf(memory, format)
    /\ items' = format /\ index' = 0 /\ calls' = calls + 1
    /\ UNCHANGED <<screen, line, column, paper>>

\* The paper after c is printed on the line of the cursor; a new row when the
\* cursor leaves the screen.
PaperAfter(c, l) ==
    LET row     == Len(paper) - Rows + line + 1
        written == IF c \in Escapes THEN paper ELSE [paper EXCEPT ![row][column] = c]
    IN  IF l > Rows - 1 THEN Append(written, BlankRow(NUL)) ELSE written

\* One iteration of the loop that prints.
PrintChar ==
    LET c   == memory[index]
        col == ColumnAfter(c)
        l   == line + (IF c = "nl" THEN 1 ELSE 0) + (IF col > Columns - 1 THEN 1 ELSE 0)
        written == IF c \in Escapes THEN screen
                   ELSE [screen EXCEPT ![Columns * line + column] = c]
    IN  /\ index >= 0 /\ c # NUL
        /\ index' = index + 1
        /\ column' = col % Columns
        /\ line' = IF OffScreen(l) THEN Rows - 1 ELSE l
        /\ screen' = IF OffScreen(l) THEN ScrolledUp(written) ELSE written
        /\ paper' = PaperAfter(c, l)
        /\ UNCHANGED <<memory, items, calls>>

KprintfReturns ==
    /\ index >= 0 /\ memory[index] = NUL
    /\ index' = -1
    /\ UNCHANGED <<memory, screen, line, column, items, calls, paper>>

----------------------------------------------------------------------------
(***************************************************************************)
(* What a call should print.                                               *)
(***************************************************************************)
\* The digits of the numbers up to n, from the highest down.
HighFirst(n, base) ==
    LET high[v \in 0..n] == IF v < base THEN <<Digits[v + 1]>>
                            ELSE Append(high[v \div base], Digits[(v % base) + 1])
    IN  high

\* The numeral of a number.
Numeral(item) ==
    LET abs == IF item.value < 0 THEN -item.value ELSE item.value
    IN  (IF item.value < 0 THEN <<"-">> ELSE <<>>)
          \o (Prefix(item.base) \o HighFirst(abs, item.base)[abs])

IsNumber(item) == item.kind \in {"int", "unsigned"}

\* The text of an item; a number stands whole or not at all, the rest is cut
\* at the end of the buffer.
WithItem(text, item) ==
    LET whole == text \o (CASE item.kind = "char" -> <<item.char>>
                            [] item.kind = "text" -> item.text
                            [] OTHER -> Numeral(item))
    IN  IF IsNumber(item)
        THEN IF Len(whole) < BufSize THEN whole ELSE text
        ELSE SubSeq(whole, 1, Min({Len(whole), BufSize - 1}))

\* The items of a format are read that end within n-1 characters.
SayItem(s, item) ==
    IF s.read + item.size > BufSize - 1 THEN [s EXCEPT !.read = BufSize - 1]
    ELSE [read |-> s.read + item.size, text |-> WithItem(s.text, item)]

\* What a format says after each of its items.
Said(format) ==
    LET s[k \in 0..Len(format)] == IF k = 0 THEN [read |-> 0, text |-> <<>>]
                                   ELSE SayItem(s[k - 1], format[k])
    IN  s

TextOf(format) == Said(format)[Len(format)].text

\* Formats that the code handles: no number just fills the buffer, and no
\* character comes after a full one.
HandledAfter(s, item) ==
    s.read + item.size <= BufSize - 1 =>
        /\ IsNumber(item) => Len(s.text) + Len(Numeral(item)) # BufSize
        /\ item.kind = "char" => Len(s.text) < BufSize - 1

Handled(format) == \A k \in DOMAIN format : HandledAfter(Said(format)[k - 1], format[k])

\* What was written past the buffer is not kprintf's to print: the variables
\* there, its cursor for one, are lost.  The model shows the memory after such
\* a call and goes no further.
Next == \/ \E f \in Formats : Kprintf(f)
        \/ Handled(items) /\ (PrintChar \/ KprintfReturns)
Spec == Init /\ [][Next]_vars

----------------------------------------------------------------------------
(* Properties. *)

\* The state is well typed; the cursor of kprintf never leaves the screen.
TypeOK ==
    /\ memory \in [0..(Memory - 1) -> Chars]
    /\ screen \in [0..(Rows * Columns - 1) -> Chars]
    /\ line \in 0..(Rows - 1) /\ column \in 0..(Columns - 1)
    /\ index \in -1..(Memory - 1) /\ calls \in 0..MaxCalls
    /\ items \in Formats \cup {<<>>}
    /\ paper \in Seq([0..(Columns - 1) -> Chars])

\* kprintf: however lines wrap and scroll, the screen shows the last rows of
\* all that was printed, and nothing twice.
ScreenShowsEnd ==
    \A r \in 0..(Rows - 1), c \in 0..(Columns - 1) :
        screen[Columns * r + c] = paper[Len(paper) - Rows + 1 + r][c]

\* vsnprintf: while a call that the code handles prints, the buffer holds its
\* text, each number whole or left out, cut at n-1 characters and terminated,
\* whatever earlier calls left there.
BufferHoldsText ==
    LET text == TextOf(items) IN
    index >= 0 /\ Handled(items) =>
        /\ \A k \in DOMAIN text : memory[k - 1] = text[k]
        /\ memory[Len(text)] = NUL

NothingPastBuffer == \A b \in BufSize..(Memory - 1) : memory[b] = "beyond"

Overran == index >= 0 /\ ~Handled(items)

\* vsnprintf: which calls write past the buffer, and which do not.  They are
\* the formats with a character after a full text, which nothing stops at n,
\* and those with a number exactly as wide as the room left, whose terminator
\* is one byte too far; what follows then finds a room that wrapped around.
\* No other format does, and none of these stays inside.
OverrunsExactly == NothingPastBuffer <=> ~Overran

\* The loop that prints meets the end of the text before that of the buffer, and
\* the paper is never shorter than the screen.
ConsoleInv ==
    /\ TypeOK /\ ScreenShowsEnd /\ BufferHoldsText
    /\ ~Overran => NothingPastBuffer
    /\ Len(paper) >= Rows
    /\ index >= 0 /\ Handled(items) =>
          /\ TextOf(items) \in Seq(Chars)
          /\ index <= Len(TextOf(items)) /\ Len(TextOf(items)) < BufSize

\* u_to_nstr: a number that "would be longer than n-1 characters" leaves only
\* the character NUL.
LongNumberDropped ==
    (index >= 0 /\ Len(items) = 1) =>
        (IsNumber(items[1]) /\ Len(Numeral(items[1])) > BufSize - 1 => memory[0] = NUL)
=============================================================================
