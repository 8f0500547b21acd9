------------------------------ MODULE Console ------------------------------
(***************************************************************************)
(* The screen driver scrn.c and printk of util.c.  The buffer of printk,   *)
(* the cursor, the video memory and the cursor registers of the display    *)
(* are shared by two contexts without any lock: main prints with           *)
(* interrupts enabled, and the disk's interrupt routines print too.  The   *)
(* kernel is compiled without optimisation, so each read and each write of *)
(* a shared variable by main is a step; the handler runs while main stands *)
(* still, and its putch is one step.  A backspace is in no message of the  *)
(* kernel, and its branch of putch is left out.                            *)
(***************************************************************************)
EXTENDS Integers, Sequences

CONSTANTS WIDTH, HEIGHT,     \* 80 and 25
          TAB,               \* distance of tab stops: 8
          BUF,               \* bytes in the buffer of printk: 1024
          BYTE,              \* values of a cursor register: 256
          Printable,         \* characters from the blank on
          Texts,             \* what main prints: formatted messages
          HandlerTexts       \* what the interrupt routines print

Blank == " "
NUL == "NUL"
Control == {"HT", "CR", "LF"}
Char == Printable \cup Control \cup {NUL}

(* The screen and the row behind it, to which the cursor may get. *)
Rows == 0..HEIGHT
Cells == 0..((HEIGHT + 1) * WIDTH - 1)

ASSUME ScreenAssumption ==
    /\ WIDTH \in Nat /\ HEIGHT \in Nat /\ TAB \in Nat /\ BYTE \in Nat
    /\ WIDTH >= 2 /\ HEIGHT >= 2 /\ TAB >= 1 /\ BYTE >= 1
    /\ WIDTH % TAB = 0       \* the last tab stop is the edge
    /\ HEIGHT * WIDTH <= BYTE * BYTE

ASSUME TextAssumption ==
    /\ BUF \in Nat
    /\ Blank \in Printable /\ Printable \cap (Control \cup {NUL}) = {}
    /\ \A text \in Texts \cup HandlerTexts :
            /\ text \in Seq(Printable \cup Control)
            /\ Len(text) < BUF

VARIABLES buf,            \* static char buf[1024] of printk
          csr_x, csr_y,   \* the text cursor
          video,          \* the memory behind textmemptr
          crtc,           \* the display's cursor registers 14 and 15, and its index
          pc, at,         \* where main is in printk, and its locals
          handler,        \* the handler's place in its text, -1 when it does not print
          torn,           \* history: a handler has printed while main was printing
          output          \* history: the characters printed, until torn

screen == <<csr_x, csr_y, video, crtc>>
vars == <<buf, screen, pc, at, handler, torn, output>>

Idle == pc = "idle"

(* The locals of main: the text to format, the index i of puts, the        *)
(* character c, a value read from csr_x and csr_y, the rows to scroll, and *)
(* the index of the copying loop.                                          *)
NoLocals == [text |-> <<>>, i |-> 0, c |-> NUL, x |-> 0, y |-> 0, temp |-> 0, k |-> 0]

(* init_video after the boot: an empty screen. *)
Init ==
    /\ buf = [n \in 0..(BUF - 1) |-> NUL]
    /\ csr_x = 0 /\ csr_y = 0
    /\ video = [n \in Cells |-> Blank]
    /\ crtc = [index |-> 15, high |-> 0, low |-> 0]
    /\ pc = "idle" /\ at = NoLocals
    /\ handler = -1
    /\ torn = FALSE /\ output = <<>>

-----------------------------------------------------------------------------
(* printk in main: vsprintf writes the message to buf, then puts reads it. *)

(* The characters a printk shows, as long as nobody has been interrupted. *)
Record(text) == output' = IF torn' THEN <<>> ELSE output \o text

printk(text) ==
    /\ Idle /\ handler = -1
    /\ pc' = "format" /\ at' = [NoLocals EXCEPT !.text = text]
    /\ torn' = torn /\ Record(text)
    /\ UNCHANGED <<buf, screen, handler>>

(* A step of main inside printk. *)
Main(here, there) == /\ pc = here /\ pc' = there
                     /\ handler = -1
                     /\ UNCHANGED <<handler, torn, output>>

vsprintf ==
    LET n == at.k IN
    IF n < Len(at.text)
    THEN /\ Main("format", "format")
         /\ buf' = [buf EXCEPT ![n] = at.text[n + 1]]
         /\ at' = [at EXCEPT !.k = n + 1]
         /\ UNCHANGED screen
    ELSE /\ Main("format", "test")
         /\ buf' = [buf EXCEPT ![n] = NUL]
         /\ at' = [at EXCEPT !.k = 0]
         /\ UNCHANGED screen

(* text[i] != '\0': the loop reads the character, and again for putch. *)
puts_test ==
    /\ Main("test", IF buf[at.i] = NUL THEN "idle" ELSE "fetch")
    /\ at' = IF buf[at.i] = NUL THEN NoLocals ELSE at
    /\ UNCHANGED <<buf, screen>>

Branch(c) == CASE c \in Printable -> "where_y"
               [] c = "HT" -> "read_x"
               [] c \in {"CR", "LF"} -> "margin"
               [] OTHER -> "edge"

(* Changed: putch(text[i++]). *)
puts_fetch_post ==
    /\ Main("fetch", Branch(buf[at.i]))
    /\ at' = [at EXCEPT !.c = buf[at.i], !.i = at.i + 1]
    /\ UNCHANGED <<buf, screen>>

puts_fetch ==
    /\ Main("fetch", Branch(buf[at.i]))
    /\ at' = [at EXCEPT !.c = buf[at.i]]
    /\ UNCHANGED <<buf, screen>>

(* putch: where = textmemptr + (csr_y * 80 + csr_x); *where = c *)
putch_where_y ==
    /\ Main("where_y", "where_x")
    /\ at' = [at EXCEPT !.y = csr_y]
    /\ UNCHANGED <<buf, screen>>

putch_where_x ==
    /\ Main("where_x", "put")
    /\ at' = [at EXCEPT !.x = csr_x]
    /\ UNCHANGED <<buf, screen>>

Where == at.y * WIDTH + at.x

putch_put ==
    /\ Main("put", "read_x")
    /\ video' = [video EXCEPT ![Where] = at.c]
    /\ UNCHANGED <<buf, csr_x, csr_y, crtc, at>>

(* csr_x++ and (csr_x + 8) & ~7: read, then write. *)
putch_read_x ==
    /\ Main("read_x", "write_x")
    /\ at' = [at EXCEPT !.x = csr_x]
    /\ UNCHANGED <<buf, screen>>

TabStop(x) == ((x + TAB) \div TAB) * TAB

putch_write_x ==
    /\ Main("write_x", "edge")
    /\ csr_x' = IF at.c = "HT" THEN TabStop(at.x) ELSE at.x + 1
    /\ UNCHANGED <<buf, csr_y, video, crtc, at>>

(* csr_x = 0, for a carriage return and, before csr_y++, for a newline. *)
putch_margin ==
    /\ Main("margin", IF at.c = "LF" THEN "read_y" ELSE "edge")
    /\ csr_x' = 0
    /\ UNCHANGED <<buf, csr_y, video, crtc, at>>

(* Changed: the edge is tested with >. *)
putch_edge_late ==
    /\ Main("edge", IF csr_x > WIDTH THEN "wrap" ELSE "scroll")
    /\ UNCHANGED <<buf, screen, at>>

(* if(csr_x >= 80) { csr_x = 0; csr_y++; } *)
putch_edge ==
    /\ Main("edge", IF csr_x >= WIDTH THEN "wrap" ELSE "scroll")
    /\ UNCHANGED <<buf, screen, at>>

putch_wrap ==
    /\ Main("wrap", "wrap_y")
    /\ csr_x' = 0
    /\ UNCHANGED <<buf, csr_y, video, crtc, at>>

(* csr_y++, at the two places. *)
putch_read_y ==
    /\ \/ Main("read_y", "write_y")
       \/ Main("wrap_y", "wrap_write_y")
    /\ at' = [at EXCEPT !.y = csr_y]
    /\ UNCHANGED <<buf, screen>>

putch_write_y ==
    /\ \/ Main("write_y", "edge")
       \/ Main("wrap_write_y", "scroll")
    /\ csr_y' = at.y + 1
    /\ UNCHANGED <<buf, csr_x, video, crtc, at>>

-----------------------------------------------------------------------------
(* scroll and move_csr in main. *)

(* Changed: the end is tested with >. *)
scroll_test_late ==
    /\ Main("scroll", IF csr_y > HEIGHT THEN "temp" ELSE "csr_y")
    /\ UNCHANGED <<buf, screen, at>>

scroll_test ==
    /\ Main("scroll", IF csr_y >= HEIGHT THEN "temp" ELSE "csr_y")
    /\ UNCHANGED <<buf, screen, at>>

scroll_temp ==
    /\ Main("temp", "copy")
    /\ at' = [at EXCEPT !.temp = csr_y - HEIGHT + 1, !.k = 0]
    /\ UNCHANGED <<buf, screen>>

(* memcpy and memsetw, cell by cell. *)
Copied == (HEIGHT - at.temp) * WIDTH

(* Changed: the last line is not cleared. *)
scroll_copy_only ==
    IF at.k < Copied
    THEN /\ Main("copy", "copy")
         /\ video' = [video EXCEPT ![at.k] = video[at.k + at.temp * WIDTH]]
         /\ at' = [at EXCEPT !.k = at.k + 1]
         /\ UNCHANGED <<buf, csr_x, csr_y, crtc>>
    ELSE /\ Main("copy", "csr_y")
         /\ csr_y' = HEIGHT - 1
         /\ UNCHANGED <<buf, csr_x, video, crtc, at>>

scroll_copy ==
    IF at.k < Copied + WIDTH
    THEN /\ Main("copy", "copy")
         /\ video' = [video EXCEPT ![at.k] = IF at.k < Copied
                                             THEN video[at.k + at.temp * WIDTH]
                                             ELSE Blank]
         /\ at' = [at EXCEPT !.k = at.k + 1]
         /\ UNCHANGED <<buf, csr_x, csr_y, crtc>>
    ELSE /\ Main("copy", "csr_y")
         /\ csr_y' = HEIGHT - 1
         /\ UNCHANGED <<buf, csr_x, video, crtc, at>>

move_csr_y ==
    /\ Main("csr_y", "csr_x")
    /\ at' = [at EXCEPT !.y = csr_y]
    /\ UNCHANGED <<buf, screen>>

move_csr_x ==
    /\ Main("csr_x", "index_high")
    /\ at' = [at EXCEPT !.x = csr_x]
    /\ UNCHANGED <<buf, screen>>

(* outb to 0x3D4 selects a register, outb to 0x3D5 writes it. *)
Select(index) == crtc' = [crtc EXCEPT !.index = index]
WriteRegister(v) == crtc' = IF crtc.index = 14 THEN [crtc EXCEPT !.high = v % BYTE]
                                               ELSE [crtc EXCEPT !.low = v % BYTE]

move_csr_select ==
    /\ \/ Main("index_high", "high") /\ Select(14)
       \/ Main("index_low", "low") /\ Select(15)
    /\ UNCHANGED <<buf, csr_x, csr_y, video, at>>

move_csr_high ==
    /\ Main("high", "index_low")
    /\ WriteRegister(Where \div BYTE)
    /\ UNCHANGED <<buf, csr_x, csr_y, video, at>>

(* Changed: i++ is missing. *)
move_csr_low_again ==
    /\ Main("low", "test")
    /\ WriteRegister(Where)
    /\ UNCHANGED <<buf, csr_x, csr_y, video, at>>

(* The last step of putch, and i++ of puts. *)
move_csr_low ==
    /\ Main("low", "test")
    /\ WriteRegister(Where)
    /\ at' = [at EXCEPT !.i = at.i + 1]
    /\ UNCHANGED <<buf, csr_x, csr_y, video>>

MainStep ==
    \/ vsprintf \/ puts_test \/ puts_fetch
    \/ putch_where_y \/ putch_where_x \/ putch_put
    \/ putch_read_x \/ putch_write_x \/ putch_margin
    \/ putch_edge \/ putch_wrap \/ putch_read_y \/ putch_write_y
    \/ scroll_test \/ scroll_temp \/ scroll_copy
    \/ move_csr_y \/ move_csr_x \/ move_csr_select \/ move_csr_high \/ move_csr_low

-----------------------------------------------------------------------------
(* printk in the handler, which nobody interrupts: vsprintf in one step,   *)
(* then putch for each character.                                          *)

handler_printk(text) ==
    /\ handler = -1
    /\ handler' = 0
    /\ buf' = [n \in 0..(BUF - 1) |-> IF n < Len(text) THEN text[n + 1]
                                      ELSE IF n = Len(text) THEN NUL ELSE buf[n]]
    /\ torn' = (torn \/ ~Idle) /\ Record(text)
    /\ UNCHANGED <<screen, pc, at>>

(* The cursor after a character, before and after the edge is checked. *)
Column(c) == CASE c \in Printable -> csr_x + 1
               [] c = "HT" -> TabStop(csr_x)
               [] c \in {"CR", "LF"} -> 0
               [] OTHER -> csr_x
Line(c) == csr_y + (IF c = "LF" THEN 1 ELSE 0) + (IF Column(c) >= WIDTH THEN 1 ELSE 0)

Written(c) == IF c \in Printable THEN [video EXCEPT ![csr_y * WIDTH + csr_x] = c] ELSE video

(* The memory v after scroll has moved it up by temp rows. *)
Scrolled(v, temp) ==
    [n \in Cells |-> IF n < (HEIGHT - temp) * WIDTH THEN v[n + temp * WIDTH]
                     ELSE IF n < (HEIGHT - temp + 1) * WIDTH THEN Blank ELSE v[n]]

putch(c) ==
    /\ csr_x' = IF Column(c) >= WIDTH THEN 0 ELSE Column(c)
    /\ csr_y' = IF Line(c) >= HEIGHT THEN HEIGHT - 1 ELSE Line(c)
    /\ video' = IF Line(c) >= HEIGHT THEN Scrolled(Written(c), Line(c) - HEIGHT + 1)
                                     ELSE Written(c)
    /\ crtc' = [index |-> 15, high |-> ((csr_y' * WIDTH + csr_x') \div BYTE) % BYTE,
                low |-> (csr_y' * WIDTH + csr_x') % BYTE]

handler_puts ==
    /\ handler >= 0
    /\ IF buf[handler] = NUL
       THEN handler' = -1 /\ UNCHANGED screen
       ELSE handler' = handler + 1 /\ putch(buf[handler])
    /\ UNCHANGED <<buf, pc, at, torn, output>>

-----------------------------------------------------------------------------
Next ==
    \/ \E text \in Texts : printk(text)
    \/ MainStep
    \/ \E text \in HandlerTexts : handler_printk(text)
    \/ handler_puts

Spec == Init /\ [][Next]_vars

Stages == {"idle", "format", "test", "fetch", "where_y", "where_x", "put", "read_x",
           "write_x", "margin", "edge", "wrap", "read_y", "write_y", "wrap_y",
           "wrap_write_y", "scroll", "temp", "copy", "csr_y", "csr_x", "index_high",
           "high", "index_low", "low"}

(* scrn.c, util.c: the types of the variables.  Behind a newline or the    *)
(* edge, the cursor may be one row or one column past the screen.          *)
TypeOK ==
    /\ buf \in [0..(BUF - 1) -> Char]
    /\ csr_x \in 0..WIDTH /\ csr_y \in 0..HEIGHT
    /\ video \in [Cells -> Printable]
    /\ crtc \in [index : {14, 15}, high : 0..(BYTE - 1), low : 0..(BYTE - 1)]
    /\ pc \in Stages
    /\ at \in [text : Seq(Char), i : 0..BUF, c : Char, x : 0..WIDTH, y : 0..HEIGHT,
               temp : 0..2, k : Nat]
    /\ handler \in -1..(BUF - 1)
    /\ torn \in BOOLEAN /\ output \in Seq(Char)

(* util.c:298: buf is one array for both contexts.  However often a        *)
(* message of the handler replaces what main is reading, puts meets an end *)
(* of the string before it reads behind the array.                         *)
EndFrom(i) == \E n \in i..(BUF - 1) : buf[n] = NUL
FindsEnd ==
    /\ pc \notin {"idle", "format"} => EndFrom(IF pc = "test" THEN at.i ELSE at.i + 1)
    /\ handler >= 0 => EndFrom(handler)

(* scrn.c:142, 29, 33: although csr_x and csr_y change between the tests   *)
(* and the stores, no store lies behind the row after the screen, and      *)
(* scroll never moves the screen by more than two rows.                    *)
StaysInVideo ==
    /\ pc = "put" => Where \in Cells
    /\ pc = "copy" => /\ at.temp \in 0..2
                      /\ at.k < Copied => at.k + at.temp * WIDTH \in Cells
                      /\ at.k < Copied + WIDTH => at.k \in Cells
    /\ handler >= 0 => /\ buf[handler] \in Printable => csr_y * WIDTH + csr_x \in Cells
                       /\ Line(buf[handler]) - HEIGHT + 1 <= 2

(* scrn.c:147: when nobody prints, the cursor is on the screen, whatever   *)
(* updates of it were lost before.                                         *)
CursorOnScreen == Idle /\ handler = -1 => csr_x < WIDTH /\ csr_y < HEIGHT

(* The same output on endless paper: the cursor after n characters.        *)
Advance(p, c) ==
    LET col == CASE c \in Printable -> p.col + 1
                 [] c = "HT" -> TabStop(p.col)
                 [] OTHER -> 0
        row == IF c = "LF" THEN p.row + 1 ELSE p.row
    IN  IF col = WIDTH THEN [row |-> row + 1, col |-> 0] ELSE [row |-> row, col |-> col]

Position ==
    LET after[n \in 0..Len(output)] ==
            IF n = 0 THEN [row |-> 0, col |-> 0] ELSE Advance(after[n - 1], output[n])
    IN  after

(* What is on the paper at a place: the last character printed there.      *)
OnPaper(row, col) ==
    LET there == {n \in 1..Len(output) : /\ output[n] \in Printable
                                         /\ Position[n - 1] = [row |-> row, col |-> col]}
    IN  IF there = {} THEN Blank
        ELSE output[CHOOSE n \in there : \A m \in there : m <= n]

(* scrn.c:15-160: as long as no handler has printed while main was         *)
(* printing, the screen is the bottom of the paper, and the blinking       *)
(* cursor where the next character goes.                                   *)
ShowsOutput ==
    Idle /\ handler = -1 /\ ~torn =>
        LET cursor == Position[Len(output)]
            above == IF cursor.row < HEIGHT THEN 0 ELSE cursor.row - HEIGHT + 1
        IN  /\ csr_x = cursor.col /\ csr_y + above = cursor.row
            /\ output # <<>> => crtc.high * BYTE + crtc.low = csr_y * WIDTH + csr_x
            /\ \A row \in 0..(HEIGHT - 1), col \in 0..(WIDTH - 1) :
                    video[row * WIDTH + col] = OnPaper(row + above, col)

(* Every printk of main comes to an end, although the text it reads may be *)
(* replaced meanwhile.                                                     *)
PrintEnds == ~Idle ~> Idle

=============================================================================
