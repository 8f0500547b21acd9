---------------------------- MODULE ConsoleProof ----------------------------
(***************************************************************************)
(* Proofs about Console for every size of the screen and of printk's       *)
(* buffer, and for any messages that fit into the buffer: first that its   *)
(* stores stay within memory, then that the screen shows what was printed. *)
(***************************************************************************)
EXTENDS Console, LeastNumber

(* Where the cursor may be off the screen: one column too far between the  *)
(* store of csr_x and the test of the edge, one row too far until scroll   *)
(* has set csr_y, and never both.                                          *)
CursorOK ==
    /\ csr_x = WIDTH => pc \in {"edge", "wrap"}
    /\ csr_y = HEIGHT => pc \in {"edge", "scroll", "temp", "copy"}
    /\ csr_x < WIDTH \/ csr_y < HEIGHT
    /\ pc = "temp" => csr_y >= HEIGHT - 1

(* What main has read and not yet used. *)
LocalsOK ==
    /\ pc = "format" => at.text \in Texts /\ at.k <= Len(at.text) /\ at.i = 0
    /\ pc \in {"where_y", "where_x", "put"} => at.c \in Printable
    /\ pc \in {"where_x", "put", "write_y", "wrap_write_y"} => at.y < HEIGHT
    /\ pc \in {"put", "write_x"} => at.x < WIDTH
    /\ pc = "copy" => at.temp \in 0..1

IInv == TypeOK /\ FindsEnd /\ CursorOK /\ LocalsOK

-----------------------------------------------------------------------------
(* Arithmetic of rows, columns and tab stops. *)

LEMMA Sizes ==
    /\ WIDTH \in Nat /\ HEIGHT \in Nat /\ TAB \in Nat /\ BYTE \in Nat /\ BUF \in Nat
    /\ WIDTH >= 2 /\ HEIGHT >= 2 /\ TAB >= 1 /\ BYTE >= 1
    /\ WIDTH % TAB = 0
BY ScreenAssumption, TextAssumption

LEMMA Order ==
    ASSUME NEW a \in Nat, NEW b \in Nat, NEW n \in Nat, a <= b
    PROVE  a * n <= b * n /\ a * n \in Nat
  <1>1. PICK d \in Nat : b = a + d
    <2>1. b - a \in Nat /\ b = a + (b - a)
      OBVIOUS
    <2> QED BY <2>1
  <1>2. (a + d) * n = a * n + d * n
    OBVIOUS
  <1>3. d * n \in Nat /\ a * n \in Nat
    OBVIOUS
  <1> QED BY <1>1, <1>2, <1>3

LEMMA Division ==
    ASSUME NEW b \in Nat, NEW n \in Nat \ {0}
    PROVE  /\ b \div n \in Nat /\ b % n \in 0..(n - 1)
           /\ b = n * (b \div n) + (b % n)
OBVIOUS

(* A cell of the screen or of the row behind it. *)
LEMMA CellOf ==
    ASSUME NEW y \in 0..HEIGHT, NEW x \in 0..WIDTH, y < HEIGHT \/ x < WIDTH
    PROVE  y * WIDTH + x \in Cells
  <1>1. y * WIDTH \in Nat /\ HEIGHT * WIDTH \in Nat
    BY Sizes, Order
  <1>2. (HEIGHT + 1) * WIDTH = HEIGHT * WIDTH + WIDTH
    BY Sizes
  <1>3. CASE x < WIDTH
    <2>1. y * WIDTH <= HEIGHT * WIDTH
      BY Sizes, Order
    <2> QED BY <1>1, <1>2, <1>3, <2>1, Sizes DEF Cells
  <1>4. CASE y < HEIGHT
    <2>1. (y + 1) * WIDTH <= HEIGHT * WIDTH
      BY <1>4, Sizes, Order
    <2>2. (y + 1) * WIDTH = y * WIDTH + WIDTH
      BY Sizes
    <2> QED BY <1>1, <1>2, <2>1, <2>2, Sizes DEF Cells
  <1> QED BY <1>3, <1>4

(* A tab does not pass the edge. *)
LEMMA TabStopInRow ==
    ASSUME NEW x \in 0..WIDTH
    PROVE  /\ TabStop(x) \in Nat
           /\ x < WIDTH => TabStop(x) <= WIDTH
           /\ x = WIDTH => TabStop(x) >= WIDTH
  <1> DEFINE q == (x + TAB) \div TAB
  <1> DEFINE w == WIDTH \div TAB
  <1>1. q \in Nat /\ (x + TAB) % TAB \in 0..(TAB - 1) /\ x + TAB = TAB * q + ((x + TAB) % TAB)
    <2>1. x + TAB \in Nat /\ TAB \in Nat \ {0}
      BY Sizes
    <2> QED BY <2>1, Division
  <1>2. w \in Nat /\ WIDTH = TAB * w
    BY Sizes, Division
  <1>3. q * TAB \in Nat /\ q * TAB <= x + TAB /\ x < q * TAB
    <2> HIDE DEF q
    <2>1. TAB * q = q * TAB
      BY <1>1, Sizes
    <2>2. q * TAB \in Nat
      BY <1>1, Sizes, Order
    <2> QED BY <1>1, <2>1, <2>2, Sizes
  <1>4. x < WIDTH => q * TAB <= WIDTH
    <2> HIDE DEF q, w
    <2>1. SUFFICES ASSUME x < WIDTH, w + 1 <= q PROVE FALSE
      <3>1. SUFFICES ASSUME q <= w, x < WIDTH PROVE q * TAB <= WIDTH
        BY <1>1, <1>2
      <3>2. q * TAB <= w * TAB
        BY <1>1, <1>2, <3>1, Sizes, Order
      <3>3. w * TAB = WIDTH
        BY <1>2, Sizes
      <3> QED BY <3>2, <3>3
    <2>2. (w + 1) * TAB <= q * TAB
      BY <1>1, <1>2, <2>1, Sizes, Order
    <2>3. (w + 1) * TAB = WIDTH + TAB
      BY <1>2, Sizes
    <2> QED BY <1>3, <2>1, <2>2, <2>3, Sizes
  <1> QED BY <1>3, <1>4 DEF TabStop

-----------------------------------------------------------------------------
(* Steps of main. *)

Locals == [text : Seq(Char), i : 0..BUF, c : Char, x : 0..WIDTH, y : 0..HEIGHT,
           temp : 0..2, k : Nat]

LEMMA NoLocalsType == NoLocals \in Locals
BY Sizes, TextAssumption DEF NoLocals, Locals, Char

LEMMA TextType ==
    ASSUME NEW text \in Texts \cup HandlerTexts
    PROVE  /\ text \in Seq(Char) /\ Len(text) \in Nat /\ Len(text) < BUF
           /\ \A n \in 1..Len(text) : text[n] \in Printable \cup Control
           /\ NUL \notin Printable \cup Control
BY TextAssumption DEF Char, NUL, Control

LEMMA InitInv == Init => IInv
  <1> SUFFICES ASSUME Init PROVE IInv
    OBVIOUS
  <1>1. TypeOK
    <2>2. at \in Locals
      BY NoLocalsType DEF Init
    <2>3. torn \in BOOLEAN
      BY Zenon DEF Init
    <2>4. output \in Seq(Char)
      BY SMT DEF Init
    <2>1. video \in [Cells -> Printable] /\ Blank \in Printable
      BY TextAssumption DEF Init
    <2> QED BY <2>1, <2>2, <2>3, <2>4, Sizes DEF Init, TypeOK, Locals, Stages, Char
  <1> QED BY <1>1, Sizes DEF Init, IInv, FindsEnd, CursorOK, LocalsOK

LEMMA Reads ==
    ASSUME IInv,
           \/ putch_where_y \/ putch_where_x \/ putch_read_x \/ putch_read_y
           \/ move_csr_y \/ move_csr_x
    PROVE  IInv'
  <1> DEFINE loaded == \/ \E v \in 0..HEIGHT : at' = [at EXCEPT !.y = v]
                       \/ \E v \in 0..WIDTH : at' = [at EXCEPT !.x = v]
  <1>1. loaded /\ UNCHANGED <<buf, screen, handler, torn, output>> /\ pc' \in Stages
    BY DEF putch_where_y, putch_where_x, putch_read_x, putch_read_y, move_csr_y, move_csr_x,
           Main, IInv, TypeOK, Stages
  <1>2. at' \in Locals /\ at'.text = at.text /\ at'.i = at.i /\ at'.c = at.c
        /\ at'.temp = at.temp /\ at'.k = at.k
    BY <1>1 DEF IInv, TypeOK, Locals
  <1>3. TypeOK'
    BY <1>1, <1>2 DEF IInv, TypeOK, Locals, screen
  <1>4. FindsEnd'
    BY <1>1, <1>2 DEF putch_where_y, putch_where_x, putch_read_x, putch_read_y, move_csr_y,
           move_csr_x, Main, IInv, FindsEnd, EndFrom
  <1>5. CursorOK'
    BY <1>1 DEF putch_where_y, putch_where_x, putch_read_x, putch_read_y, move_csr_y,
           move_csr_x, Main, screen, IInv, CursorOK
  <1>6. LocalsOK'
    <2>1. CASE putch_where_y
      <3>1. at'.y = csr_y /\ pc = "where_y" /\ pc' = "where_x"
        BY <2>1 DEF putch_where_y, Main, IInv, TypeOK, Locals
      <3> QED BY <1>2, <3>1, Sizes DEF IInv, TypeOK, CursorOK, LocalsOK
    <2>2. CASE putch_where_x
      <3>1. at'.x = csr_x /\ at'.y = at.y /\ pc = "where_x" /\ pc' = "put"
        BY <2>2 DEF putch_where_x, Main, IInv, TypeOK, Locals
      <3> QED BY <1>2, <3>1, Sizes DEF IInv, TypeOK, CursorOK, LocalsOK
    <2>3. CASE putch_read_x
      <3>1. at'.x = csr_x /\ pc = "read_x" /\ pc' = "write_x"
        BY <2>3 DEF putch_read_x, Main, IInv, TypeOK, Locals
      <3> QED BY <1>2, <3>1, Sizes DEF IInv, TypeOK, CursorOK, LocalsOK
    <2>4. CASE putch_read_y
      <3>1. at'.y = csr_y /\ pc \in {"read_y", "wrap_y"} /\ pc' \in {"write_y", "wrap_write_y"}
        BY <2>4 DEF putch_read_y, Main, IInv, TypeOK, Locals
      <3> QED BY <1>2, <3>1, Sizes DEF IInv, TypeOK, CursorOK, LocalsOK
    <2>5. CASE move_csr_y \/ move_csr_x
      BY <1>2, <2>5 DEF move_csr_y, move_csr_x, Main, LocalsOK
    <2> QED BY <1>1, <2>1, <2>2, <2>3, <2>4, <2>5
  <1> QED BY <1>3, <1>4, <1>5, <1>6 DEF IInv
LEMMA Format ==
    ASSUME IInv, vsprintf
    PROVE  IInv'
  <1>1. /\ pc = "format" /\ handler = -1 /\ at \in Locals /\ at.text \in Texts
        /\ at.k \in Nat /\ at.k <= Len(at.text) /\ at.i = 0
        /\ buf \in [0..(BUF - 1) -> Char]
    BY DEF vsprintf, Main, IInv, TypeOK, LocalsOK, Locals
  <1>2. Len(at.text) \in Nat /\ Len(at.text) < BUF /\ at.k \in 0..(BUF - 1)
    BY <1>1, Sizes, TextType
  <1>3. UNCHANGED <<screen, handler, torn, output>>
    BY DEF vsprintf, Main
  <1>4. CASE at.k < Len(at.text)
    <2>1. pc' = "format" /\ buf' = [buf EXCEPT ![at.k] = at.text[at.k + 1]]
          /\ at' = [at EXCEPT !.k = at.k + 1]
      BY <1>4 DEF vsprintf, Main
    <2>2. at.text[at.k + 1] \in Char
      BY <1>1, <1>2, <1>4, TextType DEF Char
    <2>3. at' \in Locals /\ at'.text = at.text /\ at'.k = at.k + 1 /\ at'.i = 0
      <3>1. at.k + 1 \in Nat
        BY <1>1
      <3>2. at' \in Locals
        BY <1>1, <2>1, <3>1 DEF Locals
      <3>3. at'.text = at.text /\ at'.k = at.k + 1 /\ at'.i = at.i
        BY <1>1, <2>1 DEF Locals
      <3> QED BY <1>1, <3>2, <3>3
    <2>4. TypeOK'
      BY <1>1, <1>2, <1>3, <2>1, <2>2, <2>3 DEF IInv, TypeOK, Locals, Stages, screen
    <2>5. FindsEnd' /\ LocalsOK'
      BY <1>1, <1>2, <1>3, <1>4, <2>1, <2>3 DEF FindsEnd, LocalsOK
    <2>6. CursorOK'
      BY <1>1, <1>3, <2>1 DEF IInv, CursorOK, screen
    <2> QED BY <2>4, <2>5, <2>6 DEF IInv
  <1>5. CASE ~(at.k < Len(at.text))
    <2>1. pc' = "test" /\ buf' = [buf EXCEPT ![at.k] = NUL] /\ at' = [at EXCEPT !.k = 0]
      BY <1>5 DEF vsprintf, Main
    <2>2. at' \in Locals /\ at'.i = 0
      BY <1>1, <2>1 DEF Locals
    <2>3. TypeOK'
      BY <1>1, <1>2, <1>3, <2>1, <2>2 DEF IInv, TypeOK, Locals, Stages, screen, Char
    <2>4. buf'[at.k] = NUL
      BY <1>1, <1>2, <2>1
    <2>5. FindsEnd'
      BY <1>1, <1>2, <1>3, <2>1, <2>2, <2>4 DEF FindsEnd, EndFrom
    <2>6. CursorOK' /\ LocalsOK'
      BY <1>1, <1>3, <2>1 DEF IInv, CursorOK, LocalsOK, screen
    <2> QED BY <2>3, <2>5, <2>6 DEF IInv
  <1> QED BY <1>4, <1>5

LEMMA Test ==
    ASSUME IInv, puts_test
    PROVE  IInv'
  <1>1. /\ pc = "test" /\ handler = -1 /\ at \in Locals /\ EndFrom(at.i)
        /\ UNCHANGED <<buf, screen, handler, torn, output>>
    BY DEF puts_test, Main, IInv, TypeOK, FindsEnd, Locals
  <1>2. PICK n \in at.i..(BUF - 1) : buf[n] = NUL
    BY <1>1 DEF EndFrom
  <1>3. CASE buf[at.i] = NUL
    <2>1. pc' = "idle" /\ at' = NoLocals
      BY <1>3 DEF puts_test, Main
    <2>2. TypeOK'
      BY <1>1, <2>1, NoLocalsType DEF IInv, TypeOK, Locals, Stages, screen
    <2> QED BY <1>1, <2>1, <2>2 DEF IInv, FindsEnd, CursorOK, LocalsOK, screen
  <1>4. CASE buf[at.i] # NUL
    <2>1. pc' = "fetch" /\ at' = at
      BY <1>4 DEF puts_test, Main
    <2>2. TypeOK'
      BY <1>1, <2>1 DEF IInv, TypeOK, Stages, screen
    <2>3. n \in (at.i + 1)..(BUF - 1)
      BY <1>1, <1>2, <1>4, Sizes DEF Locals
    <2>4. FindsEnd'
      BY <1>1, <1>2, <2>1, <2>3 DEF FindsEnd, EndFrom
    <2>5. CursorOK' /\ LocalsOK'
      BY <1>1, <2>1 DEF IInv, CursorOK, LocalsOK, screen
    <2> QED BY <2>2, <2>4, <2>5 DEF IInv
  <1> QED BY <1>3, <1>4

LEMMA BranchStage ==
    ASSUME NEW c \in Char
    PROVE  /\ Branch(c) \in {"where_y", "read_x", "margin", "edge"}
           /\ Branch(c) = "where_y" => c \in Printable
<1>1. CASE c \in Printable
  BY <1>1, TextAssumption DEF Branch, Control
<1>2. CASE c \notin Printable
  BY <1>2 DEF Branch
<1> QED BY <1>1, <1>2

LEMMA Fetch ==
    ASSUME IInv, puts_fetch
    PROVE  IInv'
  <1>1. /\ pc = "fetch" /\ handler = -1 /\ at \in Locals /\ EndFrom(at.i + 1)
        /\ UNCHANGED <<buf, screen, handler, torn, output>>
        /\ pc' = Branch(buf[at.i]) /\ at' = [at EXCEPT !.c = buf[at.i]]
        /\ buf \in [0..(BUF - 1) -> Char]
    BY DEF puts_fetch, Main, IInv, TypeOK, FindsEnd, Locals
  <1>2. buf[at.i] \in Char
    BY <1>1, Sizes DEF EndFrom, Locals
  <1>3. /\ pc' \in {"where_y", "read_x", "margin", "edge"}
        /\ pc' = "where_y" => buf[at.i] \in Printable
    BY <1>1, <1>2, BranchStage
  <1>4. at' \in Locals /\ at'.i = at.i /\ at'.c = buf[at.i]
    BY <1>1, <1>2 DEF Locals
  <1>5. TypeOK'
    BY <1>1, <1>3, <1>4 DEF IInv, TypeOK, Locals, Stages, screen
  <1>6. FindsEnd'
    BY <1>1, <1>3, <1>4 DEF FindsEnd, EndFrom
  <1>7. CursorOK'
    BY <1>1, <1>3 DEF IInv, CursorOK, screen
  <1>8. LocalsOK'
    BY <1>3, <1>4 DEF LocalsOK
  <1> QED BY <1>5, <1>6, <1>7, <1>8 DEF IInv

LEMMA Put ==
    ASSUME IInv, putch_put
    PROVE  IInv'
  <1>1. /\ pc = "put" /\ pc' = "read_x" /\ at.c \in Printable
        /\ UNCHANGED <<buf, csr_x, csr_y, crtc, at, handler, torn, output>>
        /\ video' = [video EXCEPT ![Where] = at.c]
    BY DEF putch_put, Main, IInv, LocalsOK
  <1>2. video' \in [Cells -> Printable]
    BY <1>1 DEF IInv, TypeOK
  <1>3. TypeOK'
    BY <1>1, <1>2 DEF IInv, TypeOK, Stages
  <1>4. FindsEnd'
    BY <1>1 DEF IInv, FindsEnd, EndFrom
  <1>5. CursorOK' /\ LocalsOK'
    BY <1>1 DEF IInv, CursorOK, LocalsOK
  <1> QED BY <1>3, <1>4, <1>5 DEF IInv

LEMMA WriteX ==
    ASSUME IInv, putch_write_x
    PROVE  IInv'
  <1>1. /\ pc = "write_x" /\ pc' = "edge" /\ at \in Locals /\ at.x < WIDTH
        /\ UNCHANGED <<buf, csr_y, video, crtc, at, handler, torn, output>>
        /\ csr_x' \in {TabStop(at.x), at.x + 1}
    BY DEF putch_write_x, Main, IInv, TypeOK, LocalsOK, Locals
  <1>2. csr_x' \in 0..WIDTH
    BY <1>1, TabStopInRow, Sizes DEF Locals
  <1>3. TypeOK'
    BY <1>1, <1>2 DEF IInv, TypeOK, Stages
  <1>4. FindsEnd'
    BY <1>1 DEF IInv, FindsEnd, EndFrom
  <1>5. CursorOK' /\ LocalsOK'
    BY <1>1, <1>2, Sizes DEF IInv, TypeOK, CursorOK, LocalsOK
  <1> QED BY <1>3, <1>4, <1>5 DEF IInv

LEMMA Margin ==
    ASSUME IInv, putch_margin \/ putch_wrap
    PROVE  IInv'
  <1>1. /\ pc \in {"margin", "wrap"} /\ pc' \in {"read_y", "edge", "wrap_y"} /\ csr_x' = 0
        /\ UNCHANGED <<buf, csr_y, video, crtc, at, handler, torn, output>>
    BY DEF putch_margin, putch_wrap, Main
  <1>2. TypeOK'
    BY <1>1, Sizes DEF IInv, TypeOK, Stages
  <1>3. FindsEnd'
    BY <1>1 DEF IInv, FindsEnd, EndFrom
  <1>4. CursorOK' /\ LocalsOK'
    BY <1>1, Sizes DEF IInv, CursorOK, LocalsOK
  <1> QED BY <1>2, <1>3, <1>4 DEF IInv

(* The tests of the edge and of the last row. *)
LEMMA Tests ==
    ASSUME IInv, putch_edge \/ scroll_test
    PROVE  IInv'
  <1>1. /\ pc \in {"edge", "scroll"} /\ pc' \in {"wrap", "scroll", "temp", "csr_y"}
        /\ UNCHANGED <<buf, screen, at, handler, torn, output>>
    BY DEF putch_edge, scroll_test, Main
  <1>2. TypeOK'
    BY <1>1 DEF IInv, TypeOK, Stages, screen
  <1>3. FindsEnd'
    BY <1>1 DEF IInv, FindsEnd, EndFrom
  <1>4. CursorOK'
    <2>1. CASE putch_edge
      BY <1>1, <2>1, Sizes DEF putch_edge, Main, screen, IInv, TypeOK, CursorOK
    <2>2. CASE scroll_test
      BY <1>1, <2>2, Sizes DEF scroll_test, Main, screen, IInv, TypeOK, CursorOK
    <2> QED BY <2>1, <2>2
  <1>5. LocalsOK'
    BY <1>1 DEF LocalsOK
  <1> QED BY <1>2, <1>3, <1>4, <1>5 DEF IInv

LEMMA WriteY ==
    ASSUME IInv, putch_write_y
    PROVE  IInv'
  <1>1. /\ pc \in {"write_y", "wrap_write_y"} /\ pc' \in {"edge", "scroll"}
        /\ at \in Locals /\ at.y < HEIGHT /\ csr_y' = at.y + 1
        /\ UNCHANGED <<buf, csr_x, video, crtc, at, handler, torn, output>>
    BY DEF putch_write_y, Main, IInv, TypeOK, LocalsOK, Locals
  <1>2. csr_y' \in 0..HEIGHT
    BY <1>1, Sizes DEF Locals
  <1>3. TypeOK'
    BY <1>1, <1>2 DEF IInv, TypeOK, Stages
  <1>4. FindsEnd'
    BY <1>1 DEF IInv, FindsEnd, EndFrom
  <1>5. CursorOK' /\ LocalsOK'
    BY <1>1, <1>2, Sizes DEF IInv, TypeOK, CursorOK, LocalsOK
  <1> QED BY <1>3, <1>4, <1>5 DEF IInv

LEMMA Temp ==
    ASSUME IInv, scroll_temp
    PROVE  IInv'
  <1>1. /\ pc = "temp" /\ pc' = "copy" /\ at \in Locals
        /\ UNCHANGED <<buf, screen, handler, torn, output>>
        /\ at' = [at EXCEPT !.temp = csr_y - HEIGHT + 1, !.k = 0]
        /\ csr_y \in 0..HEIGHT /\ csr_y >= HEIGHT - 1
    BY DEF scroll_temp, Main, IInv, TypeOK, CursorOK, Locals
  <1>2. csr_y - HEIGHT + 1 \in 0..1
    BY <1>1, Sizes
  <1>3. at' \in Locals /\ at'.temp \in 0..1 /\ at'.i = at.i
    <2>1. at'.temp = csr_y - HEIGHT + 1 /\ at'.i = at.i
      BY <1>1 DEF Locals
    <2>2. csr_y - HEIGHT + 1 \in 0..2 /\ 0 \in Nat
      BY <1>2
    <2>3. at' \in Locals
      BY <1>1, <2>2 DEF Locals
    <2> QED BY <1>2, <2>1, <2>3
  <1>4. TypeOK'
    BY <1>1, <1>3 DEF IInv, TypeOK, Locals, Stages, screen
  <1>5. FindsEnd'
    BY <1>1, <1>3 DEF IInv, FindsEnd, EndFrom
  <1>6. CursorOK' /\ LocalsOK'
    BY <1>1, <1>3 DEF IInv, CursorOK, LocalsOK, screen
  <1> QED BY <1>4, <1>5, <1>6 DEF IInv

(* A cell that is copied lies on the screen or in the row behind it. *)
LEMMA CopiedCell ==
    ASSUME NEW temp \in 0..2, NEW n \in Nat, n < (HEIGHT - temp) * WIDTH
    PROVE  n + temp * WIDTH \in Cells /\ n \in Cells
  <1>1. HEIGHT * WIDTH \in Nat
    BY Sizes, Order
  <1>2. /\ (HEIGHT - temp) * WIDTH = HEIGHT * WIDTH - temp * WIDTH
        /\ (HEIGHT + 1) * WIDTH = HEIGHT * WIDTH + WIDTH
    BY Sizes
  <1>3. temp * WIDTH \in Nat
    BY Sizes, Order
  <1> HIDE DEF Cells
  <1>4. n + temp * WIDTH \in 0..((HEIGHT + 1) * WIDTH - 1) /\ n \in 0..((HEIGHT + 1) * WIDTH - 1)
    BY <1>1, <1>2, <1>3, Sizes
  <1> QED BY <1>4 DEF Cells

LEMMA Copy ==
    ASSUME IInv, scroll_copy
    PROVE  IInv'
  <1>1. /\ pc = "copy" /\ at \in Locals /\ at.temp \in 0..1 /\ at.k \in Nat
        /\ video \in [Cells -> Printable]
        /\ UNCHANGED <<buf, csr_x, crtc, handler, torn, output>>
    BY DEF scroll_copy, Main, IInv, TypeOK, LocalsOK, Locals
  <1>2. CASE at.k < Copied + WIDTH
    <2>1. /\ pc' = "copy" /\ csr_y' = csr_y /\ at' = [at EXCEPT !.k = at.k + 1]
          /\ video' = [video EXCEPT ![at.k] = IF at.k < Copied
                                             THEN video[at.k + at.temp * WIDTH] ELSE Blank]
      BY <1>2 DEF scroll_copy, Main
    <2>2. (IF at.k < Copied THEN video[at.k + at.temp * WIDTH] ELSE Blank) \in Printable
      BY <1>1, CopiedCell, TextAssumption DEF Copied
    <2>3. video' \in [Cells -> Printable]
      BY <1>1, <2>1, <2>2
    <2>4. at' \in Locals /\ at'.temp = at.temp /\ at'.i = at.i
      BY <1>1, <2>1 DEF Locals
    <2>5. TypeOK'
      BY <1>1, <2>1, <2>3, <2>4 DEF IInv, TypeOK, Locals, Stages
    <2>6. FindsEnd'
      BY <1>1, <2>1, <2>4 DEF IInv, FindsEnd, EndFrom
    <2>7. CursorOK' /\ LocalsOK'
      BY <1>1, <2>1, <2>4 DEF IInv, CursorOK, LocalsOK
    <2> QED BY <2>5, <2>6, <2>7 DEF IInv
  <1>3. CASE ~(at.k < Copied + WIDTH)
    <2>1. pc' = "csr_y" /\ csr_y' = HEIGHT - 1 /\ UNCHANGED <<video, at>>
      BY <1>3 DEF scroll_copy, Main
    <2>2. TypeOK'
      <3>1. HEIGHT - 1 \in 0..HEIGHT
        BY Sizes
      <3> QED BY <1>1, <2>1, <3>1 DEF IInv, TypeOK, Stages
    <2>3. FindsEnd'
      BY <1>1, <2>1 DEF IInv, FindsEnd, EndFrom
    <2>4. CursorOK' /\ LocalsOK'
      BY <1>1, <2>1, Sizes DEF IInv, TypeOK, CursorOK, LocalsOK
    <2> QED BY <2>2, <2>3, <2>4 DEF IInv
  <1> QED BY <1>2, <1>3

LEMMA RegisterType ==
    ASSUME NEW v \in Nat, crtc \in [index : {14, 15}, high : 0..(BYTE - 1), low : 0..(BYTE - 1)],
           WriteRegister(v)
    PROVE  crtc' \in [index : {14, 15}, high : 0..(BYTE - 1), low : 0..(BYTE - 1)]
  <1>1. v % BYTE \in 0..(BYTE - 1)
    <2>1. BYTE \in Nat \ {0}
      BY Sizes
    <2> QED BY <2>1, Division
  <1> QED BY <1>1 DEF WriteRegister

LEMMA WhereType == IInv => Where \in Nat
  <1> SUFFICES ASSUME IInv PROVE Where \in Nat
    OBVIOUS
  <1>1. at.y \in Nat /\ at.x \in Nat
    BY DEF IInv, TypeOK
  <1>2. at.y * WIDTH \in Nat
    BY <1>1, Sizes, Order
  <1> QED BY <1>1, <1>2 DEF Where

(* The steps of move_csr that write the registers. *)
LEMMA Registers ==
    ASSUME IInv, move_csr_select \/ move_csr_high
    PROVE  IInv'
  <1>1. /\ pc \in {"index_high", "index_low", "high"} /\ pc' \in {"high", "low", "index_low"}
        /\ UNCHANGED <<buf, csr_x, csr_y, video, at, handler, torn, output>>
    BY DEF move_csr_select, move_csr_high, Main
  <1>2. crtc' \in [index : {14, 15}, high : 0..(BYTE - 1), low : 0..(BYTE - 1)]
    <2>1. CASE move_csr_select
      BY <2>1 DEF move_csr_select, Select, IInv, TypeOK
    <2>2. CASE move_csr_high
      <3>1. Where \in Nat
        BY WhereType
      <3>2. Where \div BYTE \in Nat
        BY <3>1, Sizes, Division
      <3> QED BY <2>2, <3>2, RegisterType DEF move_csr_high, IInv, TypeOK
    <2> QED BY <2>1, <2>2
  <1>3. TypeOK'
    BY <1>1, <1>2 DEF IInv, TypeOK, Stages
  <1>4. FindsEnd'
    BY <1>1 DEF IInv, FindsEnd, EndFrom
  <1>5. CursorOK' /\ LocalsOK'
    BY <1>1 DEF IInv, CursorOK, LocalsOK
  <1> QED BY <1>3, <1>4, <1>5 DEF IInv

LEMMA Low ==
    ASSUME IInv, move_csr_low
    PROVE  IInv'
  <1>1. /\ pc = "low" /\ pc' = "test" /\ handler = -1 /\ at \in Locals /\ EndFrom(at.i + 1)
        /\ UNCHANGED <<buf, csr_x, csr_y, video, handler, torn, output>>
        /\ at' = [at EXCEPT !.i = at.i + 1]
    BY DEF move_csr_low, Main, IInv, TypeOK, FindsEnd, Locals
  <1>2. Where \in Nat
    BY WhereType
  <1>3. crtc' \in [index : {14, 15}, high : 0..(BYTE - 1), low : 0..(BYTE - 1)]
    BY <1>2, RegisterType DEF move_csr_low, IInv, TypeOK
  <1>4. at' \in Locals /\ at'.i = at.i + 1
    <2>1. at.i + 1 \in 0..BUF
      BY <1>1, Sizes DEF EndFrom, Locals
    <2> QED BY <1>1, <2>1 DEF Locals
  <1>5. TypeOK'
    BY <1>1, <1>3, <1>4 DEF IInv, TypeOK, Locals, Stages
  <1>6. FindsEnd'
    BY <1>1, <1>4 DEF FindsEnd, EndFrom
  <1>7. CursorOK' /\ LocalsOK'
    BY <1>1 DEF IInv, CursorOK, LocalsOK
  <1> QED BY <1>5, <1>6, <1>7 DEF IInv

-----------------------------------------------------------------------------
(* Calls of printk, and the handler. *)

LEMMA RecordType ==
    ASSUME NEW text \in Texts \cup HandlerTexts, output \in Seq(Char), Record(text)
    PROVE  output' \in Seq(Char)
  <1>1. output \o text \in Seq(Char)
    BY TextType
  <1>2. <<>> \in Seq(Char)
    OBVIOUS
  <1> QED BY <1>1, <1>2 DEF Record

LEMMA PrintStep ==
    ASSUME IInv, NEW text \in Texts, printk(text)
    PROVE  IInv'
  <1>1. /\ pc = "idle" /\ pc' = "format" /\ handler = -1
        /\ at' = [NoLocals EXCEPT !.text = text] /\ torn' = torn /\ Record(text)
        /\ UNCHANGED <<buf, screen, handler>>
    BY DEF printk, Idle
  <1>2. text \in Seq(Char) /\ Len(text) \in Nat
    BY TextType
  <1>3. at' \in Locals /\ at'.text = text /\ at'.k = 0 /\ at'.i = 0
    BY <1>1, <1>2, NoLocalsType DEF Locals, NoLocals
  <1>4. output' \in Seq(Char)
    BY <1>1, RecordType DEF IInv, TypeOK
  <1>5. torn' \in BOOLEAN
    BY <1>1, Zenon DEF IInv, TypeOK
  <1>6. TypeOK'
    BY <1>1, <1>3, <1>4, <1>5 DEF IInv, TypeOK, Locals, Stages, screen
  <1>7. FindsEnd' /\ LocalsOK'
    BY <1>1, <1>2, <1>3 DEF IInv, FindsEnd, LocalsOK
  <1>8. CursorOK'
    BY <1>1 DEF IInv, CursorOK, screen
  <1> QED BY <1>6, <1>7, <1>8 DEF IInv

(* The message of the handler ends main's string at the latest where it    *)
(* ended before: either its own end is not before main's place in buf, or  *)
(* the rest of buf is as it was.                                           *)
LEMMA EndStays ==
    ASSUME NEW text \in HandlerTexts, NEW i \in Nat, EndFrom(i), handler_printk(text)
    PROVE  EndFrom(i)'
  <1>1. Len(text) \in 0..(BUF - 1)
    BY TextType, Sizes
  <1>2. buf' = [n \in 0..(BUF - 1) |-> IF n < Len(text) THEN text[n + 1]
                                       ELSE IF n = Len(text) THEN NUL ELSE buf[n]]
    BY DEF handler_printk
  <1>3. CASE i <= Len(text)
    <2>1. buf'[Len(text)] = NUL /\ Len(text) \in i..(BUF - 1)
      BY <1>1, <1>2, <1>3, Sizes
    <2> QED BY <2>1 DEF EndFrom
  <1>4. CASE Len(text) < i
    <2>1. PICK n \in i..(BUF - 1) : buf[n] = NUL
      BY DEF EndFrom
    <2>2. buf'[n] = NUL
      BY <1>1, <1>2, <1>4, <2>1, Sizes
    <2> QED BY <2>1, <2>2 DEF EndFrom
  <1> QED BY <1>1, <1>3, <1>4

LEMMA HandlerPrint ==
    ASSUME IInv, NEW text \in HandlerTexts, handler_printk(text)
    PROVE  IInv'
  <1>1. /\ handler = -1 /\ handler' = 0 /\ Record(text)
        /\ UNCHANGED <<screen, pc, at>>
        /\ buf' = [n \in 0..(BUF - 1) |-> IF n < Len(text) THEN text[n + 1]
                                          ELSE IF n = Len(text) THEN NUL ELSE buf[n]]
    BY DEF handler_printk
  <1>2. Len(text) \in 0..(BUF - 1)
    BY TextType, Sizes
  <1>3. buf' \in [0..(BUF - 1) -> Char]
    <2>1. \A n \in 0..(BUF - 1) : n < Len(text) => text[n + 1] \in Char
      BY <1>2, TextType DEF Char
    <2>2. NUL \in Char /\ \A n \in 0..(BUF - 1) : buf[n] \in Char
      BY DEF Char, IInv, TypeOK
    <2> QED BY <1>1, <2>1, <2>2
  <1>4. output' \in Seq(Char)
    BY <1>1, RecordType DEF IInv, TypeOK
  <1>5. torn' \in BOOLEAN
    BY Zenon DEF handler_printk, IInv, TypeOK
  <1>6. TypeOK'
    BY <1>1, <1>2, <1>3, <1>4, <1>5, Sizes DEF IInv, TypeOK, screen
  <1>7. FindsEnd'
    <2>1. EndFrom(0)'
      BY <1>1, <1>2 DEF EndFrom
    <2>2. \A i \in Nat : EndFrom(i) => EndFrom(i)'
      BY EndStays
    <2>3. at.i \in Nat /\ at.i + 1 \in Nat
      BY DEF IInv, TypeOK
    <2> QED BY <1>1, <2>1, <2>2, <2>3 DEF IInv, FindsEnd
  <1>8. CursorOK' /\ LocalsOK'
    BY <1>1 DEF IInv, CursorOK, LocalsOK, screen
  <1> QED BY <1>6, <1>7, <1>8 DEF IInv

LEMMA ColumnType ==
    ASSUME IInv, NEW c \in Char
    PROVE  /\ Column(c) \in Nat
           /\ c = "LF" => Column(c) = 0
  <1>1. csr_x \in 0..WIDTH /\ TabStop(csr_x) \in Nat
    BY TabStopInRow DEF IInv, TypeOK
  <1>2. CASE c \in Printable
    BY <1>1, <1>2, TextAssumption DEF Column, Control
  <1>3. CASE c \notin Printable
    BY <1>1, <1>3 DEF Column
  <1> QED BY <1>2, <1>3

LEMMA LineType ==
    ASSUME IInv, NEW c \in Char
    PROVE  Line(c) \in csr_y..(HEIGHT + 1)
  <1>1. csr_y \in 0..HEIGHT /\ Column(c) \in Nat /\ (c = "LF" => Column(c) = 0)
    BY ColumnType DEF IInv, TypeOK
  <1> QED BY <1>1, Sizes DEF Line

LEMMA ScrolledType ==
    ASSUME NEW v \in [Cells -> Printable], NEW temp \in 0..2
    PROVE  Scrolled(v, temp) \in [Cells -> Printable]
  <1>1. \A n \in Cells : n < (HEIGHT - temp) * WIDTH => v[n + temp * WIDTH] \in Printable
    <2> SUFFICES ASSUME NEW n \in Cells, n < (HEIGHT - temp) * WIDTH
                 PROVE  v[n + temp * WIDTH] \in Printable
      OBVIOUS
    <2>1. n \in Nat
      BY DEF Cells
    <2>2. n + temp * WIDTH \in Cells
      BY <2>1, CopiedCell
    <2> QED BY <2>2
  <1>2. Blank \in Printable
    BY TextAssumption
  <1> HIDE DEF Cells
  <1> QED BY <1>1, <1>2 DEF Scrolled

LEMMA HandlerPuts ==
    ASSUME IInv, handler_puts
    PROVE  IInv'
  <1>1. /\ handler \in 0..(BUF - 1) /\ EndFrom(handler)
        /\ UNCHANGED <<buf, pc, at, torn, output>>
    BY Sizes DEF handler_puts, IInv, TypeOK, FindsEnd
  <1>2. CASE buf[handler] = NUL
    <2>1. handler' = -1 /\ UNCHANGED screen
      BY <1>2 DEF handler_puts
    <2>2. -1 \in -1..(BUF - 1)
      BY <1>1, Sizes
    <2>3. TypeOK'
      BY <1>1, <2>1, <2>2 DEF IInv, TypeOK, screen
    <2> QED BY <1>1, <2>1, <2>3 DEF IInv, FindsEnd, EndFrom, CursorOK, LocalsOK, screen
  <1>3. CASE buf[handler] # NUL
    <2> DEFINE c == buf[handler]
    <2>1. handler' = handler + 1 /\ putch(c) /\ c \in Char
      BY <1>1, <1>3 DEF handler_puts, IInv, TypeOK
    <2>2. PICK n \in (handler + 1)..(BUF - 1) : buf[n] = NUL
      BY <1>1, <1>3, Sizes DEF EndFrom
    <2> HIDE DEF c
    <2>3. Column(c) \in Nat /\ Line(c) \in csr_y..(HEIGHT + 1) /\ csr_y \in 0..HEIGHT
      BY <2>1, ColumnType, LineType DEF IInv, TypeOK
    <2>4. csr_x' \in 0..(WIDTH - 1)
      BY <2>1, <2>3, Sizes DEF putch
    <2>5. csr_y' \in 0..(HEIGHT - 1) /\ (csr_y >= HEIGHT - 1 => csr_y' >= HEIGHT - 1)
      BY <2>1, <2>3, Sizes DEF putch
    <2>6. video' \in [Cells -> Printable]
      <3>1. Written(c) \in [Cells -> Printable]
        BY DEF Written, IInv, TypeOK
      <3>2. Line(c) >= HEIGHT => Line(c) - HEIGHT + 1 \in 0..2
        BY <2>3, Sizes
      <3> QED BY <2>1, <3>1, <3>2, ScrolledType DEF putch
    <2>7. crtc' \in [index : {14, 15}, high : 0..(BYTE - 1), low : 0..(BYTE - 1)]
      <3>1. \A y, x \in Nat : y * WIDTH + x \in Nat
        <4> TAKE y, x \in Nat
        <4>1. y * WIDTH \in Nat
          BY Sizes, Order
        <4> QED BY <4>1
      <3>2. csr_y' * WIDTH + csr_x' \in Nat /\ BYTE \in Nat \ {0}
        <4>1. csr_y' \in Nat /\ csr_x' \in Nat
          BY <2>4, <2>5, Sizes
        <4>2. csr_y' * WIDTH + csr_x' \in Nat
          BY <3>1, <4>1, Zenon
        <4> QED BY <4>2, Sizes
      <3>3. (csr_y' * WIDTH + csr_x') \div BYTE \in Nat
        BY <3>2, Division
      <3>4. /\ ((csr_y' * WIDTH + csr_x') \div BYTE) % BYTE \in 0..(BYTE - 1)
            /\ (csr_y' * WIDTH + csr_x') % BYTE \in 0..(BYTE - 1)
        BY <3>2, <3>3, Division
      <3> QED BY <2>1, <3>4 DEF putch
    <2>8. TypeOK'
      <3>1. csr_x' \in 0..WIDTH /\ csr_y' \in 0..HEIGHT
        BY <2>4, <2>5, Sizes
      <3>2. handler' \in -1..(BUF - 1)
        BY <1>1, <2>1, <2>2, Sizes
      <3> QED BY <1>1, <2>6, <2>7, <3>1, <3>2 DEF IInv, TypeOK
    <2>9. FindsEnd'
      BY <1>1, <2>1, <2>2 DEF IInv, FindsEnd, EndFrom
    <2>10. CursorOK' /\ LocalsOK'
      BY <1>1, <2>4, <2>5, Sizes DEF IInv, CursorOK, LocalsOK
    <2> QED BY <2>8, <2>9, <2>10 DEF IInv
  <1> QED BY <1>2, <1>3

-----------------------------------------------------------------------------
LEMMA MainInv == IInv /\ MainStep => IInv'
BY Format, Test, Fetch, Reads, Put, WriteX, Margin, Tests, WriteY, Temp, Copy, Registers, Low
   DEF MainStep

LEMMA NextInv == IInv /\ [Next]_vars => IInv'
  <1> SUFFICES ASSUME IInv, [Next]_vars PROVE IInv'
    OBVIOUS
  <1>1. CASE \E text \in Texts : printk(text)
    BY <1>1, PrintStep
  <1>2. CASE MainStep
    BY <1>2, MainInv
  <1>3. CASE \E text \in HandlerTexts : handler_printk(text)
    BY <1>3, HandlerPrint
  <1>4. CASE handler_puts
    BY <1>4, HandlerPuts
  <1>5. CASE UNCHANGED vars
    BY <1>5 DEF vars, screen, IInv, TypeOK, FindsEnd, EndFrom, CursorOK, LocalsOK
  <1> QED BY <1>1, <1>2, <1>3, <1>4, <1>5 DEF Next

(* The inductive invariant of the screen driver, printk and the handler    *)
(* that prints in between.                                                 *)
THEOREM ConsoleInvariance == Spec => []IInv
  <1> QED BY InitInv, NextInv, PTL DEF Spec

(* The cursor stays within one row and one column of the screen, and all   *)
(* other variables keep their types, whatever is interrupted.              *)
THEOREM ConsoleTypes == Spec => []TypeOK
BY ConsoleInvariance, PTL DEF IInv

(* puts, in main and in the handler, always has the end of a string before *)
(* it in buf: neither reads behind the array.                              *)
THEOREM StringEnds == Spec => []FindsEnd
BY ConsoleInvariance, PTL DEF IInv

LEMMA VideoInv == IInv => StaysInVideo
  <1> SUFFICES ASSUME IInv PROVE StaysInVideo
    OBVIOUS
  <1>1. pc = "put" => Where \in Cells
    BY CellOf DEF IInv, TypeOK, LocalsOK, Where
  <1>2. pc = "copy" => /\ at.temp \in 0..2
                       /\ at.k < Copied => at.k + at.temp * WIDTH \in Cells
                       /\ at.k < Copied + WIDTH => at.k \in Cells
    <2> SUFFICES ASSUME pc = "copy"
                 PROVE  /\ at.temp \in 0..2
                        /\ at.k < Copied => at.k + at.temp * WIDTH \in Cells
                        /\ at.k < Copied + WIDTH => at.k \in Cells
      OBVIOUS
    <2>1. at.temp \in 0..1 /\ at.temp \in 0..2 /\ at.k \in Nat
      BY DEF IInv, TypeOK, LocalsOK
    <2>2. at.k < Copied => at.k + at.temp * WIDTH \in Cells
      BY <2>1, CopiedCell DEF Copied
    <2>3. at.k < Copied + WIDTH => at.k \in Cells
      <3>1. /\ Copied = HEIGHT * WIDTH - at.temp * WIDTH
            /\ (HEIGHT + 1) * WIDTH = HEIGHT * WIDTH + WIDTH
        BY <2>1, Sizes DEF Copied
      <3>2. HEIGHT * WIDTH \in Nat /\ at.temp * WIDTH \in Nat
        BY <2>1, Sizes, Order
      <3>3. at.k < Copied + WIDTH => at.k \in 0..((HEIGHT + 1) * WIDTH - 1)
        BY <2>1, <3>1, <3>2, Sizes
      <3> QED BY <3>3 DEF Cells
    <2> QED BY <2>1, <2>2, <2>3
  <1>3. handler >= 0 => buf[handler] \in Char
    BY Sizes DEF IInv, TypeOK
  <1>4. csr_y * WIDTH + csr_x \in Cells
    BY CellOf DEF IInv, TypeOK, CursorOK
  <1>5. handler >= 0 => Line(buf[handler]) - HEIGHT + 1 <= 2
    <2> SUFFICES ASSUME handler >= 0 PROVE Line(buf[handler]) - HEIGHT + 1 <= 2
      OBVIOUS
    <2>1. Line(buf[handler]) \in csr_y..(HEIGHT + 1) /\ csr_y \in 0..HEIGHT
      BY <1>3, LineType DEF IInv, TypeOK
    <2> QED BY <2>1, Sizes
  <1> QED BY <1>1, <1>2, <1>4, <1>5 DEF StaysInVideo

(* No store of putch, in main or in the handler, and no cell that scroll   *)
(* copies or clears lies outside the screen and the row behind it.         *)
THEOREM StoresInVideo == Spec => []StaysInVideo
BY ConsoleInvariance, VideoInv, PTL

(* When nobody prints, the cursor is on the screen, whatever updates of    *)
(* csr_x and csr_y were lost before.                                       *)
THEOREM CursorReturns == Spec => []CursorOnScreen
  <1>1. IInv => CursorOnScreen
    BY Sizes DEF IInv, TypeOK, CursorOK, CursorOnScreen, Idle
  <1> QED BY <1>1, ConsoleInvariance, PTL

-----------------------------------------------------------------------------
(* The paper.  Position and OnPaper for a given output, and for the first  *)
(* d characters of it.                                                     *)
Origin == [row |-> 0, col |-> 0]
Place == [row : Nat, col : 0..(WIDTH - 1)]
Shown == Printable \cup Control

PositionOf(out) ==
    LET after[n \in 0..Len(out)] ==
            IF n = 0 THEN [row |-> 0, col |-> 0] ELSE Advance(after[n - 1], out[n])
    IN  after

There(out, d, row, col) ==
    {n \in 1..d : out[n] \in Printable /\ PositionOf(out)[n - 1] = [row |-> row, col |-> col]}

LastOf(out, S) == IF S = {} THEN Blank ELSE out[CHOOSE n \in S : \A m \in S : m <= n]
Paper(out, d, row, col) == LastOf(out, There(out, d, row, col))

LEMMA PaperIsOnPaper ==
    /\ Position = PositionOf(output)
    /\ \A row, col : OnPaper(row, col) = Paper(output, Len(output), row, col)
  <1>1. Position = PositionOf(output)
    BY DEF Position, PositionOf
  <1>2. ASSUME NEW row, NEW col
        PROVE  OnPaper(row, col) = Paper(output, Len(output), row, col)
    BY <1>1 DEF OnPaper, Paper, LastOf, There
  <1> QED BY <1>1, <1>2

Follows(f, out, last) ==
    f = [n \in 0..last |-> IF n = 0 THEN Origin ELSE Advance(f[n - 1], out[n])]

(* The recursion defines a function: a least length for which it did not   *)
(* would be one more than a length for which it does.                      *)
LEMMA PositionExists ==
    ASSUME NEW out, NEW last \in Nat
    PROVE  \E f : Follows(f, out, last)
  <1> DEFINE T == {m \in Nat : ~ \E f : Follows(f, out, m)}
  <1>1. SUFFICES ASSUME last \in T PROVE FALSE
    OBVIOUS
  <1>2. PICK m \in T : \A t \in T : m <= t
    <2>1. T \in SUBSET Nat /\ T # {}
      BY <1>1
    <2> HIDE DEF T
    <2> QED BY <2>1, LeastExists
  <1>3. m \in Nat /\ ~ \E f : Follows(f, out, m)
    OBVIOUS
  <1>4. m # 0
    <2>1. Follows([n \in 0..0 |-> Origin], out, 0)
      <3> DEFINE f == [n \in 0..0 |-> Origin]
                 g == [n \in 0..0 |-> IF n = 0 THEN Origin ELSE Advance(f[n - 1], out[n])]
      <3>1. \A n \in 0..0 : n = 0
        OBVIOUS
      <3>2. \A n \in 0..0 : f[n] = g[n]
        BY <3>1
      <3>3. f = g
        BY <3>2
      <3> QED BY <3>3 DEF Follows
    <2> QED BY <1>3, <2>1
  <1>5. PICK f : Follows(f, out, m - 1)
    <2>1. m - 1 \in Nat /\ ~(m <= m - 1)
      BY <1>3, <1>4
    <2>2. m - 1 \notin T
      BY <1>2, <2>1
    <2> QED BY <2>1, <2>2
  <1> DEFINE g == [n \in 0..m |-> IF n = m THEN Advance(f[m - 1], out[m]) ELSE f[n]]
  <1>6. ASSUME NEW n \in 0..m
        PROVE  g[n] = IF n = 0 THEN Origin ELSE Advance(g[n - 1], out[n])
    <2>1. CASE n = 0
      BY <1>3, <1>4, <1>5, <2>1 DEF Follows
    <2>2. CASE n # 0
      <3>1. g[n - 1] = f[n - 1]
        BY <1>3, <2>2
      <3>2. n # m => f[n] = Advance(f[n - 1], out[n])
        BY <1>3, <1>5, <2>2 DEF Follows
      <3> QED BY <2>2, <3>1, <3>2
    <2> QED BY <2>1, <2>2
  <1>7. Follows(g, out, m)
    <2> DEFINE h == [n \in 0..m |-> IF n = 0 THEN Origin ELSE Advance(g[n - 1], out[n])]
    <2>1. \A n \in 0..m : g[n] = h[n]
      BY <1>6
    <2>2. g = h
      BY <2>1
    <2> QED BY <2>2 DEF Follows
  <1> QED BY <1>3, <1>7

LEMMA PositionSteps ==
    ASSUME NEW out, Len(out) \in Nat
    PROVE  /\ PositionOf(out)[0] = Origin
           /\ \A n \in 1..Len(out) :
                PositionOf(out)[n] = Advance(PositionOf(out)[n - 1], out[n])
  <1> DEFINE P == PositionOf(out)
  <1>1. \E f : Follows(f, out, Len(out))
    BY PositionExists
  <1>2. Follows(P, out, Len(out))
    BY <1>1 DEF PositionOf, Follows, Origin
  <1> HIDE DEF P
  <1>3. \A n \in 0..Len(out) : P[n] = IF n = 0 THEN Origin ELSE Advance(P[n - 1], out[n])
    BY <1>2 DEF Follows
  <1>4. 0 \in 0..Len(out)
    OBVIOUS
  <1>5. P[0] = Origin
    BY <1>3, <1>4
  <1>6. \A n \in 1..Len(out) : P[n] = Advance(P[n - 1], out[n])
    BY <1>3
  <1> QED BY <1>5, <1>6 DEF P

(* The column behind a character, which may be the edge. *)
Behind(col, c) == CASE c \in Printable -> col + 1
                    [] c = "HT" -> TabStop(col)
                    [] OTHER -> 0
Down(c) == IF c = "LF" THEN 1 ELSE 0

LEMMA BehindCases ==
    ASSUME NEW col \in 0..(WIDTH - 1), NEW c \in Shown
    PROVE  /\ Behind(col, c) \in 0..WIDTH /\ Down(c) \in 0..1
           /\ c \in Printable => Behind(col, c) = col + 1 /\ c \notin Control
           /\ c = "HT" => Behind(col, c) = TabStop(col)
           /\ c \in {"CR", "LF"} => Behind(col, c) = 0
  <1>1. CASE c \in Printable
    <2>1. c \notin Control
      BY <1>1, TextAssumption
    <2> QED BY <1>1, <2>1, Sizes DEF Behind, Down, Control
  <1>2. CASE c \notin Printable
    <2>1. c \in {"HT", "CR", "LF"} /\ TabStop(col) \in 0..WIDTH
      BY <1>2, TabStopInRow, Sizes DEF Shown, Control
    <2> QED BY <1>2, <2>1, Sizes DEF Behind, Down
  <1> QED BY <1>1, <1>2

LEMMA AdvanceCases ==
    ASSUME NEW p \in Place, NEW c \in Shown
    PROVE  /\ Advance(p, c) \in Place
           /\ Behind(p.col, c) = WIDTH =>
                Advance(p, c) = [row |-> p.row + 1, col |-> 0] /\ Down(c) = 0
           /\ Behind(p.col, c) # WIDTH =>
                Advance(p, c) = [row |-> p.row + Down(c), col |-> Behind(p.col, c)]
           /\ Advance(p, c).row \in p.row..(p.row + 1)
  <1> DEFINE q == Behind(p.col, c)
  <1>1. p.row \in Nat /\ p.col \in 0..(WIDTH - 1)
    BY DEF Place
  <1>2. q \in 0..WIDTH /\ Down(c) \in 0..1 /\ (Down(c) = 1 => q = 0)
    BY <1>1, BehindCases DEF Down
  <1>3. Advance(p, c) = IF q = WIDTH THEN [row |-> p.row + Down(c) + 1, col |-> 0]
                                     ELSE [row |-> p.row + Down(c), col |-> q]
    BY <1>1 DEF Advance, Behind, Down
  <1> HIDE DEF q
  <1>4. q = WIDTH => Down(c) = 0
    BY <1>2, Sizes
  <1>5. CASE q = WIDTH
    <2>1. Advance(p, c) = [row |-> p.row + 1, col |-> 0]
      BY <1>1, <1>3, <1>4, <1>5
    <2> QED BY <1>1, <1>4, <1>5, <2>1, Sizes DEF Place, q
  <1>6. CASE q # WIDTH
    <2>1. Advance(p, c) = [row |-> p.row + Down(c), col |-> q]
      BY <1>3, <1>6
    <2>2. q \in 0..(WIDTH - 1)
      BY <1>2, <1>6, Sizes
    <2> QED BY <1>1, <1>2, <1>6, <2>1, <2>2 DEF Place, q
  <1> QED BY <1>5, <1>6

LEMMA PositionType ==
    ASSUME NEW out \in Seq(Shown), NEW d \in 0..Len(out)
    PROVE  PositionOf(out)[d] \in Place
  <1> DEFINE P == PositionOf(out)
             T == {n \in 0..Len(out) : P[n] \notin Place}
  <1>1. SUFFICES ASSUME d \in T PROVE FALSE
    OBVIOUS
  <1>2. PICK m \in T : \A t \in T : m <= t
    <2>1. T \in SUBSET Nat /\ T # {}
      BY <1>1
    <2> HIDE DEF T
    <2> QED BY <2>1, LeastExists
  <1>3. m \in 0..Len(out) /\ P[m] \notin Place
    OBVIOUS
  <1>4. m # 0
    <2>1. P[0] = Origin
      BY PositionSteps
    <2> QED BY <1>3, <2>1, Sizes DEF Place, Origin
  <1>5. P[m - 1] \in Place
    <2>1. m - 1 \in 0..Len(out) /\ ~(m <= m - 1)
      BY <1>3, <1>4
    <2>2. m - 1 \notin T
      BY <1>2, <2>1
    <2> QED BY <2>1, <2>2
  <1>6. P[m] = Advance(P[m - 1], out[m]) /\ out[m] \in Shown
    <2>1. m \in 1..Len(out)
      BY <1>3, <1>4
    <2> QED BY <2>1, PositionSteps
  <1> HIDE DEF P
  <1> QED BY <1>3, <1>5, <1>6, AdvanceCases

(* The cursor never moves up. *)
LEMMA RowsGrow ==
    ASSUME NEW out \in Seq(Shown), NEW n \in 0..Len(out), NEW d \in n..Len(out)
    PROVE  PositionOf(out)[n].row <= PositionOf(out)[d].row
  <1> DEFINE P == PositionOf(out)
             T == {m \in n..Len(out) : ~(P[n].row <= P[m].row)}
  <1>1. SUFFICES ASSUME d \in T PROVE FALSE
    OBVIOUS
  <1>2. PICK m \in T : \A t \in T : m <= t
    <2>1. T \in SUBSET Nat /\ T # {}
      BY <1>1
    <2> HIDE DEF T
    <2> QED BY <2>1, LeastExists
  <1>3. m \in n..Len(out) /\ ~(P[n].row <= P[m].row)
    OBVIOUS
  <1>4. \A k \in 0..Len(out) : P[k] \in Place /\ P[k].row \in Nat
    BY PositionType DEF Place
  <1> HIDE DEF P
  <1>5. m # n
    BY <1>3, <1>4
  <1>6. m - 1 \in n..Len(out) /\ ~(m <= m - 1)
    BY <1>3, <1>5
  <1>7. P[n].row <= P[m - 1].row
    <2>1. m - 1 \notin T
      BY <1>2, <1>6
    <2> QED BY <1>6, <2>1
  <1>8. P[m] = Advance(P[m - 1], out[m]) /\ out[m] \in Shown /\ P[m - 1] \in Place
    <2>1. m \in 1..Len(out) /\ m - 1 \in 0..Len(out)
      BY <1>3, <1>5
    <2> QED BY <2>1, <1>4, PositionSteps DEF P
  <1>9. P[m].row \in P[m - 1].row..(P[m - 1].row + 1)
    BY <1>8, AdvanceCases
  <1> QED BY <1>3, <1>4, <1>6, <1>7, <1>9

LEMMA PositionExtends ==
    ASSUME NEW out \in Seq(Shown), NEW text \in Seq(Shown), NEW d \in 0..Len(out)
    PROVE  PositionOf(out \o text)[d] = PositionOf(out)[d]
  <1> DEFINE P == PositionOf(out)
             Q == PositionOf(out \o text)
             T == {n \in 0..Len(out) : Q[n] # P[n]}
  <1>1. SUFFICES ASSUME d \in T PROVE FALSE
    OBVIOUS
  <1>2. PICK m \in T : \A t \in T : m <= t
    <2>1. T \in SUBSET Nat /\ T # {}
      BY <1>1
    <2> HIDE DEF T
    <2> QED BY <2>1, LeastExists
  <1>3. m \in 0..Len(out) /\ Q[m] # P[m]
    OBVIOUS
  <1>4. Len(out \o text) \in Nat /\ Len(out \o text) >= Len(out)
    OBVIOUS
  <1>5. P[0] = Origin /\ Q[0] = Origin
    BY <1>4, PositionSteps
  <1>6. m # 0
    BY <1>3, <1>5
  <1>7. Q[m - 1] = P[m - 1]
    <2>1. m - 1 \in 0..Len(out) /\ ~(m <= m - 1)
      BY <1>3, <1>6
    <2>2. m - 1 \notin T
      BY <1>2, <2>1
    <2> QED BY <2>1, <2>2
  <1>8. (out \o text)[m] = out[m] /\ m \in 1..Len(out) /\ m \in 1..Len(out \o text)
    BY <1>3, <1>4, <1>6
  <1>9. P[m] = Advance(P[m - 1], out[m]) /\ Q[m] = Advance(Q[m - 1], (out \o text)[m])
    <2>1. \A n \in 1..Len(out) : P[n] = Advance(P[n - 1], out[n])
      BY PositionSteps
    <2>2. \A n \in 1..Len(out \o text) : Q[n] = Advance(Q[n - 1], (out \o text)[n])
      <3> DEFINE whole == out \o text
      <3> HIDE DEF whole
      <3>1. Len(whole) \in Nat
        BY <1>4 DEF whole
      <3>2. \A n \in 1..Len(whole) :
                PositionOf(whole)[n] = Advance(PositionOf(whole)[n - 1], whole[n])
        BY <3>1, PositionSteps
      <3> QED BY <3>2, Zenon DEF whole
    <2> HIDE DEF P, Q
    <2> QED BY <1>8, <2>1, <2>2
  <1> HIDE DEF P, Q
  <1> QED BY <1>3, <1>7, <1>8, <1>9

(* The paper after one more character. *)
LEMMA PaperNext ==
    ASSUME NEW out \in Seq(Shown), NEW d \in 0..(Len(out) - 1), NEW row, NEW col
    PROVE  Paper(out, d + 1, row, col) =
             IF out[d + 1] \in Printable /\ PositionOf(out)[d] = [row |-> row, col |-> col]
             THEN out[d + 1] ELSE Paper(out, d, row, col)
  <1> DEFINE S == There(out, d, row, col)
             S1 == There(out, d + 1, row, col)
             now == out[d + 1] \in Printable /\ PositionOf(out)[d] = [row |-> row, col |-> col]
  <1>1. d + 1 - 1 = d /\ d \in Nat
    OBVIOUS
  <1>2. \A n : n \in S1 <=> n \in S \/ (n = d + 1 /\ now)
    <2>1. \A n : n \in 1..(d + 1) <=> n \in 1..d \/ n = d + 1
      BY <1>1
    <2>2. \A n : n \in S1 <=> /\ n \in 1..(d + 1) /\ out[n] \in Printable
                              /\ PositionOf(out)[n - 1] = [row |-> row, col |-> col]
      BY DEF There
    <2>3. \A n : n \in S <=> /\ n \in 1..d /\ out[n] \in Printable
                             /\ PositionOf(out)[n - 1] = [row |-> row, col |-> col]
      BY DEF There
    <2> HIDE DEF S, S1
    <2> QED BY <1>1, <2>1, <2>2, <2>3
  <1>3. \A n \in S : n \in 1..d
    BY DEF There
  <1>6. Paper(out, d + 1, row, col) = LastOf(out, S1) /\ Paper(out, d, row, col) = LastOf(out, S)
    BY DEF Paper
  <1> HIDE DEF S, S1
  <1>4. CASE now
    <2>1. d + 1 \in S1 /\ \A m \in S1 : m <= d + 1 /\ m \in Int
      BY <1>1, <1>2, <1>3, <1>4
    <2>2. (CHOOSE n \in S1 : \A m \in S1 : m <= n) = d + 1
      <3>1. \A n \in S1 : (\A m \in S1 : m <= n) <=> n = d + 1
        BY <1>1, <2>1
      <3> QED BY <2>1, <3>1
    <2>3. S1 # {}
      BY <2>1
    <2> QED BY <1>4, <1>6, <2>2, <2>3 DEF LastOf
  <1>5. CASE ~now
    <2>1. S1 = S
      BY <1>2, <1>5
    <2>2. Paper(out, d + 1, row, col) = Paper(out, d, row, col)
      BY <1>6, <2>1
    <2> QED BY <1>5, <2>2
  <1> QED BY <1>4, <1>5

(* Below the row of the last character the paper is blank. *)
LEMMA PaperBelow ==
    ASSUME NEW out \in Seq(Shown), NEW d \in 0..(Len(out) - 1), NEW row \in Nat, NEW col,
           PositionOf(out)[d].row < row
    PROVE  Paper(out, d + 1, row, col) = Blank
  <1> SUFFICES ASSUME NEW n \in There(out, d + 1, row, col) PROVE FALSE
    BY DEF Paper, LastOf
  <1>1. n \in 1..(d + 1) /\ PositionOf(out)[n - 1] = [row |-> row, col |-> col]
    BY DEF There
  <1>2. n - 1 \in 0..Len(out) /\ d \in (n - 1)..Len(out)
    BY <1>1
  <1>3. PositionOf(out)[n - 1].row <= PositionOf(out)[d].row
    BY <1>2, RowsGrow
  <1>4. PositionOf(out)[d].row \in Nat /\ PositionOf(out)[n - 1].row = row
    BY <1>1, <1>2, PositionType DEF Place
  <1> QED BY <1>3, <1>4

LEMMA PaperExtends ==
    ASSUME NEW out \in Seq(Shown), NEW text \in Seq(Shown), NEW d \in 0..Len(out),
           NEW row, NEW col
    PROVE  Paper(out \o text, d, row, col) = Paper(out, d, row, col)
  <1>1. \A n \in 1..d : /\ (out \o text)[n] = out[n]
                        /\ PositionOf(out \o text)[n - 1] = PositionOf(out)[n - 1]
    <2> TAKE n \in 1..d
    <2>1. n - 1 \in 0..Len(out) /\ n \in 1..Len(out)
      OBVIOUS
    <2> QED BY <2>1, PositionExtends
  <1> DEFINE S == There(out, d, row, col)
             S1 == There(out \o text, d, row, col)
  <1>2. S1 = S /\ \A n \in S : (out \o text)[n] = out[n]
    BY <1>1 DEF There
  <1>3. S # {} => (CHOOSE n \in S : \A m \in S : m <= n) \in S
    <2> SUFFICES ASSUME S # {} PROVE \E n \in S : \A m \in S : m <= n
      OBVIOUS
    <2> DEFINE T == {t \in Nat : d - t \in S}
    <2>1. PICK n \in S : TRUE
      OBVIOUS
    <2>2. \A m \in S : m \in 1..d
      BY DEF There
    <2> HIDE DEF S
    <2>3. d - n \in T
      <3>1. d - n \in Nat /\ d - (d - n) = n
        BY <2>2
      <3> QED BY <2>1, <3>1
    <2>4. PICK t \in T : \A u \in T : t <= u
      <3>1. T \in SUBSET Nat /\ T # {}
        BY <2>3
      <3> HIDE DEF T
      <3> QED BY <3>1, LeastExists
    <2>5. d - t \in S /\ t \in Nat
      OBVIOUS
    <2>6. ASSUME NEW m \in S PROVE m <= d - t
      <3>1. d - m \in Nat /\ d - (d - m) = m
        BY <2>2
      <3>2. d - m \in T
        BY <3>1
      <3>3. t <= d - m
        BY <2>4, <3>2
      <3> QED BY <2>2, <2>5, <3>1, <3>3
    <2> QED BY <2>5, <2>6
  <1> HIDE DEF S, S1
  <1>4. Paper(out \o text, d, row, col) = LastOf(out \o text, S)
        /\ Paper(out, d, row, col) = LastOf(out, S)
    BY <1>2 DEF Paper, S, S1
  <1> DEFINE last == CHOOSE n \in S : \A m \in S : m <= n
  <1>5. \A o : LastOf(o, S) = IF S = {} THEN Blank ELSE o[last]
    BY DEF LastOf
  <1>6. S # {} => last \in S
    BY <1>3
  <1> HIDE DEF last
  <1> QED BY <1>2, <1>4, <1>5, <1>6

-----------------------------------------------------------------------------
(* The screen v shows the paper from the row above on; while it is being   *)
(* scrolled, the cells below k are those of one row further down.          *)
Above(row) == IF row < HEIGHT THEN 0 ELSE row - HEIGHT + 1
Cell(row, col) == row * WIDTH + col
ScreenRows == 0..(HEIGHT - 1)
ScreenCols == 0..(WIDTH - 1)

Picture(v, out, d, above) ==
    \A row \in ScreenRows, col \in ScreenCols :
        v[Cell(row, col)] = Paper(out, d, row + above, col)

Halfway(v, out, d, above, k) ==
    \A row \in ScreenRows, col \in ScreenCols :
        v[Cell(row, col)] = Paper(out, d, row + above + (IF Cell(row, col) < k THEN 1 ELSE 0), col)

LEMMA CellUnique ==
    ASSUME NEW y \in Nat, NEW x \in ScreenCols, NEW row \in Nat, NEW col \in ScreenCols,
           Cell(y, x) = Cell(row, col)
    PROVE  y = row /\ x = col
  <1>1. /\ y * WIDTH \in Nat /\ row * WIDTH \in Nat /\ WIDTH \in Nat
        /\ (y + 1) * WIDTH = y * WIDTH + WIDTH /\ (row + 1) * WIDTH = row * WIDTH + WIDTH
    BY Sizes, Order
  <1>2. x \in 0..(WIDTH - 1) /\ col \in 0..(WIDTH - 1)
    BY DEF ScreenCols
  <1>3. ~(y < row)
    <2> SUFFICES ASSUME y < row PROVE FALSE
      OBVIOUS
    <2>1. (y + 1) * WIDTH <= row * WIDTH
      BY Sizes, Order
    <2> QED BY <1>1, <1>2, <2>1 DEF Cell
  <1>4. ~(row < y)
    <2> SUFFICES ASSUME row < y PROVE FALSE
      OBVIOUS
    <2>1. (row + 1) * WIDTH <= y * WIDTH
      BY Sizes, Order
    <2> QED BY <1>1, <1>2, <2>1 DEF Cell
  <1>5. y = row
    BY <1>3, <1>4
  <1> QED BY <1>1, <1>2, <1>5 DEF Cell

(* A cell of the screen, and the one below it. *)
LEMMA CellBounds ==
    ASSUME NEW row \in ScreenRows, NEW col \in ScreenCols
    PROVE  /\ Cell(row, col) \in Cells /\ Cell(row, col) \in Nat
           /\ Cell(row, col) < HEIGHT * WIDTH /\ HEIGHT * WIDTH \in Nat
           /\ (HEIGHT - 1) * WIDTH = HEIGHT * WIDTH - WIDTH
           /\ Cell(row + 1, col) = Cell(row, col) + WIDTH
           /\ Cell(row, col) < (HEIGHT - 1) * WIDTH <=> row + 1 \in ScreenRows
  <1>1. row \in 0..(HEIGHT - 1) /\ col \in 0..(WIDTH - 1)
    BY DEF ScreenRows, ScreenCols
  <1>2. /\ (row + 1) * WIDTH = row * WIDTH + WIDTH
        /\ (HEIGHT - 1) * WIDTH = HEIGHT * WIDTH - WIDTH
        /\ row * WIDTH \in Nat /\ HEIGHT * WIDTH \in Nat
        /\ (row + 1) * WIDTH <= HEIGHT * WIDTH
    BY <1>1, Sizes, Order
  <1>3. Cell(row, col) \in Cells
    BY <1>1, CellOf, Sizes DEF Cell
  <1>4. row + 1 <= HEIGHT - 1 => (row + 1) * WIDTH <= (HEIGHT - 1) * WIDTH
    BY <1>1, Sizes, Order
  <1>5. row + 1 > HEIGHT - 1 => row = HEIGHT - 1
    BY <1>1, Sizes
  <1>6. Cell(row, col) = row * WIDTH + col /\ Cell(row + 1, col) = (row + 1) * WIDTH + col
    BY DEF Cell
  <1>7. row + 1 \in ScreenRows <=> row + 1 <= HEIGHT - 1
    BY <1>1, Sizes DEF ScreenRows
  <1>8. Cell(row, col) < (HEIGHT - 1) * WIDTH <=> row + 1 \in ScreenRows
    BY <1>1, <1>2, <1>4, <1>5, <1>6, <1>7, Sizes
  <1> QED BY <1>1, <1>2, <1>3, <1>6, <1>8, Sizes

LEMMA PicturePut ==
    ASSUME NEW out \in Seq(Shown), NEW d \in 0..(Len(out) - 1), NEW v \in [Cells -> Printable],
           NEW y \in ScreenRows, NEW above \in Nat, out[d + 1] \in Printable,
           PositionOf(out)[d].row = y + above, Picture(v, out, d, above)
    PROVE  Picture([v EXCEPT ![Cell(y, PositionOf(out)[d].col)] = out[d + 1]], out, d + 1, above)
  <1> DEFINE x == PositionOf(out)[d].col
             w == [v EXCEPT ![Cell(y, x)] = out[d + 1]]
  <1>1. PositionOf(out)[d] = [row |-> y + above, col |-> x] /\ x \in ScreenCols
    <2>1. PositionOf(out)[d] \in Place
      BY PositionType
    <2> QED BY <2>1 DEF Place, ScreenCols
  <1> SUFFICES ASSUME NEW row \in ScreenRows, NEW col \in ScreenCols
               PROVE  w[Cell(row, col)] = Paper(out, d + 1, row + above, col)
    BY DEF Picture
  <1>2. Cell(row, col) \in Cells /\ row \in Nat /\ y \in Nat
    BY CellBounds DEF ScreenRows
  <1>3. Paper(out, d + 1, row + above, col) =
            IF row = y /\ col = x THEN out[d + 1] ELSE Paper(out, d, row + above, col)
    <2>1. PositionOf(out)[d] = [row |-> row + above, col |-> col] <=> row = y /\ col = x
      <3>1. row + above = y + above <=> row = y
        BY <1>2
      <3> HIDE DEF x
      <3> QED BY <1>1, <3>1
    <2> HIDE DEF x
    <2> QED BY <2>1, PaperNext
  <1>4. v[Cell(row, col)] = Paper(out, d, row + above, col)
    BY DEF Picture
  <1>5. Cell(row, col) = Cell(y, x) <=> row = y /\ col = x
    BY <1>1, <1>2, CellUnique
  <1> HIDE DEF x
  <1> QED BY <1>2, <1>3, <1>4, <1>5

LEMMA PictureKeep ==
    ASSUME NEW out \in Seq(Shown), NEW d \in 0..(Len(out) - 1), NEW v, NEW above \in Nat,
           out[d + 1] \notin Printable, Picture(v, out, d, above)
    PROVE  Picture(v, out, d + 1, above)
  <1>1. \A row, col : Paper(out, d + 1, row, col) = Paper(out, d, row, col)
    BY PaperNext
  <1> QED BY <1>1 DEF Picture

LEMMA HalfwayEnds ==
    ASSUME NEW out, NEW d, NEW v, NEW above \in Nat
    PROVE  /\ Picture(v, out, d, above) => Halfway(v, out, d, above, 0)
           /\ Halfway(v, out, d, above, HEIGHT * WIDTH) => Picture(v, out, d, above + 1)
  <1>1. ASSUME NEW row \in ScreenRows, NEW col \in ScreenCols
        PROVE  /\ ~(Cell(row, col) < 0) /\ Cell(row, col) < HEIGHT * WIDTH
               /\ row + above + 0 = row + above /\ row + above + 1 = row + (above + 1)
    BY CellBounds DEF ScreenRows
  <1> QED BY <1>1 DEF Picture, Halfway

(* One cell is moved up, or blanked in the last row. *)
LEMMA HalfwayStep ==
    ASSUME NEW out \in Seq(Shown), NEW d \in 0..(Len(out) - 1), NEW v \in [Cells -> Printable],
           NEW above \in Nat, NEW k \in Nat, k < HEIGHT * WIDTH,
           PositionOf(out)[d].row = HEIGHT - 1 + above,
           Halfway(v, out, d + 1, above, k)
    PROVE  Halfway([v EXCEPT ![k] = IF k < (HEIGHT - 1) * WIDTH THEN v[k + WIDTH] ELSE Blank],
                   out, d + 1, above, k + 1)
  <1> DEFINE new == IF k < (HEIGHT - 1) * WIDTH THEN v[k + WIDTH] ELSE Blank
             w == [v EXCEPT ![k] = new]
  <1> SUFFICES ASSUME NEW row \in ScreenRows, NEW col \in ScreenCols
               PROVE  w[Cell(row, col)] = Paper(out, d + 1,
                        row + above + (IF Cell(row, col) < k + 1 THEN 1 ELSE 0), col)
    BY DEF Halfway
  <1>1. Cell(row, col) \in Cells /\ Cell(row, col) \in Nat /\ row \in 0..(HEIGHT - 1)
    BY CellBounds DEF ScreenRows
  <1>2. v[Cell(row, col)] =
            Paper(out, d + 1, row + above + (IF Cell(row, col) < k THEN 1 ELSE 0), col)
    BY DEF Halfway
  <1>3. CASE Cell(row, col) # k
    <2>1. Cell(row, col) < k + 1 <=> Cell(row, col) < k
      BY <1>1, <1>3
    <2>2. w[Cell(row, col)] = v[Cell(row, col)]
      BY <1>1, <1>3
    <2> QED BY <1>2, <2>1, <2>2
  <1>4. CASE Cell(row, col) = k
    <2>1. w[Cell(row, col)] = new /\ Cell(row, col) < k + 1
      BY <1>1, <1>4
    <2>2. CASE k < (HEIGHT - 1) * WIDTH
      <3>1. row + 1 \in ScreenRows /\ Cell(row + 1, col) = k + WIDTH
        BY <1>4, <2>2, CellBounds
      <3>2. ~(Cell(row + 1, col) < k)
        BY <3>1, Sizes
      <3>3. v[Cell(row + 1, col)] = Paper(out, d + 1, row + 1 + above + 0, col)
        BY <3>1, <3>2 DEF Halfway
      <3>4. row + 1 + above + 0 = row + above + 1
        BY <1>1
      <3> QED BY <2>1, <2>2, <3>1, <3>3, <3>4
    <2>3. CASE ~(k < (HEIGHT - 1) * WIDTH)
      <3>1. row = HEIGHT - 1
        <4>1. row + 1 \notin ScreenRows
          BY <1>4, <2>3, CellBounds
        <4> QED BY <1>1, <4>1, Sizes DEF ScreenRows
      <3>2. row + above + 1 \in Nat /\ PositionOf(out)[d].row < row + above + 1
        BY <3>1, <1>1, Sizes
      <3>3. Paper(out, d + 1, row + above + 1, col) = Blank
        BY <3>2, PaperBelow
      <3> QED BY <2>1, <2>3, <3>3
    <2> QED BY <2>2, <2>3
  <1> QED BY <1>3, <1>4

(* All of it at once. *)
LEMMA PictureScrolled ==
    ASSUME NEW out \in Seq(Shown), NEW d \in 0..(Len(out) - 1), NEW v \in [Cells -> Printable],
           NEW above \in Nat, PositionOf(out)[d].row = HEIGHT - 1 + above,
           Picture(v, out, d + 1, above)
    PROVE  Picture(Scrolled(v, 1), out, d + 1, above + 1)
  <1> SUFFICES ASSUME NEW row \in ScreenRows, NEW col \in ScreenCols
               PROVE  Scrolled(v, 1)[Cell(row, col)] = Paper(out, d + 1, row + (above + 1), col)
    BY DEF Picture
  <1>1. Cell(row, col) \in Cells /\ row \in 0..(HEIGHT - 1) /\ Cell(row, col) < HEIGHT * WIDTH
    BY CellBounds DEF ScreenRows
  <1>2. Scrolled(v, 1)[Cell(row, col)] =
            IF Cell(row, col) < (HEIGHT - 1) * WIDTH THEN v[Cell(row, col) + WIDTH] ELSE Blank
    <2>1. (HEIGHT - 1 + 1) * WIDTH = HEIGHT * WIDTH /\ 1 * WIDTH = WIDTH
      BY Sizes
    <2> HIDE DEF Cells
    <2> QED BY <1>1, <2>1 DEF Scrolled
  <1>3. CASE Cell(row, col) < (HEIGHT - 1) * WIDTH
    <2>1. row + 1 \in ScreenRows /\ Cell(row + 1, col) = Cell(row, col) + WIDTH
      BY <1>3, CellBounds
    <2>2. v[Cell(row + 1, col)] = Paper(out, d + 1, row + 1 + above, col)
      BY <2>1 DEF Picture
    <2>3. row + 1 + above = row + (above + 1)
      BY <1>1
    <2> QED BY <1>2, <1>3, <2>1, <2>2, <2>3
  <1>4. CASE ~(Cell(row, col) < (HEIGHT - 1) * WIDTH)
    <2>1. row = HEIGHT - 1
      <3>1. row + 1 \notin ScreenRows
        BY <1>4, CellBounds
      <3> QED BY <1>1, <3>1, Sizes DEF ScreenRows
    <2>2. row + (above + 1) \in Nat /\ PositionOf(out)[d].row < row + (above + 1)
      BY <1>1, <2>1, Sizes
    <2>3. Paper(out, d + 1, row + (above + 1), col) = Blank
      BY <2>2, PaperBelow
    <2> QED BY <1>2, <1>4, <2>3
  <1> QED BY <1>3, <1>4

-----------------------------------------------------------------------------
(* The cursor after d characters, on the paper and on the screen. *)
Row(out, d) == PositionOf(out)[d].row
Col(out, d) == PositionOf(out)[d].col
Top(out, d) == Above(Row(out, d))
Y(out, d) == Row(out, d) - Top(out, d)
Edge(out, d) == Behind(Col(out, d), out[d + 1])

LEMMA CursorPlace ==
    ASSUME NEW out \in Seq(Shown), NEW d \in 0..Len(out)
    PROVE  /\ Row(out, d) \in Nat /\ Col(out, d) \in 0..(WIDTH - 1) /\ Top(out, d) \in Nat
           /\ Y(out, d) \in 0..(HEIGHT - 1) /\ Row(out, d) = Y(out, d) + Top(out, d)
  <1>1. Row(out, d) \in Nat /\ Col(out, d) \in 0..(WIDTH - 1)
    BY PositionType DEF Place, Row, Col
  <1> QED BY <1>1, Sizes DEF Top, Y, Above

(* The screen is scrolled when the cursor leaves its last row. *)
LEMMA AboveNext ==
    ASSUME NEW r \in Nat, NEW t \in r..(r + 1)
    PROVE  /\ t - Above(r) \in 0..HEIGHT
           /\ t - Above(r) = HEIGHT => /\ r = HEIGHT - 1 + Above(r)
                                       /\ Above(t) = Above(r) + 1 /\ t - Above(t) = HEIGHT - 1
           /\ t - Above(r) # HEIGHT => Above(t) = Above(r)
  <1>1. CASE r < HEIGHT
    <2>1. Above(r) = 0
      BY <1>1 DEF Above
    <2>2. t < HEIGHT => Above(t) = 0
      BY DEF Above
    <2>3. t = HEIGHT => Above(t) = 1
      BY Sizes DEF Above
    <2> QED BY <1>1, <2>1, <2>2, <2>3, Sizes
  <1>2. CASE ~(r < HEIGHT)
    <2>1. Above(r) = r - HEIGHT + 1
      BY <1>2 DEF Above
    <2>2. Above(t) = t - HEIGHT + 1
      BY <1>2, Sizes DEF Above
    <2> QED BY <1>2, <2>1, <2>2, Sizes
  <1> QED BY <1>1, <1>2

LEMMA CursorNext ==
    ASSUME NEW out \in Seq(Shown), NEW d \in 0..(Len(out) - 1)
    PROVE  /\ out[d + 1] \in Shown /\ Edge(out, d) \in 0..WIDTH /\ Down(out[d + 1]) \in 0..1
           /\ Edge(out, d) = WIDTH => /\ Row(out, d + 1) = Row(out, d) + 1
                                      /\ Col(out, d + 1) = 0 /\ Down(out[d + 1]) = 0
           /\ Edge(out, d) # WIDTH => /\ Row(out, d + 1) = Row(out, d) + Down(out[d + 1])
                                      /\ Col(out, d + 1) = Edge(out, d)
           /\ Row(out, d + 1) - Top(out, d) \in 0..HEIGHT
           /\ Row(out, d + 1) - Top(out, d) = HEIGHT =>
                /\ Row(out, d) = HEIGHT - 1 + Top(out, d)
                /\ Top(out, d + 1) = Top(out, d) + 1 /\ Y(out, d + 1) = HEIGHT - 1
           /\ Row(out, d + 1) - Top(out, d) # HEIGHT =>
                Top(out, d + 1) = Top(out, d) /\ Y(out, d + 1) = Row(out, d + 1) - Top(out, d)
  <1> DEFINE p == PositionOf(out)[d]
             q == PositionOf(out)[d + 1]
             c == out[d + 1]
  <1>1. d + 1 \in 1..Len(out) /\ d \in 0..Len(out) /\ d + 1 \in 0..Len(out) /\ d + 1 - 1 = d
    OBVIOUS
  <1>2. c \in Shown
    BY <1>1
  <1>3. p \in Place /\ q \in Place
    BY <1>1, PositionType
  <1>4. q = Advance(p, c)
    BY <1>1, PositionSteps
  <1> HIDE DEF p, q, c
  <1>5. p.row \in Nat /\ p.col \in 0..(WIDTH - 1) /\ q.row \in Nat
    BY <1>3 DEF Place
  <1>6. Behind(p.col, c) \in 0..WIDTH /\ Down(c) \in 0..1
    BY <1>2, <1>5, BehindCases
  <1>7. /\ Behind(p.col, c) = WIDTH => q.row = p.row + 1 /\ q.col = 0 /\ Down(c) = 0
        /\ Behind(p.col, c) # WIDTH => q.row = p.row + Down(c) /\ q.col = Behind(p.col, c)
        /\ q.row \in p.row..(p.row + 1)
    BY <1>2, <1>3, <1>4, AdvanceCases
  <1>8. /\ q.row - Above(p.row) \in 0..HEIGHT
        /\ q.row - Above(p.row) = HEIGHT =>
             /\ p.row = HEIGHT - 1 + Above(p.row)
             /\ Above(q.row) = Above(p.row) + 1 /\ q.row - Above(q.row) = HEIGHT - 1
        /\ q.row - Above(p.row) # HEIGHT =>
             Above(q.row) = Above(p.row)
    BY <1>5, <1>7, AboveNext
  <1>9. Row(out, d) = p.row /\ Col(out, d) = p.col /\ Row(out, d + 1) = q.row
        /\ Col(out, d + 1) = q.col /\ Edge(out, d) = Behind(p.col, c) /\ out[d + 1] = c
        /\ Top(out, d) = Above(p.row) /\ Top(out, d + 1) = Above(q.row)
        /\ Y(out, d + 1) = q.row - Above(q.row)
    BY DEF Row, Col, Edge, Top, Y, p, q, c
  <1> QED BY <1>2, <1>6, <1>7, <1>8, <1>9

-----------------------------------------------------------------------------
(* How far main, or the handler while main does not print, has got: d      *)
(* characters of the output are on the screen, and the rest is in buf.     *)
Unread(out, d, i) ==
    /\ i + Len(out) - d < BUF
    /\ \A n \in 1..(Len(out) - d) : buf[i + n - 1] = out[d + n]
    /\ buf[i + Len(out) - d] = NUL

Reading(out, d) ==
    /\ pc = "idle" /\ handler = -1 => d = Len(out)
    /\ handler >= 0 => Unread(out, d, handler)
    /\ pc = "format" =>
         /\ d + Len(at.text) = Len(out)
         /\ \A n \in 1..Len(at.text) : out[d + n] = at.text[n]
         /\ \A n \in 1..at.k : buf[n - 1] = at.text[n]
    /\ pc \notin {"idle", "format"} => Unread(out, d, at.i)
    /\ pc \notin {"idle", "format", "test"} => d < Len(out)
    /\ pc \notin {"idle", "format", "test", "fetch"} => at.c = out[d + 1]

Shows(out, d, above, x, y) ==
    csr_x = x /\ csr_y = y /\ Picture(video, out, d, above)

Blinks == crtc.high * BYTE + crtc.low = csr_y * WIDTH + csr_x

(* The screen at each stage of putch. *)
Drawn(out, d) ==
    /\ pc \in {"idle", "format", "test", "fetch", "where_y", "where_x", "put"} =>
         /\ Shows(out, d, Top(out, d), Col(out, d), Y(out, d))
         /\ d # 0 => Blinks
    /\ pc \in {"where_y", "where_x", "put"} => out[d + 1] \in Printable
    /\ pc \in {"where_x", "put", "write_y", "wrap_write_y"} => at.y = Y(out, d)
    /\ pc \in {"put", "write_x"} => at.x = Col(out, d)
    /\ pc \in {"read_x", "write_x"} => out[d + 1] \in Printable \cup {"HT"}
    /\ pc = "margin" => out[d + 1] \in {"CR", "LF"}
    /\ pc \in {"read_x", "write_x", "margin"} =>
         Shows(out, d + 1, Top(out, d), Col(out, d), Y(out, d))
    /\ pc \in {"read_y", "write_y"} =>
         out[d + 1] = "LF" /\ Shows(out, d + 1, Top(out, d), 0, Y(out, d))
    /\ pc = "edge" =>
         Shows(out, d + 1, Top(out, d), Edge(out, d), Y(out, d) + Down(out[d + 1]))
    /\ pc = "wrap" => Shows(out, d + 1, Top(out, d), WIDTH, Y(out, d))
    /\ pc \in {"wrap_y", "wrap_write_y"} => Shows(out, d + 1, Top(out, d), 0, Y(out, d))
    /\ pc \in {"wrap", "wrap_y", "wrap_write_y"} => Edge(out, d) = WIDTH
    /\ pc \in {"scroll", "temp"} =>
         Shows(out, d + 1, Top(out, d), Col(out, d + 1), Row(out, d + 1) - Top(out, d))
    /\ pc \in {"temp", "copy"} => Row(out, d + 1) - Top(out, d) = HEIGHT
    /\ pc = "copy" =>
         /\ csr_x = Col(out, d + 1) /\ at.temp = 1 /\ at.k <= HEIGHT * WIDTH
         /\ Halfway(video, out, d + 1, Top(out, d), at.k)
    /\ pc \in {"csr_y", "csr_x", "index_high", "high", "index_low", "low"} =>
         Shows(out, d + 1, Top(out, d + 1), Col(out, d + 1), Y(out, d + 1))
    /\ pc \in {"csr_x", "index_high", "high", "index_low", "low"} => at.y = csr_y
    /\ pc \in {"index_high", "high", "index_low", "low"} => at.x = csr_x
    /\ pc = "high" => crtc.index = 14
    /\ pc \in {"index_low", "low"} => crtc.high = (Where \div BYTE) % BYTE
    /\ pc = "low" => crtc.index = 15

(* torn is set when a handler prints into a print of main; until then they *)
(* print one after the other.                                              *)
Undisturbed ==
    ~torn => /\ output \in Seq(Shown)
             /\ handler >= 0 => pc = "idle"
             /\ \E d \in 0..Len(output) : Reading(output, d) /\ Drawn(output, d)

-----------------------------------------------------------------------------
(* What a step of main leaves as it was. *)
LEMMA ReadingKept ==
    ASSUME NEW out \in Seq(Shown), NEW d \in 0..Len(out), Reading(out, d),
           pc \notin {"idle", "format", "test", "fetch"},
           pc' \notin {"idle", "format", "test"}, handler = -1, UNCHANGED <<buf, handler>>,
           at'.i = at.i, at'.c = at.c
    PROVE  Reading(out, d)'
BY DEF Reading, Unread

(* The steps that read the cursor. *)
LEMMA DrawnReads ==
    ASSUME IInv, NEW out \in Seq(Shown), NEW d \in 0..Len(out), Reading(out, d), Drawn(out, d),
           \/ putch_where_y \/ putch_where_x \/ putch_read_x \/ putch_read_y
           \/ move_csr_y \/ move_csr_x
    PROVE  Reading(out, d)' /\ Drawn(out, d)'
  <1>1. /\ handler = -1 /\ UNCHANGED <<buf, csr_x, csr_y, video, crtc, handler>> /\ at \in Locals
        /\ \/ pc = "where_y" /\ pc' = "where_x" /\ at' = [at EXCEPT !.y = csr_y]
           \/ pc = "where_x" /\ pc' = "put" /\ at' = [at EXCEPT !.x = csr_x]
           \/ pc = "read_x" /\ pc' = "write_x" /\ at' = [at EXCEPT !.x = csr_x]
           \/ pc = "read_y" /\ pc' = "write_y" /\ at' = [at EXCEPT !.y = csr_y]
           \/ pc = "wrap_y" /\ pc' = "wrap_write_y" /\ at' = [at EXCEPT !.y = csr_y]
           \/ pc = "csr_y" /\ pc' = "csr_x" /\ at' = [at EXCEPT !.y = csr_y]
           \/ pc = "csr_x" /\ pc' = "index_high" /\ at' = [at EXCEPT !.x = csr_x]
    BY DEF putch_where_y, putch_where_x, putch_read_x, putch_read_y, move_csr_y, move_csr_x,
           Main, screen, IInv, TypeOK, Locals
  <1>2. /\ at'.i = at.i /\ at'.c = at.c
        /\ pc \in {"where_y", "read_y", "wrap_y", "csr_y"} => at'.y = csr_y
        /\ pc \in {"where_x", "read_x", "csr_x"} => at'.x = csr_x /\ at'.y = at.y
    BY <1>1 DEF Locals
  <1>3. Reading(out, d)'
    BY <1>1, <1>2, ReadingKept
  <1>4. Drawn(out, d)'
    BY <1>1, <1>2 DEF Drawn, Shows, Blinks
  <1> QED BY <1>3, <1>4

(* The loop of puts. *)
LEMMA NextCharacter ==
    ASSUME IInv, NEW out \in Seq(Shown), NEW d \in 0..Len(out), NEW i \in Nat,
           Unread(out, d, i)
    PROVE  /\ buf[i] = NUL <=> d = Len(out)
           /\ d < Len(out) => /\ buf[i] = out[d + 1] /\ out[d + 1] \in Shown
                              /\ Unread(out, d + 1, i + 1)
  <1>1. CASE d = Len(out)
    <2>1. i + Len(out) - d = i
      BY <1>1
    <2> QED BY <1>1, <2>1 DEF Unread
  <1>2. CASE d # Len(out)
    <2>1. d < Len(out) /\ 1 \in 1..(Len(out) - d) /\ i + 1 - 1 = i /\ d + 1 \in 1..Len(out)
      BY <1>2
    <2>2. buf[i] = out[d + 1] /\ out[d + 1] \in Shown
      <3>1. buf[i + 1 - 1] = out[d + 1]
        BY <2>1 DEF Unread
      <3>2. out[d + 1] \in Shown
        BY <2>1
      <3> QED BY <2>1, <3>1, <3>2
    <2>3. NUL \notin Shown
      BY TextAssumption DEF Shown, Control, NUL
    <2>4. Unread(out, d + 1, i + 1)
      <3>1. i + 1 + Len(out) - (d + 1) = i + Len(out) - d
        OBVIOUS
      <3>2. ASSUME NEW n \in 1..(Len(out) - (d + 1))
            PROVE  buf[i + 1 + n - 1] = out[d + 1 + n]
        <4>1. n + 1 \in 1..(Len(out) - d) /\ i + (n + 1) - 1 = i + 1 + n - 1
              /\ d + (n + 1) = d + 1 + n
          OBVIOUS
        <4>2. buf[i + (n + 1) - 1] = out[d + (n + 1)]
          BY <4>1 DEF Unread
        <4> QED BY <4>1, <4>2
      <3> QED BY <3>1, <3>2 DEF Unread
    <2> QED BY <2>1, <2>2, <2>3, <2>4
  <1> QED BY <1>1, <1>2

LEMMA DrawnTest ==
    ASSUME IInv, NEW out \in Seq(Shown), NEW d \in 0..Len(out), Reading(out, d), Drawn(out, d),
           puts_test
    PROVE  Reading(out, d)' /\ Drawn(out, d)'
  <1>1. /\ pc = "test" /\ handler = -1 /\ at \in Locals /\ Unread(out, d, at.i)
        /\ UNCHANGED <<buf, csr_x, csr_y, video, crtc, handler>>
    BY DEF puts_test, Main, screen, IInv, TypeOK, Locals, Reading
  <1>2. buf[at.i] = NUL <=> d = Len(out)
    BY <1>1, NextCharacter DEF Locals
  <1>3. Drawn(out, d)'
    <2>1. pc' \in {"idle", "fetch"}
      BY DEF puts_test, Main
    <2> QED BY <1>1, <2>1 DEF Drawn, Shows, Blinks
  <1>4. CASE buf[at.i] = NUL
    <2>1. pc' = "idle"
      BY <1>4 DEF puts_test, Main
    <2>2. Reading(out, d)'
      BY <1>1, <1>2, <1>4, <2>1 DEF Reading
    <2> QED BY <1>3, <2>2
  <1>5. CASE buf[at.i] # NUL
    <2>1. pc' = "fetch" /\ at' = at
      BY <1>5 DEF puts_test, Main
    <2>2. Unread(out, d, at.i)'
      BY <1>1, <2>1 DEF Unread
    <2>3. Reading(out, d)'
      BY <1>1, <1>2, <1>5, <2>1, <2>2 DEF Reading
    <2> QED BY <1>3, <2>3
  <1> QED BY <1>4, <1>5

LEMMA DrawnFetch ==
    ASSUME IInv, NEW out \in Seq(Shown), NEW d \in 0..Len(out), Reading(out, d), Drawn(out, d),
           puts_fetch
    PROVE  Reading(out, d)' /\ Drawn(out, d)'
  <1>1. /\ pc = "fetch" /\ handler = -1 /\ at \in Locals /\ Unread(out, d, at.i) /\ d < Len(out)
        /\ UNCHANGED <<buf, csr_x, csr_y, video, crtc, handler>>
        /\ pc' = Branch(buf[at.i]) /\ at' = [at EXCEPT !.c = buf[at.i]]
    BY DEF puts_fetch, Main, screen, IInv, TypeOK, Locals, Reading
  <1> DEFINE c == out[d + 1]
  <1>2. buf[at.i] = c /\ c \in Shown
    BY <1>1, NextCharacter DEF Locals
  <1>3. at'.i = at.i /\ at'.c = c
    BY <1>1, <1>2 DEF Locals
  <1>4. \/ pc' = "where_y" /\ c \in Printable
        \/ pc' = "read_x" /\ c = "HT" /\ c \notin Printable
        \/ pc' = "margin" /\ c \in {"CR", "LF"} /\ c \notin Printable
    <2> HIDE DEF c
    <2>1. c \in Printable \/ c \in {"HT", "CR", "LF"}
      BY <1>2 DEF Shown, Control
    <2>2. c \in {"HT", "CR", "LF"} => c \notin Printable
      BY TextAssumption DEF Control
    <2> QED BY <1>1, <1>2, <2>1, <2>2 DEF Branch
  <1>5. Reading(out, d)'
    <2>1. Unread(out, d, at.i)'
      BY <1>1, <1>3 DEF Unread
    <2> HIDE DEF c
    <2> QED BY <1>1, <1>3, <1>4, <2>1 DEF Reading, c
  <1>6. Drawn(out, d)'
    <2>1. /\ Shows(out, d, Top(out, d), Col(out, d), Y(out, d))
          /\ d # 0 => Blinks
      BY <1>1 DEF Drawn
    <2>2. c \notin Printable => Picture(video, out, d + 1, Top(out, d))
      <3>1. d \in 0..(Len(out) - 1) /\ Top(out, d) \in Nat
        BY <1>1, CursorPlace
      <3> QED BY <2>1, <3>1, PictureKeep DEF Shows
    <2>3. c \notin Printable => Shows(out, d + 1, Top(out, d), Col(out, d), Y(out, d))
      BY <2>1, <2>2 DEF Shows
    <2> HIDE DEF c
    <2>4. pc' = "where_y" => Drawn(out, d)'
      BY <1>1, <1>4, <2>1 DEF Drawn, Shows, Blinks, c
    <2>5. pc' \in {"read_x", "margin"} => Drawn(out, d)'
      BY <1>1, <1>4, <2>3 DEF Drawn, Shows, c
    <2> QED BY <1>4, <2>4, <2>5
  <1> QED BY <1>5, <1>6

(* The steps of putch. *)
LEMMA DrawnPut ==
    ASSUME IInv, NEW out \in Seq(Shown), NEW d \in 0..Len(out), Reading(out, d), Drawn(out, d),
           putch_put
    PROVE  Reading(out, d)' /\ Drawn(out, d)'
  <1>1. /\ pc = "put" /\ pc' = "read_x" /\ handler = -1
        /\ UNCHANGED <<buf, csr_x, csr_y, crtc, at, handler>>
        /\ video' = [video EXCEPT ![Where] = at.c] /\ video \in [Cells -> Printable]
    BY DEF putch_put, Main, IInv, TypeOK
  <1>2. d \in 0..(Len(out) - 1) /\ at.c = out[d + 1]
    BY <1>1 DEF Reading
  <1>3. /\ Shows(out, d, Top(out, d), Col(out, d), Y(out, d)) /\ out[d + 1] \in Printable
        /\ at.y = Y(out, d) /\ at.x = Col(out, d)
    BY <1>1 DEF Drawn
  <1>4. /\ Y(out, d) \in ScreenRows /\ Top(out, d) \in Nat
        /\ PositionOf(out)[d].row = Y(out, d) + Top(out, d)
        /\ Where = Cell(Y(out, d), PositionOf(out)[d].col)
    BY <1>3, CursorPlace DEF ScreenRows, Where, Cell, Col, Row
  <1>5. Picture(video', out, d + 1, Top(out, d))
    BY <1>1, <1>2, <1>3, <1>4, PicturePut DEF Shows
  <1>6. Drawn(out, d)'
    BY <1>1, <1>3, <1>5 DEF Drawn, Shows
  <1> QED BY <1>1, <1>6, ReadingKept

LEMMA DrawnWriteX ==
    ASSUME IInv, NEW out \in Seq(Shown), NEW d \in 0..Len(out), Reading(out, d), Drawn(out, d),
           putch_write_x
    PROVE  Reading(out, d)' /\ Drawn(out, d)'
  <1>1. /\ pc = "write_x" /\ pc' = "edge" /\ handler = -1
        /\ UNCHANGED <<buf, csr_y, video, crtc, at, handler>>
        /\ csr_x' = IF at.c = "HT" THEN TabStop(at.x) ELSE at.x + 1
    BY DEF putch_write_x, Main
  <1>2. d \in 0..(Len(out) - 1) /\ at.c = out[d + 1]
    BY <1>1 DEF Reading
  <1>3. /\ Shows(out, d + 1, Top(out, d), Col(out, d), Y(out, d))
        /\ out[d + 1] \in Printable \cup {"HT"} /\ at.x = Col(out, d)
    BY <1>1 DEF Drawn
  <1>4. csr_x' = Edge(out, d) /\ Down(out[d + 1]) = 0
    <2>1. Col(out, d) \in 0..(WIDTH - 1) /\ out[d + 1] \in Shown
      BY <1>2, CursorPlace
    <2>2. CASE out[d + 1] \in Printable
      <3>1. Edge(out, d) = Col(out, d) + 1 /\ out[d + 1] \notin Control
        BY <2>1, <2>2, BehindCases DEF Edge
      <3> QED BY <1>1, <1>2, <1>3, <3>1 DEF Control, Down
    <2>3. CASE out[d + 1] = "HT"
      <3>1. Edge(out, d) = TabStop(Col(out, d))
        BY <2>1, <2>3, BehindCases DEF Edge
      <3> QED BY <1>1, <1>2, <1>3, <2>3, <3>1 DEF Down
    <2> QED BY <1>3, <2>2, <2>3
  <1>5. Y(out, d) + Down(out[d + 1]) = Y(out, d)
    BY <1>4, CursorPlace
  <1>6. Drawn(out, d)'
    BY <1>1, <1>3, <1>4, <1>5 DEF Drawn, Shows
  <1> QED BY <1>1, <1>6, ReadingKept

LEMMA DrawnMargin ==
    ASSUME IInv, NEW out \in Seq(Shown), NEW d \in 0..Len(out), Reading(out, d), Drawn(out, d),
           putch_margin
    PROVE  Reading(out, d)' /\ Drawn(out, d)'
  <1>1. /\ pc = "margin" /\ pc' = (IF at.c = "LF" THEN "read_y" ELSE "edge") /\ handler = -1
        /\ UNCHANGED <<buf, csr_y, video, crtc, at, handler>> /\ csr_x' = 0
    BY DEF putch_margin, Main
  <1>2. d \in 0..(Len(out) - 1) /\ at.c = out[d + 1]
    BY <1>1 DEF Reading
  <1>3. /\ Shows(out, d + 1, Top(out, d), Col(out, d), Y(out, d))
        /\ out[d + 1] \in {"CR", "LF"}
    BY <1>1 DEF Drawn
  <1>4. Edge(out, d) = 0
    <2>1. Col(out, d) \in 0..(WIDTH - 1) /\ out[d + 1] \in Shown
      BY <1>2, CursorPlace
    <2> QED BY <1>3, <2>1, BehindCases DEF Edge
  <1>5. out[d + 1] # "LF" => Y(out, d) + Down(out[d + 1]) = Y(out, d)
    BY CursorPlace DEF Down
  <1>6. Drawn(out, d)'
    BY <1>1, <1>2, <1>3, <1>4, <1>5 DEF Drawn, Shows
  <1>7. pc' \in {"read_y", "edge"}
    BY <1>1
  <1> QED BY <1>1, <1>6, <1>7, ReadingKept

LEMMA DrawnEdge ==
    ASSUME IInv, NEW out \in Seq(Shown), NEW d \in 0..Len(out), Reading(out, d), Drawn(out, d),
           putch_edge \/ putch_wrap
    PROVE  Reading(out, d)' /\ Drawn(out, d)'
  <1>1. /\ \/ pc = "edge" /\ pc' = (IF csr_x >= WIDTH THEN "wrap" ELSE "scroll") /\ csr_x' = csr_x
           \/ pc = "wrap" /\ pc' = "wrap_y" /\ csr_x' = 0
        /\ handler = -1 /\ UNCHANGED <<buf, csr_y, video, crtc, at, handler>>
    BY DEF putch_edge, putch_wrap, Main, screen
  <1>2. d \in 0..(Len(out) - 1) /\ at.c = out[d + 1]
    BY <1>1 DEF Reading
  <1>3. pc' \in {"wrap", "scroll", "wrap_y"} /\ pc \in {"edge", "wrap"}
    BY <1>1
  <1>4. pc = "wrap" => Drawn(out, d)'
    BY <1>1 DEF Drawn, Shows
  <1>5. CASE pc = "edge"
    <2>1. Shows(out, d + 1, Top(out, d), Edge(out, d), Y(out, d) + Down(out[d + 1]))
      BY <1>5 DEF Drawn
    <2>2. /\ Edge(out, d) \in 0..WIDTH
          /\ Edge(out, d) = WIDTH => Y(out, d) + Down(out[d + 1]) = Y(out, d)
          /\ Edge(out, d) # WIDTH => /\ Row(out, d + 1) - Top(out, d) = Y(out, d) + Down(out[d + 1])
                                     /\ Col(out, d + 1) = Edge(out, d)
      <3>1. Row(out, d) = Y(out, d) + Top(out, d) /\ Y(out, d) \in Nat /\ Top(out, d) \in Nat
        BY CursorPlace
      <3> QED BY <1>2, <3>1, CursorNext
    <2>3. csr_x >= WIDTH <=> Edge(out, d) = WIDTH
      BY <2>1, <2>2, Sizes DEF Shows
    <2>4. ASSUME Edge(out, d) = WIDTH PROVE Drawn(out, d)'
      <3>1. pc' = "wrap" /\ Shows(out, d + 1, Top(out, d), WIDTH, Y(out, d))
        BY <1>1, <1>5, <2>1, <2>2, <2>3, <2>4
      <3>2. UNCHANGED <<csr_x, csr_y, video>>
        BY <1>1, <1>5
      <3> QED BY <2>4, <3>1, <3>2 DEF Drawn, Shows
    <2>5. ASSUME Edge(out, d) # WIDTH PROVE Drawn(out, d)'
      <3>1. pc' = "scroll"
            /\ Shows(out, d + 1, Top(out, d), Col(out, d + 1), Row(out, d + 1) - Top(out, d))
        BY <1>1, <1>5, <2>1, <2>2, <2>3, <2>5
      <3>2. UNCHANGED <<csr_x, csr_y, video>>
        BY <1>1, <1>5
      <3> QED BY <3>1, <3>2 DEF Drawn, Shows
    <2>6. Drawn(out, d)'
      BY <2>4, <2>5
    <2> QED BY <2>6, <1>1, <1>3, ReadingKept
  <1>6. CASE pc = "wrap"
    BY <1>1, <1>3, <1>4, <1>6, ReadingKept
  <1> QED BY <1>3, <1>5, <1>6

LEMMA DrawnWriteY ==
    ASSUME IInv, NEW out \in Seq(Shown), NEW d \in 0..Len(out), Reading(out, d), Drawn(out, d),
           putch_write_y
    PROVE  Reading(out, d)' /\ Drawn(out, d)'
  <1>1. /\ \/ pc = "write_y" /\ pc' = "edge"
           \/ pc = "wrap_write_y" /\ pc' = "scroll"
        /\ handler = -1 /\ UNCHANGED <<buf, csr_x, video, crtc, at, handler>>
        /\ csr_y' = at.y + 1
    BY DEF putch_write_y, Main
  <1>2. d \in 0..(Len(out) - 1) /\ at.c = out[d + 1]
    BY <1>1 DEF Reading
  <1>3. at.y = Y(out, d) /\ Shows(out, d + 1, Top(out, d), 0, Y(out, d))
    BY <1>1 DEF Drawn
  <1>4. Row(out, d) = Y(out, d) + Top(out, d) /\ Y(out, d) \in Nat /\ Top(out, d) \in Nat
        /\ Col(out, d) \in 0..(WIDTH - 1) /\ out[d + 1] \in Shown
    BY <1>2, CursorPlace
  <1>5. pc = "write_y" => Edge(out, d) = 0 /\ Down(out[d + 1]) = 1
    <2>1. out[d + 1] = "LF" => Edge(out, d) = 0
      BY <1>4, BehindCases DEF Edge
    <2> QED BY <2>1 DEF Drawn, Down
  <1>6. pc = "wrap_write_y" => /\ Row(out, d + 1) - Top(out, d) = Y(out, d) + 1
                               /\ Col(out, d + 1) = 0
    <2>1. pc = "wrap_write_y" => Edge(out, d) = WIDTH
      BY DEF Drawn
    <2> QED BY <1>2, <1>4, <2>1, CursorNext
  <1>7. Drawn(out, d)'
    BY <1>1, <1>3, <1>5, <1>6 DEF Drawn, Shows
  <1> QED BY <1>1, <1>7, ReadingKept

LEMMA DrawnScrollTest ==
    ASSUME IInv, NEW out \in Seq(Shown), NEW d \in 0..Len(out), Reading(out, d), Drawn(out, d),
           scroll_test
    PROVE  Reading(out, d)' /\ Drawn(out, d)'
  <1>1. /\ pc = "scroll" /\ pc' = (IF csr_y >= HEIGHT THEN "temp" ELSE "csr_y")
        /\ handler = -1 /\ UNCHANGED <<buf, csr_x, csr_y, video, crtc, at, handler>>
    BY DEF scroll_test, Main, screen
  <1>2. d \in 0..(Len(out) - 1)
    BY <1>1 DEF Reading
  <1>3. Shows(out, d + 1, Top(out, d), Col(out, d + 1), Row(out, d + 1) - Top(out, d))
    BY <1>1 DEF Drawn
  <1>4. csr_y \in 0..HEIGHT /\ (csr_y >= HEIGHT <=> Row(out, d + 1) - Top(out, d) = HEIGHT)
    BY <1>2, <1>3, CursorNext, Sizes DEF Shows
  <1>5. csr_y < HEIGHT => Top(out, d + 1) = Top(out, d) /\ Y(out, d + 1) = Row(out, d + 1) - Top(out, d)
    BY <1>2, <1>4, CursorNext, Sizes
  <1>6. ASSUME csr_y >= HEIGHT PROVE Drawn(out, d)'
    <2>1. pc' = "temp"
      BY <1>1, <1>6
    <2> QED BY <1>1, <1>3, <1>4, <1>6, <2>1 DEF Drawn, Shows
  <1>7. ASSUME csr_y < HEIGHT PROVE Drawn(out, d)'
    <2>1. pc' = "csr_y"
      BY <1>1, <1>4, <1>7, Sizes
    <2>2. Shows(out, d + 1, Top(out, d + 1), Col(out, d + 1), Y(out, d + 1))
      BY <1>3, <1>5, <1>7
    <2> QED BY <1>1, <2>1, <2>2 DEF Drawn, Shows
  <1>8. Drawn(out, d)'
    BY <1>4, <1>6, <1>7, Sizes
  <1>9. pc' \in {"temp", "csr_y"}
    BY <1>1
  <1> QED BY <1>1, <1>8, <1>9, ReadingKept

LEMMA DrawnTemp ==
    ASSUME IInv, NEW out \in Seq(Shown), NEW d \in 0..Len(out), Reading(out, d), Drawn(out, d),
           scroll_temp
    PROVE  Reading(out, d)' /\ Drawn(out, d)'
  <1>1. /\ pc = "temp" /\ pc' = "copy" /\ handler = -1 /\ at \in Locals
        /\ UNCHANGED <<buf, csr_x, csr_y, video, crtc, handler>>
        /\ at' = [at EXCEPT !.temp = csr_y - HEIGHT + 1, !.k = 0]
    BY DEF scroll_temp, Main, screen, IInv, TypeOK, Locals
  <1>2. /\ Shows(out, d + 1, Top(out, d), Col(out, d + 1), Row(out, d + 1) - Top(out, d))
        /\ Row(out, d + 1) - Top(out, d) = HEIGHT
    BY <1>1 DEF Drawn
  <1>3. at'.temp = 1 /\ at'.k = 0 /\ at'.i = at.i /\ at'.c = at.c
    <2>1. csr_y - HEIGHT + 1 = 1
      BY <1>2, Sizes DEF Shows
    <2> QED BY <1>1, <2>1 DEF Locals
  <1>4. Halfway(video, out, d + 1, Top(out, d), 0) /\ 0 <= HEIGHT * WIDTH
    <2>1. HEIGHT * WIDTH \in Nat /\ Top(out, d) \in Nat
      BY Sizes, Order, CursorPlace
    <2> QED BY <1>2, <2>1, HalfwayEnds DEF Shows
  <1>5. Drawn(out, d)'
    BY <1>1, <1>2, <1>3, <1>4 DEF Drawn, Shows
  <1> QED BY <1>1, <1>3, <1>5, ReadingKept

LEMMA DrawnCopy ==
    ASSUME IInv, NEW out \in Seq(Shown), NEW d \in 0..Len(out), Reading(out, d), Drawn(out, d),
           scroll_copy
    PROVE  Reading(out, d)' /\ Drawn(out, d)'
  <1>1. /\ pc = "copy" /\ pc' \in {"copy", "csr_y"} /\ handler = -1 /\ at \in Locals
        /\ UNCHANGED <<buf, csr_x, crtc, handler>> /\ video \in [Cells -> Printable]
    BY DEF scroll_copy, Main, IInv, TypeOK, Locals
  <1>2. d \in 0..(Len(out) - 1)
    BY <1>1 DEF Reading
  <1>3. /\ csr_x = Col(out, d + 1) /\ at.temp = 1 /\ at.k <= HEIGHT * WIDTH
        /\ Halfway(video, out, d + 1, Top(out, d), at.k)
        /\ Row(out, d + 1) - Top(out, d) = HEIGHT
    BY <1>1 DEF Drawn
  <1>4. /\ Top(out, d) \in Nat /\ PositionOf(out)[d].row = HEIGHT - 1 + Top(out, d)
        /\ Top(out, d + 1) = Top(out, d) + 1 /\ Y(out, d + 1) = HEIGHT - 1
    BY <1>2, <1>3, CursorPlace, CursorNext DEF Row
  <1>5. /\ at.k \in Nat /\ HEIGHT * WIDTH \in Nat /\ at.temp * WIDTH = WIDTH
        /\ Copied = (HEIGHT - 1) * WIDTH /\ Copied + WIDTH = HEIGHT * WIDTH
    BY <1>1, <1>3, Sizes, Order DEF Copied, Locals
  <1>6. ASSUME at.k < HEIGHT * WIDTH PROVE Reading(out, d)' /\ Drawn(out, d)'
    <2>1. /\ pc' = "copy" /\ at' = [at EXCEPT !.k = at.k + 1] /\ csr_y' = csr_y
          /\ video' = [video EXCEPT ![at.k] = IF at.k < (HEIGHT - 1) * WIDTH
                                              THEN video[at.k + WIDTH] ELSE Blank]
      BY <1>5, <1>6 DEF scroll_copy, Main
    <2>2. at'.k = at.k + 1 /\ at'.temp = 1 /\ at'.i = at.i /\ at'.c = at.c
      BY <1>1, <1>3, <2>1 DEF Locals
    <2>3. Halfway(video', out, d + 1, Top(out, d), at.k + 1)
      BY <1>1, <1>2, <1>3, <1>4, <1>5, <1>6, <2>1, HalfwayStep
    <2>4. at.k + 1 <= HEIGHT * WIDTH
      BY <1>5, <1>6
    <2>5. Drawn(out, d)'
      BY <1>1, <1>3, <2>1, <2>2, <2>3, <2>4 DEF Drawn
    <2> QED BY <1>1, <2>2, <2>5, ReadingKept
  <1>7. ASSUME ~(at.k < HEIGHT * WIDTH) PROVE Reading(out, d)' /\ Drawn(out, d)'
    <2>1. pc' = "csr_y" /\ csr_y' = HEIGHT - 1 /\ UNCHANGED <<video, at>>
      BY <1>5, <1>7 DEF scroll_copy, Main
    <2>2. at.k = HEIGHT * WIDTH
      BY <1>3, <1>5, <1>7
    <2>3. Picture(video, out, d + 1, Top(out, d + 1))
      BY <1>3, <1>4, <2>2, HalfwayEnds
    <2>4. Drawn(out, d)'
      BY <1>1, <1>3, <1>4, <2>1, <2>3 DEF Drawn, Shows
    <2> QED BY <1>1, <2>1, <2>4, ReadingKept
  <1> QED BY <1>6, <1>7

(* The two halves of the cursor's place. *)
LEMMA RegisterValue ==
    ASSUME NEW z \in Nat, z < HEIGHT * WIDTH, NEW h, NEW l, h = z \div BYTE, l = z % BYTE
    PROVE  (h % BYTE) * BYTE + l = z
  <1>1. BYTE \in Nat \ {0} /\ z < BYTE * BYTE
    <2>1. HEIGHT * WIDTH <= BYTE * BYTE /\ HEIGHT * WIDTH \in Nat /\ BYTE * BYTE \in Nat
      BY ScreenAssumption, Sizes, Order
    <2> QED BY <2>1, Sizes
  <1>2. h \in Nat /\ l \in 0..(BYTE - 1) /\ z = BYTE * h + l
    BY <1>1, Division
  <1>3. BYTE * h = h * BYTE /\ h * BYTE \in Nat
    BY <1>1, <1>2, Order
  <1>4. h < BYTE
    <2> SUFFICES ASSUME BYTE <= h PROVE FALSE
      BY <1>1, <1>2
    <2>1. BYTE * BYTE <= h * BYTE
      BY <1>1, <1>2, Order
    <2> QED BY <1>1, <1>2, <1>3, <2>1
  <1>5. h % BYTE = h
    BY <1>1, <1>2, <1>4
  <1>6. (h % BYTE) * BYTE + l = z
    BY <1>2, <1>3, <1>5
  <1> QED BY <1>6

LEMMA WhereShown ==
    ASSUME NEW out \in Seq(Shown), NEW d \in 0..Len(out),
           NEW x, NEW y, x = Col(out, d), y = Y(out, d)
    PROVE  y * WIDTH + x \in Nat /\ y * WIDTH + x < HEIGHT * WIDTH
  <1>1. y \in ScreenRows /\ x \in ScreenCols
    BY CursorPlace DEF ScreenRows, ScreenCols
  <1> QED BY <1>1, CellBounds DEF Cell

LEMMA DrawnRegisters ==
    ASSUME IInv, NEW out \in Seq(Shown), NEW d \in 0..Len(out), Reading(out, d), Drawn(out, d),
           move_csr_select \/ move_csr_high
    PROVE  Reading(out, d)' /\ Drawn(out, d)'
  <1>1. /\ handler = -1 /\ UNCHANGED <<buf, csr_x, csr_y, video, at, handler>>
        /\ crtc \in [index : {14, 15}, high : 0..(BYTE - 1), low : 0..(BYTE - 1)]
        /\ \/ pc = "index_high" /\ pc' = "high" /\ crtc' = [crtc EXCEPT !.index = 14]
           \/ pc = "index_low" /\ pc' = "low" /\ crtc' = [crtc EXCEPT !.index = 15]
           \/ pc = "high" /\ pc' = "index_low" /\ WriteRegister(Where \div BYTE)
    BY DEF move_csr_select, move_csr_high, Main, Select, IInv, TypeOK
  <1>2. Where' = Where
    BY <1>1 DEF Where
  <1>3. pc = "high" => crtc'.high = (Where \div BYTE) % BYTE
    <2> SUFFICES ASSUME pc = "high" PROVE crtc'.high = (Where \div BYTE) % BYTE
      OBVIOUS
    <2>1. crtc.index = 14
      BY DEF Drawn
    <2>2. crtc' = [crtc EXCEPT !.high = (Where \div BYTE) % BYTE]
      BY <1>1, <2>1 DEF WriteRegister
    <2> QED BY <1>1, <2>2
  <1>4. pc = "index_high" => crtc'.index = 14
    BY <1>1
  <1>5. pc = "index_low" => crtc'.index = 15 /\ crtc'.high = crtc.high
    BY <1>1
  <1>6. /\ pc \in {"index_high", "index_low", "high"} /\ pc' \in {"high", "low", "index_low"}
        /\ pc' = "high" => pc = "index_high"
        /\ pc' = "low" => pc = "index_low"
        /\ pc' = "index_low" => pc = "high"
    BY <1>1
  <1>7. Drawn(out, d)'
    <2> DEFINE place == (Where \div BYTE) % BYTE
    <2>1. pc = "index_low" => crtc.high = place
      BY DEF Drawn
    <2>2. place' = place
      BY <1>2
    <2>3. /\ Shows(out, d + 1, Top(out, d + 1), Col(out, d + 1), Y(out, d + 1))
          /\ at.y = csr_y /\ at.x = csr_x
      BY <1>6 DEF Drawn
    <2>4. Shows(out, d + 1, Top(out, d + 1), Col(out, d + 1), Y(out, d + 1))'
      BY <1>1, <2>3 DEF Shows
    <2>5. pc' \in {"index_low", "low"} => crtc'.high = place'
      BY <1>3, <1>5, <1>6, <2>1, <2>2
    <2>6. at'.y = csr_y' /\ at'.x = csr_x'
      BY <1>1, <2>3
    <2>7. (pc' = "high" => crtc'.index = 14) /\ (pc' = "low" => crtc'.index = 15)
      BY <1>4, <1>5, <1>6
    <2> QED BY <1>6, <2>4, <2>5, <2>6, <2>7 DEF Drawn
  <1> QED BY <1>1, <1>6, <1>7, ReadingKept

LEMMA DrawnLow ==
    ASSUME IInv, NEW out \in Seq(Shown), NEW d \in 0..Len(out), Reading(out, d), Drawn(out, d),
           move_csr_low
    PROVE  d + 1 \in 0..Len(out) /\ Reading(out, d + 1)' /\ Drawn(out, d + 1)'
  <1>1. /\ pc = "low" /\ pc' = "test" /\ handler = -1 /\ at \in Locals
        /\ UNCHANGED <<buf, csr_x, csr_y, video, handler>>
        /\ at' = [at EXCEPT !.i = at.i + 1] /\ WriteRegister(Where)
        /\ crtc \in [index : {14, 15}, high : 0..(BYTE - 1), low : 0..(BYTE - 1)]
    BY DEF move_csr_low, Main, IInv, TypeOK, Locals
  <1>2. d \in 0..(Len(out) - 1) /\ d + 1 \in 0..Len(out) /\ d + 1 # 0 /\ Unread(out, d, at.i)
    BY <1>1 DEF Reading
  <1>3. at'.i = at.i + 1 /\ at.i \in Nat
    BY <1>1 DEF Locals
  <1>4. Reading(out, d + 1)'
    <2>1. Unread(out, d + 1, at.i + 1)
      BY <1>2, <1>3, NextCharacter
    <2>2. Unread(out, d + 1, at.i)'
      BY <1>1, <1>3, <2>1 DEF Unread
    <2> QED BY <1>1, <2>2 DEF Reading
  <1>5. /\ Shows(out, d + 1, Top(out, d + 1), Col(out, d + 1), Y(out, d + 1))
        /\ at.y = csr_y /\ at.x = csr_x /\ crtc.high = (Where \div BYTE) % BYTE /\ crtc.index = 15
    BY <1>1 DEF Drawn
  <1>6. Where \in Nat /\ Where < HEIGHT * WIDTH
    BY <1>2, <1>5, WhereShown DEF Shows, Where
  <1>7. Blinks'
    <2>1. crtc' = [crtc EXCEPT !.low = Where % BYTE]
      BY <1>1, <1>5 DEF WriteRegister
    <2>2. crtc'.high = (Where \div BYTE) % BYTE /\ crtc'.low = Where % BYTE
      BY <1>1, <1>5, <2>1
    <2>3. crtc'.high * BYTE + crtc'.low = Where
      <3> DEFINE h == Where \div BYTE
                 l == Where % BYTE
      <3>1. crtc'.high = h % BYTE /\ crtc'.low = l
        BY <2>2
      <3>2. h = Where \div BYTE /\ l = Where % BYTE
        OBVIOUS
      <3> HIDE DEF h, l
      <3>3. (h % BYTE) * BYTE + l = Where
        BY <1>6, <3>2, RegisterValue
      <3> QED BY <3>1, <3>3
    <2> QED BY <1>1, <1>5, <2>3 DEF Blinks, Where
  <1>8. Shows(out, d + 1, Top(out, d + 1), Col(out, d + 1), Y(out, d + 1))'
    BY <1>1, <1>5 DEF Shows
  <1>9. Drawn(out, d + 1)'
    BY <1>1, <1>7, <1>8 DEF Drawn
  <1> QED BY <1>2, <1>4, <1>9

LEMMA DrawnFormat ==
    ASSUME IInv, NEW out \in Seq(Shown), NEW d \in 0..Len(out), Reading(out, d), Drawn(out, d),
           vsprintf
    PROVE  Reading(out, d)' /\ Drawn(out, d)'
  <1>1. /\ pc = "format" /\ pc' \in {"format", "test"} /\ handler = -1 /\ at \in Locals
        /\ UNCHANGED <<csr_x, csr_y, video, crtc, handler>>
        /\ at.text \in Texts /\ at.k \in Nat /\ at.k <= Len(at.text) /\ at.i = 0
        /\ buf \in [0..(BUF - 1) -> Char]
    BY DEF vsprintf, Main, screen, IInv, TypeOK, LocalsOK, Locals
  <1>2. Len(at.text) \in Nat /\ Len(at.text) < BUF /\ at.k \in 0..(BUF - 1)
    BY <1>1, Sizes, TextType
  <1>3. /\ d + Len(at.text) = Len(out)
        /\ \A n \in 1..Len(at.text) : out[d + n] = at.text[n]
        /\ \A n \in 1..at.k : buf[n - 1] = at.text[n]
    BY <1>1 DEF Reading
  <1>4. Drawn(out, d)'
    BY <1>1 DEF Drawn, Shows, Blinks
  <1>5. ASSUME at.k < Len(at.text) PROVE Reading(out, d)'
    <2>1. pc' = "format" /\ buf' = [buf EXCEPT ![at.k] = at.text[at.k + 1]]
          /\ at' = [at EXCEPT !.k = at.k + 1]
      BY <1>5 DEF vsprintf, Main
    <2>2. at'.text = at.text /\ at'.k = at.k + 1
      BY <1>1, <2>1 DEF Locals
    <2>3. ASSUME NEW n \in 1..(at.k + 1) PROVE buf'[n - 1] = at.text[n]
      <3>1. n = at.k + 1 => n - 1 = at.k
        BY <1>1
      <3>2. n # at.k + 1 => n \in 1..at.k /\ n - 1 # at.k /\ n - 1 \in 0..(BUF - 1)
        BY <1>1, <1>2, Sizes
      <3> QED BY <1>1, <1>2, <1>3, <2>1, <3>1, <3>2
    <2> QED BY <1>1, <1>3, <2>1, <2>2, <2>3 DEF Reading
  <1>6. ASSUME ~(at.k < Len(at.text)) PROVE Reading(out, d)'
    <2>1. pc' = "test" /\ buf' = [buf EXCEPT ![at.k] = NUL] /\ at' = [at EXCEPT !.k = 0]
      BY <1>6 DEF vsprintf, Main
    <2>2. at'.i = 0 /\ at.k = Len(at.text) /\ Len(out) - d = at.k
      BY <1>1, <1>2, <1>3, <1>6, <2>1 DEF Locals
    <2>3. ASSUME NEW n \in 1..(Len(out) - d) PROVE buf'[0 + n - 1] = out[d + n]
      <3>1. n \in 1..at.k /\ n - 1 # at.k /\ n - 1 \in 0..(BUF - 1) /\ 0 + n - 1 = n - 1
        BY <1>2, <2>2, Sizes
      <3>2. buf[n - 1] = at.text[n] /\ out[d + n] = at.text[n]
        BY <1>3, <2>2, <3>1
      <3> QED BY <1>1, <2>1, <3>1, <3>2
    <2>4. buf'[0 + Len(out) - d] = NUL /\ 0 + Len(out) - d < BUF
      <3>1. 0 + Len(out) - d = at.k
        BY <1>2, <2>2
      <3> QED BY <1>1, <1>2, <2>1, <3>1, Sizes
    <2>5. Unread(out, d, at.i)'
      BY <2>2, <2>3, <2>4 DEF Unread
    <2> QED BY <1>1, <2>1, <2>5 DEF Reading
  <1> QED BY <1>4, <1>5, <1>6

-----------------------------------------------------------------------------
(* A new message leaves what has been shown where it was. *)
LEMMA ShowsExtended ==
    ASSUME NEW out \in Seq(Shown), NEW text \in Seq(Shown), NEW d \in 0..Len(out),
           Shows(out, d, Top(out, d), Col(out, d), Y(out, d))
    PROVE  Shows(out \o text, d, Top(out \o text, d), Col(out \o text, d), Y(out \o text, d))
  <1>1. PositionOf(out \o text)[d] = PositionOf(out)[d]
    BY PositionExtends
  <1>2. Row(out \o text, d) = Row(out, d) /\ Col(out \o text, d) = Col(out, d)
    BY <1>1 DEF Row, Col
  <1>3. Top(out \o text, d) = Top(out, d) /\ Y(out \o text, d) = Y(out, d)
    BY <1>2 DEF Top, Y
  <1>4. \A row, col : Paper(out \o text, d, row, col) = Paper(out, d, row, col)
    BY PaperExtends
  <1>5. Picture(video, out \o text, d, Top(out, d))
    BY <1>4 DEF Shows, Picture
  <1> QED BY <1>2, <1>3, <1>5 DEF Shows

LEMMA Joined ==
    ASSUME NEW out \in Seq(Shown), NEW text \in Seq(Shown)
    PROVE  /\ out \o text \in Seq(Shown) /\ Len(out \o text) = Len(out) + Len(text)
           /\ \A n \in 1..Len(text) : (out \o text)[Len(out) + n] = text[n]
           /\ Len(out) \in Nat /\ Len(text) \in Nat /\ Len(out) \in 0..Len(out \o text)
OBVIOUS

LEMMA TextShown ==
    ASSUME NEW text \in Texts \cup HandlerTexts
    PROVE  text \in Seq(Shown) /\ Len(text) \in Nat /\ Len(text) < BUF
BY TextAssumption DEF Shown

LEMMA DrawnPrintk ==
    ASSUME IInv, NEW out \in Seq(Shown), NEW d \in 0..Len(out), Reading(out, d), Drawn(out, d),
           NEW text \in Texts, printk(text)
    PROVE  Reading(out \o text, d)' /\ Drawn(out \o text, d)'
  <1> DEFINE whole == out \o text
  <1>1. /\ pc = "idle" /\ pc' = "format" /\ handler = -1 /\ handler' = handler
        /\ UNCHANGED <<buf, csr_x, csr_y, video, crtc>> /\ at' = [NoLocals EXCEPT !.text = text]
    BY DEF printk, Idle, screen
  <1>2. text \in Seq(Shown) /\ d = Len(out)
    BY <1>1, TextShown DEF Reading
  <1>3. at'.text = text /\ at'.k = 0
    BY <1>1 DEF NoLocals
  <1>4. /\ d + Len(text) = Len(whole)
        /\ \A n \in 1..Len(text) : whole[d + n] = text[n]
    BY <1>2, Joined
  <1>5. Shows(whole, d, Top(whole, d), Col(whole, d), Y(whole, d)) /\ (d # 0 => Blinks)
    BY <1>1, <1>2, ShowsExtended DEF Drawn
  <1> HIDE DEF whole
  <1>6. Reading(whole, d)'
    <2>1. \A n \in 1..0 : FALSE
      OBVIOUS
    <2> QED BY <1>1, <1>3, <1>4, <2>1 DEF Reading
  <1>7. Drawn(whole, d)'
    BY <1>1, <1>5 DEF Drawn, Shows, Blinks
  <1> QED BY <1>6, <1>7 DEF whole

LEMMA DrawnHandlerPrintk ==
    ASSUME IInv, NEW out \in Seq(Shown), NEW d \in 0..Len(out), Reading(out, d), Drawn(out, d),
           NEW text \in HandlerTexts, handler_printk(text), pc = "idle"
    PROVE  Reading(out \o text, d)' /\ Drawn(out \o text, d)'
  <1> DEFINE whole == out \o text
  <1>1. /\ pc' = "idle" /\ handler = -1 /\ handler' = 0
        /\ UNCHANGED <<csr_x, csr_y, video, crtc>>
        /\ buf' = [n \in 0..(BUF - 1) |-> IF n < Len(text) THEN text[n + 1]
                                          ELSE IF n = Len(text) THEN NUL ELSE buf[n]]
    BY DEF handler_printk, screen
  <1>2. text \in Seq(Shown) /\ d = Len(out) /\ Len(text) \in Nat /\ Len(text) < BUF
    BY <1>1, TextShown DEF Reading
  <1>4. /\ d + Len(text) = Len(whole)
        /\ \A n \in 1..Len(text) : whole[d + n] = text[n]
    BY <1>2, Joined
  <1>5. Shows(whole, d, Top(whole, d), Col(whole, d), Y(whole, d)) /\ (d # 0 => Blinks)
    BY <1>1, <1>2, ShowsExtended DEF Drawn
  <1> HIDE DEF whole
  <1>6. Unread(whole, d, 0)'
    <2>1. Len(whole) - d = Len(text) /\ 0 + Len(whole) - d = Len(text)
      BY <1>2, <1>4
    <2>2. ASSUME NEW n \in 1..Len(text) PROVE buf'[0 + n - 1] = whole[d + n]
      <3>1. 0 + n - 1 = n - 1 /\ n - 1 \in 0..(BUF - 1) /\ n - 1 < Len(text) /\ n - 1 + 1 = n
        BY <1>2, Sizes
      <3> QED BY <1>1, <1>4, <3>1
    <2>3. buf'[Len(text)] = NUL
      <3>1. Len(text) \in 0..(BUF - 1) /\ ~(Len(text) < Len(text))
        BY <1>2, Sizes
      <3> QED BY <1>1, <3>1
    <2> QED BY <1>2, <2>1, <2>2, <2>3 DEF Unread
  <1>7. Reading(whole, d)'
    BY <1>1, <1>6 DEF Reading
  <1>8. Drawn(whole, d)'
    BY <1>1, <1>5 DEF Drawn, Shows, Blinks
  <1> QED BY <1>7, <1>8 DEF whole

(* putch of the handler does at once what main does in many steps. *)
LEMMA DrawnHandlerPutch ==
    ASSUME IInv, NEW out \in Seq(Shown), NEW d \in 0..(Len(out) - 1), Drawn(out, d),
           pc = "idle", putch(out[d + 1])
    PROVE  /\ Shows(out, d + 1, Top(out, d + 1), Col(out, d + 1), Y(out, d + 1))'
           /\ Blinks'
  <1> DEFINE c == out[d + 1]
             v == Written(c)
  <1>1. Shows(out, d, Top(out, d), Col(out, d), Y(out, d)) /\ video \in [Cells -> Printable]
    BY DEF Drawn, IInv, TypeOK
  <1>2. /\ Y(out, d) \in 0..(HEIGHT - 1) /\ Y(out, d) \in ScreenRows /\ Top(out, d) \in Nat
        /\ Col(out, d) \in 0..(WIDTH - 1)
        /\ Row(out, d) = Y(out, d) + Top(out, d) /\ c \in Shown
    BY CursorPlace DEF ScreenRows
  <1>3. Column(c) = Edge(out, d)
    <2>1. csr_x = Col(out, d)
      BY <1>1 DEF Shows
    <2>2. c \in Printable => c \notin Control
      BY TextAssumption
    <2> QED BY <1>2, <2>1, <2>2 DEF Column, Edge, Behind, Shown, Control
  <1>4. Edge(out, d) \in 0..WIDTH /\ Line(c) = Row(out, d + 1) - Top(out, d)
    <2>1. /\ Edge(out, d) \in 0..WIDTH /\ Down(c) \in 0..1
          /\ Edge(out, d) = WIDTH => Row(out, d + 1) = Row(out, d) + 1 /\ Down(c) = 0
          /\ Edge(out, d) # WIDTH => Row(out, d + 1) = Row(out, d) + Down(c)
      BY CursorNext
    <2>2. csr_y = Y(out, d)
      BY <1>1 DEF Shows
    <2>3. Line(c) = Y(out, d) + Down(c) + (IF Edge(out, d) >= WIDTH THEN 1 ELSE 0)
      BY <1>3, <2>2 DEF Line, Down
    <2> HIDE DEF c
    <2> QED BY <1>2, <2>1, <2>3, Sizes
  <1>5. csr_x' = Col(out, d + 1)
    <2>1. csr_x' = IF Edge(out, d) >= WIDTH THEN 0 ELSE Edge(out, d)
      BY <1>3 DEF putch
    <2> QED BY <1>4, <2>1, CursorNext, Sizes
  <1>6. v \in [Cells -> Printable] /\ Picture(v, out, d + 1, Top(out, d))
    <2>1. CASE c \in Printable
      <3>1. v = [video EXCEPT ![Cell(Y(out, d), PositionOf(out)[d].col)] = c]
        BY <1>1, <2>1 DEF Written, Shows, Cell, Col
      <3>2. PositionOf(out)[d].row = Y(out, d) + Top(out, d)
        BY <1>2 DEF Row
      <3> HIDE DEF v
      <3> QED BY <1>1, <1>2, <2>1, <3>1, <3>2, PicturePut DEF Shows
    <2>2. CASE c \notin Printable
      <3>1. v = video
        BY <2>2 DEF Written
      <3>2. Picture(video, out, d, Top(out, d))
        BY <1>1 DEF Shows
      <3> HIDE DEF v
      <3> QED BY <1>1, <1>2, <2>2, <3>1, <3>2, PictureKeep
    <2> QED BY <2>1, <2>2
  <1>7. /\ csr_y' = IF Line(c) >= HEIGHT THEN HEIGHT - 1 ELSE Line(c)
        /\ video' = IF Line(c) >= HEIGHT THEN Scrolled(v, Line(c) - HEIGHT + 1) ELSE v
        /\ crtc'.high = ((csr_y' * WIDTH + csr_x') \div BYTE) % BYTE
        /\ crtc'.low = (csr_y' * WIDTH + csr_x') % BYTE
    BY DEF putch
  <1> HIDE DEF c, v
  <1>8. csr_y' = Y(out, d + 1) /\ Picture(video', out, d + 1, Top(out, d + 1))
    <2>1. CASE Line(c) = HEIGHT
      <3>1. /\ Row(out, d) = HEIGHT - 1 + Top(out, d)
            /\ Top(out, d + 1) = Top(out, d) + 1 /\ Y(out, d + 1) = HEIGHT - 1
        BY <1>4, <2>1, CursorNext
      <3>2. Line(c) >= HEIGHT /\ Line(c) - HEIGHT + 1 = 1
        BY <2>1, Sizes
      <3>3. Picture(Scrolled(v, 1), out, d + 1, Top(out, d) + 1)
        BY <1>2, <1>6, <3>1, PictureScrolled DEF Row
      <3> QED BY <1>7, <3>1, <3>2, <3>3
    <2>2. CASE Line(c) # HEIGHT
      <3>1. /\ Top(out, d + 1) = Top(out, d) /\ Y(out, d + 1) = Line(c)
            /\ ~(Line(c) >= HEIGHT)
        <4>1. Line(c) \in 0..HEIGHT
          BY <1>4, CursorNext
        <4> QED BY <1>4, <2>2, <4>1, CursorNext, Sizes
      <3> QED BY <1>6, <1>7, <3>1
    <2> QED BY <2>1, <2>2
  <1>9. Blinks'
    <2> DEFINE z == csr_y' * WIDTH + csr_x'
               h == z \div BYTE
               l == z % BYTE
    <2>1. d + 1 \in 0..Len(out)
      OBVIOUS
    <2>2. z \in Nat /\ z < HEIGHT * WIDTH
      BY <1>5, <1>8, <2>1, WhereShown
    <2>3. crtc'.high = h % BYTE /\ crtc'.low = l
      BY <1>7
    <2>4. h = z \div BYTE /\ l = z % BYTE
      OBVIOUS
    <2> HIDE DEF h, l
    <2>5. (h % BYTE) * BYTE + l = z
      <3> HIDE DEF z
      <3> QED BY <2>2, <2>4, RegisterValue
    <2> QED BY <2>3, <2>5 DEF Blinks
  <1> QED BY <1>5, <1>8, <1>9 DEF Shows

LEMMA DrawnHandlerPuts ==
    ASSUME IInv, NEW out \in Seq(Shown), NEW d \in 0..Len(out), Reading(out, d), Drawn(out, d),
           handler_puts, pc = "idle"
    PROVE  \E e \in 0..Len(out) : Reading(out, e)' /\ Drawn(out, e)'
  <1>1. /\ handler \in Nat /\ pc' = "idle" /\ UNCHANGED <<buf, at>> /\ Unread(out, d, handler)
    BY Sizes DEF handler_puts, IInv, TypeOK, Reading
  <1>2. /\ buf[handler] = NUL <=> d = Len(out)
        /\ d < Len(out) => /\ buf[handler] = out[d + 1]
                           /\ Unread(out, d + 1, handler + 1)
    BY <1>1, NextCharacter
  <1>3. CASE d = Len(out)
    <2>1. handler' = -1 /\ UNCHANGED <<csr_x, csr_y, video, crtc>>
      BY <1>2, <1>3 DEF handler_puts, screen
    <2>2. Reading(out, d)'
      BY <1>1, <1>3, <2>1 DEF Reading
    <2>3. Drawn(out, d)'
      BY <1>1, <2>1 DEF Drawn, Shows, Blinks
    <2> QED BY <2>2, <2>3
  <1>4. CASE d # Len(out)
    <2>1. d \in 0..(Len(out) - 1) /\ d + 1 \in 0..Len(out) /\ d + 1 # 0 /\ d < Len(out)
      BY <1>4
    <2>2. handler' = handler + 1 /\ putch(out[d + 1])
      BY <1>2, <1>4, <2>1 DEF handler_puts
    <2>3. /\ Shows(out, d + 1, Top(out, d + 1), Col(out, d + 1), Y(out, d + 1))'
          /\ Blinks'
      BY <1>1, <2>1, <2>2, DrawnHandlerPutch DEF handler_puts
    <2>4. Unread(out, d + 1, handler)'
      <3>1. Unread(out, d + 1, handler + 1)
        BY <1>2, <2>1
      <3> QED BY <1>1, <2>2, <3>1 DEF Unread
    <2>5. Reading(out, d + 1)'
      <3>1. handler' # -1
        BY <1>1, <2>2
      <3> QED BY <1>1, <2>4, <3>1 DEF Reading
    <2>6. Drawn(out, d + 1)'
      BY <1>1, <2>3 DEF Drawn
    <2> QED BY <2>1, <2>5, <2>6
  <1> QED BY <1>3, <1>4

LEMMA DrawnMain ==
    ASSUME IInv, NEW out \in Seq(Shown), NEW d \in 0..Len(out), Reading(out, d), Drawn(out, d),
           MainStep
    PROVE  \E e \in 0..Len(out) : Reading(out, e)' /\ Drawn(out, e)'
  <1>1. CASE move_csr_low
    BY <1>1, DrawnLow
  <1>2. CASE ~move_csr_low
    <2>1. Reading(out, d)' /\ Drawn(out, d)'
      BY <1>2, DrawnFormat, DrawnTest, DrawnFetch, DrawnReads, DrawnPut, DrawnWriteX, DrawnMargin,
         DrawnEdge, DrawnWriteY, DrawnScrollTest, DrawnTemp, DrawnCopy, DrawnRegisters
         DEF MainStep
    <2> QED BY <2>1
  <1> QED BY <1>1, <1>2

LEMMA MainKeeps == MainStep => UNCHANGED <<handler, torn, output>> /\ handler = -1
BY DEF MainStep, Main, vsprintf, puts_test, puts_fetch, putch_where_y, putch_where_x, putch_put,
       putch_read_x, putch_write_x, putch_margin, putch_edge, putch_wrap, putch_read_y,
       putch_write_y, scroll_test, scroll_temp, scroll_copy, move_csr_y, move_csr_x,
       move_csr_select, move_csr_high, move_csr_low

LEMMA InitUndisturbed == Init => Undisturbed
  <1> SUFFICES ASSUME Init PROVE Undisturbed
    OBVIOUS
  <1>1. output = <<>> /\ <<>> \in Seq(Shown) /\ Len(<<>>) = 0 /\ 0 \in 0..0
        /\ pc = "idle" /\ handler = -1 /\ csr_x = 0 /\ csr_y = 0
        /\ video = [n \in Cells |-> Blank]
    BY DEF Init
  <1>2. PositionOf(<<>>)[0] = Origin
    <2> DEFINE out == <<>>
    <2>1. Len(out) \in Nat
      BY <1>1
    <2> HIDE DEF out
    <2>2. PositionOf(out)[0] = Origin
      BY <2>1, PositionSteps
    <2> QED BY <2>2 DEF out
  <1>3. Row(<<>>, 0) = 0 /\ Col(<<>>, 0) = 0
    BY <1>2 DEF Row, Col, Origin
  <1>4. Top(<<>>, 0) = 0 /\ Y(<<>>, 0) = 0
    BY <1>3, Sizes DEF Top, Y, Above
  <1>5. Picture(video, <<>>, 0, 0)
    <2> SUFFICES ASSUME NEW row \in ScreenRows, NEW col \in ScreenCols
                 PROVE  video[Cell(row, col)] = Paper(<<>>, 0, row + 0, col)
      BY DEF Picture
    <2>1. There(<<>>, 0, row + 0, col) = {}
      BY DEF There
    <2>2. Paper(<<>>, 0, row + 0, col) = Blank
      BY <2>1 DEF Paper, LastOf
    <2>3. Cell(row, col) \in Cells
      BY CellBounds
    <2> QED BY <1>1, <2>2, <2>3
  <1>6. Reading(<<>>, 0)
    BY <1>1 DEF Reading
  <1>7. Drawn(<<>>, 0)
    BY <1>1, <1>3, <1>4, <1>5 DEF Drawn, Shows
  <1> QED BY <1>1, <1>6, <1>7 DEF Undisturbed

LEMMA NextUndisturbed == IInv /\ Undisturbed /\ [Next]_vars => Undisturbed'
  <1> SUFFICES ASSUME IInv, Undisturbed, [Next]_vars, ~torn' PROVE Undisturbed'
    BY DEF Undisturbed
  <1>1. ~torn
    <2>1. CASE \E text \in Texts : printk(text)
      BY <2>1 DEF printk
    <2>2. CASE MainStep
      BY <2>2, MainKeeps
    <2>3. CASE \E text \in HandlerTexts : handler_printk(text)
      BY <2>3, Zenon DEF handler_printk
    <2>4. CASE handler_puts \/ UNCHANGED vars
      BY <2>4 DEF handler_puts, vars
    <2> QED BY <2>1, <2>2, <2>3, <2>4 DEF Next
  <1>2. PICK out \in Seq(Shown) : out = output
    BY <1>1 DEF Undisturbed
  <1>3. PICK d \in 0..Len(out) : Reading(out, d) /\ Drawn(out, d)
    BY <1>1, <1>2 DEF Undisturbed
  <1>4. handler >= 0 => pc = "idle"
    BY <1>1 DEF Undisturbed
  <1>5. ASSUME NEW text \in Texts, printk(text) PROVE Undisturbed'
    <2>1. output' = out \o text /\ text \in Seq(Shown) /\ ~(handler' >= 0)
      BY <1>1, <1>2, <1>5, TextShown DEF printk, Record
    <2>2. out \o text \in Seq(Shown) /\ d \in 0..Len(out \o text)
      BY <2>1, Joined
    <2>3. Reading(out \o text, d)' /\ Drawn(out \o text, d)'
      BY <1>3, <1>5, DrawnPrintk
    <2> DEFINE whole == out \o text
    <2> HIDE DEF whole
    <2>4. output' = whole /\ whole \in Seq(Shown) /\ d \in 0..Len(whole)
          /\ Reading(whole, d)' /\ Drawn(whole, d)'
      BY <2>1, <2>2, <2>3 DEF whole
    <2> QED BY <2>1, <2>4 DEF Undisturbed
  <1>6. ASSUME MainStep PROVE Undisturbed'
    <2>1. output' = out /\ ~(handler' >= 0)
      BY <1>2, <1>6, MainKeeps
    <2>2. \E e \in 0..Len(out) : Reading(out, e)' /\ Drawn(out, e)'
      BY <1>3, <1>6, DrawnMain
    <2> QED BY <2>1, <2>2 DEF Undisturbed
  <1>7. ASSUME NEW text \in HandlerTexts, handler_printk(text) PROVE Undisturbed'
    <2>1. output' = out \o text /\ text \in Seq(Shown) /\ pc = "idle" /\ pc' = "idle"
      <3>1. output' = out \o text
        BY <1>2, <1>7 DEF handler_printk, Record
      <3>2. pc = "idle" /\ pc' = pc
        BY <1>7, Zenon DEF handler_printk, Idle
      <3> QED BY <3>1, <3>2, TextShown
    <2>2. out \o text \in Seq(Shown) /\ d \in 0..Len(out \o text)
      BY <2>1, Joined
    <2>3. Reading(out \o text, d)' /\ Drawn(out \o text, d)'
      BY <1>3, <1>7, <2>1, DrawnHandlerPrintk
    <2> DEFINE whole == out \o text
    <2> HIDE DEF whole
    <2>4. output' = whole /\ whole \in Seq(Shown) /\ d \in 0..Len(whole)
          /\ Reading(whole, d)' /\ Drawn(whole, d)'
      BY <2>1, <2>2, <2>3 DEF whole
    <2> QED BY <2>1, <2>4 DEF Undisturbed
  <1>8. ASSUME handler_puts PROVE Undisturbed'
    <2>1. output' = out /\ pc = "idle" /\ pc' = "idle"
      BY <1>2, <1>4, <1>8 DEF handler_puts
    <2>2. \E e \in 0..Len(out) : Reading(out, e)' /\ Drawn(out, e)'
      BY <1>3, <1>8, <2>1, DrawnHandlerPuts
    <2> QED BY <2>1, <2>2 DEF Undisturbed
  <1>9. ASSUME UNCHANGED vars PROVE Undisturbed'
    <2>1. output' = out /\ UNCHANGED <<buf, csr_x, csr_y, video, crtc, pc, at, handler>>
      BY <1>2, <1>9 DEF vars, screen
    <2>2. Reading(out, d)'
      BY <1>3, <2>1 DEF Reading, Unread
    <2>3. Drawn(out, d)'
      BY <1>3, <2>1 DEF Drawn, Shows, Blinks, Where
    <2> QED BY <1>4, <2>1, <2>2, <2>3 DEF Undisturbed
  <1> QED BY <1>5, <1>6, <1>7, <1>8, <1>9 DEF Next

LEMMA UndisturbedShows == Undisturbed => ShowsOutput
  <1> SUFFICES ASSUME Undisturbed, pc = "idle", handler = -1, ~torn
               PROVE  LET cursor == Position[Len(output)]
                          above == IF cursor.row < HEIGHT THEN 0 ELSE cursor.row - HEIGHT + 1
                      IN  /\ csr_x = cursor.col /\ csr_y + above = cursor.row
                          /\ output # <<>> => crtc.high * BYTE + crtc.low = csr_y * WIDTH + csr_x
                          /\ \A row \in 0..(HEIGHT - 1), col \in 0..(WIDTH - 1) :
                                video[row * WIDTH + col] = OnPaper(row + above, col)
    BY DEF ShowsOutput, Idle
  <1>1. PICK out \in Seq(Shown) : out = output
    BY DEF Undisturbed
  <1>2. Reading(out, Len(out)) /\ Drawn(out, Len(out)) /\ Len(out) \in 0..Len(out)
    <2>1. PICK d \in 0..Len(out) : Reading(out, d) /\ Drawn(out, d)
      BY <1>1 DEF Undisturbed
    <2>2. d = Len(out)
      BY <2>1 DEF Reading
    <2> QED BY <2>1, <2>2
  <1> DEFINE d == Len(out)
             above == IF Position[d].row < HEIGHT THEN 0 ELSE Position[d].row - HEIGHT + 1
  <1>3. Position[d].row = Row(out, d) /\ Position[d].col = Col(out, d) /\ above = Top(out, d)
    BY <1>1, PaperIsOnPaper DEF Row, Col, Top, Above
  <1>4. Shows(out, d, Top(out, d), Col(out, d), Y(out, d)) /\ (d # 0 => Blinks)
    BY <1>2 DEF Drawn
  <1>5. csr_x = Position[d].col /\ csr_y + above = Position[d].row
    <2>1. Row(out, d) = Y(out, d) + Top(out, d)
      BY <1>2, CursorPlace
    <2> HIDE DEF above
    <2> QED BY <1>3, <1>4, <2>1 DEF Shows
  <1>6. output # <<>> => crtc.high * BYTE + crtc.low = csr_y * WIDTH + csr_x
    <2>1. output # <<>> => d # 0
      BY <1>1
    <2> QED BY <1>4, <2>1 DEF Blinks
  <1>7. ASSUME NEW row \in 0..(HEIGHT - 1), NEW col \in 0..(WIDTH - 1)
        PROVE  video[row * WIDTH + col] = OnPaper(row + above, col)
    <2>1. video[Cell(row, col)] = Paper(out, d, row + Top(out, d), col)
      BY <1>4 DEF Shows, Picture, ScreenRows, ScreenCols
    <2>2. OnPaper(row + above, col) = Paper(out, d, row + above, col)
      BY <1>1, PaperIsOnPaper
    <2> HIDE DEF above, d
    <2> QED BY <1>3, <2>1, <2>2 DEF Cell
  <1> QED BY <1>1, <1>5, <1>6, <1>7

(* scrn.c:15-160: as long as the handler prints only while main does not,  *)
(* the screen is the bottom of the paper on which all messages were        *)
(* printed, whatever their tabs, newlines and long lines, and the display  *)
(* blinks where the next character goes.                                   *)
THEOREM ScreenShowsOutput == Spec => []ShowsOutput
  <1>1. Init => Undisturbed
    BY InitUndisturbed
  <1>2. IInv /\ Undisturbed /\ [Next]_vars => Undisturbed'
    BY NextUndisturbed
  <1>3. Spec => []Undisturbed
    BY <1>1, <1>2, ConsoleInvariance, PTL DEF Spec
  <1> QED BY <1>3, UndisturbedShows, PTL

=============================================================================
