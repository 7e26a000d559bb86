---------------------------- MODULE VideoBuffer -----------------------------
(***************************************************************************)
(* The drivers of the pixel buffer and of the video DMA controller: which  *)
(* bytes each drawing call writes, and the exchange of the two buffers.    *)
(* A drawing is a record [op, x0, y0, x1, y1]; colours are left out.  The  *)
(* device shows one buffer and exchanges the two when it has finished a    *)
(* picture; the driver keeps its own copy of which is which.               *)
(***************************************************************************)
EXTENDS Integers, FiniteSets

CONSTANTS
  XRes, YRes,                \* 320, 240
  WidthBits, HeightBits,     \* bits of a coordinate in an X-Y address
  Wrap,                      \* unsigned ints wrap at this, 2^32 on the board
  Buffers,                   \* start addresses
  Devices                    \* [driver, xy, bytes]: which of the two drivers,
                             \* the addressing mode, and bytes per pixel

(* A row fits into its X-Y addresses and a coordinate into an unsigned int; *)
(* rows are whole words of the bus, which clear_screen writes.             *)
ASSUME VideoAssumption ==
  /\ XRes \in Nat \ {0} /\ YRes \in Nat \ {0} /\ XRes % 2 = 0
  /\ 2^WidthBits \in Nat /\ 2^HeightBits \in Nat
  /\ XRes <= 2^WidthBits /\ YRes <= 2^HeightBits
  /\ Wrap \in Nat /\ XRes < Wrap /\ YRes < Wrap
  /\ Devices \subseteq [driver : {"pixel_buffer", "dma"}, xy : BOOLEAN, bytes : {2, 4}]

VARIABLES
  device,                    \* the device, as alt_sys_init finds it
  driver,                    \* its front and back as the driver has them
  shows,                     \* [front, back, swap]: the device's registers
  waiting,                   \* the application polls the status after a swap
  drawn                      \* the last drawing: where, what, and the bytes

videoVars == << device, driver, shows, waiting, drawn >>

Abs(n) == IF n < 0 THEN -n ELSE n
Unsgn(n) == n % Wrap
Least(a, b) == IF a < b THEN a ELSE b
Most(a, b) == IF a > b THEN a ELSE b

-----------------------------------------------------------------------------
(* The bytes of a pixel.  In X-Y mode a row begins at a power of two.      *)

RowBytes(d) == d.bytes * (IF d.xy THEN 2^WidthBits ELSE XRes)

PixelBytes(d, x, y) ==
  LET offset == y * RowBytes(d) + x * d.bytes IN offset .. offset + d.bytes - 1

Fill(d, xs, ys) == UNION {PixelBytes(d, x, y) : x \in xs, y \in ys}

(* The coordinates from a to b, ordered as unsigned ints and clipped.      *)
Span(a, b, limit) ==
  Least(Unsgn(a), Unsgn(b)) .. Least(Most(Unsgn(a), Unsgn(b)), limit - 1)

(* A coordinate is masked to the bits that an X-Y address has for it.      *)
Masked(d, x, y) == PixelBytes(d, x % 2^WidthBits, y % 2^HeightBits)

Point(d, x, y) == IF x >= XRes \/ y >= YRes THEN {} ELSE Masked(d, x, y)

(* The bytes of the words of four that begin in the first n.               *)
Words32(n) == 0 .. 4 * ((n + 3) \div 4) - 1

(* Row after row in X-Y mode, all at once in the other.                    *)
clear_screen(d) ==
  IF d.xy
  THEN UNION {{y * RowBytes(d) + b : b \in Words32(XRes * d.bytes)} : y \in 0 .. YRes - 1}
  ELSE Words32(XRes * d.bytes * YRes)

(* Mutant: a box is clipped one column too late.                           *)
BoxWide(d, s) ==
  Fill(d, Span(s.x0, s.x1, XRes + 1), Span(s.y0, s.y1, YRes))

draw_box(d, s) == Fill(d, Span(s.x0, s.x1, XRes), Span(s.y0, s.y1, YRes))

draw_hline(d, x0, x1, y) ==
  Fill(d, Span(x0, x1, XRes), {Unsgn(y)} \cap 0 .. YRes - 1)

draw_vline(d, x, y0, y1) ==
  Fill(d, {Unsgn(x)} \cap 0 .. XRes - 1, Span(y0, y1, YRes))

draw_rectangle(d, s) ==
  draw_hline(d, s.x0, s.x1, s.y0) \cup draw_hline(d, s.x0, s.x1, s.y1)
    \cup draw_vline(d, s.x0, s.y0, s.y1) \cup draw_vline(d, s.x1, s.y0, s.y1)

(* The line's longer extent becomes the x axis, walked upwards.            *)
Steep(s) == Abs(s.y1 - s.y0) > Abs(s.x1 - s.x0)

Exchanged(s) == [s EXCEPT !.x0 = s.y0, !.y0 = s.x0, !.x1 = s.y1, !.y1 = s.x1]
Reversed(s) == [s EXCEPT !.x0 = s.x1, !.y0 = s.y1, !.x1 = s.x0, !.y1 = s.y0]

Upwards(s) ==
  LET e == IF Steep(s) THEN Exchanged(s) ELSE s
  IN IF e.x0 > e.x1 THEN Reversed(e) ELSE e

(* Mutant: the error begins at a whole step.                               *)
FirstErrorFull(deltax) == -deltax

FirstError(deltax) == -(deltax \div 2)

(* y and error at the i-th step along an upwards line.                     *)
Walk(u) ==
  LET deltax == u.x1 - u.x0
      deltay == Abs(u.y1 - u.y0)
      ystep == IF u.y0 < u.y1 THEN 1 ELSE -1
      at[i \in 0 .. deltax] ==
        IF i = 0 THEN [y |-> u.y0, error |-> FirstError(deltax)]
        ELSE LET error == at[i-1].error + deltay IN
             IF error > 0 THEN [y |-> at[i-1].y + ystep, error |-> error - deltax]
                          ELSE [y |-> at[i-1].y, error |-> error]
  IN at

draw_line(d, s) ==
  LET u == Upwards(s)  at == Walk(u) IN
  UNION {IF Steep(s) THEN PixelBytes(d, at[i].y, u.x0 + i)
                     ELSE PixelBytes(d, u.x0 + i, at[i].y) : i \in DOMAIN at}

-----------------------------------------------------------------------------
(* The video DMA controller.  Its coordinates are unsigned.                *)

dma_rectangle(d, xs, ys) ==
  IF xs = {} \/ ys = {} THEN {}
  ELSE LET edge(S) == {n \in S : (n - 1) \notin S \/ (n + 1) \notin S}
       IN Fill(d, xs, edge(ys)) \cup Fill(d, edge(xs), ys)

dma_box(d, s, fill) ==
  LET xs == Span(s.x0, s.x1, XRes)  ys == Span(s.y0, s.y1, YRes) IN
  IF fill THEN Fill(d, xs, ys) ELSE dma_rectangle(d, xs, ys)

(* The bounds are checked after the exchange, and the two branches plot    *)
(* with row and column exchanged.                                          *)
dma_line(d, s) ==
  LET u == Upwards(s)  at == Walk(u) IN
  IF u.x1 >= XRes \/ u.y0 >= YRes \/ u.y1 >= YRes THEN {}
  ELSE UNION {IF Steep(s) THEN PixelBytes(d, u.x0 + i, at[i].y)
                          ELSE PixelBytes(d, at[i].y, u.x0 + i) : i \in DOMAIN at}

(* x1 characters, in X-Y addresses whatever the mode; of a pixel of four   *)
(* bytes only the first is written.                                        *)
dma_string(d, s) ==
  UNION {LET at == s.y0 * 2^WidthBits * d.bytes + x * d.bytes
         IN IF d.bytes = 2 THEN at .. at + 1 ELSE {at} :
         x \in s.x0 .. Least(s.x0 + s.x1, XRes) - 1}

(* The whole screen.                                                       *)
screen_fill(d) ==
  dma_box(d, [op |-> "fill", x0 |-> 0, y0 |-> 0, x1 |-> XRes, y1 |-> YRes], TRUE)

-----------------------------------------------------------------------------

PixelBufferWrites(d, s) ==
  CASE s.op = "point" -> Point(d, s.x0, s.y0)
    [] s.op = "fill" -> clear_screen(d)
    [] s.op = "box" -> draw_box(d, s)
    [] s.op = "hline" -> draw_hline(d, s.x0, s.x1, s.y0)
    [] s.op = "vline" -> draw_vline(d, s.x0, s.y0, s.y1)
    [] s.op = "rectangle" -> draw_rectangle(d, s)
    [] s.op = "line" -> draw_line(d, s)

DmaWrites(d, s) ==
  CASE s.op = "point" -> Point(d, s.x0, s.y0)
    [] s.op = "fill" -> screen_fill(d)
    [] s.op = "box" -> dma_box(d, s, TRUE)
    [] s.op = "rectangle" -> dma_box(d, s, FALSE)
    [] s.op = "line" -> dma_line(d, s)
    [] s.op = "string" -> dma_string(d, s)

Writes(d, s) ==
  IF d.driver = "pixel_buffer" THEN PixelBufferWrites(d, s) ELSE DmaWrites(d, s)

(* What a caller may ask for: any coordinates near the screen where the    *)
(* code clips, and only those of the screen where its comment says so.     *)
OnX == 0 .. XRes - 1
OnY == 0 .. YRes - 1
Shapes(op, xs, ys) == [op : {op}, x0 : xs, y0 : ys, x1 : xs, y1 : ys]

Drawings(d) ==
  LET low == IF d.driver = "pixel_buffer" THEN -1 ELSE 0
      X == low .. XRes  Y == low .. YRes
  IN Shapes("fill", {0}, {0}) \cup Shapes("line", OnX, OnY)
     \cup [op : {"point"}, x0 : 0 .. XRes, y0 : 0 .. YRes, x1 : {0}, y1 : {0}]
     \cup Shapes("box", X, Y) \cup Shapes("rectangle", X, Y)
     \cup (IF d.driver = "pixel_buffer"
           THEN [op : {"hline"}, x0 : X, y0 : Y, x1 : X, y1 : {0}]
                \cup [op : {"vline"}, x0 : X, y0 : Y, x1 : {0}, y1 : Y]
           ELSE IF d.xy
           THEN [op : {"string"}, x0 : OnX, y0 : OnY, x1 : {0, 1, 3}, y1 : {0}]
           ELSE {})

-----------------------------------------------------------------------------

Nothing == [op |-> "none"]

VideoInit ==
  /\ device \in Devices
  /\ \E front, back \in Buffers :
       /\ driver = [front |-> front, back |-> back]
       /\ shows = [front |-> front, back |-> back, swap |-> FALSE]
  /\ waiting = FALSE
  /\ drawn = Nothing

(* A single pixel of the pixel buffer goes to the back buffer.             *)
Draw ==
  /\ ~waiting /\ drawn = Nothing
  /\ \E s \in Drawings(device), backbuffer \in BOOLEAN :
       /\ device.driver = "pixel_buffer" /\ s.op = "point" => backbuffer
       /\ drawn' = [op |-> s.op, shape |-> s, backbuffer |-> backbuffer,
                    to |-> IF backbuffer THEN driver.back ELSE driver.front,
                    bytes |-> Writes(device, s)]
  /\ UNCHANGED << device, driver, shows, waiting >>

change_back_buffer_address ==
  /\ ~waiting
  /\ \E address \in Buffers :
       /\ shows' = [shows EXCEPT !.back = address]
       /\ driver' = [driver EXCEPT !.back = address]
  /\ drawn' = Nothing
  /\ UNCHANGED << device, waiting >>

(* Mutant: the driver keeps its view when it asks for the exchange.        *)
SwappedNot(v) == v

Swapped(v) == [v EXCEPT !.front = v.back, !.back = v.front]

(* The driver exchanges its view at once, the device when it gets there.   *)
swap_buffers ==
  /\ ~waiting
  /\ shows' = [shows EXCEPT !.swap = TRUE]
  /\ driver' = Swapped(driver)
  /\ waiting' = TRUE
  /\ drawn' = Nothing
  /\ UNCHANGED device

check_swap_buffers_status ==
  /\ waiting
  /\ waiting' = shows.swap
  /\ UNCHANGED << device, driver, shows, drawn >>

(* External: the device has finished a picture.                            *)
Refresh ==
  /\ shows.swap
  /\ shows' = [front |-> shows.back, back |-> shows.front, swap |-> FALSE]
  /\ UNCHANGED << device, driver, waiting, drawn >>

VideoNext ==
  Draw \/ change_back_buffer_address \/ swap_buffers
    \/ check_swap_buffers_status \/ Refresh

VideoSpec == VideoInit /\ [][VideoNext]_videoVars

-----------------------------------------------------------------------------
(* The pixels a drawing should have.                                       *)

Between(a, b) == Least(a, b) .. Most(a, b)
Outline(xs, ys) ==
  LET ends(S) == {n \in S : \A m \in S : n <= m} \cup {n \in S : \A m \in S : n >= m}
  IN (xs \X ends(ys)) \cup (ends(xs) \X ys)

PixelsOf(s) ==
  LET xs == Between(s.x0, s.x1)  ys == Between(s.y0, s.y1)  screen == OnX \X OnY IN
  CASE s.op = "point" -> {<< s.x0, s.y0 >>} \cap screen
    [] s.op = "fill" -> screen
    [] s.op = "box" -> (xs \X ys) \cap screen
    [] s.op = "hline" -> (xs \X {s.y0}) \cap screen
    [] s.op = "vline" -> ({s.x0} \X ys) \cap screen
    [] s.op = "rectangle" ->
         IF device.driver = "pixel_buffer" THEN Outline(xs, ys) \cap screen
         ELSE Outline(xs \cap OnX, ys \cap OnY)

(* A line: one pixel for each step of its longer extent, the ends among    *)
(* them, none more than half a pixel off.                                  *)
IsLine(L, s) ==
  LET dx == s.x1 - s.x0  dy == s.y1 - s.y0  long == Most(Abs(dx), Abs(dy)) IN
  /\ {<< s.x0, s.y0 >>, << s.x1, s.y1 >>} \subseteq L
  /\ Cardinality(L) = long + 1
  /\ (IF Steep(s) THEN {p[2] : p \in L} = Between(s.y0, s.y1)
                  ELSE {p[1] : p \in L} = Between(s.x0, s.x1))
  /\ \A p \in L : 2 * Abs(dx * (p[2] - s.y0) - dy * (p[1] - s.x0)) <= long

BytesOf(pixels) == UNION {PixelBytes(device, p[1], p[2]) : p \in pixels}

(* The pixels whose bytes were all written, on the square round the screen.*)
Painted ==
  {p \in (0 .. Most(XRes, YRes)) \X (0 .. Most(XRes, YRes)) :
     p[1] < XRes /\ PixelBytes(device, p[1], p[2]) \subseteq drawn.bytes}

InScreen(s) == s.x0 >= 0 /\ s.y0 >= 0 /\ s.x1 >= 0 /\ s.y1 >= 0

(* What a call other than a line's should write: the pixels of its shape,  *)
(* or with a negative coordinate at least nothing outside the screen.      *)
IsShape(s, bytes) ==
  IF s.op = "string"
  THEN bytes \subseteq BytesOf((s.x0 .. s.x0 + s.x1 - 1) \X {s.y0} \cap OnX \X OnY)
  ELSE IF InScreen(s) THEN bytes = BytesOf(PixelsOf(s))
                      ELSE bytes \subseteq BytesOf(OnX \X OnY)

(* Every call but the lines draws its shape and nothing else, in each mode:*)
(* the pixels between its coordinates that are on the screen, whatever     *)
(* their order; with a negative coordinate, which the code takes for a huge*)
(* one, at least nothing outside the screen; and a string its first        *)
(* characters (altera_up_avalon_video_pixel_buffer_dma.c:158-507,          *)
(* altera_up_avalon_video_dma_controller.c:85-258 and 349-515).            *)
ShapesDrawn ==
  drawn # Nothing /\ drawn.op # "line" => IsShape(drawn.shape, drawn.bytes)

LineDrawn(s, bytes) == IsLine(Painted, s) /\ bytes = BytesOf(Painted)

(* A line of the pixel buffer driver has one pixel for each step of its    *)
(* longer extent, its ends among them and none more than half a pixel off, *)
(* in whatever direction it goes, and nothing else is written              *)
(* (altera_up_avalon_video_pixel_buffer_dma.c:521-598).                    *)
LinesDrawn ==
  device.driver = "pixel_buffer" /\ drawn # Nothing /\ drawn.op = "line" =>
    LineDrawn(drawn.shape, drawn.bytes)

(* When the application waits for the exchange it has asked for, what it   *)
(* draws in the back buffer is never on the screen meanwhile, however often*)
(* buffers are exchanged or a new one is set: the driver's copy agrees with*)
(* the device (altera_up_avalon_video_pixel_buffer_dma.c:84-108).          *)
BackNotShown ==
  ~waiting => /\ driver = [front |-> shows.front, back |-> shows.back]
              /\ drawn # Nothing /\ drawn.backbuffer /\ shows.front # shows.back =>
                   drawn.to # shows.front

(* The comment over the draw_line of the video DMA controller: it "draws a *)
(* line between points (x0, y0) and (x1, y1)"                              *)
(* (altera_up_avalon_video_dma_controller.c:261).                          *)
DmaLinesDrawn ==
  device.driver = "dma" /\ drawn # Nothing /\ drawn.op = "line" =>
    LineDrawn(drawn.shape, drawn.bytes)
=============================================================================
