---------------------------- MODULE VideoProofs -----------------------------
(***************************************************************************)
(* The video drivers, for every resolution, both addressing modes and both *)
(* depths of colour: what the drawing calls write, and which buffer is on  *)
(* the screen.                                                             *)
(***************************************************************************)
EXTENDS VideoBuffer, TLAPS

-----------------------------------------------------------------------------
(* The buffers.                                                            *)

Agreed ==
  driver = IF shows.swap THEN [front |-> shows.back, back |-> shows.front]
                         ELSE [front |-> shows.front, back |-> shows.back]

(* The last drawing, made of the device as it is.                          *)
DrawingOf(s, backbuffer) ==
  [op |-> s.op, shape |-> s, backbuffer |-> backbuffer,
   to |-> IF backbuffer THEN driver.back ELSE driver.front,
   bytes |-> Writes(device, s)]

(* The device exchanges the buffers only while the application waits, and  *)
(* until it does, the driver's copy is exchanged and nothing is drawn.     *)
VideoIInv ==
  /\ device \in Devices /\ waiting \in BOOLEAN
  /\ shows \in [front : Buffers, back : Buffers, swap : BOOLEAN]
  /\ shows.swap => waiting
  /\ Agreed
  /\ \/ drawn = Nothing
     \/ /\ ~waiting
        /\ \E s \in Drawings(device), backbuffer \in BOOLEAN :
             drawn = DrawingOf(s, backbuffer)

LEMMA VideoStarts ==
  ASSUME VideoInit
  PROVE  VideoIInv
<1>1. PICK front \in Buffers, back \in Buffers :
        /\ driver = [front |-> front, back |-> back]
        /\ shows = [front |-> front, back |-> back, swap |-> FALSE]
  BY DEF VideoInit
<1>2. Agreed
  BY <1>1 DEF Agreed
<1>3. shows \in [front : Buffers, back : Buffers, swap : BOOLEAN] /\ ~shows.swap
  BY <1>1
<1> QED
  BY <1>2, <1>3 DEF VideoInit, VideoIInv

LEMMA VideoSteps ==
  ASSUME VideoIInv, [VideoNext]_videoVars
  PROVE  VideoIInv'
<1>1. CASE Draw
  <2>1. UNCHANGED << device, driver, shows, waiting >> /\ ~waiting
    BY <1>1 DEF Draw
  <2>2. PICK s \in Drawings(device), backbuffer \in BOOLEAN :
          drawn' = DrawingOf(s, backbuffer)
    BY <1>1 DEF Draw, DrawingOf
  <2>3. DrawingOf(s, backbuffer) = DrawingOf(s, backbuffer)'
    BY <2>1 DEF DrawingOf
  <2>4. \E r \in Drawings(device'), b \in BOOLEAN : drawn' = DrawingOf(r, b)'
    BY <2>1, <2>2, <2>3
  <2>5. Agreed'
    BY <2>1 DEF VideoIInv, Agreed
  <2> QED
    BY <2>1, <2>4, <2>5 DEF VideoIInv
<1>2. CASE change_back_buffer_address
  <2>1. PICK address \in Buffers :
          /\ shows' = [shows EXCEPT !.back = address]
          /\ driver' = [driver EXCEPT !.back = address]
    BY <1>2 DEF change_back_buffer_address
  <2>2. ~waiting /\ UNCHANGED << device, waiting >> /\ drawn' = Nothing
    BY <1>2 DEF change_back_buffer_address
  <2>3. ~shows.swap /\ driver = [front |-> shows.front, back |-> shows.back]
    BY <2>2 DEF VideoIInv, Agreed
  <2>4. /\ shows' \in [front : Buffers, back : Buffers, swap : BOOLEAN]
        /\ shows'.swap = shows.swap /\ shows'.front = shows.front /\ shows'.back = address
    BY <2>1 DEF VideoIInv
  <2>5. driver' = [front |-> shows.front, back |-> address]
    BY <2>1, <2>3
  <2>6. Agreed'
    BY <2>3, <2>4, <2>5 DEF Agreed
  <2> QED
    BY <2>2, <2>3, <2>4, <2>6 DEF VideoIInv
<1>3. CASE swap_buffers
  <2>1. /\ ~waiting /\ waiting' = TRUE /\ drawn' = Nothing /\ UNCHANGED device
        /\ shows' = [shows EXCEPT !.swap = TRUE]
        /\ driver' = [driver EXCEPT !.front = driver.back, !.back = driver.front]
    BY <1>3 DEF swap_buffers, Swapped
  <2>2. ~shows.swap /\ driver = [front |-> shows.front, back |-> shows.back]
    BY <2>1 DEF VideoIInv, Agreed
  <2>3. /\ shows' \in [front : Buffers, back : Buffers, swap : BOOLEAN]
        /\ shows'.swap /\ shows'.front = shows.front /\ shows'.back = shows.back
    BY <2>1 DEF VideoIInv
  <2>4. driver' = [front |-> shows.back, back |-> shows.front]
    BY <2>1, <2>2
  <2>5. Agreed'
    BY <2>3, <2>4 DEF Agreed
  <2> QED
    BY <2>1, <2>3, <2>5 DEF VideoIInv
<1>4. CASE check_swap_buffers_status
  <2>1. /\ waiting /\ waiting' = shows.swap
        /\ UNCHANGED << device, driver, shows, drawn >>
    BY <1>4 DEF check_swap_buffers_status
  <2>2. drawn = Nothing /\ shows.swap \in BOOLEAN
    BY <2>1 DEF VideoIInv
  <2>3. Agreed'
    BY <2>1 DEF VideoIInv, Agreed
  <2> QED
    BY <2>1, <2>2, <2>3 DEF VideoIInv
<1>5. CASE Refresh
  <2>1. /\ shows.swap /\ UNCHANGED << device, driver, waiting, drawn >>
        /\ shows' = [front |-> shows.back, back |-> shows.front, swap |-> FALSE]
    BY <1>5 DEF Refresh
  <2>2. drawn = Nothing /\ driver = [front |-> shows.back, back |-> shows.front]
    BY <2>1 DEF VideoIInv, Agreed
  <2>3. /\ shows' \in [front : Buffers, back : Buffers, swap : BOOLEAN]
        /\ ~shows'.swap /\ shows'.front = shows.back /\ shows'.back = shows.front
    BY <2>1 DEF VideoIInv
  <2>4. Agreed'
    BY <2>1, <2>2, <2>3 DEF Agreed
  <2> QED
    BY <2>1, <2>2, <2>3, <2>4 DEF VideoIInv
<1>6. CASE UNCHANGED videoVars
  <2>1. UNCHANGED << device, driver, shows, waiting, drawn >>
    BY <1>6 DEF videoVars
  <2>2. \A s, b : DrawingOf(s, b)' = DrawingOf(s, b)
    BY <2>1 DEF DrawingOf
  <2> QED
    BY <2>1, <2>2 DEF VideoIInv, Agreed
<1> QED
  BY <1>1, <1>2, <1>3, <1>4, <1>5, <1>6 DEF VideoNext

(* The drivers keep agreed with the device, and the last drawing is one    *)
(* that was asked for, in the buffer it was meant for.                     *)
THEOREM VideoInvariant == VideoSpec => []VideoIInv
  BY VideoStarts, VideoSteps, PTL DEF VideoSpec

(* What is drawn in the back buffer is not on the screen, however often    *)
(* buffers are exchanged or replaced: an application that polls the status *)
(* after alt_up_pixel_buffer_dma_swap_buffers never draws while driver and *)
(* device disagree.                                                        *)
THEOREM BackStaysHidden == VideoSpec => []BackNotShown
<1>1. VideoIInv => BackNotShown
  BY DEF VideoIInv, BackNotShown, Agreed, DrawingOf
<1> QED
  BY <1>1, VideoInvariant, PTL

-----------------------------------------------------------------------------
(* The drawings.                                                           *)

LEMMA TheDevice ==
  ASSUME device \in Devices
  PROVE  /\ device.driver \in {"pixel_buffer", "dma"}
         /\ device.xy \in BOOLEAN /\ device.bytes \in {2, 4}
  BY VideoAssumption

(* A filled area is the pixels of its columns and rows.                    *)
LEMMA FillIs ==
  ASSUME NEW xs, NEW ys
  PROVE  Fill(device, xs, ys) = BytesOf(xs \X ys)
<1>1. ASSUME NEW b
      PROVE  b \in Fill(device, xs, ys) <=> b \in BytesOf(xs \X ys)
  <2>1. b \in Fill(device, xs, ys) <=>
          \E x \in xs, y \in ys : b \in PixelBytes(device, x, y)
    BY DEF Fill
  <2>2. b \in BytesOf(xs \X ys) <=>
          \E p \in xs \X ys : b \in PixelBytes(device, p[1], p[2])
    BY DEF BytesOf
  <2>3. ASSUME NEW x \in xs, NEW y \in ys, b \in PixelBytes(device, x, y)
        PROVE  \E p \in xs \X ys : b \in PixelBytes(device, p[1], p[2])
    <3>1. << x, y >> \in xs \X ys /\ << x, y >>[1] = x /\ << x, y >>[2] = y
      OBVIOUS
    <3> QED
      BY <2>3, <3>1
  <2>4. ASSUME NEW p \in xs \X ys, b \in PixelBytes(device, p[1], p[2])
        PROVE  \E x \in xs, y \in ys : b \in PixelBytes(device, x, y)
    <3>1. p[1] \in xs /\ p[2] \in ys
      OBVIOUS
    <3> QED
      BY <2>4, <3>1
  <2> QED
    BY <2>1, <2>2, <2>3, <2>4
<1> QED
  BY <1>1

LEMMA MorePixels ==
  ASSUME NEW P, NEW Q, P \subseteq Q
  PROVE  BytesOf(P) \subseteq BytesOf(Q)
  BY DEF BytesOf

LEMMA BothPixels ==
  ASSUME NEW P, NEW Q
  PROVE  BytesOf(P \cup Q) = BytesOf(P) \cup BytesOf(Q)
<1>1. \A R, b : b \in BytesOf(R) <=> \E p \in R : b \in PixelBytes(device, p[1], p[2])
  BY DEF BytesOf
<1>2. ASSUME NEW b
      PROVE  b \in BytesOf(P \cup Q) <=> b \in BytesOf(P) \cup BytesOf(Q)
  BY <1>1
<1> QED
  BY <1>2

(* A coordinate that is not negative is its unsigned int.                  *)
LEMMA UnsignedIs ==
  ASSUME NEW n \in Int, -1 <= n, n < Wrap
  PROVE  /\ Unsgn(n) = IF n = -1 THEN Wrap - 1 ELSE n
         /\ Unsgn(n) \in Nat
<1>1. Wrap \in Nat \ {0}
  BY VideoAssumption
<1>2. CASE n = -1
  BY <1>1, <1>2 DEF Unsgn
<1>3. CASE n # -1
  BY <1>1, <1>3 DEF Unsgn
<1> QED
  BY <1>1, <1>2, <1>3

(* A span is clipped to the screen, and is all between its ends that is on *)
(* the screen unless an end is negative.                                   *)
LEMMA SpanClips ==
  ASSUME NEW limit \in Nat, limit < Wrap, NEW a \in -1 .. limit, NEW b \in -1 .. limit
  PROVE  /\ Span(a, b, limit) \subseteq 0 .. limit - 1
         /\ a >= 0 /\ b >= 0 => Span(a, b, limit) = Between(a, b) \cap 0 .. limit - 1
<1>1. Wrap \in Nat
  BY VideoAssumption
<1>2. Unsgn(a) \in Nat /\ Unsgn(b) \in Nat
  BY <1>1, UnsignedIs
<1>3. Span(a, b, limit) \subseteq 0 .. limit - 1
  BY <1>2 DEF Span, Least, Most
<1>4. ASSUME a >= 0, b >= 0
      PROVE  Span(a, b, limit) = Between(a, b) \cap 0 .. limit - 1
  <2>1. Unsgn(a) = a /\ Unsgn(b) = b
    BY <1>1, <1>4, UnsignedIs
  <2> QED
    BY <1>4, <2>1 DEF Span, Between, Least, Most
<1> QED
  BY <1>3, <1>4


(* The operands of a drawing.                                              *)
LEMMA Operands ==
  ASSUME device \in Devices, NEW s \in Drawings(device), s.op # "line"
  PROVE  /\ s.op \in {"point", "fill", "box", "rectangle", "hline", "vline", "string"}
         /\ s.op \in {"hline", "vline"} => device.driver = "pixel_buffer"
         /\ s.op = "string" => /\ device.driver = "dma" /\ device.xy
                               /\ s.x0 \in OnX /\ s.y0 \in OnY /\ s.x1 \in Nat
         /\ s.op \in {"point", "fill"} => InScreen(s)
         /\ device.driver = "dma" => InScreen(s)
         /\ s.op # "string" =>
              /\ s.x0 \in -1 .. XRes /\ s.y0 \in -1 .. YRes
              /\ s.x1 \in -1 .. XRes /\ s.y1 \in -1 .. YRes
<1>1. XRes \in Nat \ {0} /\ YRes \in Nat \ {0}
  BY VideoAssumption
<1>2. PICK low \in {-1, 0} :
        /\ low = 0 \/ device.driver = "pixel_buffer"
        /\ s \in Shapes("fill", {0}, {0}) \cup Shapes("line", OnX, OnY)
              \cup [op : {"point"}, x0 : 0 .. XRes, y0 : 0 .. YRes, x1 : {0}, y1 : {0}]
              \cup Shapes("box", low .. XRes, low .. YRes)
              \cup Shapes("rectangle", low .. XRes, low .. YRes)
              \cup (IF device.driver = "pixel_buffer"
                    THEN [op : {"hline"}, x0 : low .. XRes, y0 : low .. YRes,
                          x1 : low .. XRes, y1 : {0}]
                         \cup [op : {"vline"}, x0 : low .. XRes, y0 : low .. YRes,
                               x1 : {0}, y1 : low .. YRes]
                    ELSE IF device.xy
                    THEN [op : {"string"}, x0 : OnX, y0 : OnY, x1 : {0, 1, 3}, y1 : {0}]
                    ELSE {})
  BY DEF Drawings
<1>3. CASE s \in Shapes("fill", {0}, {0})
  BY <1>1, <1>3 DEF Shapes, InScreen
<1>4. CASE s \in Shapes("line", OnX, OnY)
  BY <1>4 DEF Shapes
<1>5. CASE s \in [op : {"point"}, x0 : 0 .. XRes, y0 : 0 .. YRes, x1 : {0}, y1 : {0}]
  BY <1>1, <1>5 DEF InScreen
<1>6. CASE \/ s \in Shapes("box", low .. XRes, low .. YRes)
           \/ s \in Shapes("rectangle", low .. XRes, low .. YRes)
  <2>1. /\ s.op \in {"box", "rectangle"}
        /\ s.x0 \in low .. XRes /\ s.y0 \in low .. YRes
        /\ s.x1 \in low .. XRes /\ s.y1 \in low .. YRes
    BY <1>6 DEF Shapes
  <2>2. low = 0 => InScreen(s)
    BY <1>1, <2>1 DEF InScreen
  <2> QED
    BY <1>1, <1>2, <2>1, <2>2
<1>7. CASE /\ device.driver = "pixel_buffer"
           /\ \/ s \in [op : {"hline"}, x0 : low .. XRes, y0 : low .. YRes,
                        x1 : low .. XRes, y1 : {0}]
              \/ s \in [op : {"vline"}, x0 : low .. XRes, y0 : low .. YRes,
                        x1 : {0}, y1 : low .. YRes]
  BY <1>1, <1>7
<1>8. CASE /\ device.driver # "pixel_buffer" /\ device.xy
           /\ s \in [op : {"string"}, x0 : OnX, y0 : OnY, x1 : {0, 1, 3}, y1 : {0}]
  <2>1. device.driver = "dma"
    BY <1>8, TheDevice
  <2>2. InScreen(s)
    BY <1>8, VideoAssumption DEF InScreen, OnX, OnY
  <2> QED
    BY <1>8, <2>1, <2>2
<1> QED
  BY <1>2, <1>3, <1>4, <1>5, <1>6, <1>7, <1>8

(* The two spans of a drawing are columns and rows of the screen, and those*)
(* of its shape if its coordinates are not negative.                       *)
LEMMA Spans ==
  ASSUME NEW s, s.x0 \in -1 .. XRes, s.y0 \in -1 .. YRes,
         s.x1 \in -1 .. XRes, s.y1 \in -1 .. YRes
  PROVE  /\ Span(s.x0, s.x1, XRes) \subseteq OnX
         /\ Span(s.y0, s.y1, YRes) \subseteq OnY
         /\ InScreen(s) => /\ Span(s.x0, s.x1, XRes) = Between(s.x0, s.x1) \cap OnX
                           /\ Span(s.y0, s.y1, YRes) = Between(s.y0, s.y1) \cap OnY
  BY VideoAssumption, SpanClips DEF OnX, OnY, InScreen

(* A single coordinate, the same.                                          *)
LEMMA Singles ==
  ASSUME NEW limit \in Nat, limit < Wrap, NEW n \in -1 .. limit
  PROVE  /\ {Unsgn(n)} \cap 0 .. limit - 1 \subseteq 0 .. limit - 1
         /\ n >= 0 => {Unsgn(n)} \cap 0 .. limit - 1 = {n} \cap 0 .. limit - 1
  BY VideoAssumption, UnsignedIs

(* A box is the columns and the rows of its two spans.                     *)
LEMMA BoxesDrawn ==
  ASSUME NEW s, s.op = "box", s.x0 \in -1 .. XRes, s.y0 \in -1 .. YRes,
         s.x1 \in -1 .. XRes, s.y1 \in -1 .. YRes
  PROVE  IsShape(s, draw_box(device, s))
<1> DEFINE xs == Span(s.x0, s.x1, XRes)
           ys == Span(s.y0, s.y1, YRes)
<1>1. draw_box(device, s) = BytesOf(xs \X ys)
  BY FillIs DEF draw_box
<1>2. CASE InScreen(s)
  <2>1. PixelsOf(s) = (Between(s.x0, s.x1) \X Between(s.y0, s.y1)) \cap OnX \X OnY
    BY DEF PixelsOf
  <2>2. xs = Between(s.x0, s.x1) \cap OnX /\ ys = Between(s.y0, s.y1) \cap OnY
    BY <1>2, Spans
  <2>3. xs \X ys = PixelsOf(s)
    BY <2>1, <2>2
  <2> QED
    BY <1>1, <1>2, <2>3 DEF IsShape
<1>3. CASE ~InScreen(s)
  <2>1. xs \X ys \subseteq OnX \X OnY
    BY Spans
  <2> QED
    BY <1>1, <1>3, <2>1, MorePixels DEF IsShape
<1> QED
  BY <1>2, <1>3


(* A row from a to b at y, and a column from a to b at x.                  *)
LEMMA HlinesDrawn ==
  ASSUME NEW a \in -1 .. XRes, NEW b \in -1 .. XRes, NEW y \in -1 .. YRes
  PROVE  /\ draw_hline(device, a, b, y) \subseteq BytesOf(OnX \X OnY)
         /\ a >= 0 /\ b >= 0 /\ y >= 0 =>
              draw_hline(device, a, b, y) = BytesOf((Between(a, b) \X {y}) \cap OnX \X OnY)
<1> DEFINE xs == Span(a, b, XRes)
           ys == {Unsgn(y)} \cap 0 .. YRes - 1
<1>1. draw_hline(device, a, b, y) = BytesOf(xs \X ys)
  BY FillIs DEF draw_hline
<1>2. xs \subseteq OnX /\ ys \subseteq OnY
  BY VideoAssumption, SpanClips DEF OnX, OnY
<1>3. xs \X ys \subseteq OnX \X OnY
  BY <1>2
<1>4. ASSUME a >= 0, b >= 0, y >= 0
      PROVE  xs \X ys = (Between(a, b) \X {y}) \cap OnX \X OnY
  <2>1. xs = Between(a, b) \cap OnX
    BY <1>4, VideoAssumption, SpanClips DEF OnX
  <2>2. ys = {y} \cap OnY
    BY <1>4, VideoAssumption, Singles DEF OnY
  <2> QED
    BY <2>1, <2>2
<1> QED
  BY <1>1, <1>3, <1>4, MorePixels

LEMMA VlinesDrawn ==
  ASSUME NEW x \in -1 .. XRes, NEW a \in -1 .. YRes, NEW b \in -1 .. YRes
  PROVE  /\ draw_vline(device, x, a, b) \subseteq BytesOf(OnX \X OnY)
         /\ x >= 0 /\ a >= 0 /\ b >= 0 =>
              draw_vline(device, x, a, b) = BytesOf(({x} \X Between(a, b)) \cap OnX \X OnY)
<1> DEFINE xs == {Unsgn(x)} \cap 0 .. XRes - 1
           ys == Span(a, b, YRes)
<1>1. draw_vline(device, x, a, b) = BytesOf(xs \X ys)
  BY FillIs DEF draw_vline
<1>2. xs \subseteq OnX /\ ys \subseteq OnY
  BY VideoAssumption, SpanClips DEF OnX, OnY
<1>3. xs \X ys \subseteq OnX \X OnY
  BY <1>2
<1>4. ASSUME x >= 0, a >= 0, b >= 0
      PROVE  xs \X ys = ({x} \X Between(a, b)) \cap OnX \X OnY
  <2>1. ys = Between(a, b) \cap OnY
    BY <1>4, VideoAssumption, SpanClips DEF OnY
  <2>2. xs = {x} \cap OnX
    BY <1>4, VideoAssumption, Singles DEF OnX
  <2> QED
    BY <2>1, <2>2
<1> QED
  BY <1>1, <1>3, <1>4, MorePixels

(* The ends of an interval.                                                *)
Ends(S) == {n \in S : \A m \in S : n <= m} \cup {n \in S : \A m \in S : n >= m}

LEMMA OutlineIs ==
  ASSUME NEW xs, NEW ys
  PROVE  Outline(xs, ys) = (xs \X Ends(ys)) \cup (Ends(xs) \X ys)
  BY DEF Outline, Ends

LEMMA EndsAre ==
  ASSUME NEW a \in Int, NEW b \in Int
  PROVE  Ends(Between(a, b)) = {a, b}
  BY DEF Ends, Between, Least, Most

(* The pixel buffer's rectangle, of two rows and two columns.              *)
LEMMA RectanglesDrawn ==
  ASSUME NEW s, s.op = "rectangle", s.x0 \in -1 .. XRes, s.y0 \in -1 .. YRes,
         s.x1 \in -1 .. XRes, s.y1 \in -1 .. YRes, device.driver = "pixel_buffer"
  PROVE  IsShape(s, draw_rectangle(device, s))
<1> DEFINE xs == Between(s.x0, s.x1)
           ys == Between(s.y0, s.y1)
           top == draw_hline(device, s.x0, s.x1, s.y0)
           bottom == draw_hline(device, s.x0, s.x1, s.y1)
           left == draw_vline(device, s.x0, s.y0, s.y1)
           right == draw_vline(device, s.x1, s.y0, s.y1)
           screen == OnX \X OnY
<1>1. draw_rectangle(device, s) = ((top \cup bottom) \cup left) \cup right
  BY DEF draw_rectangle
<1>2. CASE InScreen(s)
  <2>1. s.x0 >= 0 /\ s.x1 >= 0 /\ s.y0 >= 0 /\ s.y1 >= 0
    BY <1>2 DEF InScreen
  <2>2. /\ top = BytesOf((xs \X {s.y0}) \cap screen)
        /\ bottom = BytesOf((xs \X {s.y1}) \cap screen)
        /\ left = BytesOf(({s.x0} \X ys) \cap screen)
        /\ right = BytesOf(({s.x1} \X ys) \cap screen)
    BY <2>1, HlinesDrawn, VlinesDrawn
  <2>3. Ends(xs) = {s.x0, s.x1} /\ Ends(ys) = {s.y0, s.y1}
    BY VideoAssumption, EndsAre
  <2>4. PixelsOf(s) = Outline(xs, ys) \cap screen
    BY DEF PixelsOf
  <2>5. Outline(xs, ys) = (xs \X {s.y0, s.y1}) \cup ({s.x0, s.x1} \X ys)
    BY <2>3, OutlineIs
  <2> HIDE DEF xs, ys, screen, top, bottom, left, right
  <2> DEFINE a == (xs \X {s.y0}) \cap screen
             b == (xs \X {s.y1}) \cap screen
             c == ({s.x0} \X ys) \cap screen
             d == ({s.x1} \X ys) \cap screen
  <2>6. PixelsOf(s) = ((a \cup b) \cup c) \cup d
    <3>1. xs \X {s.y0, s.y1} = (xs \X {s.y0}) \cup (xs \X {s.y1})
      OBVIOUS
    <3>2. {s.x0, s.x1} \X ys = ({s.x0} \X ys) \cup ({s.x1} \X ys)
      OBVIOUS
    <3> QED
      BY <2>4, <2>5, <3>1, <3>2
  <2> HIDE DEF a, b, c, d
  <2>7. BytesOf(((a \cup b) \cup c) \cup d) =
          ((BytesOf(a) \cup BytesOf(b)) \cup BytesOf(c)) \cup BytesOf(d)
    <3>1. BytesOf(a \cup b) = BytesOf(a) \cup BytesOf(b)
      BY BothPixels
    <3>2. BytesOf((a \cup b) \cup c) = BytesOf(a \cup b) \cup BytesOf(c)
      BY BothPixels
    <3>3. BytesOf(((a \cup b) \cup c) \cup d) = BytesOf((a \cup b) \cup c) \cup BytesOf(d)
      BY BothPixels
    <3> QED
      BY <3>1, <3>2, <3>3
  <2>8. top = BytesOf(a) /\ bottom = BytesOf(b) /\ left = BytesOf(c) /\ right = BytesOf(d)
    BY <2>2 DEF a, b, c, d
  <2> QED
    BY <1>1, <1>2, <2>6, <2>7, <2>8 DEF IsShape
<1>3. CASE ~InScreen(s)
  <2>1. /\ top \subseteq BytesOf(screen) /\ bottom \subseteq BytesOf(screen)
        /\ left \subseteq BytesOf(screen) /\ right \subseteq BytesOf(screen)
    BY HlinesDrawn, VlinesDrawn
  <2> HIDE DEF top, bottom, left, right
  <2> QED
    BY <1>1, <1>3, <2>1 DEF IsShape
<1> QED
  BY <1>2, <1>3


(* The DMA controller's boxes, filled or not: the edges of a clipped span  *)
(* are its ends.                                                           *)
Edge(S) == {n \in S : (n - 1) \notin S \/ (n + 1) \notin S}

LEMMA EdgesAreEnds ==
  ASSUME NEW lo \in Int, NEW hi \in Int
  PROVE  Edge(lo .. hi) = Ends(lo .. hi)
<1>1. ASSUME NEW n \in lo .. hi
      PROVE  /\ (n - 1) \notin lo .. hi <=> n = lo
             /\ (n + 1) \notin lo .. hi <=> n = hi
  OBVIOUS
<1>2. ASSUME NEW n \in lo .. hi
      PROVE  /\ (\A m \in lo .. hi : n <= m) <=> n = lo
             /\ (\A m \in lo .. hi : n >= m) <=> n = hi
  OBVIOUS
<1>3. Edge(lo .. hi) = {n \in lo .. hi : n = lo \/ n = hi}
  BY <1>1 DEF Edge
<1>4. Ends(lo .. hi) = {n \in lo .. hi : n = lo \/ n = hi}
  BY <1>2 DEF Ends
<1> QED
  BY <1>3, <1>4

LEMMA SpanEdges ==
  ASSUME NEW limit \in Nat, limit < Wrap, NEW a \in 0 .. limit, NEW b \in 0 .. limit
  PROVE  Edge(Span(a, b, limit)) = Ends(Span(a, b, limit))
<1>1. Unsgn(a) \in Nat /\ Unsgn(b) \in Nat
  BY VideoAssumption, UnsignedIs
<1>2. PICK lo \in Int, hi \in Int : Span(a, b, limit) = lo .. hi
  BY <1>1 DEF Span, Least, Most
<1> QED
  BY <1>2, EdgesAreEnds

LEMMA DmaBoxesDrawn ==
  ASSUME NEW s, s.op \in {"box", "rectangle"}, device.driver = "dma",
         s.x0 \in -1 .. XRes, s.y0 \in -1 .. YRes,
         s.x1 \in -1 .. XRes, s.y1 \in -1 .. YRes, InScreen(s)
  PROVE  IsShape(s, dma_box(device, s, s.op = "box"))
<1> DEFINE xs == Span(s.x0, s.x1, XRes)
           ys == Span(s.y0, s.y1, YRes)
<1>1. /\ xs = Between(s.x0, s.x1) \cap OnX
      /\ ys = Between(s.y0, s.y1) \cap OnY
  BY Spans
<1>2. CASE s.op = "box"
  <2>1. dma_box(device, s, s.op = "box") = BytesOf(xs \X ys)
    BY <1>2, FillIs DEF dma_box
  <2>2. PixelsOf(s) = (Between(s.x0, s.x1) \X Between(s.y0, s.y1)) \cap OnX \X OnY
    BY <1>2 DEF PixelsOf
  <2>3. xs \X ys = PixelsOf(s)
    BY <1>1, <2>2
  <2> QED
    BY <1>2, <2>1, <2>3 DEF IsShape
<1>3. CASE s.op = "rectangle"
  <2>1. dma_box(device, s, s.op = "box") = dma_rectangle(device, xs, ys)
    BY <1>3 DEF dma_box
  <2>2. Edge(xs) = Ends(xs) /\ Edge(ys) = Ends(ys)
    BY VideoAssumption, SpanEdges DEF InScreen
  <2>3. PixelsOf(s) = Outline(xs, ys)
    BY <1>1, <1>3 DEF PixelsOf
  <2>4. Outline(xs, ys) = (xs \X Ends(ys)) \cup (Ends(xs) \X ys)
    BY OutlineIs
  <2> HIDE DEF xs, ys
  <2>5. dma_rectangle(device, xs, ys) = BytesOf(Outline(xs, ys))
    <3>1. CASE xs = {} \/ ys = {}
      <4>1. dma_rectangle(device, xs, ys) = {}
        BY <3>1 DEF dma_rectangle
      <4>2. Outline(xs, ys) = {}
        BY <3>1, <2>4 DEF Ends
      <4> QED
        BY <4>1, <4>2 DEF BytesOf
    <3>2. CASE xs # {} /\ ys # {}
      <4>1. dma_rectangle(device, xs, ys) =
              Fill(device, xs, Edge(ys)) \cup Fill(device, Edge(xs), ys)
        BY <3>2 DEF dma_rectangle, Edge
      <4>2. /\ Fill(device, xs, Edge(ys)) = BytesOf(xs \X Ends(ys))
            /\ Fill(device, Edge(xs), ys) = BytesOf(Ends(xs) \X ys)
        BY <2>2, FillIs
      <4>3. BytesOf(Outline(xs, ys)) =
              BytesOf(xs \X Ends(ys)) \cup BytesOf(Ends(xs) \X ys)
        BY <2>4, BothPixels
      <4> QED
        BY <4>1, <4>2, <4>3
    <3> QED
      BY <3>1, <3>2
  <2> QED
    BY <1>3, <2>1, <2>3, <2>5 DEF IsShape
<1> QED
  BY <1>2, <1>3

(* The DMA controller fills the screen as a box from corner to corner.     *)
LEMMA ScreenFilled ==
  screen_fill(device) = BytesOf(OnX \X OnY)
<1> DEFINE all == [op |-> "fill", x0 |-> 0, y0 |-> 0, x1 |-> XRes, y1 |-> YRes]
<1>1. Span(0, XRes, XRes) = OnX /\ Span(0, YRes, YRes) = OnY
  <2>1. ASSUME NEW limit \in Nat, limit < Wrap
        PROVE  Span(0, limit, limit) = 0 .. limit - 1
    <3>1. Unsgn(0) = 0 /\ Unsgn(limit) = limit
      BY <2>1, VideoAssumption, UnsignedIs
    <3> QED
      BY <2>1, <3>1 DEF Span, Least, Most
  <2> QED
    BY <2>1, VideoAssumption DEF OnX, OnY
<1>2. screen_fill(device) = Fill(device, Span(0, XRes, XRes), Span(0, YRes, YRes))
  BY DEF screen_fill, dma_box
<1> QED
  BY <1>1, <1>2, FillIs

(* The masks leave the coordinates of the screen alone.                    *)
LEMMA PointsDrawn ==
  ASSUME NEW s, s.op = "point", s.x0 \in Nat, s.y0 \in Nat, InScreen(s)
  PROVE  IsShape(s, Point(device, s.x0, s.y0))
<1>1. PixelsOf(s) = {<< s.x0, s.y0 >>} \cap OnX \X OnY
  BY DEF PixelsOf
<1>2. CASE s.x0 >= XRes \/ s.y0 >= YRes
  <2>1. PixelsOf(s) = {}
    BY <1>1, <1>2, VideoAssumption DEF OnX, OnY
  <2> QED
    BY <1>2, <2>1 DEF Point, IsShape, BytesOf
<1>3. CASE ~(s.x0 >= XRes \/ s.y0 >= YRes)
  <2>1. s.x0 < XRes /\ s.y0 < YRes
    BY <1>3, VideoAssumption
  <2>2. s.x0 % 2^WidthBits = s.x0 /\ s.y0 % 2^HeightBits = s.y0
    <3>1. ASSUME NEW n \in Nat, NEW d \in Nat, n < d
          PROVE  n % d = n
      BY <3>1
    <3> QED
      BY <2>1, <3>1, VideoAssumption
  <2>3. PixelsOf(s) = {<< s.x0, s.y0 >>}
    BY <1>1, <2>1, VideoAssumption DEF OnX, OnY
  <2>4. BytesOf({<< s.x0, s.y0 >>}) = PixelBytes(device, s.x0, s.y0)
    BY DEF BytesOf
  <2> QED
    BY <1>3, <2>2, <2>3, <2>4 DEF Point, Masked, IsShape
<1> QED
  BY <1>2, <1>3


(* The pixels of a row are its bytes.                                      *)
LEMMA RowFilled ==
  ASSUME NEW bytes \in {2, 4}, NEW base \in Nat, NEW b \in Int
  PROVE  (\E x \in OnX : b \in base + x * bytes .. base + x * bytes + bytes - 1)
           <=> b \in base .. base + XRes * bytes - 1
<1>1. XRes \in Nat \ {0}
  BY VideoAssumption
<1>2. CASE bytes = 2
  <2>1. ASSUME NEW x \in OnX, b \in base + x * 2 .. base + x * 2 + 1
        PROVE  b \in base .. base + XRes * 2 - 1
    BY <1>1, <2>1 DEF OnX
  <2>2. ASSUME b \in base .. base + XRes * 2 - 1
        PROVE  \E x \in OnX : b \in base + x * 2 .. base + x * 2 + 1
    <3>1. (b - base) \div 2 \in OnX
      BY <1>1, <2>2 DEF OnX
    <3>2. b \in base + ((b - base) \div 2) * 2 .. base + ((b - base) \div 2) * 2 + 1
      BY <1>1, <2>2
    <3> QED
      BY <3>1, <3>2
  <2> QED
    BY <1>2, <2>1, <2>2
<1>3. CASE bytes = 4
  <2>1. ASSUME NEW x \in OnX, b \in base + x * 4 .. base + x * 4 + 3
        PROVE  b \in base .. base + XRes * 4 - 1
    BY <1>1, <2>1 DEF OnX
  <2>2. ASSUME b \in base .. base + XRes * 4 - 1
        PROVE  \E x \in OnX : b \in base + x * 4 .. base + x * 4 + 3
    <3>1. (b - base) \div 4 \in OnX
      BY <1>1, <2>2 DEF OnX
    <3>2. b \in base + ((b - base) \div 4) * 4 .. base + ((b - base) \div 4) * 4 + 3
      BY <1>1, <2>2
    <3> QED
      BY <3>1, <3>2
  <2> QED
    BY <1>3, <2>1, <2>2
<1> QED
  BY <1>2, <1>3

(* The bytes of the screen, row by row.                                    *)
LEMMA ScreenBytes ==
  ASSUME device \in Devices, NEW b \in Int
  PROVE  b \in BytesOf(OnX \X OnY) <=>
           \E y \in OnY : b \in y * RowBytes(device)
                                  .. y * RowBytes(device) + XRes * device.bytes - 1
<1> DEFINE R == RowBytes(device)
           w == device.bytes
<1>1. R \in Nat /\ w \in {2, 4}
  BY VideoAssumption, TheDevice DEF RowBytes
<1>2. b \in BytesOf(OnX \X OnY) <=> \E x \in OnX, y \in OnY : b \in PixelBytes(device, x, y)
  BY FillIs DEF Fill
<1>3. \A x, y : PixelBytes(device, x, y) = y * R + x * w .. y * R + x * w + w - 1
  BY DEF PixelBytes
<1>4. \A y \in OnY : y * R \in Nat
  BY <1>1, VideoAssumption DEF OnY
<1> HIDE DEF R, w
<1>5. \A y \in OnY :
        (\E x \in OnX : b \in y * R + x * w .. y * R + x * w + w - 1)
          <=> b \in y * R .. y * R + XRes * w - 1
  BY <1>1, <1>4, RowFilled
<1>6. b \in BytesOf(OnX \X OnY) <=> \E y \in OnY : b \in y * R .. y * R + XRes * w - 1
  BY <1>2, <1>3, <1>5
<1> QED
  BY <1>6 DEF R, w


(* A row ends with a word of the bus, and so does the screen.              *)
LEMMA WholeWords ==
  ASSUME NEW n \in Nat, n % 4 = 0
  PROVE  Words32(n) = 0 .. n - 1
<1>1. 4 * ((n + 3) \div 4) = n
  OBVIOUS
<1> QED
  BY <1>1 DEF Words32

LEMMA RowOfWords ==
  ASSUME NEW bytes \in {2, 4}, NEW m \in Nat
  PROVE  /\ XRes * bytes \in Nat \ {0}
         /\ (XRes * bytes) % 4 = 0
         /\ (XRes * bytes * m) \in Nat /\ (XRes * bytes * m) % 4 = 0
<1>1. PICK k \in Nat : XRes * bytes = 4 * k
  <2>1. XRes \in Nat /\ XRes % 2 = 0
    BY VideoAssumption
  <2>2. XRes * bytes = 4 * ((XRes * bytes) \div 4) /\ (XRes * bytes) \div 4 \in Nat
    BY <2>1
  <2> QED
    BY <2>2
<1>2. XRes * bytes \in Nat \ {0}
  BY VideoAssumption
<1>3. XRes * bytes * m = 4 * (k * m) /\ k * m \in Nat
  BY <1>1
<1> QED
  BY <1>1, <1>2, <1>3

(* A byte of the screen is in one of its rows.                             *)
LEMMA ByteInRow ==
  ASSUME NEW n \in Nat \ {0}, NEW m \in Nat, NEW b \in Int
  PROVE  b \in 0 .. n * m - 1 <=>
           \E y \in 0 .. m - 1 : b \in y * n .. y * n + n - 1
<1>1. ASSUME b \in 0 .. n * m - 1
      PROVE  \E y \in 0 .. m - 1 : b \in y * n .. y * n + n - 1
  <2> DEFINE q == b \div n
  <2>1. n * m \in Nat /\ b \in Nat
    BY <1>1
  <2>2. q \in Nat /\ n * q <= b /\ b < n * (q + 1)
    BY <2>1
  <2> HIDE DEF q
  <2>3. n * q < n * m
    BY <1>1, <2>1, <2>2
  <2>4. q < m
    <3>1. ASSUME m <= q
          PROVE  n * m <= n * q
      BY <3>1, <2>2
    <3> QED
      BY <2>1, <2>2, <2>3, <3>1
  <2>5. n * (q + 1) = q * n + n /\ n * q = q * n /\ q * n \in Nat
    BY <2>2
  <2>6. b \in q * n .. q * n + n - 1
    BY <2>1, <2>2, <2>5
  <2> QED
    BY <2>2, <2>4, <2>6
<1>2. ASSUME NEW y \in 0 .. m - 1, b \in y * n .. y * n + n - 1
      PROVE  b \in 0 .. n * m - 1
  <2>1. y * n \in Nat /\ n * m \in Nat /\ y * n + n = n * (y + 1)
    BY <1>2
  <2>2. n * (y + 1) <= n * m
    BY <1>2
  <2> QED
    BY <1>2, <2>1, <2>2
<1> QED
  BY <1>1, <1>2

(* The pixel buffer clears the screen word by word, no more and no less.   *)
LEMMA ScreenCleared ==
  ASSUME device \in Devices
  PROVE  clear_screen(device) = BytesOf(OnX \X OnY)
<1> DEFINE R == RowBytes(device)
           w == device.bytes
           n == XRes * w
<1>0. w \in {2, 4} /\ YRes \in Nat /\ R \in Nat
  BY TheDevice, VideoAssumption DEF RowBytes
<1>1. n \in Nat \ {0} /\ Words32(n) = 0 .. n - 1
  BY <1>0, RowOfWords, WholeWords
<1>2. \A y \in OnY : y * R \in Nat
  BY <1>0 DEF OnY
<1>3. \A b \in Int : b \in BytesOf(OnX \X OnY) <=>
                       \E y \in OnY : b \in y * R .. y * R + n - 1
  BY ScreenBytes
<1>4. \A b \in BytesOf(OnX \X OnY) : b \in Int
  <2>1. \A x \in OnX, y \in OnY : PixelBytes(device, x, y) \subseteq Int
    BY <1>0, <1>2, VideoAssumption DEF PixelBytes, OnX
  <2>2. BytesOf(OnX \X OnY) = Fill(device, OnX, OnY)
    BY FillIs
  <2>3. \A b \in Fill(device, OnX, OnY) :
          \E x \in OnX, y \in OnY : b \in PixelBytes(device, x, y)
    BY DEF Fill
  <2> QED
    BY <2>1, <2>2, <2>3
<1>5. CASE device.xy
  <2>1. clear_screen(device) =
          UNION {{y * R + b : b \in 0 .. n - 1} : y \in OnY}
    BY <1>1, <1>5 DEF clear_screen, OnY
  <2> HIDE DEF R, n, w
  <2>2. \A y \in OnY : {y * R + b : b \in 0 .. n - 1} = y * R .. y * R + n - 1
    <3>1. SUFFICES ASSUME NEW y \in OnY
                   PROVE  {y * R + b : b \in 0 .. n - 1} = y * R .. y * R + n - 1
      OBVIOUS
    <3>2. y * R \in Nat
      BY <1>2
    <3>3. ASSUME NEW a \in Nat
          PROVE  {a + b : b \in 0 .. n - 1} = a .. a + n - 1
      <4>1. ASSUME NEW c \in a .. a + n - 1
            PROVE  c \in {a + b : b \in 0 .. n - 1}
        <5>1. c - a \in 0 .. n - 1 /\ c = a + (c - a)
          BY <1>1
        <5> QED
          BY <5>1
      <4>2. ASSUME NEW b \in 0 .. n - 1
            PROVE  a + b \in a .. a + n - 1
        BY <1>1
      <4> QED
        BY <4>1, <4>2
    <3> QED
      BY <3>2, <3>3
  <2>3. clear_screen(device) = UNION {y * R .. y * R + n - 1 : y \in OnY}
    BY <2>1, <2>2
  <2>4. \A b : b \in clear_screen(device) <=> \E y \in OnY : b \in y * R .. y * R + n - 1
    BY <2>3
  <2>5. \A b \in clear_screen(device) : b \in Int
    BY <1>1, <1>2, <2>4
  <2> QED
    BY <1>3, <1>4, <2>4, <2>5
<1>6. CASE ~device.xy
  <2>1. R = n
    BY <1>0, <1>6, VideoAssumption DEF RowBytes
  <2>2. clear_screen(device) = 0 .. n * YRes - 1
    BY <1>0, <1>6, RowOfWords, WholeWords DEF clear_screen
  <2>3. \A b \in Int : b \in 0 .. n * YRes - 1 <=>
                         \E y \in OnY : b \in y * n .. y * n + n - 1
    BY <1>0, <1>1, ByteInRow DEF OnY
  <2>4. n * YRes \in Nat
    BY <1>0, <1>1
  <2> HIDE DEF R, n, w
  <2>5. \A b \in Int : b \in BytesOf(OnX \X OnY) <=> b \in 0 .. n * YRes - 1
    BY <1>3, <2>1, <2>3
  <2>6. \A b \in 0 .. n * YRes - 1 : b \in Int
    BY <2>4
  <2> QED
    BY <1>4, <2>2, <2>5, <2>6
<1> QED
  BY <1>0, <1>5, <1>6, TheDevice


(* A string, which is written in X-Y addresses, keeps to its row.          *)
LEMMA StringsDrawn ==
  ASSUME device \in Devices, device.xy,
         NEW s, s.op = "string", s.x0 \in OnX, s.y0 \in OnY, s.x1 \in Nat
  PROVE  IsShape(s, dma_string(device, s))
<1> DEFINE w == device.bytes
           P == (s.x0 .. s.x0 + s.x1 - 1) \X {s.y0} \cap OnX \X OnY
           at(x) == s.y0 * 2^WidthBits * w + x * w
<1>1. w \in {2, 4} /\ 2^WidthBits \in Nat /\ s.y0 \in Nat
  BY TheDevice, VideoAssumption DEF OnY
<1>2. dma_string(device, s) =
        UNION {IF w = 2 THEN at(x) .. at(x) + 1 ELSE {at(x)} :
                 x \in s.x0 .. Least(s.x0 + s.x1, XRes) - 1}
  BY DEF dma_string
<1>3. ASSUME NEW x \in s.x0 .. Least(s.x0 + s.x1, XRes) - 1
      PROVE  /\ << x, s.y0 >> \in P
             /\ (IF w = 2 THEN at(x) .. at(x) + 1 ELSE {at(x)}) \subseteq
                  PixelBytes(device, x, s.y0)
  <2>1. x \in OnX /\ x \in s.x0 .. s.x0 + s.x1 - 1 /\ x \in Nat
    BY VideoAssumption DEF Least, OnX
  <2>2. << x, s.y0 >> \in P
    BY <2>1
  <2>3. RowBytes(device) = w * 2^WidthBits
    BY DEF RowBytes
  <2>4. s.y0 * (w * 2^WidthBits) + x * w = at(x) /\ at(x) \in Nat
    BY <1>1, <2>1
  <2>5. PixelBytes(device, x, s.y0) = at(x) .. at(x) + w - 1
    BY <2>3, <2>4 DEF PixelBytes
  <2> HIDE DEF at, w, P
  <2> QED
    BY <1>1, <2>2, <2>4, <2>5
<1> HIDE DEF at, w, P
<1>4. dma_string(device, s) \subseteq BytesOf(P)
  <2>1. \A x \in s.x0 .. Least(s.x0 + s.x1, XRes) - 1 :
          PixelBytes(device, x, s.y0) \subseteq BytesOf(P)
    <3>1. SUFFICES ASSUME NEW x \in s.x0 .. Least(s.x0 + s.x1, XRes) - 1,
                          NEW b \in PixelBytes(device, x, s.y0)
                   PROVE  b \in BytesOf(P)
      OBVIOUS
    <3> DEFINE p == << x, s.y0 >>
    <3>2. p \in P /\ p[1] = x /\ p[2] = s.y0
      BY <1>3
    <3>3. b \in PixelBytes(device, p[1], p[2])
      BY <3>2
    <3> HIDE DEF p
    <3> QED
      BY <3>2, <3>3 DEF BytesOf
  <2> QED
    BY <1>2, <1>3, <2>1
<1> QED
  BY <1>4 DEF IsShape, P

(* Each call of the pixel buffer's driver, and of the DMA controller's.    *)
LEMMA PixelBufferShapes ==
  ASSUME device \in Devices, device.driver = "pixel_buffer",
         NEW s \in Drawings(device), s.op # "line"
  PROVE  IsShape(s, PixelBufferWrites(device, s))
<1>1. /\ s.op \in {"point", "fill", "box", "rectangle", "hline", "vline"}
      /\ s.op \in {"point", "fill"} => InScreen(s)
      /\ s.x0 \in -1 .. XRes /\ s.y0 \in -1 .. YRes
      /\ s.x1 \in -1 .. XRes /\ s.y1 \in -1 .. YRes
  BY Operands
<1>2. CASE s.op = "point"
  <2>1. s.x0 \in Nat /\ s.y0 \in Nat /\ InScreen(s)
    BY <1>1, <1>2, VideoAssumption DEF InScreen
  <2> QED
    BY <1>2, <2>1, PointsDrawn DEF PixelBufferWrites
<1>3. CASE s.op = "fill"
  <2>1. PixelsOf(s) = OnX \X OnY
    BY <1>3 DEF PixelsOf
  <2> QED
    BY <1>1, <1>3, <2>1, ScreenCleared DEF PixelBufferWrites, IsShape
<1>4. CASE s.op = "box"
  BY <1>1, <1>4, BoxesDrawn DEF PixelBufferWrites
<1>5. CASE s.op = "rectangle"
  BY <1>1, <1>5, RectanglesDrawn DEF PixelBufferWrites
<1>6. CASE s.op = "hline"
  <2>1. PixelsOf(s) = (Between(s.x0, s.x1) \X {s.y0}) \cap OnX \X OnY
    BY <1>6 DEF PixelsOf
  <2>2. PixelBufferWrites(device, s) = draw_hline(device, s.x0, s.x1, s.y0)
    BY <1>6 DEF PixelBufferWrites
  <2>3. CASE InScreen(s)
    <3>1. s.x0 >= 0 /\ s.y0 >= 0 /\ s.x1 >= 0 /\ s.y1 >= 0
      BY <2>3 DEF InScreen
    <3>2. PixelBufferWrites(device, s) = BytesOf(PixelsOf(s))
      BY <1>1, <2>1, <2>2, <3>1, HlinesDrawn
    <3> QED
      BY <1>6, <2>3, <3>2 DEF IsShape
  <2>4. CASE ~InScreen(s)
    <3>1. draw_hline(device, s.x0, s.x1, s.y0) \subseteq BytesOf(OnX \X OnY)
      BY <1>1, HlinesDrawn
    <3> QED
      BY <2>2, <1>6, <2>4, <3>1 DEF IsShape
  <2> QED
    BY <2>3, <2>4
<1>7. CASE s.op = "vline"
  <2>1. PixelsOf(s) = ({s.x0} \X Between(s.y0, s.y1)) \cap OnX \X OnY
    BY <1>7 DEF PixelsOf
  <2>2. PixelBufferWrites(device, s) = draw_vline(device, s.x0, s.y0, s.y1)
    BY <1>7 DEF PixelBufferWrites
  <2>3. CASE InScreen(s)
    <3>1. s.x0 >= 0 /\ s.y0 >= 0 /\ s.x1 >= 0 /\ s.y1 >= 0
      BY <2>3 DEF InScreen
    <3>2. PixelBufferWrites(device, s) = BytesOf(PixelsOf(s))
      BY <1>1, <2>1, <2>2, <3>1, VlinesDrawn
    <3> QED
      BY <1>7, <2>3, <3>2 DEF IsShape
  <2>4. CASE ~InScreen(s)
    <3>1. draw_vline(device, s.x0, s.y0, s.y1) \subseteq BytesOf(OnX \X OnY)
      BY <1>1, VlinesDrawn
    <3> QED
      BY <2>2, <1>7, <2>4, <3>1 DEF IsShape
  <2> QED
    BY <2>3, <2>4
<1> QED
  BY <1>1, <1>2, <1>3, <1>4, <1>5, <1>6, <1>7

LEMMA DmaShapes ==
  ASSUME device \in Devices, device.driver = "dma",
         NEW s \in Drawings(device), s.op # "line"
  PROVE  IsShape(s, DmaWrites(device, s))
<1>1. /\ s.op \in {"point", "fill", "box", "rectangle", "string"}
      /\ s.op \in {"point", "fill"} => InScreen(s)
      /\ s.op = "string" => /\ device.xy
                            /\ s.x0 \in OnX /\ s.y0 \in OnY /\ s.x1 \in Nat
      /\ s.op # "string" =>
           /\ s.x0 \in -1 .. XRes /\ s.y0 \in -1 .. YRes
           /\ s.x1 \in -1 .. XRes /\ s.y1 \in -1 .. YRes
  BY Operands
<1>2. CASE s.op = "point"
  <2>1. s.x0 \in Nat /\ s.y0 \in Nat /\ InScreen(s)
    BY <1>1, <1>2, VideoAssumption DEF InScreen
  <2> QED
    BY <1>2, <2>1, PointsDrawn DEF DmaWrites
<1>3. CASE s.op = "fill"
  <2>1. PixelsOf(s) = OnX \X OnY
    BY <1>3 DEF PixelsOf
  <2> QED
    BY <1>1, <1>3, <2>1, ScreenFilled DEF DmaWrites, IsShape
<1>4. CASE s.op \in {"box", "rectangle"}
  <2>1. DmaWrites(device, s) = dma_box(device, s, s.op = "box")
    BY <1>4 DEF DmaWrites
  <2>2. InScreen(s)
    BY <1>4, Operands
  <2> QED
    BY <1>1, <1>4, <2>1, <2>2, DmaBoxesDrawn
<1>5. CASE s.op = "string"
  BY <1>1, <1>5, StringsDrawn DEF DmaWrites
<1> QED
  BY <1>1, <1>2, <1>3, <1>4, <1>5

(* Whatever is asked for, but a line, has been drawn as it was meant: for  *)
(* any resolution, both addressing modes and both depths of colour, the    *)
(* clipping, the masks, the words and the row addresses come to the pixels *)
(* of the shape that are on the screen, and nothing else.                  *)
THEOREM ShapesAreDrawn == VideoSpec => []ShapesDrawn
<1>1. VideoIInv => ShapesDrawn
  <2>1. SUFFICES ASSUME VideoIInv, drawn # Nothing, drawn.op # "line"
                 PROVE  IsShape(drawn.shape, drawn.bytes)
    BY DEF ShapesDrawn
  <2>2. PICK s \in Drawings(device), backbuffer \in BOOLEAN :
          drawn = DrawingOf(s, backbuffer)
    BY <2>1 DEF VideoIInv
  <2>3. s.op # "line" /\ drawn.shape = s /\ drawn.bytes = Writes(device, s)
    BY <2>1, <2>2 DEF DrawingOf
  <2>4. device \in Devices
    BY <2>1 DEF VideoIInv
  <2>5. IsShape(s, Writes(device, s))
    BY <2>3, <2>4, TheDevice, PixelBufferShapes, DmaShapes DEF Writes
  <2> QED
    BY <2>3, <2>5
<1> QED
  BY <1>1, VideoInvariant, PTL

=============================================================================
