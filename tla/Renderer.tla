------------------------------ MODULE Renderer ------------------------------
(***************************************************************************)
(* The picture a panel is sent (crates/lcd-renderer): the gauges and lines *)
(* of a dial, the pixels of a file, the quarter turn and the bytes.  A     *)
(* color is one of its channels, a length a thousandth of the panel's      *)
(* smaller side, an angle a hundred-thousandth of a turn clockwise from    *)
(* twelve o'clock; a pixel is inside a mark or not, its edges are not      *)
(* softened.                                                               *)
(***************************************************************************)
EXTENDS Integers, Sequences

Lesser(a, b) == IF a < b THEN a ELSE b
Greater(a, b) == IF a < b THEN b ELSE a

\* Rgb::mixed, share out of whole of the way: the nearest byte.
Mixed(from, to, share, whole) == (2 * (from * whole + (to - from) * share) + whole) \div (2 * whole)

-----------------------------------------------------------------------------
(* What is measured.  A reading is in tenths, and there may be none.       *)

LcdMetric == {"cpu_temperature", "gpu_temperature", "liquid_temperature", "cpu_load", "gpu_load"}
Unit(metric) == IF metric \in {"cpu_load", "gpu_load"} THEN <<"%">> ELSE <<"degree">>
Caption(metric) ==
    CASE metric \in {"cpu_temperature", "cpu_load"} -> <<"C", "P", "U">>
      [] metric \in {"gpu_temperature", "gpu_load"} -> <<"G", "P", "U">>
      [] OTHER -> <<"L", "I", "Q", "U", "I", "D">>
FullScale == 1000

Unavailable == <<>>
Fraction(value) == Greater(0, Lesser(FullScale, value))  \* out of FullScale

\* round, away from zero on a tie.
Whole(value) == IF value >= 0 THEN (value + 5) \div 10 ELSE -((5 - value) \div 10)

\* MetricSample::text, as many characters as it has; the digits are tabular.
Text(value) ==
    IF value = Unavailable THEN <<"-", "-">>
    ELSE LET n == Whole(value[1])
             magnitude == IF n < 0 THEN -n ELSE n
             digits == IF magnitude > 99 THEN <<"0", "0", "0">> ELSE IF magnitude > 9 THEN <<"0", "0">> ELSE <<"0">>
         IN  (IF n < 0 THEN <<"-">> ELSE <<>>) \o digits

-----------------------------------------------------------------------------
(* A band of the dial.                                                     *)

Turn == 100000
WrapTurns(angle) == angle % Turn

TrackOuter == 965
TrackInner == 845
TrackUnavailableInner == 905
SideStartTurn == 61000
SideSweepTurns == 28000

\* An arc: its inner radius (every arc ends at TrackOuter), where it starts, how far it
\* runs, the color its reading grows from and the one it grows to, and at which end.
Solid(color) == [foot |-> color, head |-> color, footAtEnd |-> FALSE]
ArcOf(inner, start, sweep, shade) == [inner |-> inner, start |-> start, sweep |-> sweep, shade |-> shade]

AtStart(shade) == IF shade.footAtEnd THEN shade.head ELSE shade.foot
AtEnd(shade) == IF shade.footAtEnd THEN shade.foot ELSE shade.head
FootTurn(arc) == IF arc.shade.footAtEnd THEN arc.start + arc.sweep ELSE arc.start
HeadTurn(arc) == IF arc.shade.footAtEnd THEN arc.start ELSE arc.start + arc.sweep

\* The round cap around an end, as thick as the band: how far around it reaches, at the two
\* depths looked at, where every band is and where only the full one is.
Depth == {935, 875}
CapReach ==
    [inner \in {TrackInner, TrackUnavailableInner}, depth \in Depth |->
        LET middle == (inner + TrackOuter) \div 2
            cap    == (TrackOuter - inner) \div 2
            across == cap * cap - (depth - middle) * (depth - middle)
            chord  == CHOOSE c \in 0..cap : (c = 0 \/ c * c <= across) /\ (c + 1) * (c + 1) > across
        IN  (chord * 15915) \div depth]
InCap(arc, end, depth, angle) ==
    arc.sweep < Turn /\ WrapTurns(angle - end + CapReach[arc.inner, depth]) <= 2 * CapReach[arc.inner, depth]

Sweep(arc, angle) ==
    LET offset == WrapTurns(angle - arc.start)
    IN  IF arc.sweep = 0 THEN arc.shade.foot
        ELSE Mixed(AtStart(arc.shade), AtEnd(arc.shade), Lesser(offset, arc.sweep), arc.sweep)

\* Mutant: the head's cap is painted last.
PaintedHeadLast(arc, depth, angle, under) ==
    CASE depth < arc.inner -> under
      [] InCap(arc, HeadTurn(arc), depth, angle) -> arc.shade.head
      [] InCap(arc, FootTurn(arc), depth, angle) -> arc.shade.foot
      [] WrapTurns(angle - arc.start) <= arc.sweep -> Sweep(arc, angle)
      [] OTHER -> under

\* fill_arc_gradient: the sweep, then the cap at the head, then the cap at the foot.
Painted(arc, depth, angle, under) ==
    CASE depth < arc.inner -> under
      [] InCap(arc, FootTurn(arc), depth, angle) -> arc.shade.foot
      [] InCap(arc, HeadTurn(arc), depth, angle) -> arc.shade.head
      [] WrapTurns(angle - arc.start) <= arc.sweep -> Sweep(arc, angle)
      [] OTHER -> under

WholeBand == [start |-> 0, sweep |-> Turn, mirrored |-> FALSE]
Side(mirrored) ==
    [start |-> IF mirrored THEN Turn - SideStartTurn - SideSweepTurns ELSE SideStartTurn,
     sweep |-> SideSweepTurns, mirrored |-> mirrored]

\* gauge, at one place of the ring: a thinner band without color when there is no
\* reading, else the track it could reach and over it the part it has.
Gauge(slot, gradates, background, value, band, depth, angle) ==
    LET head == IF gradates THEN slot.readingEnd ELSE slot.reading
        rest == Mixed(background, Mixed(slot.reading, head, 1, 2), 13, 100)
        filled == (band.sweep \div FullScale) * Fraction(value[1])
        from == IF band.mirrored THEN band.start + band.sweep - filled ELSE band.start
        track == Painted(ArcOf(TrackInner, band.start, band.sweep, Solid(rest)), depth, angle, background)
    IN  IF value = Unavailable
        THEN Painted(ArcOf(TrackUnavailableInner, band.start, band.sweep,
                           Solid(Mixed(background, slot.text, 28, 100))), depth, angle, background)
        ELSE Painted(ArcOf(TrackInner, from, filled,
                           [foot |-> slot.reading, head |-> head, footAtEnd |-> band.mirrored]),
                     depth, angle, track)

-----------------------------------------------------------------------------
(* The lines of a dial: boxes in thousandths of the side, from the center. *)

\* The advances of the embedded face, in thousandths of the height of a capital.
Advance(character) ==
    CASE character = "0" -> 801 [] character = "-" -> 448 [] character = "degree" -> 597
      [] character = "%" -> 1225 [] character = "C" -> 894 [] character = "P" -> 861
      [] character = "U" -> 1046 [] character = "G" -> 1017 [] character = "L" -> 765
      [] character = "I" -> 518 [] character = "Q" -> 1102 [] OTHER -> 1025

Width(text, height) ==
    LET total[i \in 0..Len(text)] == IF i = 0 THEN 0 ELSE total[i - 1] + Advance(text[i])
    IN  (total[Len(text)] * height + 999) \div 1000

PairOffset == 205
ValueTop == 383
ValueHeight == 128
CaptionTop == 550
CaptionHeight == 67
SingleValueTop == 320
SingleValueHeight == 235
SingleValueWidth == 750
SingleCaptionTop == 615
SingleCaptionHeight == 72
UnitScale(height) == (height * 450) \div 1000
UnitGap(height) == (height * 60) \div 1000

Box(left, right, top, height) ==
    [left |-> left, right |-> right, top |-> top - 500, bottom |-> top + height - 500]

\* The digits are centered, and the unit hangs off the right of them.
ValueBox(value, center, top, height) ==
    LET width == Width(Text(value), height)
    IN  Box(center - (width + 1) \div 2, center + (width + 1) \div 2, top, height)
UnitBox(metric, value, center, top, height) ==
    LET left == center + (Width(Text(value), height) + 1) \div 2 + UnitGap(height)
    IN  Box(left, left + Width(Unit(metric), UnitScale(height)), top, UnitScale(height))
CaptionBox(metric, center, top, height) ==
    LET width == Width(Caption(metric), height)
    IN  Box(center - (width + 1) \div 2, center + (width + 1) \div 2, top, height)

\* reading_reach: the widest reading of a metric, its unit included, at height 1000.
ReadingReach(metric) ==
    Width(Text(<<FullScale>>), 1000) \div 2 + UnitGap(1000) + Width(Unit(metric), UnitScale(1000))
FittedHeight(metric) == Lesser(SingleValueHeight, ((SingleValueWidth \div 2) * 1000) \div ReadingReach(metric))

SingleLines(metric, value) ==
    { ValueBox(value, 0, SingleValueTop, FittedHeight(metric)),
      UnitBox(metric, value, 0, SingleValueTop, FittedHeight(metric)),
      CaptionBox(metric, 0, SingleCaptionTop, SingleCaptionHeight) }

Column(slot) == IF slot = 2 THEN PairOffset ELSE -PairOffset
PairDigits(slot, value) == ValueBox(value, Column(slot), ValueTop, ValueHeight)
PairUnit(slot, metric, value) == UnitBox(metric, value, Column(slot), ValueTop, ValueHeight)
PairCaption(slot, metric) == CaptionBox(metric, Column(slot), CaptionTop, CaptionHeight)

-----------------------------------------------------------------------------
(* The buffer.                                                             *)

Canvas(width, height, Pixel(_, _)) ==
    [width |-> width, height |-> height,
     pixels |-> [at \in (0..(width - 1)) \X (0..(height - 1)) |-> Pixel(at[1], at[2])]]

Orientation == 0..3  \* quarter_turns

\* The size a picture is laid out at before it is turned; a panel without a size is refused.
KnownPanel(panel) == panel.width > 0 /\ panel.height > 0
LayoutSize(panel, orientation) ==
    IF orientation % 2 = 1 THEN <<panel.height, panel.width>> ELSE <<panel.width, panel.height>>

\* Framebuffer::from_canvas.
FromCanvas(canvas, orientation) ==
    LET w == canvas.width
        h == canvas.height
        Source(x, y) == CASE orientation = 0 -> <<x, y>>
                          [] orientation = 1 -> <<y, h - 1 - x>>
                          [] orientation = 2 -> <<w - 1 - x, h - 1 - y>>
                          [] OTHER -> <<w - 1 - y, x>>
        Pixel(x, y) == canvas.pixels[Source(x, y)]
    IN  IF orientation % 2 = 1 THEN Canvas(h, w, Pixel) ELSE Canvas(w, h, Pixel)

\* to_rgb565_be and quantized, of a pixel <<r, g, b>>.
Rgb565(p) ==
    LET packed == (p[1] \div 8) * 2048 + (p[2] \div 4) * 32 + p[3] \div 8
    IN  <<packed \div 256, packed % 256>>
Quantized(p) == <<(p[1] \div 8) * 8, (p[2] \div 4) * 4, (p[3] \div 8) * 8>>

\* Cover::source on one axis, of a canvas and a picture [width, height] each: the shorter
\* side of the picture fills the canvas, the longer one is trimmed at both ends.
ScaledByWidth(canvas, picture) == canvas.width * picture.height >= canvas.height * picture.width
CoverSource(canvas, picture, side, at) ==
    LET to == IF ScaledByWidth(canvas, picture) THEN canvas.width ELSE canvas.height
        of == IF ScaledByWidth(canvas, picture) THEN picture.width ELSE picture.height
    IN  Lesser(picture[side] - 1, (picture[side] * to + (2 * at + 1 - canvas[side]) * of) \div (2 * to))

-----------------------------------------------------------------------------
(* The file.  A file is what its header declares and the pictures it holds *)
(* (the delay of each, in milliseconds), and how many of them decode.      *)

MaxImageDimension == 8192
MaxImagePixels == 33554432
MaxAnimationFrames == 120
MinFrameDelay == 80
DefaultFrameDelay == 100

ClampDelay(delay) == IF delay = 0 THEN DefaultFrameDelay ELSE Greater(delay, MinFrameDelay)

UsableSize(file) ==
    /\ file.width <= MaxImageDimension /\ file.height <= MaxImageDimension
    /\ file.width * file.height <= MaxImagePixels
    /\ file.width > 0 /\ file.height > 0

Refused == <<>>

\* still: one picture, the first of an animation.
Still(file) == IF UsableSize(file) /\ file.decodes >= 1 THEN <<DefaultFrameDelay>> ELSE Refused

\* frames: every picture in turn, refused from the first that does not decode and at the
\* one that is too many; anything but an animation is one picture.
Frames(file) ==
    IF ~file.gif THEN Still(file)
    ELSE IF UsableSize(file) /\ file.decodes = Len(file.delays) /\ Len(file.delays) \in 1..MaxAnimationFrames
         THEN [i \in DOMAIN file.delays |-> ClampDelay(file.delays[i])]
         ELSE Refused
=============================================================================
