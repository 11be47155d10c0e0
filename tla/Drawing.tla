------------------------------ MODULE Drawing ------------------------------
(***************************************************************************)
(* What the renderer is meant to draw, and the samples it is given.  The   *)
(* duties of Renderer at the size the code uses.                           *)
(***************************************************************************)
EXTENDS Renderer

\* A slot whose colors, background included, are told apart on one channel; places all
\* around the ring.
Slot == [reading |-> 40, readingEnd |-> 200, text |-> 130]
Black == 0
Angles == {500 * i : i \in 0..199}
Measured == {<<v>> : v \in {-35, 0, 4, 20, 95, 500, 994, 995, 1000, 1250}} \cup {Unavailable}
Bands == {WholeBand, Side(FALSE), Side(TRUE)}
Sizes == {[width |-> w, height |-> h] : w, h \in {1, 2, 3, 7}}
Files ==
    [gif : BOOLEAN, width : {0, 3, 8192, 8193}, height : {3, 4096, 4097}, decodes : {0, 1, 2, 120, 121},
     delays : {<<0>>, <<1, 80>>, [i \in 1..120 |-> 90], [i \in 1..121 |-> 0]}]

-----------------------------------------------------------------------------
\* A gauge says what its reading is (gauge, fill_arc_gradient): more of it is filled the
\* higher the reading, a reading of nothing wears the color of its foot, one at full scale
\* reaches the other color, a band shows no color between which nobody picked, a missing
\* reading is not drawn as a zero, and the two bands of a pair mirror each other.
GaugeShows(value, shades, band, depth, angle) == Gauge(Slot, shades, Black, value, band, depth, angle)
DialIsRead(value, shades) ==
    LET At(band, of, depth, angle) == GaugeShows(of, shades, band, depth, angle)
        Filled(band, of) == {a \in Angles : At(band, of, 875, a) >= Slot.reading}
        higher == {of \in Measured \ {Unavailable} : of[1] > value[1]}
        next == CHOOSE of \in higher : \A other \in higher : of[1] <= other[1]
    IN  /\ \A band \in Bands :
             IF value = Unavailable
             THEN \A a \in Angles : At(band, value, 875, a) = Black
             ELSE /\ Filled(band, value) # {}
                  /\ higher # {} => Filled(band, value) \subseteq Filled(band, next)
                  /\ \A a \in Filled(band, value) :
                        LET color == At(band, value, 875, a)
                        IN  /\ color \in Slot.reading..Slot.readingEnd
                            /\ ~shades \/ value[1] <= 0 => color = Slot.reading
                  /\ shades /\ value[1] >= 1000 =>
                        \E a \in Angles : At(band, value, 875, a) >= Slot.readingEnd - 1
        /\ \A d \in Depth, a \in Angles :
             At(Side(TRUE), value, d, a) = At(Side(FALSE), value, d, WrapTurns(-a))

\* No line of a dial is set over its ring, and no reading over its neighbor, whatever the
\* metrics and the digits (infographic, single_value_height).  The sign of a reading in
\* the right column is not held to it: UnitsKeepOff.
InRing(box) ==
    \A x \in {box.left, box.right}, y \in {box.top, box.bottom} :
        4 * (x * x + y * y) < TrackInner * TrackInner
LinesFit(left, right) ==
    \A m, n \in LcdMetric :
        /\ \A box \in SingleLines(m, left) : InRing(box)
        /\ InRing(PairDigits(1, left)) /\ InRing(PairDigits(2, right))
        /\ InRing(PairUnit(1, m, left))
        /\ InRing(PairCaption(1, m)) /\ InRing(PairCaption(2, n))
        /\ PairUnit(1, m, left).right < PairDigits(2, right).left
        /\ PairCaption(1, m).right < PairCaption(2, n).left

\* The test an_oblong_panel_keeps_its_readings_inside_its_own_ring asks the same of both
\* columns, of a temperature: a load of one hundred puts its sign over the right band.
UnitsKeepOff(right) ==
    \A m \in LcdMetric : InRing(PairUnit(2, m, right))

\* A turned picture is the picture, a quarter clockwise as often as it was asked for, at
\* the size of the panel (layout_size, from_canvas).
Pixels(size) == Canvas(size.width, size.height, LAMBDA x, y : <<x, y>>)
TurnsCompose(size, orientation) ==
    LET canvas == Pixels(size)
        turned == FromCanvas(canvas, orientation)
        laid == LayoutSize(size, orientation)
        onPanel == FromCanvas(Pixels([width |-> laid[1], height |-> laid[2]]), orientation)
    IN  /\ <<onPanel.width, onPanel.height>> = <<size.width, size.height>>
        /\ \A x \in 0..(canvas.width - 1), y \in 0..(canvas.height - 1) :
              FromCanvas(canvas, 1).pixels[<<canvas.height - 1 - y, x>>] = <<x, y>>
        /\ orientation < 3 => FromCanvas(turned, 1) = FromCanvas(canvas, orientation + 1)
        /\ orientation = 3 => FromCanvas(turned, 1) = canvas

\* A picture covers the canvas without being stretched or mirrored, its shorter side whole
\* and its longer side trimmed as much at one end as at the other (Cover); and what the
\* preview shows of a color is what the panel is sent (quantized, to_rgb565_be).
CoverIsEven(canvas, picture) ==
    LET At(side, i) == CoverSource(canvas, picture, side, i)
    IN  \A side \in {"width", "height"} :
           /\ \A i \in 0..(canvas[side] - 1) :
                 /\ At(side, i) \in 0..(picture[side] - 1)
                 /\ At(side, i) + At(side, canvas[side] - 1 - i) \in {picture[side] - 1, picture[side]}
                 /\ i > 0 => At(side, i) >= At(side, i - 1)
           /\ canvas.width = picture.width /\ canvas.height = picture.height =>
                 \A i \in 0..(canvas[side] - 1) : At(side, i) = i
PreviewIsTheGlass ==
    \A p, q \in {0, 7, 8, 130, 251, 255} \X {0, 3, 4, 131, 255} \X {0, 248, 255} :
        /\ Rgb565(p) \in (0..255) \X (0..255)
        /\ Rgb565(p) = Rgb565(q) <=> Quantized(p) = Quantized(q)

\* A file that is played is one that can be drawn, whole, at a cadence the panel holds
\* (frames, still): the two routes of a picture agree on what they refuse.
FilesAgree(file) ==
    LET played == Frames(file)
    IN  /\ played # Refused => Still(file) # Refused
        /\ Len(played) > 1 => Len(played) = file.decodes
        /\ Len(played) <= 120 /\ \A i \in DOMAIN played : played[i] >= 80
=============================================================================
