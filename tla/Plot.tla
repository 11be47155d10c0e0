-------------------------------- MODULE Plot --------------------------------
(***************************************************************************)
(* Where values are drawn and where a pointer finds them: the rolling      *)
(* series (crates/app/src/components/chart.rs), the curve and its editor's *)
(* hit test (components/curve.rs), and the slider's track                  *)
(* (components/control.rs).                                                *)
(*                                                                         *)
(* Lengths are pixels; a fraction is a pair, numerator and denominator;    *)
(* a sample that is missing is the empty sequence.                         *)
(***************************************************************************)
EXTENDS Curves, Sequences, FiniteSets

LOCAL INSTANCE FiniteSetsExt
LOCAL INSTANCE SequencesExt

Missing == <<>>
CrossTimes(a, b) == a[1] * b[2]
SameFraction(a, b) == CrossTimes(a, b) = CrossTimes(b, a)
AtMost(a, b) == CrossTimes(a, b) <= CrossTimes(b, a)
CeilDiv(n, k) == (n + k - 1) \div k

-----------------------------------------------------------------------------
(* The rolling series.                                                     *)

\* A bucket that averages what it has, for a bucket with a hole.
BridgedBucket(chunk) ==
    LET present == SelectSeq(chunk, LAMBDA s : s # Missing)
    IN  IF present = <<>> THEN Missing
        ELSE <<FoldLeft(LAMBDA sum, s : sum + s[1], 0, present), Len(present)>>

\* downsample, of one chunk: a hole when any of it is missing, else the average.
Bucket(chunk) ==
    IF Missing \in Range(chunk) THEN Missing
    ELSE <<FoldLeft(LAMBDA sum, s : sum + s[1], 0, chunk), Len(chunk)>>

\* downsample: at most limit buckets of equal length, the last one shorter.
BucketLength(samples, limit) ==
    IF Len(samples) <= limit \/ limit = 0 THEN 1 ELSE CeilDiv(Len(samples), limit)
Downsample(samples, limit) ==
    LET length == BucketLength(samples, limit)
    IN  [n \in 1..CeilDiv(Len(samples), length) |->
            Bucket(SubSeq(samples, (n - 1) * length + 1, Lesser(n * length, Len(samples))))]

\* Sparkline::segments: the runs without a hole, as pairs of indexes.
Segments(values) ==
    {run \in (DOMAIN values) \X (DOMAIN values) :
        /\ run[1] <= run[2] /\ \A n \in run[1]..run[2] : values[n] # Missing
        /\ run[1] > 1 => values[run[1] - 1] = Missing
        /\ run[2] < Len(values) => values[run[2] + 1] = Missing}

\* paint_sparkline: a run of one sample has no line; a hole has a tick.
Lines(values) == {run \in Segments(values) : run[1] # run[2]}
Ticks(values) == {n \in DOMAIN values : values[n] = Missing}

\* Sparkline::fraction, of a value that is a quotient.
Fraction(value, low, high) ==
    IF high <= low \/ value[1] <= low * value[2] THEN <<0, 1>>
    ELSE IF value[1] >= high * value[2] THEN <<1, 1>>
    ELSE <<value[1] - low * value[2], (high - low) * value[2]>>

\* column_fraction: is there a height at a position, and between which two samples.
ColumnEnds(values, position) ==
    LET scaled == position[1] * (Len(values) - 1)
    IN  <<1 + scaled \div position[2], 1 + CeilDiv(scaled, position[2])>>
HasColumn(values, position) ==
    /\ Len(values) >= 2
    /\ \A n \in Range(ColumnEnds(values, position)) : values[n] # Missing

\* BAYER_RANKS and dither_cell.
BayerRanks == <<<<0, 8, 2, 10>>, <<12, 4, 14, 6>>, <<3, 11, 1, 9>>, <<15, 7, 13, 5>>>>
Lit(column, row, density) ==
    LET rank == BayerRanks[1 + (row % 4)][1 + (column % 4)]
        d == IF density[1] > density[2] THEN <<1, 1>> ELSE density
    IN  16 * d[1] > rank * d[2]

\* area_density: dense at the baseline, nothing above the line.
AreaDensity(depth, span) ==
    IF span <= 0 \/ depth <= 0 THEN <<0, 1>> ELSE IF depth >= span THEN <<1, 1>> ELSE <<depth, span>>

\* inside_rounded: the corners of a plot whose corner is at 0, 0, twice its radius or not.
InsideRounded(width, height, x, y, radius) ==
    LET Off(at, length) ==
            at - Clamped(at, Lesser(radius, length - radius), IF radius > length - radius THEN radius ELSE length - radius)
    IN  Off(x, width) * Off(x, width) + Off(y, height) * Off(y, height) <= radius * radius

\* paint_dithered_area: the cells of one column of a plot that is filled to a height; a
\* cell's middle decides.
CellSide == 3
FilledRows(height, column, fraction, width, radius) ==
    LET top == height * (fraction[2] - fraction[1])
        Middle(k) == 2 * CellSide * k + CellSide
    IN  {row \in 0..(CeilDiv(height, CellSide) - 1) :
            LET depth == Middle(row) * fraction[2] - 2 * top
                density == AreaDensity(depth, 2 * height * fraction[1])
            IN  /\ density[1] > 0 /\ Lit(column, row, density)
                /\ InsideRounded(2 * width, 2 * height, Middle(column), Middle(row), 2 * radius)}

-----------------------------------------------------------------------------
(* The curve and its hit test.  The plot's corner is at 0, 0.              *)

\* CurveNodes::temperature_at, in degrees above the first point.
TemperatureAt(node) == PointIndex(node)

\* plot_node: the nodes at equal distances, the duty over the whole byte.
PlotX(node, width) == <<width * Lesser(node, NodeCount - 1), NodeCount - 1>>
PlotY(duty, height) == <<height * (MaxDuty - duty), MaxDuty>>

\* The share of a length a position is at, held inside it.
Across(at, length) ==
    LET whole == IF length < 1 THEN 1 ELSE length
    IN  IF at[1] <= 0 THEN <<0, 1>> ELSE IF at[1] >= whole * at[2] THEN <<1, 1>> ELSE <<at[1], whole * at[2]>>

\* node_at: the nearest node, and the height in whole percent.
NodeAt(width, height, x, y) ==
    LET across == Across(x, width)
        down == Across(y, height)
        percent == Rounded((down[2] - down[1]) * MaxPercent, down[2])
    IN  <<Lesser(Rounded(across[1] * (NodeCount - 1), across[2]), NodeCount - 1), DutyFromPercent(percent)>>

\* paint_liquid_marker: inside the range of the nodes, by the temperature, at the height of
\* the duty the curve commands.  Tenths of a degree above the first point.
HasMarker(tenths) == tenths \in 0..(10 * TemperatureAt(NodeCount - 1))
MarkerX(tenths, width) == <<width * tenths, 10 * TemperatureAt(NodeCount - 1)>>
MarkerY(nodes, tenths, height) == PlotY(DutyAt(Interpolate(nodes), tenths), height)

\* curve_caption: the percent of the selected node, and the one the curve calls.
CaptionPercents(nodes, selected, tenths) ==
    <<DutyToPercent(nodes[Lesser(selected, NodeCount - 1)]), DutyToPercent(DutyAt(Interpolate(nodes), tenths))>>

-----------------------------------------------------------------------------
(* The slider.                                                             *)

HandleWidth == 14

\* Slider::fraction.
SliderFraction(value, low, high) ==
    IF high <= low THEN <<0, 1>> ELSE <<Clamped(value, low, high) - low, high - low>>

\* paint_track: the handle is centered on the value and held inside the rail.
HandleLeft(fraction, width) ==
    LET free == IF width > HandleWidth THEN width - HandleWidth ELSE 0
        left == <<2 * width * fraction[1] - HandleWidth * fraction[2], 2 * fraction[2]>>
    IN  IF left[1] < 0 THEN <<0, 1>> ELSE IF left[1] > free * left[2] THEN <<free, 1>> ELSE left

\* Slider::value_at, as a quotient.
ValueAt(x, width, low, high) ==
    LET across == Across(x, width)
    IN  <<low * across[2] + (high - low) * across[1], across[2]>>

-----------------------------------------------------------------------------
Grid == 24

\* What is drawn of a series is what was read: no more points than asked, each bucket a
\* hole exactly when some of it is missing and otherwise between its samples; the fill is
\* exactly under the lines, and over a lone sample at its own position only.
SeriesIsDrawn(samples, limit) ==
    LET values == Downsample(samples, limit)
        length == BucketLength(samples, limit)
        Of(n) == {k \in DOMAIN samples : CeilDiv(k, length) = n}
    IN  /\ limit > 0 => Len(values) <= limit
        /\ UNION {Of(n) : n \in DOMAIN values} = DOMAIN samples
        /\ \A n \in DOMAIN values :
            /\ n \in Ticks(values) <=> \E k \in Of(n) : samples[k] = Missing
            /\ n \notin Ticks(values) =>
                /\ \E k \in Of(n) : AtMost(samples[k] \o <<1>>, values[n])
                /\ \E k \in Of(n) : AtMost(values[n], samples[k] \o <<1>>)
        /\ Len(values) >= 2 => \A at \in 0..Grid :
            HasColumn(values, <<at, Grid>>) <=>
                \E run \in Segments(values) :
                    /\ (run[1] - 1) * Grid <= at * (Len(values) - 1)
                    /\ at * (Len(values) - 1) <= (run[2] - 1) * Grid

\* The texture is even: of a tile of cells as many are lit as the density says, and more
\* density never puts one out (BAYER_RANKS: "a permutation of 0..16").
TextureIsEven ==
    \A k \in 0..16 :
        LET lit == {cell \in (0..3) \X (0..3) : Lit(cell[1], cell[2], <<k, 16>>)}
        IN  /\ Cardinality(lit) = k
            /\ \A cell \in lit : Lit(cell[1] + 4, cell[2] + 8, <<k + 1, 16>>)

\* A filled column never passes its line, and fills a whole plot without its corners.
FillStaysUnder(fraction) ==
    /\ \A column \in 0..7 : \A row \in FilledRows(56, column, fraction, 24, 4) :
        (2 * CellSide * row + CellSide) * fraction[2] > 2 * 56 * (fraction[2] - fraction[1])
    /\ fraction[1] = 0 => \A column \in 0..7 : FilledRows(56, column, fraction, 24, 4) = {}

\* A press on a node's marker takes that node and does not move it off its percent, and
\* every percent has a pixel in a plot at least as high as there are percents (node_at).
PressFindsItsNode(duty, height) ==
    /\ \A node \in Node :
        NodeAt(400, height, PlotX(node, 400), PlotY(duty, height)) = <<node, DutyFromPercent(DutyToPercent(duty))>>
    /\ height >= MaxPercent =>
        \E y \in 0..height : NodeAt(400, height, <<0, 1>>, <<y, 1>>)[2] = DutyFromPercent(DutyToPercent(duty))

\* What a slider shows is what a press there takes, inside its range at both ends, and the
\* handle never hangs off the rail.
SliderIsHeld(value, width) ==
    LET fraction == SliderFraction(value, 20, 100)
        left == HandleLeft(fraction, width)
        taken == ValueAt(<<width * fraction[1], fraction[2]>>, width, 20, 100)
    IN  /\ SameFraction(taken, <<Clamped(value, 20, 100), 1>>)
        /\ left[1] >= 0 /\ left[1] <= (IF width > HandleWidth THEN width - HandleWidth ELSE 0) * left[2]
        /\ \A x \in {-10, width + 10} : ValueAt(<<x, 1>>, width, 20, 100) \in {<<20, 1>>, <<100, 1>>}

\* "The dot where it meets the curve is the duty in force right now" (curve.rs:414): so the
\* dot is on the drawn line.  The nodes are drawn at equal distances and the marker by its
\* temperature, and the last node is four degrees from the one before it.
DotMeetsTheCurve(nodes, degree) ==
    \A node \in 0..(NodeCount - 2) :
        LET x == MarkerX(10 * degree, 1)
            from == PlotX(node, 1)
            to == PlotX(node + 1, 1)
            run == x[1] * from[2] - from[1] * x[2]
            rise == (nodes[node + 1] - nodes[node]) * run
            duty == DutyAt(Interpolate(nodes), 10 * degree)
        IN  AtMost(from, x) /\ AtMost(x, to) =>
                (duty - nodes[node]) * x[2] - rise \in -(2 * x[2])..(2 * x[2])

\* "Painting and hit testing read the same numbers by construction" (control.rs:382): so a
\* press on the middle of the handle moves nothing.  At the ends it does.
HandleHoldsItsValue(value, width) ==
    LET left == HandleLeft(SliderFraction(value, 20, 100), width)
    IN  SameFraction(ValueAt(<<2 * left[1] + HandleWidth * left[2], 2 * left[2]>>, width, 20, 100), <<value, 1>>)
=============================================================================
