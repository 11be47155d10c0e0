------------------------------- MODULE Lights -------------------------------
(***************************************************************************)
(* Lighting from the row to the strip: the rows of the Lighting screen     *)
(* (crates/app/src/lighting.rs, shell/screen/lighting.rs, swatch.rs,       *)
(* row.rs), what makes a command valid (crates/core/src/lighting.rs) and   *)
(* the report it becomes (crates/hardware-linux/src/rgb.rs).  When a row   *)
(* is written is Client's, what a failing controller does is Lighting's.   *)
(***************************************************************************)
EXTENDS Integers, Sequences

CONSTANTS
    Swatch,       \* the colors a picker offers, packed as 0xRRGGBB
    Accent,       \* DEFAULT_COLOR
    Level,        \* the values a brightness slider is asked for
    Paces,        \* the speeds chosen
    Answers,      \* the channel counts the controller may answer with
    EffectsProven,\* is RgbEffects writable on this controller
    MaxEdits      \* how many things the operator does

Speeds == <<"slowest", "slower", "normal", "faster", "fastest">>

ASSUME LightsAssumption ==
    /\ Paces \subseteq {Speeds[i] : i \in 1..5} /\ Answers \subseteq Nat
    /\ EffectsProven \in BOOLEAN /\ MaxEdits \in Nat

VARIABLES
    answer,    \* the topology report the daemon was given when it started
    listed,    \* the channels the client was told, {} without a daemon
    rows,      \* LightingEditor: the pending state of each channel
    picker,    \* the channel whose swatches are showing, or 0
    committed, \* what the daemon committed for each channel
    strip,     \* what the firmware was last told to show there
    refused,   \* did the daemon or the encoder ever refuse a row
    edits

lightsVars == <<answer, listed, rows, picker, committed, strip, refused, edits>>

-----------------------------------------------------------------------------
(* The vocabulary.                                                         *)

MaxBrightness == 100
Effects == {"breathing", "spectrum_wave"}
Directions == {"forward", "backward"}

ColorRange(effect) == IF effect = "breathing" THEN 1..8 ELSE 0..0
AcceptsDirection(effect) == effect = "spectrum_wave"
UsesColor(mode) == mode = "fixed" \/ (mode \in Effects /\ ColorRange(mode) # 0..0)

\* A color is its three bytes; the field holds six digits.
Digits(packed) == [i \in 1..6 |-> (packed \div 16 ^ (6 - i)) % 16]
ParsedColor(digits) == [i \in 1..3 |-> digits[2 * i - 1] * 16 + digits[2 * i]]
Black == <<0, 0, 0>>
Scaled(color, percent) == [i \in 1..3 |-> (color[i] * percent) \div MaxBrightness]

ValidLight(program) ==
    program.mode \in Effects =>
        /\ Len(program.colors) \in ColorRange(program.mode)
        /\ program.direction # "forward" => AcceptsDirection(program.mode)

\* validate_command, against the channels the controller is taken to have.
ValidCommand(channel, program, there) == channel \in there /\ ValidLight(program)

-----------------------------------------------------------------------------
(* The wire.                                                               *)

ReportBytes == 64
FooterOffset == ReportBytes - 9
ColorOffset == 7
MaxColors == (FooterOffset - ColorOffset) \div 3
MaxChannels == 3

\* packet::channels: no more than can be addressed, whatever the count byte says.
Channels(count) == 1..(IF count < MaxChannels THEN count ELSE MaxChannels)

ChannelBit(channel) == <<1, 2, 4>>[channel]

SpeedValues(effect) ==
    IF effect = "breathing"
    THEN <<<<40, 0>>, <<30, 0>>, <<20, 0>>, <<10, 0>>, <<4, 0>>>>
    ELSE <<<<94, 1>>, <<44, 1>>, <<250, 0>>, <<150, 0>>, <<80, 0>>>>

SpeedIndex(speed) == CHOOSE i \in 1..5 : Speeds[i] = speed

\* encode: off is one black step, and so is the color a wave would ignore.
Encoding(program) ==
    CASE program.mode = "off" -> [mode |-> 0, speed |-> <<0, 0>>, variant |-> 0, colors |-> <<Black>>]
      [] program.mode = "fixed" ->
            [mode |-> 0, speed |-> <<50, 0>>, variant |-> 0, colors |-> <<Scaled(program.color, program.brightness)>>]
      [] program.mode = "breathing" ->
            [mode |-> 7, speed |-> SpeedValues("breathing")[SpeedIndex(program.speed)], variant |-> 8,
             colors |-> [i \in DOMAIN program.colors |-> Scaled(program.colors[i], program.brightness)]]
      [] program.mode = "spectrum_wave" ->
            [mode |-> 2, speed |-> SpeedValues("spectrum_wave")[SpeedIndex(program.speed)], variant |-> 0,
             colors |-> <<Black>>]

Encodable(channel, program) == channel \in 1..MaxChannels /\ Len(Encoding(program).colors) <= MaxColors

\* color_command: header and colors from the front, green first, trailer at the back.
Report(channel, program) ==
    LET e == Encoding(program)
        bit == ChannelBit(channel)
        header == <<42, 4, bit, bit, e.mode, e.speed[1], e.speed[2]>>
        backward == program.mode \in Effects /\ program.direction = "backward"
        footer == <<IF backward THEN 2 ELSE 0, Len(e.colors), e.variant, 8, 3>>
        triplet(color) == <<color[2], color[1], color[3]>>
    IN  [i \in 0..(ReportBytes - 1) |->
            CASE i < ColorOffset -> header[i + 1]
              [] i \in ColorOffset..(ColorOffset + 3 * Len(e.colors) - 1) ->
                    triplet(e.colors[(i - ColorOffset) \div 3 + 1])[((i - ColorOffset) % 3) + 1]
              [] i \in FooterOffset..(FooterOffset + 4) -> footer[i - FooterOffset + 1]
              [] OTHER -> 0]

\* What the firmware makes of a report (liquidctl's description of it).
Understood(report) ==
    LET effect == CASE report[4] = 0 -> "still" [] report[4] = 7 -> "breathing" [] report[4] = 2 -> "spectrum_wave"
        lit(i) == <<report[8 + 3 * i], report[7 + 3 * i], report[9 + 3 * i]>>
        pace == <<report[5], report[6]>>
    IN  [channels |-> {c \in 1..MaxChannels : (report[2] \div ChannelBit(c)) % 2 = 1},
         effect   |-> effect,
         colors   |-> IF effect = "spectrum_wave" THEN <<>> ELSE [i \in 1..report[FooterOffset + 1] |-> lit(i - 1)],
         speed    |-> IF effect = "still" THEN "none"
                      ELSE Speeds[CHOOSE i \in 1..5 : SpeedValues(effect)[i] = pace],
         backward |-> report[FooterOffset] = 2]

-----------------------------------------------------------------------------
(* The rows.                                                               *)

FreshRow == [mode |-> "fixed", color |-> Digits(Accent), brightness |-> 100, speed |-> "normal", direction |-> "forward"]

LightsInit ==
    /\ answer \in Answers
    /\ listed = {} /\ rows = <<>> /\ picker = 0
    /\ committed = [c \in Channels(answer) |-> [mode |-> "none"]]
    /\ strip = committed
    /\ refused = FALSE /\ edits = 0

\* Mutant: the direction goes with every effect.
DirectionAlways(row) == row.direction

\* A direction the effect ignores is never sent.
DirectionSent(row) == IF AcceptsDirection(row.mode) THEN row.direction ELSE "forward"

\* ChannelEditor::program: as many colors as the effect needs, all of them the row's.
RowProgram(row) ==
    CASE row.mode = "off" -> [mode |-> "off"]
      [] row.mode = "fixed" -> [mode |-> "fixed", color |-> ParsedColor(row.color), brightness |-> row.brightness]
      [] row.mode \in Effects ->
            [mode |-> row.mode,
             colors |-> IF UsesColor(row.mode) THEN <<ParsedColor(row.color)>> ELSE <<>>,
             brightness |-> row.brightness, speed |-> row.speed, direction |-> DirectionSent(row)]

\* sync: a channel that is still there keeps its edits, one that is gone takes them along.
Sync ==
    /\ \E there \in BOOLEAN : listed' = IF there THEN Channels(answer) ELSE {}
    /\ rows' = [c \in listed' |-> IF c \in DOMAIN rows THEN rows[c] ELSE FreshRow]
    /\ UNCHANGED <<answer, picker, committed, strip, refused, edits>>

Edit(channel, row) ==
    /\ edits < MaxEdits /\ edits' = edits + 1
    /\ rows' = [rows EXCEPT ![channel] = row]
    /\ UNCHANGED <<answer, listed, committed, strip, refused>>

Modes == {"fixed", "off"} \cup (IF EffectsProven THEN Effects ELSE {})

ChooseMode(channel) ==
    /\ \E mode \in Modes : Edit(channel, [rows[channel] EXCEPT !.mode = mode])
    /\ picker' = 0

\* toggle_popover, then choose_color, which closes the list.
OpenPicker(channel) ==
    /\ UsesColor(rows[channel].mode)
    /\ picker' = IF picker = channel THEN 0 ELSE channel
    /\ UNCHANGED <<answer, listed, rows, committed, strip, refused, edits>>

ChooseColor ==
    /\ picker \in DOMAIN rows
    /\ \E color \in Swatch : Edit(picker, [rows[picker] EXCEPT !.color = Digits(color)])
    /\ picker' = 0

\* set_brightness.
WithinRange(level) == IF level < 0 THEN 0 ELSE IF level > MaxBrightness THEN MaxBrightness ELSE level

\* From the pointer, or past an end of the slider with a key.
SetBrightness(channel) ==
    /\ \E level \in Level : Edit(channel, [rows[channel] EXCEPT !.brightness = WithinRange(level)])
    /\ picker' = 0

ChooseSpeed(channel) ==
    /\ rows[channel].mode \in Effects
    /\ \E speed \in Paces : Edit(channel, [rows[channel] EXCEPT !.speed = speed])
    /\ picker' = 0

ChooseDirection(channel) ==
    /\ rows[channel].mode \in Effects /\ AcceptsDirection(rows[channel].mode)
    /\ \E direction \in Directions : Edit(channel, [rows[channel] EXCEPT !.direction = direction])
    /\ picker' = 0

\* send_lighting, the daemon's validation and the report: nothing is sent when the
\* channel is known to show the program.
SendLighting(channel) ==
    LET program == RowProgram(rows[channel]) IN
    /\ channel \in DOMAIN rows
    /\ committed[channel] # program
    /\ IF ValidCommand(channel, program, Channels(answer)) /\ Encodable(channel, program)
       THEN /\ committed' = [committed EXCEPT ![channel] = program]
            /\ LET told == Understood(Report(channel, program))
               IN  strip' = [c \in DOMAIN strip |-> IF c \in told.channels THEN told ELSE strip[c]]
            /\ UNCHANGED refused
       ELSE refused' = TRUE /\ UNCHANGED <<committed, strip>>
    /\ UNCHANGED <<answer, listed, rows, picker, edits>>

LightsNext ==
    \/ Sync
    \/ \E channel \in DOMAIN rows :
        \/ ChooseMode(channel) \/ OpenPicker(channel) \/ SetBrightness(channel)
        \/ ChooseSpeed(channel) \/ ChooseDirection(channel)
        \/ SendLighting(channel)
    \/ ChooseColor

LightsSpec == LightsInit /\ [][LightsNext]_lightsVars

-----------------------------------------------------------------------------
\* What a program is meant to look like.
Meant(channel, program) ==
    [channels |-> {channel},
     effect   |-> IF program.mode \in Effects THEN program.mode ELSE "still",
     colors   |-> CASE program.mode = "off" -> <<Black>>
                    [] program.mode = "fixed" -> <<Scaled(program.color, program.brightness)>>
                    [] program.mode = "breathing" ->
                        [i \in DOMAIN program.colors |-> Scaled(program.colors[i], program.brightness)]
                    [] program.mode = "spectrum_wave" -> <<>>,
     speed    |-> IF program.mode \in Effects THEN program.speed ELSE "none",
     backward |-> program.mode \in Effects /\ program.direction = "backward"]

\* Whatever was chosen, in whatever order, with rows that come and go: no row asks for
\* what the daemon or the encoder refuses, and each strip shows what was committed for
\* its own channel and nothing meant for another.
RowsAreTold ==
    /\ ~refused
    /\ \A c \in DOMAIN committed :
        committed[c].mode # "none" => strip[c] = Meant(c, committed[c])
=============================================================================
