-------------------------------- MODULE Gates --------------------------------
(***************************************************************************)
(* From what a machine exposes to what may be written: the probe, what the *)
(* two devices answer, the two ladders, the locks, the gates every request *)
(* passes in the daemon and the gate every control passes in the client.   *)
(* The daemon decides all of this once, as it starts.                      *)
(*                                                                         *)
(* A machine is a record: the units plugged in; the hwmon files, each      *)
(* absent or a set of what this user may do with it; what the nodes of the *)
(* two devices answer; who else holds what.  The state of a capability is  *)
(* why it is blocked.                                                      *)
(***************************************************************************)
EXTENDS Integers, Sequences, FiniteSets

Channel == {"pump", "fan"}
Device == {"kraken", "rgb"}

Writable == "writable"
ReadOnlyFile == "read_only"
Absent == {"absent"}
Unknown == <<>>

Duty == [pump |-> "pump_duty", fan |-> "fan_duty"]
Curve == [pump |-> "pump_curve", fan |-> "fan_curve"]

-----------------------------------------------------------------------------
(* Asking a device.  What it sends is a sequence of reports, "error" where *)
(* the transport fails, and it ends where the device falls silent.         *)

MaxQueryReads == 12
Failed == {"failed"}

\* hid::ask: answers are told by what they are, never by their order; the driver's own
\* reports count against the reads.
Ask(stream, wanted) ==
    LET Heard(n) == {stream[i] : i \in 1..n}
        Ends(n) == n \in {Len(stream), MaxQueryReads} \/ wanted \subseteq Heard(n) \/ "error" \in Heard(n)
        reads == CHOOSE n \in 0..Len(stream) : Ends(n) /\ \A k \in 0..(n - 1) : ~Ends(k)
    IN  IF "error" \in Heard(reads) THEN Failed ELSE Heard(reads) \cap wanted

\* What one answer established.
Told(answers, which, value) == IF which \in answers THEN <<value>> ELSE Unknown

\* rgb::connect, inspect: what is known of the controller.
RgbTopology(rgb) ==
    LET answers == IF rgb.opens THEN Ask(rgb.stream, {"firmware", "channels"}) ELSE Failed
    IN  [node     |-> rgb.node,
         firmware |-> IF rgb.node THEN Told(answers, "firmware", rgb.firmware) ELSE Unknown,
         channels |-> IF rgb.node THEN Told(answers, "channels", rgb.channels) ELSE Unknown]

\* lcd::connect, inspect: settings out of range are no answer, and the bulk interface is
\* claimed only once the node has opened.
LcdTopology(lcd) ==
    LET answers == IF lcd.opens THEN Ask(lcd.stream, {"firmware", "display"}) ELSE Failed
    IN  [node     |-> lcd.node,
         bulk     |-> lcd.node /\ lcd.opens /\ lcd.claims,
         firmware |-> IF lcd.node THEN Told(answers, "firmware", lcd.firmware) ELSE Unknown,
         display  |-> lcd.node /\ "display" \in answers /\ lcd.settings]

-----------------------------------------------------------------------------
(* What each capability is.                                                *)

CompletePoints == 40

\* probe: what is on the allowlist is recorded, anything else is rejected unopened.
Present(machine) == {machine.units[i] : i \in DOMAIN machine.units} \cap Device

\* read_capabilities and curve_channels: what the files of a directory say.
Attribute(file) == [present |-> file # Absent, readable |-> "r" \in file, writable |-> "w" \in file]
CurveChannel(points) == [count |-> points.open + points.fixed, writable |-> points.fixed = 0]

\* kraken_capabilities, of one reading for the three; the points of a curve are counted,
\* those this user may write and those he may not.
FileState(file) ==
    IF ~Attribute(file).present THEN "no_file"
    ELSE IF Attribute(file).writable THEN Writable ELSE ReadOnlyFile
ReadingState(file) ==
    IF ~Attribute(file).present THEN "no_file"
    ELSE IF Attribute(file).readable THEN ReadOnlyFile ELSE "not_readable"
CurveState(points) ==
    LET channel == CurveChannel(points)
    IN  IF channel.count = 0 THEN "no_points"
        ELSE IF channel.count # CompletePoints THEN "not_forty_points"
        ELSE IF channel.writable THEN Writable ELSE ReadOnlyFile

\* firmware_gate: the tail of both ladders.
FirmwareGate(firmware) ==
    IF firmware = Unknown THEN "no_firmware"
    ELSE IF firmware[1] # "validated" THEN "firmware_not_validated" ELSE Writable

\* rgb_state.
RgbState(topology) ==
    IF ~topology.node THEN "no_node"
    ELSE IF topology.channels = Unknown THEN "channels_not_readable"
    ELSE IF topology.channels = <<0>> THEN "zero_channels"
    ELSE FirmwareGate(topology.firmware)

\* lcd_state, and lcd_capabilities: a frame needs the bulk interface too.
LcdState(topology) ==
    IF ~topology.node THEN "no_node"
    ELSE IF ~topology.display THEN "no_display_answer"
    ELSE IF topology.firmware = <<"other_generation">> THEN "not_this_generation"
    ELSE FirmwareGate(topology.firmware)
FrameOfControl(topology) == LcdState(topology)
FrameState(topology) ==
    IF LcdState(topology) = Writable /\ ~topology.bulk THEN "no_bulk_interface" ELSE LcdState(topology)

\* capabilities_for, attach_rgb_topology, attach_lcd_topology.
Capabilities(machine) ==
    LET Bound(state) == IF machine.bound THEN state ELSE "no_hwmon"
        File(id) == Bound(FileState(machine.duty[id]))
        Points(id) == Bound(CurveState(machine.points[id]))
        kraken == [liquid_temperature |-> Bound(ReadingState(machine.reading)),
                   pump_duty |-> File("pump"), fan_duty |-> File("fan"),
                   pump_curve |-> Points("pump"), fan_curve |-> Points("fan"),
                   frame |-> FrameState(LcdTopology(machine.lcd)),
                   display_control |-> LcdState(LcdTopology(machine.lcd))]
        rgb == [id \in {"fixed_color", "effects"} |-> RgbState(RgbTopology(machine.rgb))]
    IN  [device \in Present(machine) |-> IF device = "kraken" THEN kraken ELSE rgb]

\* connect_lighting and connect_display: how many channels the lighting executor has,
\* and whether the display executor has its link.
ConnectedChannels(machine) ==
    LET channels == RgbTopology(machine.rgb).channels
    IN  IF "rgb" \in Present(machine) /\ channels # Unknown THEN channels[1] ELSE 0
DisplayConnected(machine) ==
    LET topology == LcdTopology(machine.lcd)
    IN  "kraken" \in Present(machine) /\ topology.bulk /\ topology.display

-----------------------------------------------------------------------------
(* The daemon.                                                             *)

\* acquire: the lock of a unit is its kind's, and one process can not take it twice.
Acquires(machine, i) ==
    machine.units[i] \notin machine.locked /\ \A j \in 1..(i - 1) : machine.units[j] # machine.units[i]

\* hid_nodes, observed_holders: whose nodes somebody else has open.
Observed(machine) == machine.held \cap Present(machine)

\* take_ownership.
Conflicts(machine) ==
    Observed(machine)
    \cup {d \in Present(machine) : \E i \in DOMAIN machine.units : machine.units[i] = d /\ ~Acquires(machine, i)}

\* read_only: empty when nothing stands between this daemon and a write.
Nobody == "nobody"
ReadOnly(machine) ==
    LET writable == \E device \in Present(machine) :
                        \E id \in DOMAIN Capabilities(machine)[device] : Capabilities(machine)[device][id] = Writable
    IN  IF Conflicts(machine) # {} THEN Conflicts(machine) ELSE IF writable THEN {} ELSE {Nobody}

\* program_incompatibilities, require_writable, require_write_access, supported_device:
\* why a command is refused, nothing when it is not.
Accepted == {}
Refusal(machine, device, ids) ==
    IF device \notin Present(machine) THEN {"no_device"}
    ELSE LET blocked == {Capabilities(machine)[device][id] : id \in ids} \ {Writable}
         IN  IF blocked # {} THEN blocked
             ELSE IF ReadOnly(machine) # {} THEN {"held"} ELSE Accepted

Program == {"onboard", "fixed", "curve"}
RequiredCapabilities(program) ==
    CASE program = "onboard" -> {}
      [] program = "fixed" -> {Duty[c] : c \in Channel}
      [] program = "curve" -> {Curve[c] : c \in Channel}

\* execute, illuminate and show.
Execute(machine, program) ==
    IF program = "onboard" THEN Accepted ELSE Refusal(machine, "kraken", RequiredCapabilities(program))
Illuminate(machine, channel, id) ==
    IF channel \notin 1..ConnectedChannels(machine) THEN {"no_channel"} ELSE Refusal(machine, "rgb", {id})
Show(machine) == Refusal(machine, "kraken", {"frame", "display_control"})

\* targets_for: a profile pinned to no device is for any that has a capability it needs.
AnyDevice == "any"
Targets(machine, ids, pinned) ==
    {device \in Present(machine) :
        IF pinned = AnyDevice THEN ids \cap DOMAIN Capabilities(machine)[device] # {} ELSE device = pinned}

\* activate_profile and incompatibilities, before anything is written.
Activate(machine, program, pinned) ==
    LET ids == RequiredCapabilities(program)
        all == Capabilities(machine)
        targets == Targets(machine, ids, pinned)
        found == UNION {{IF id \in DOMAIN all[device] THEN all[device][id] ELSE "no_capability" : id \in ids} :
                            device \in targets}
    IN  IF program = "onboard" THEN Accepted
        ELSE IF targets = {} THEN {"no_device"}
        ELSE IF found \ {Writable} # {} THEN found \ {Writable}
        ELSE IF ReadOnly(machine) # {} THEN {"held"} ELSE Accepted

-----------------------------------------------------------------------------
(* The client, which has the record and the status.                        *)

\* control_state: what the capability says comes first, then a conflict over this device
\* or over none.
ControlState(machine, device, id) ==
    IF device \notin Present(machine) THEN {"no_device"}
    ELSE IF Capabilities(machine)[device][id] # Writable THEN {Capabilities(machine)[device][id]}
    ELSE IF ReadOnly(machine) \cap {device, Nobody} # {} THEN {"held"} ELSE Accepted

\* cooling_state, while the readings are fresh or not.
CoolingState(machine, id, fresh) ==
    LET base == ControlState(machine, "kraken", id)
    IN  IF base = Accepted /\ ~fresh THEN {"stale"} ELSE base

\* program_state: the first that refuses, the pump's before the fan's.
ProgramState(machine, program, fresh) ==
    LET ids == IF program = "fixed" THEN Duty ELSE Curve
        state == [c \in Channel |-> CoolingState(machine, ids[c], fresh)]
    IN  IF program = "onboard" THEN Accepted
        ELSE IF state["pump"] # Accepted THEN state["pump"] ELSE state["fan"]

\* write_state: the gate of the profile selector.
WriteState(machine) ==
    IF ReadOnly(machine) # {} THEN {"held"}
    ELSE IF Present(machine) = {} THEN {"no_device"} ELSE Accepted

\* device_status: what the daemon says of a device, and device_rows, what a client makes
\* of it.
DeviceStatus(machine, device) ==
    LET all == Capabilities(machine)[device]
    IN  [owned    |-> device \notin Conflicts(machine),
         writable |-> {id \in DOMAIN all : all[id] = Writable},
         blocked  |-> {<<id, all[id]>> : id \in {i \in DOMAIN all : all[i] # Writable}}]
Health(machine, device) ==
    LET status == DeviceStatus(machine, device)
    IN  IF ~status.owned THEN "unavailable"
        ELSE IF status.writable = {} THEN "read_only" ELSE "ready"

-----------------------------------------------------------------------------
(* The machines looked at, and what the gates promise of each.             *)

Streams(which) ==
    LET Noise(n) == [i \in 1..n |-> "status"]
    IN  {<<>>, <<which>>, <<"firmware">>, <<which, "status", "firmware">>, <<"firmware", "status", "error">>,
         Noise(10) \o <<which, "firmware">>, Noise(11) \o <<which, "firmware">>}

AllOpen == [open |-> 40, fixed |-> 0]
RgbAnswers == [node |-> TRUE, opens |-> TRUE, stream |-> <<"firmware", "channels">>, firmware |-> "validated", channels |-> 3]
LcdAnswers == [node |-> TRUE, opens |-> TRUE, claims |-> TRUE, stream |-> <<"display", "firmware">>,
               firmware |-> "validated", settings |-> TRUE]
Whole == [units |-> <<"kraken", "rgb">>, bound |-> TRUE, reading |-> {"r"}, duty |-> [c \in Channel |-> {"r", "w"}],
          points |-> [c \in Channel |-> AllOpen], rgb |-> RgbAnswers, lcd |-> LcdAnswers, locked |-> {}, held |-> {}]
Half == [Whole EXCEPT !.duty = [pump |-> {"r", "w"}, fan |-> {"r"}]]
Closed == [Whole EXCEPT !.duty = [c \in Channel |-> {"r"}], !.points = [c \in Channel |-> [open |-> 0, fixed |-> 40]]]

Files ==
    {[Whole EXCEPT !.bound = b, !.reading = r, !.duty = d, !.points = p] :
        b \in BOOLEAN, r \in {{"r"}, {}, Absent}, d \in [Channel -> {Absent, {"r"}, {"r", "w"}}],
        p \in [Channel -> {[open |-> 0, fixed |-> 0], [open |-> 39, fixed |-> 0], [open |-> 39, fixed |-> 1], AllOpen}]}
Controllers ==
    {[of EXCEPT !.units = u, !.rgb = [RgbAnswers EXCEPT !.node = n, !.opens = o, !.stream = s, !.firmware = f, !.channels = c]] :
        of \in {Whole, Closed}, u \in {<<"kraken", "rgb">>, <<"rgb">>, <<"other", "kraken">>, <<"other">>}, n \in BOOLEAN,
        o \in BOOLEAN, s \in Streams("channels"), f \in {"validated", "other"}, c \in {0, 3}}
Panels ==
    {[of EXCEPT !.lcd = [LcdAnswers EXCEPT !.node = n, !.opens = n /\ o, !.claims = c, !.stream = s, !.firmware = f, !.settings = g]] :
        of \in {Whole, Closed}, n \in BOOLEAN, o \in BOOLEAN, c \in BOOLEAN, s \in Streams("display"),
        f \in {"validated", "other", "other_generation"}, g \in BOOLEAN}
Contended == {[of EXCEPT !.locked = l, !.held = h] : of \in {Whole, Half, Closed}, l \in SUBSET Device, h \in SUBSET Device}
Twins == [Whole EXCEPT !.units = <<"kraken", "kraken">>]
Machines == Files \cup Controllers \cup Panels \cup Contended

\* A conflict about another device than the one a control writes.
Elsewhere(machine, device) == ReadOnly(machine) \ {device, Nobody} # {}

\* A control the client offers is one the daemon accepts, and the reason it shows for one
\* that it does not is one the daemon would give, or that somebody holds the device
\* (control_state, program_state; execute, illuminate, show).
ControlsAgree(machine) ==
    /\ \A program \in Program :
        LET shown == ProgramState(machine, program, TRUE)
            given == Execute(machine, program)
        IN  /\ ~Elsewhere(machine, "kraken") => (shown = Accepted <=> given = Accepted)
            /\ shown \ {"held"} \subseteq given
            /\ given = Accepted => shown = Accepted
            /\ Activate(machine, program, AnyDevice) = Accepted => given = Accepted
    /\ ProgramState(machine, "onboard", FALSE) = Execute(machine, "onboard")
    /\ \A id \in {"fixed_color", "effects"}, channel \in 1..ConnectedChannels(machine) :
        ~Elsewhere(machine, "rgb") => ControlState(machine, "rgb", id) = Illuminate(machine, channel, id)
    /\ ~Elsewhere(machine, "kraken") =>
        (ControlState(machine, "kraken", "frame") = Accepted <=> Show(machine) = Accepted)

\* What may be written has somewhere to go (connect_lighting, connect_display; the two
\* ladders), and nothing reaches a device somebody holds.
OpenIsConnected(machine) ==
    LET all == Capabilities(machine)
    IN  /\ "rgb" \in DOMAIN all /\ all["rgb"]["effects"] = Writable => ConnectedChannels(machine) > 0
        /\ "kraken" \in DOMAIN all /\ all["kraken"]["frame"] = Writable => DisplayConnected(machine)
        /\ Show(machine) = Accepted => DisplayConnected(machine)
        /\ Conflicts(machine) # {} =>
            /\ WriteState(machine) # Accepted /\ Show(machine) # Accepted
            /\ \A program \in Program \ {"onboard"}, pinned \in Device \cup {AnyDevice} :
                    Execute(machine, program) # Accepted /\ Activate(machine, program, pinned) # Accepted
        /\ \A device \in DOMAIN all :
            Health(machine, device) = "ready" /\ ReadOnly(machine) = {} =>
                \E id \in DOMAIN all[device] : ControlState(machine, device, id) = Accepted

\* An answer in the reads that are allowed is heard whatever comes with it (hid::ask).
AnswersAreHeard(machine) ==
    LET stream == machine.rgb.stream
    IN  \A which \in {"firmware", "channels"} :
            which \in Ask(stream, {"firmware", "channels"}) <=>
                /\ Ask(stream, {"firmware", "channels"}) # Failed
                /\ \E i \in DOMAIN stream : stream[i] = which /\ i <= MaxQueryReads

GatesAgree(machine) == ControlsAgree(machine) /\ OpenIsConnected(machine) /\ AnswersAreHeard(machine)

\* A control that stays enabled is one the daemon would accept (gate.rs:151 says so of a
\* program): not while the conflict is about the other device.
EnabledIsAccepted(machine) ==
    \A program \in Program :
        Present(machine) # {} /\ ProgramState(machine, program, TRUE) = Accepted => Execute(machine, program) = Accepted

\* A daemon nobody contends with is in nobody's way: not with two of a kind, whose second
\* lock is refused by the first.
AloneIsUncontended(machine) == machine.locked = {} /\ machine.held = {} => Conflicts(machine) = {}
=============================================================================
