------------------------------ MODULE Machine ------------------------------
(***************************************************************************)
(* What the kernel shows and how it is read (crates/hardware-linux/src):   *)
(* attribute files (sysfs.rs), USB devices, their interfaces, endpoints    *)
(* and nodes (usb.rs, usbfs.rs), hwmon instances (hwmon.rs), and the       *)
(* processor, memory and GPU figures (sensors.rs, gpu.rs).                 *)
(*                                                                         *)
(* A directory's entries are a sequence, as sorted_entries lists them.     *)
(***************************************************************************)
EXTENDS Integers, Sequences, FiniteSets

LOCAL INSTANCE SequencesExt

CONSTANTS
    MaxTicks,  \* how far the processor's counters go
    Counters   \* which of the kernel's liberties with them a model includes

(* iowait  the kernel's estimate of time spent waiting may shrink           *)
(* guest   time given to a guest is counted as user time and again as guest *)
ASSUME MachineAssumption == MaxTicks \in Nat /\ Counters \subseteq {"iowait", "guest"}

-----------------------------------------------------------------------------
(* Files.  One holds a value, or a text that is none, or nothing, or can   *)
(* not be read, or is not there.                                           *)
Holding(value) == <<"value", value>>
NoFile == <<"absent">>

Valid(value) == [value |-> <<value>>, cause |-> ""]
Unavailable(cause) == [value |-> <<>>, cause |-> cause]

\* read_attribute_detailed and read_parsed: every failure says which it was.
ReadParsed(file) ==
    CASE file[1] = "value" -> Valid(file[2])
      [] file[1] \in {"absent", "unreadable"} -> Unavailable(file[1])
      [] OTHER -> Unavailable("unparsable")

\* read_attribute, read_hex_u8, read_hex_u16: the cause dropped.
ReadAttribute(file) == ReadParsed(file).value

-----------------------------------------------------------------------------
(* The bus.                                                                *)

Identified(device) == ReadAttribute(device.vendor) # <<>> /\ ReadAttribute(device.product) # <<>>
IdOf(device) == <<ReadAttribute(device.vendor)[1], ReadAttribute(device.product)[1]>>

\* enumerate: hubs' ports and interfaces have no ids.
Enumerate(bus) == SelectSeq(bus, Identified)

\* interface_dirs: what is named after the device, so not a device plugged into it.
EveryEntry(device) == device.inside
InterfaceDirs(device) == SelectSeq(device.inside, LAMBDA entry : entry.own)

\* interface_driver: of the first with that number.
InterfaceDriver(device, number) ==
    LET numbered == SelectSeq(InterfaceDirs(device), LAMBDA entry : ReadAttribute(entry.number) = <<number>>)
    IN  IF numbered = <<>> THEN <<>> ELSE numbered[1].driver

\* endpoints: without an address there is none.
Endpoints(entry) ==
    SelectSeq(entry.endpoints, LAMBDA e : e.named /\ ReadAttribute(e.address) # <<>>)

\* interfaces: in the order of their numbers.
Interfaces(device) ==
    LET numbered == SelectSeq(InterfaceDirs(device), LAMBDA entry : ReadAttribute(entry.number) # <<>>)
        found == [n \in DOMAIN numbered |->
                    [number    |-> ReadAttribute(numbered[n].number)[1],
                     driver    |-> numbered[n].driver,
                     endpoints |-> Len(Endpoints(numbered[n]))]]
    IN  SortSeq(found, LAMBDA i, j : i.number < j.number)

\* hidraw_node: device, interface, HID device, node.
HidrawNode(device) ==
    LET nodes == FlattenSeq([n \in DOMAIN InterfaceDirs(device) |-> FlattenSeq(InterfaceDirs(device)[n].hid)])
    IN  IF nodes = <<>> THEN <<>> ELSE <<nodes[1]>>

\* owning_device: the nearest directory on the way up that has both ids.
OwningDevice(path) ==
    LET owners == {n \in DOMAIN path : Identified(path[n])}
    IN  IF owners = {} THEN <<>> ELSE <<IdOf(path[CHOOSE n \in owners : \A m \in owners : m <= n])>>

\* node_in: from a bus and a device number.
UsbNode(device) == ReadAttribute(device.busnum) # <<>> /\ ReadAttribute(device.devnum) # <<>>

\* Usbfs::claim: a bound interface is a refusal, and the kernel refuses it as well.
Claims(device, number) == InterfaceDriver(device, number) = <<>> /\ UsbNode(device)

-----------------------------------------------------------------------------
(* hwmon.                                                                  *)

KrakenDriver == "kraken2023"
CpuDriver == "k10temp"
Kraken == <<7793, 12302>>

\* discover: what no USB device owns is somebody else's sensor.
Discover(chips) ==
    SelectSeq(chips, LAMBDA chip : ReadAttribute(chip.name) # <<>> /\ OwningDevice(chip.path) # <<>>)

First(chips, Wanted(_)) ==
    LET found == SelectSeq(chips, Wanted) IN IF found = <<>> THEN <<>> ELSE <<found[1]>>

\* KrakenHwmon::locate, which telemetry and control read and write.
Locate(chips) ==
    First(Discover(chips), LAMBDA chip : OwningDevice(chip.path) = <<Kraken>> /\ ReadAttribute(chip.name) = <<KrakenDriver>>)

\* probe: the instance whose files are the device's capabilities.
Recorded(chips) == First(Discover(chips), LAMBDA chip : OwningDevice(chip.path) = <<Kraken>>)

\* cpu_temperature_path: resolved once.
CpuChip(chips) == First(chips, LAMBDA c : ReadAttribute(c.name) = <<CpuDriver>> /\ c.temp1 # NoFile)

\* cpu_temperature_c.
CpuTemperature(chips) ==
    IF CpuChip(chips) = <<>> THEN Unavailable("absent") ELSE ReadParsed(CpuChip(chips)[1].temp1)

\* liquid_temperature_c, of the located instance.
LiquidTemperature(chips) ==
    IF Locate(chips) = <<>> THEN Unavailable("no_device") ELSE ReadParsed(Locate(chips)[1].temp1)

\* PwmMode::from_kernel, and mode: a number that is none of them is no reading.
PwmModes == <<"full_speed", "fixed", "curve">>
PwmMode(file) ==
    LET read == ReadParsed(file)
    IN  IF read.value = <<>> THEN read
        ELSE IF read.value[1] \in 0..2 THEN Valid(PwmModes[1 + read.value[1]]) ELSE Unavailable("unparsable")

\* channel_telemetry: each file for itself.
ChannelTelemetry(files) == [rpm |-> ReadParsed(files.rpm), duty |-> ReadParsed(files.duty), mode |-> PwmMode(files.mode)]

\* KrakenHwmon::curve: every point or none.
ReadCurve(points) ==
    IF \E n \in DOMAIN points : ReadParsed(points[n]).value = <<>>
    THEN ReadParsed(points[CHOOSE n \in DOMAIN points :
                        /\ ReadParsed(points[n]).value = <<>>
                        /\ \A k \in 1..(n - 1) : ReadParsed(points[k]).value # <<>>])
    ELSE Valid([n \in DOMAIN points |-> ReadParsed(points[n]).value[1]])

\* memory, of the two fields of meminfo.
Memory(total, available) ==
    IF ReadAttribute(total) \in {<<>>, <<0>>} \/ ReadAttribute(available) = <<>> THEN Unavailable("unparsable")
    ELSE LET t == ReadAttribute(total)[1]
             a == ReadAttribute(available)[1]
         IN  Valid([used |-> IF a > t THEN 0 ELSE t - a, total |-> t])

\* GpuSensor::sample: one answer lost loses no other; figures are all absent without the
\* library or the device.
GpuFigures == {"name", "load", "temperature"}
GpuSample(loaded, listed, answers) ==
    [f \in GpuFigures |->
        IF ~loaded \/ ~listed THEN Unavailable("absent")
        ELSE IF f \in answers THEN Valid(f) ELSE Unavailable("unreadable")]

-----------------------------------------------------------------------------
(* The processor's load.                                                   *)

VARIABLES
    ticks,     \* the counters of /proc/stat
    previous,  \* SystemSensors.previous
    load,      \* the last answer: busy of total, or why none
    told,      \* the answers so far added up, for the properties
    origin,    \* the first baseline, for the properties
    steady     \* has no counter gone back, for the properties

machineVars == <<ticks, previous, load, told, origin, steady>>

Times == [idle |-> ticks.idle + ticks.iowait, total |-> ticks.work + ticks.idle + ticks.iowait + ticks.guest]
NoBaseline == [idle |-> -1, total |-> -1]
NoFigure(cause) == [busy |-> -1, total |-> -1, cause |-> cause]
SatSub(a, b) == IF a > b THEN a - b ELSE 0

\* SystemSensors::open: a baseline, if it can be read.
MachineInit ==
    /\ ticks = [work |-> 0, idle |-> 0, iowait |-> 0, guest |-> 0]
    /\ previous \in {NoBaseline, Times}
    /\ origin = previous
    /\ load = NoFigure("unread") /\ told = [busy |-> 0, total |-> 0] /\ steady = TRUE

\* Time passes, in one of the counters; a guest's in two.
CountTick ==
    /\ \E counter \in {"work", "idle", "iowait"} \cup (Counters \cap {"guest"}) :
        /\ ticks[counter] < MaxTicks
        /\ ticks' = IF counter = "guest"
                    THEN [ticks EXCEPT !.guest = @ + 1, !.work = @ + 1]
                    ELSE [ticks EXCEPT ![counter] = @ + 1]
    /\ UNCHANGED <<previous, load, told, origin, steady>>

\* The estimate of the time spent waiting is corrected.
Correction ==
    /\ "iowait" \in Counters /\ ticks.iowait > 0
    /\ ticks' = [ticks EXCEPT !.iowait = @ - 1]
    /\ steady' = FALSE
    /\ UNCHANGED <<previous, load, told, origin>>

\* As it would be if a failed read left no baseline.
BaselineIsLost ==
    /\ load' = NoFigure("unread") /\ previous' = NoBaseline
    /\ UNCHANGED <<ticks, told, origin, steady>>

\* read_cpu_times fails: unreadable, no such line, a field missing or no number.
LoadIsUnread ==
    /\ load' = NoFigure("unread")
    /\ UNCHANGED <<ticks, previous, told, origin, steady>>

\* cpu_load_percent.
LoadIsRead ==
    LET total == SatSub(Times.total, previous.total)
        idle == SatSub(Times.idle, previous.idle)
        busy == SatSub(total, idle)
    IN  /\ IF previous = NoBaseline
           THEN /\ previous' = Times /\ origin' = (IF origin = NoBaseline THEN Times ELSE origin)
                /\ load' = NoFigure("not_twice") /\ UNCHANGED told
           ELSE IF total = 0
           THEN load' = NoFigure("no_ticks") /\ UNCHANGED <<previous, told, origin>>
           ELSE /\ previous' = Times /\ UNCHANGED origin
                /\ load' = [busy |-> busy, total |-> total, cause |-> ""]
                /\ told' = [busy |-> told.busy + busy, total |-> told.total + total]
        /\ UNCHANGED <<ticks, steady>>

ReadLoad == LoadIsRead \/ LoadIsUnread

MachineNext == CountTick \/ Correction \/ ReadLoad

MachineSpec == MachineInit /\ [][MachineNext]_machineVars

-----------------------------------------------------------------------------
\* A load is a share of a time that passed; and while no counter goes back, the answers
\* cover all the time since the first baseline exactly once, whatever reads failed in
\* between (cpu_load_percent: "so the next interval is measured against real elapsed
\* time").
LoadIsMeasured ==
    /\ load.cause = "" => load.total > 0 /\ load.busy \in 0..load.total
    /\ steady =>
        /\ previous # NoBaseline => told.total = previous.total - origin.total
        /\ previous # NoBaseline => told.busy = told.total - (previous.idle - origin.idle)
        /\ previous = NoBaseline => origin = NoBaseline

\* "Busy time since the previous call, as a percentage" (sensors.rs:81).  With a guest it
\* is more: "every later field still counts towards the total" (sensors.rs:194), though a
\* guest's time is in the first one already.
BusyIsCountedOnce == steady => told.busy <= ticks.work

-----------------------------------------------------------------------------
(* The trees that are tried: a device with two entries, and two instances. *)
Hids == {<<>>, <<<<"hidraw3">>>>, <<<<>>, <<"hidraw4">>>>}
EndpointLists == {<<>>, <<[named |-> TRUE, address |-> Holding(2)], [named |-> TRUE, address |-> NoFile], [named |-> FALSE, address |-> Holding(5)]>>}
Entries ==
    [own : BOOLEAN, number : {Holding(0), Holding(1), <<"text">>}, driver : {<<>>, <<"usbhid">>},
     endpoints : EndpointLists, hid : Hids]
Devices ==
    {[vendor |-> Holding(7793), product |-> Holding(12302), inside |-> <<a, b>>, busnum |-> Holding(1), devnum |-> n] :
        a \in Entries, b \in Entries, n \in {Holding(4), NoFile}}

NoIds == [vendor |-> NoFile, product |-> NoFile]
Hub == [vendor |-> Holding(4660), product |-> Holding(1)]
Half == [vendor |-> Holding(4660), product |-> <<"unreadable">>]
Cooler == [vendor |-> Holding(7793), product |-> Holding(12302)]
Paths == {<<NoIds, NoIds>>, <<Hub, Cooler, NoIds, NoIds>>, <<Cooler, Hub, NoIds>>, <<Hub, Cooler, Half>>}
Chips ==
    [name : {Holding(KrakenDriver), Holding(CpuDriver), Holding("nvme"), <<"unreadable">>},
     path : Paths, temp1 : {NoFile, Holding(40), <<"text">>}]

\* What may be claimed has no driver, the record names the driver a claim is refused for,
\* and the node is of one of the device's own interfaces, whatever is plugged into it and
\* whatever can not be read (interface_driver, interfaces, hidraw_node).
DeviceIsRead(device) ==
    LET own == {n \in DOMAIN device.inside : device.inside[n].own}
        Numbered(n) == {k \in own : device.inside[k].number = Holding(n)}
        recorded == Interfaces(device)
    IN  /\ \A n \in {0, 1} : Cardinality(Numbered(n)) = 1 =>
            LET entry == device.inside[CHOOSE k \in Numbered(n) : TRUE]
            IN  /\ Claims(device, n) => entry.driver = <<>>
                /\ \E i \in DOMAIN recorded :
                    /\ recorded[i].number = n /\ recorded[i].driver = entry.driver
                    /\ recorded[i].endpoints = Cardinality({k \in DOMAIN entry.endpoints :
                            entry.endpoints[k].named /\ entry.endpoints[k].address # NoFile})
        /\ \A i, j \in DOMAIN recorded : i < j => recorded[i].number <= recorded[j].number
        /\ Len(recorded) = Cardinality({n \in own : device.inside[n].number # <<"text">>})
        /\ HidrawNode(device) = <<>> <=> \A n \in own : device.inside[n].hid = <<>>
        /\ HidrawNode(device) # <<>> =>
            \E n \in own : \E k \in DOMAIN device.inside[n].hid :
                HidrawNode(device)[1] \in Range(device.inside[n].hid[k])

\* Nothing outside the cooler is read as the cooler's, a file that is there and unreadable
\* is no missing driver, and what is written is the instance whose files were found
\* writable, unless another driver's comes first (locate, probe, cpu_temperature_path).
ChipsAreRead(chips) ==
    LET kraken == Locate(chips)
    IN  /\ kraken # <<>> =>
            /\ kraken[1].path[2] = Cooler
            /\ Recorded(chips) # <<>>
            /\ Recorded(chips)[1].name = Holding(KrakenDriver) => Recorded(chips) = kraken
        /\ CpuTemperature(chips).cause = "absent" <=>
            ~\E n \in DOMAIN chips : chips[n].name = Holding(CpuDriver) /\ chips[n].temp1 # NoFile
        /\ LiquidTemperature(chips).value # <<>> => kraken # <<>> /\ kraken[1].temp1 = Holding(40)
\* One file that is lost or wrong loses no other reading of its channel, its cause says
\* which it was, and a curve of which one point is lost is not passed on (curve: "all forty
\* points or none").
ChannelIsRead(files) ==
    LET channel == ChannelTelemetry(files)
        curve == ReadCurve(<<files.rpm, files.duty, files.mode>>)
    IN  /\ \A f \in {"rpm", "duty"} : (channel[f].value # <<>>) <=> files[f][1] = "value"
        /\ channel.mode.value # <<>> <=> files.mode \in {Holding(0), Holding(1), Holding(2)}
        /\ \A f \in DOMAIN channel : channel[f].cause = "absent" <=> files[f] = NoFile
        /\ curve.value # <<>> <=> \A f \in DOMAIN files : files[f][1] = "value"
        /\ curve.value # <<>> => Len(curve.value[1]) = 3
ChannelFiles ==
    LET file == {NoFile, <<"unreadable">>, <<"blank">>, Holding(0), Holding(2), Holding(3)}
    IN  [rpm : file, duty : file, mode : file]
=============================================================================
