# Verification of the EFI audio drivers

TLA+ modules of the UEFI audio drivers of this repository, TLC configurations
that check them on small instances, and TLAPS proofs of their most important
invariants for every instance. Line numbers refer to
`src/efi-hda-dxe/src/main.rs` unless another file is named.

## 1. The system

| Component | Code | State it keeps | Operations | Status |
|---|---|---|---|---|
| HDA command transport | `main.rs` 629-1142, `iobase.rs` | the two rings in DMA memory, the registers CORBWP, CORBRP, RIRBWP, RIRBSTS and the two DMA enables, the driver's cursor `read_pos` | bus reset, `CommandResponseBuffers::new`, `send`, `recv`, `poll_rirb`, `exec`, `Drop` (`uninit_io`) | `CommandRings` |
| HDA stream playback | `main.rs` 1714-2108, 2145-2296 | the cyclic buffer and its descriptor list, `Loop` (its positions in the list and in the samples), two timer events, the stream's registers | `hda_write`, `hda_tone`, `stream_play_loop`, `stream_loop`, `Loop::transfer`, stream setup, start, stop, cleanup | `HdaStream` |
| HDA driver binding | `main.rs` 2350-2664 | `DEVICE_CONTEXTS`; in the firmware's handle database, the open records of PCI I/O and the published interfaces | `hda_supported`, `hda_start`, `hda_stop_entry`, `hda_unload`, `efi_main` | `HdaBinding` |
| HDA immediate commands | `main.rs` 935-1005 | none | a busy wait on one register, compiled instead of the rings by a feature | not modelled |
| HDA codec routing | `main.rs` 1144-1830 | the widget graph read from the codec, `active_nodes`; in the codec, its mutes, selections and streams | `hda_find_dac`, `codec_setup_stream`, `codec_collect_nodes`, mute, select and volume | `CodecRouting` |
| HDA device paths | `device_path.rs` | none | builds a child's device path | not modelled |
| HDA component names | `driver_binding.rs` | none | constant strings | not modelled |
| AC97 playback | `src/efi-pcm-dxe/src/main.rs` 560-960 | the 32-entry descriptor list, CIV and LVI, two events that live as long as the device | `loop_samples`, `play_samples`, `copy_samples_to_buffer` | `Ac97Playback` |
| AC97 driver binding | `src/efi-pcm-dxe/src/main.rs` 1000-1240 | one context per controller | `pcm_supported`, `pcm_start`, `pcm_stop`, `pcm_unload` | `PcmBinding` |
| Test bus driver | `src/efi-test-bus-dxe/src/main.rs` | `DEVICE_CONTEXTS`, five children for a controller | `hdbus_supported`, `hdbus_start`, `hdbus_stop_entry`, `hdbus_unload`; the audio calls return UNSUPPORTED | `TestBusBinding` |
| Driver runtime | `src/efi-dxe` | allocator, logger | initialise, unload, print | not modelled |
| Audio protocol and client library | `src/efi-pcm` | none | ABI declarations that forward a call | not modelled |
| Test applications | `src/efi-pcm-test`, `src/edk2-test`, `src/miri-tests` | none | clients and experiments | not modelled |

How they interact. The firmware connects the driver to a controller; `hda_start`
resets the bus, probes the codecs, each over rings of its own, and creates one
child handle per codec over one more pair of rings. A client finds the audio interface on a
child handle and calls `hda_write` or `hda_tone`; the call finds its context
through the interface's address, makes the buffers and the rings, programs the
codec over the rings and the stream's engine through registers, and then waits
for timers until the playback time has passed. The firmware may disconnect the
controller, or unload the driver, while such a call waits.

What is hard. There are no threads, yet much runs at the same time: the two ring
engines and the codecs, the stream's engine, the timers, and the callbacks the
firmware runs whenever the task priority (TPL) permits. Nearly every line ends
in `?`, so that any register access can fail in the middle of an operation, and
a `Drop` then works on whatever was done. Responses carry no tag and may come
after the 100 ms wait for them. The engine's position is known only modulo the
cyclic buffer. The handle database is shared with the firmware, which reads back
what the driver wrote into it. It is also where drivers meet that do not know of
each other: the AC97 driver's unload goes over every audio interface there is,
those of the other two drivers as well. The contexts of the AC97 driver are found
by stepping back from the interface's address, in freed memory too.

What makes each component correct:

- *Command transport.* An answer belongs to the command it is taken for, also
  after time-outs; the controller's stall on RIRBSTS can always be resolved by
  polling; the engines do not outlive the rings' mapping unless stopping them
  failed; commands are neither overwritten nor reordered.
- *Stream playback.* The engine never runs into a buffer that was not refilled,
  plays the samples in order, and has played its time when a call succeeds whose
  engine was started (a failed start is not noticed, section 4); a refill touches
  only what was played; unmapped buffers are not played; every call returns.
- *Driver binding.* Interfaces and contexts are one to one, whatever fails;
  the record of every child is kept; the link is stopped after the last
  child; an unloaded image is not called.
- *Codec routing.* The path found is a path of the graph, from pin to DAC, and no
  DAC that can be reached is missed, on cyclic connection lists too; a pin that
  was routed plays, whatever routes it shares nodes with and whatever an earlier
  setup left in the codec; every setup returns.
- *AC97 playback.* The descriptors between CIV and LVI are those that were
  filled, in order and across the wrap of the list, and are not touched; an
  underrun is only taken for the end when everything was played; an event of
  one call does not end the next; every call returns.
- *AC97 binding, test bus.* Every interface has its context in memory and every
  context can be found by a disconnect, through refused stops, starts that fail half way
  and callbacks in the middle of a start or a stop; an unload that succeeds leaves no
  interface behind, and one driver's unload is not stopped by another's interface.

## 2. The modules

| Module | Role |
|---|---|
| `CommandQueue` | abstract: a bounded queue of commands that can be flushed as a whole |
| `CommandRings` | detailed: both rings, the driver's steps and the controller's; implements `CommandQueue` |
| `AudioOutput` | abstract: what `write` of the audio protocol promises: samples heard in order, once or over and over |
| `HdaStream` | a playback call against the stream's engine and the timers; implements `AudioOutput` |
| `HdaBinding` | the driver, the firmware's disconnects and callbacks, over the handle database |
| `Ac97Playback` | a playback call of the AC97 driver against the PCM OUT engine and two timer events that outlive it; implements `AudioOutput` |
| `CodecRouting` | the routing of a codec: the search, the configuration of the paths, the muting, over one setup after the other |
| `HandleDatabase` | the firmware as two drivers share it: interfaces, open records, image unload, agents |
| `PcmBinding` | the AC97 driver's start, stop and unload |
| `TestBusBinding` | the test bus driver's start, stop and unload, without a raised TPL |
| `AudioDrivers` | both drivers on one handle database |
| `RingArithmetic` | lemmas about `%` on rings |
| `CommandRingsProofs`, `HdaStreamProofs`, `HdaBindingProofs`, `Ac97PlaybackProofs`, `CodecRoutingProofs`, `CodecRoutesProofs`, `AudioDriversProofs` | inductive invariants and theorems |
| `MCCommandRings`, `MCHdaStream`, `MCHdaBinding`, `MCAc97Playback`, `MCCodecRouting`, `MCAudioDrivers` | the instances TLC checks |

A definition whose comment says "mutant of X" is a plausible slip in the code
behind X. It is not part of any specification: each property of a passing run
is violated when one of them stands in for its X, which shows that the property
does depend on what the code does.

### CommandRings

One action per register step. `NewMap` ... `NewRunCorb` are the steps of `new`
(halt both engines, wait, reset the cursors, set the bases, start RIRB, then
CORB); `Send`, `Doorbell`, `ArmTimer`, `PollResponse` / `PollNothing`,
`Acknowledge`, `PollAgain` and `Timeout` are `exec`; `DropRirb`, `DropCorb` and
`DropWait` are `uninit_io`. `NewFails`, `ExecFails`, `AcknowledgeFails` and
`DropFails` are their early returns. `Fetch`, `Unsolicited`, `RirbStops` and
`CorbStops` are the controller's (external), read off what the driver expects of it:
one command per step, no fetch while RIRBSTS is raised, RIRBSTS raised by every
response, engines that stop some time after their enable bit is cleared.

The data are abstract: a command is its number, its codec and whether the
caller looks at the result (`checked`; `pin_set_volume` is the caller that does
not), and a response is the number of the command it answers, which the driver
cannot see, or `Unsol`. `purpose` tells the two users of rings apart: a codec
probe sends one command on rings of its own, a stream setup sends as many as it
likes. The histories say what the driver does not know: `pending` commands,
whether an error was ignored (`broken`), whether RIRBSTS was raised at setup or
an acknowledgement failed (`deaf`), whether engines were left running (`leaked`).

Abstractions: the write of a response and the raise of RIRBSTS are one step;
the bus reset of `hda_start` is one step; the time-out of the two resets of the
cursors is the failure of `NewReset`.

### HdaStream

Time is counted in samples; one `Tick` plays one slot if RUN is set and counts
both timers down. `Begin`, `Setup`, `Prefill` are `stream_play_loop` up to the
loop, `Arm`, `Start`, `ReadStart`, `Poll`, `Refill`, `WaitPlayback`, `WaitTrace`
are `stream_loop`, `Stop` and `Cleanup` what follows it. `Prefill` and `Refill`
fill one buffer per step, so that the engine plays on in the middle of a
refill. `mem` holds, for each slot, which of the caller's samples lies there,
and `fresh` the slots written and not yet played.

`TracePeriod` follows the code: the playback time in whole seconds, passed as
milliseconds. `LpibRestarts` chooses between two engines: one that starts from
position 0 when RUN is set again, and one that continues where it stopped; the
code does not reset the stream in between.

The driver does not enforce that it wakes up in time. `StartGap` bounds the samples
played between arming the timers and reading LPIB, `Latency` those between a
due wake-up and the end of the refill, and `TimelyAssumption` relates both to
the size of the ring: it names what the code relies on. The trace period grows
with the length of the samples, and the assumption fails when it no longer fits
into the ring's time less one buffer: with 8 buffers of 2048 samples at 44100 Hz
stereo, for samples of about 160 seconds and more. The engine's rate is the one the caller
asked for: `stream_select_rate` takes the closest rate the hardware has, while
the duration keeps the caller's, a difference the model leaves out.

### HdaBinding

`byDriver` and `byChild` are the open records of PCI I/O, `published` the audio
interfaces, `contexts` is DEVICE_CONTEXTS. `hda_start` is `Start`, one
`CreateChild` or `ChildFails` per codec, and `StartEnds`, with nothing in
between (it runs at TPL_NOTIFY). `hda_stop_child` and `hda_stop_bus` are one
step each, for the same reason: `StopChild` with its refusal, `StopChildStale`
for a handle without an interface, `StopBus`, `StopBusRefused`, `StopBusFails`.
Between these, callbacks act: any enabled action may come next.

External, modelled from how the code uses it: a disconnect reads its children
off the BY_CHILD records, hands them over in any order, gives up when one
fails, and calls the driver once more without children at the end; opening
BY_DRIVER twice fails; closing removes every record of that agent and
controller, whatever its attributes (the comment at 2525-2528 says so); a
handle whose last interface goes may be given to another child; an agent that
holds an interface makes its uninstallation fail. Disconnects do not nest, and
no playback begins inside of one or of an unload (waiting for events, and
UnloadImage(), are available at TPL_APPLICATION only).

`hda_unload` is `Unload`, one `UnloadDisconnect` per controller, `UnloadCheck`
and `UnloadEnds` or `UnloadFails`: it raises no TPL of its own, so that a
callback may start a controller between the look at DEVICE_CONTEXTS and the
uninstallation of the binding (`late`).

### Ac97Playback

Here engine and timers are untimed: `PlayFrame`, `NextDescriptor`, `PlayTimer`
and `PicbTimer` may come at any time, between any two register accesses of the
driver, which covers every speed and every latency. `BeginWrite`, `Reset`,
`Arm` and then `ReadCiv`, `Queue`, `WriteLvi`, `ReadPicb`, `Check`, `Run`,
`Underrun`, `WaitPlayback` and `WaitPicb` are `pcm_write` with `play_samples`;
`BeginTone` and the `Tone...` actions are `pcm_tone` with `loop_samples`. `Stop`
is `stop_playback`; `Fails` is every early return, which leaves the engine and
the timers as they are; `LviLost` and `ToneRunLost` are the register writes
whose result is not looked at. A descriptor is its length, one less than the
count as in the code, and the offset of its samples. The engine (external) is
that of the ICH data sheets the comments refer to: setting the run bit of a
running engine does nothing, and moving LVI lets a halted one go on.

The timer events belong to the device. `playSet` and `picbSet` survive a call, and so do
armed timers: `SetTimer` replaces a timer and leaves a signaled event signaled.

### CodecRouting

A codec is a kind and a connection list for every node. `Begin` and `Collect`
are `codec_setup_stream` up to the loops (`plugged` is what `is_headphones`
finds), `NextPin` and `PinsDone` its two passes over the pins. `hda_find_dac` is
taken apart so that its loops can be proved about: `PopDangling`, `PopDac` and
`PopNode` are the three ways to take a node off the queue, `Visit` and
`Expanded` the loop over its successors, `Trace` and `Found` the way back along
the parents. `Configure` does one node of the path, `Configured` the marking in
`active_nodes`; `Knobs` and `MuteRest` are the last two loops. `CollectFails` and
`ConfigureFails` are the early returns, the latter with everything that may
have been done to its node. `muted`, `select` and `streams` live in the codec
and so outlast a setup; all else is local to it.

Abstractions: "muted" is what the codec was last told, whether or not its
amplifier can mute; power, EAPD and balanced output go with the step of their
node, and so does the stream format with the stream; a failing knob is a knob that was not raised, as
the result of `pin_set_volume` is dropped (1813). The mutes of the last loop
cannot fail, since there never are any (section 4). How the codec's answers are
decoded is not modelled: connection lists arrive as lists of nodes.

`codec_setup_stream` configures nodes and looks at the codec only through its
own commands, so that nothing runs in between: the interleavings are those of
`CommandRings`. What is hard here is the data (any graph) and the sequence
(what an earlier, possibly failed, setup has left).

### HandleDatabase, PcmBinding, TestBusBinding, AudioDrivers

`HandleDatabase` is all external: `audio` says which SimpleAudioOut interface a
handle carries, `byDriver` and `byChild` are the open records, `held` the
interfaces an agent will not close, `loaded` the drivers. PCI controllers
carry PCI I/O and child handles do not. Memory is a set of addresses: what was
freed is used again, and a freed context may still be read. (`HdaBinding`
has its own, simpler view: its contexts are numbered and never used again, since
the HDA driver looks addresses up in DEVICE_CONTEXTS.)

`PcmBinding`: `pcm_start` and `pcm_stop` run at TPL_NOTIFY and are a step each.
`PcmStart` and `PcmStartDumpFails` are the two ways `pcm_start` changes
something; `PcmStop` is the success of `pcm_stop`, `PcmRefused` and
`PcmInvalid` tell its errors apart, of which `pcm_unload` passes over the
second only (`PcmUnloadSkip`, `PcmUnloadFails`). `PcmStopTwice` is what follows a
start whose `dump_registers` failed: the interface stayed, the context is read in freed
memory, dropped again, its events are closed again, and the machine is shut down if the
firmware objects (`running = "halted"`).

`TestBusBinding`: no TPL is raised anywhere, so that `hdbus_start` is taken apart
into `BusCreate`, `BusOpenChild` and `BusRegister` per child, with
`BusCreateFails` and `BusTakeBack` as its failures, and disconnects come in between.
`hdbus_stop_child` changes three things one after the other, and connects come in between:
`BusStopChildCloses` finds the context and closes PCI I/O (334),
`BusStopChildUninstalls` takes the interface (341), and
`BusStopChildUnregisters` drops the context (346). `child`, `device` and `stopStep` are its
argument, the context it has at hand and what it does next. `BusStopChildStale` and
`BusStopChildRefused` are its failures, the latter after PCI I/O was closed, and
`BusStopBus` is `hdbus_stop_bus`. `running` says which of start and stop
is on top: what was interrupted goes on when the other has ended; two disconnects, or
two connects, do not nest. `hdbus_unload` is taken apart as `hda_unload` is.

Between 341 and 346 a context stands without its interface, and the handle may be a new
child's already. `Withdrawn` names this context; `BusBacked` excepts it, and no other. The
vector of contexts is changed at the caller's TPL too, so that a callback may push onto it in
the middle of a search or of `retain`, or search or filter it in the middle of a push. What
comes of it is undefined: `BusRace` leaves any subset of the contexts, sets `running`
to "undefined" and ends the behaviour, and `BusBacked` is given up. (The contexts
of the HDA driver are registered and dropped at TPL_NOTIFY, those of the AC97 driver are in no
vector.)

`AudioDrivers` composes them. No variable belongs to both drivers, yet each
goes through the other's interfaces in its unload, and agents hold those of both.

Abstractions: the PCI I/O records of GET_PROTOCOL opens, which the drivers never
read, are left out; `pcm_supported` and `hdbus_supported` are the sets
`PcmController` and `BusController`; a start that fails and undoes all it did is no
step.

## 3. The runs

| Run | Expect | What it asks |
|---|---|---|
| `command_rings` | pass | do answers match, is the stall recoverable, do the engines respect the mapping, is the ring a bounded queue |
| `command_rings_stalled` | violation of `FreshRingsUnstalled` | are rings that were just set up free of a stall |
| `hda_stream` | pass | no underrun, samples heard as `AudioOutput` says, only played samples overwritten, played in full once started, every playback ends |
| `hda_binding` | pass | interfaces and contexts one to one and the records kept through failures and callbacks |
| `hda_binding_reconnect` | violation of `DisconnectEndsChildren` | does a disconnect end the children |
| `hda_binding_borrowed` | violation of `NoneBorrowed` | is a context in use left alone |
| `ac97_playback` | pass | buffers heard as `AudioOutput` says, queued buffers untouched, underrun exits justified, every call returns |
| `ac97_playback_stale` | violation of `EndedByOwnTimer` | is a call ended by its own timer only |
| `codec_routing` | pass | are paths routes, is no DAC missed, do shared nodes agree, do routed pins play, does a setup end |
| `codec_routing_muted` | violation of `OthersMuted` | is what is on no route muted after a setup |
| `audio_drivers` | pass | has every interface its context, is every context found, is an unloaded driver's database clean |
| `pcm_unload_foreign` | violation of `UnloadSkipsForeign` | does the AC97 driver's unload pass over the interfaces of others |

Bounds, and why they are enough.

- `command_rings`: rings of 2 slots (the smallest the controller offers, where
  a full ring, a wrap and an empty ring are one step apart), one codec that is
  there and one that never answers, 4 commands (enough to go around both rings
  twice, and for four sessions in a row), 1 unsolicited response. 645,439
  states.
- `hda_stream`: 4 buffers of 2 samples; samples of lengths 3, 13 and 2 (shorter
  and longer than the ring of 8, dividing it and not), a playback time longer
  and shorter than a turn of the ring, 2 playbacks so that the second meets what the first
  left behind. `StartGap` 1 and `Latency` 3 with a period of 2 are the most
  that `TimelyAssumption` permits for this ring. 1.4 million states.
- `hda_binding`: 2 controllers, 2 handles and 4 contexts, so that handles are
  used again, also by the other controller, while a stale record remembers
  them; up to 2 codecs, so that a child can be refused in the middle. 860,323
  states.
- `ac97_playback`: a list of 3 descriptors for 4 samples, the least at which
  the engine can be in one, another be queued and a third be free; writes of
  18 samples (5 buffers, so that the list wraps, the last one partly filled), of 5 (a rest of
  one sample, which is never queued) and of 0; tones of 4 and 0 samples; 2 calls, so that the
  second meets what the first left. 44,232 states.
- `codec_routing`: some 1,300 combinations of short connection lists of two pins
  and two inner nodes, over two DACs: lists that cross, are in either order, skip a
  level, lead nowhere, form a cycle of the inner nodes or return to the first
  pin; and codecs with a filtered pin (a dangling connection) and a knob. Two
  pins and two inner nodes are the least with which two routes can share a node
  and disagree about it; 2 setups, so that the second meets what the first,
  failed or not, has left. `Trace` stops after the second time around a
  cycle. 1.06 million states.
- `audio_drivers`: two AC97 controllers over one address, so that an unload can
  give up between them and memory is used again at once; one test bus controller
  with two children (five in the code: with two, a start can fail after the first, a
  stop can be refused at the second, and one child's address and handle can
  be used again for the other), two handles, two addresses; agents hold one interface at
  a time (`OneHeld`). With one address there are never two AC97 contexts at once as
  long as no `dump_registers` failed; the theorem `PcmIsBacked` is for any number of
  both. Model values are exchanged for each other where only their names differ.
  3,100,769 states.

Deadlock is checked for the rings, whose controller can always be reset. It is not for the
others: no playback or setup begins after the last one, an unloaded driver stops, and
so does a search that has come back to its pin.

Fairness. `PlaybackEnds` needs it, in both playback modules, and `SetupEnds`. `WF(Tick)`: time passes; `WF(Driver)`:
the firmware keeps running a driver that can run. The waits of the code are for
timers, which time alone brings about, and the guard `MayPass` on time encodes
the promptness that the two delay constants state. For AC97 it is `WF(Driver)` and
`WF(PlayTimer)`, an armed timer expires; nothing is assumed of the engine. For the
routing it is `WF(Search \/ Setup)`, a setup that has begun goes on.

## 4. Where code and comments disagree

1. `FreshRingsUnstalled`: rings are made anew for each codec "because the old
   ones can be broken" (1137-1139), but RIRBSTS, raised by a response that came
   after its time-out, is not cleared by `new`, and the controller fetches nothing.
   The driver only polls RIRBWP, so that the first commands time out.
2. `OthersMuted`: the loop over the volume knobs marks every node as active
   (1817 stands outside of the `if let`), so that "Mute everything else" (1819)
   finds nothing else. What an earlier setup has unmuted stays unmuted.
3. `DisconnectEndsChildren`: `hda_stop_child` closes PCI I/O for the controller
   and not for the child. The stale BY_CHILD record makes the next disconnect
   fail at a child that is gone, and the new child stays.
4. `NoneBorrowed`: a callback that disconnects the controller drops the context
   that a waiting `hda_write` still borrows.
5. `EndedByOwnTimer`: the AC97 timers are never cancelled and their events never
   cleared, so that a call which ended early, by an error or an underrun, makes
   a later one end at once.
6. `UnloadSkipsForeign`: `pcm_unload` means to pass over handles that are not its
   own ("just skip it", `src/efi-pcm-dxe/src/main.rs` 1196), but `pcm_stop` opens
   PCI I/O before it looks at the signature, and the children of the other two
   drivers have none: the unload fails, after it may have stopped controllers
   of its own.

Met while modelling, and not a run of their own:

- When the connections lead back to the pin before a DAC is found, the pin is
  given a parent, and the loop at 1676 goes around the cycle for ever, while
  `result` grows. `SetupEnds` excepts this case (`Endless`); nothing in the repository says
  that connection lists are free of such cycles.
- After an error in `stream_loop` the engine still runs, since `stream_cleanup`
  does not clear RUN, and the next `stream_setup` programs the stream
  regardless ("TBD: make sure the run bit is zero for SD like so", 1851, with the
  call commented out). `EngineOwnsBuffers` excepts what follows a failure.
- `stream_loop` drops the result of `stream_start` (1949). When RUN could not be
  set, the call waits until its timer expires and returns SUCCESS with
  nothing played. `PlayedInFull` excepts this (`StartFails`); nothing in the
  repository says what such a call should return.
- The stream is not reset between playbacks ("TBD: reset the stream?", 2097), and
  `stream_loop` takes the room to refill from the distance between two
  positions: on an engine that continues where it stopped (`LpibRestarts` FALSE)
  the second playback overwrites what was not played yet.
- `loop_samples` reads PICB and then CIV (`src/efi-pcm-dxe/src/main.rs` 695-696):
  when the engine moves on in between, the PICB of the first buffer and the
  CIV of the second look like the end of both, and the second one is cut off.
- When `dump_registers` fails, `pcm_start` drops the context and leaves the
  interface installed (`src/efi-pcm-dxe/src/main.rs` 1086); `PcmBacked` and
  `UnloadedClean` hold up to there.
- `pcm_stop` leaves the BY_DRIVER record (1150), so that a stopped controller
  cannot be started again until the image is unloaded.
- `hdbus_start` goes on after a disconnect has interrupted it, without a BY_DRIVER
  record: its children cannot be found by a disconnect any more (`cut`). A refused
  disconnect has the same effect, in the HDA driver as well, where `ChildrenRecorded` shows
  only that the child's own record is kept. A child whose
  interface could not be taken back (`src/efi-test-bus-dxe/src/main.rs` 259) keeps
  it without a context (`orphaned`).
- DEVICE_CONTEXTS of the test bus driver is safe "because we only have a single thread"
  (`src/efi-test-bus-dxe/src/main.rs` 65), but its drivers' entry points run at whatever
  TPL they are called, and a callback may come into the middle of `push` or `retain` (104-123):
  `BusRace`. The comment is about threads, so that no run holds it against the code.
- The trace period grows with the length of the samples until refills come too late
  (1944): `TimelyAssumption` rules it out, and `NoUnderrun` says nothing about it.
- After the last child of a test bus controller, PCI I/O is closed already, and
  `hdbus_stop_bus` fails to close it again: every such disconnect reports an error
  although all was done.
- Between the last look at the contexts and the uninstallation of the binding,
  `hda_unload` and `hdbus_unload` may be overtaken by a callback that starts a
  controller (`late`).
- `play_samples` unmaps the AC97 buffers before `stop_playback` stops the
  engine (`src/efi-pcm-dxe/src/main.rs` 815-820).

## 5. The proofs

All theorems hold for every value of the constants that satisfies the named
assumptions, which TLC also evaluates in each run.

**CommandRingsProofs** (`RingsAssumption`): `TypeCorrect`, `AnswersMatch`,
`StallIsPollable`, `EnginesBound`, `CursorsAgree`, `RingImplementsQueue`. That an answer
matches its command is not inductive: one has to know that between two commands
nothing is on its way (`Quiet`), and that during one the only thing that is on
its way is the command itself or its answer (`AwaitsOwn`); that at most one response
waits (`ResponsesInStep`, since RIRBSTS stalls the controller after it); which
engines run where (`EnginesFollowPc`); and that setup leaves the cursors at the
start (`CursorsReset`). An ignored error ends all of that for the session,
which is why the invariant is conditional on `broken`.

`RingImplementsQueue` is the refinement of `CommandQueue` under the mapping
`Waiting`, the slots between the cursors: the initial ring maps to the empty
queue (`QueueInits`), and every step to a stutter or to one of the abstract actions
(`QueueSteps`). `Send` only writes a slot ahead of CORBWP, which
the mapping does not see (`SendIsSafe`); `Doorbell` moves CORBWP over it and
is `Submit`; `Fetch` moves CORBRP and is `Take`; leaving the session is `Flush`.
`ExecInStep` carries what was written from `Send` to `Doorbell`, and `CursorsAgree`
turns the distance modulo the ring into the number of commands.

**HdaStreamProofs** (`StreamAssumption`, `TimelyAssumption`):
`StreamTypeCorrect`, `StreamOwnsBuffers` and `StreamPlaysInFull` for any engine;
`StreamNeverUnderruns`, `StreamInStep`, `StreamImplementsOutput` and `StreamRefillsPlayed`
for engines that restart (`LpibRestarts`; TLC refutes
`RefillsPlayed` without it, section 4). The heart of the invariant is `RingHolds`: the
unplayed samples `played..written-1` lie in the ring modulo its size, in order.
`LoopInStep` reconstructs what the driver does not know, the count of played
samples behind each LPIB reading, and bounds how far it may be behind by the
time since the last refill (`AgesBounded`); `TimelyAssumption` then leaves
less than one turn of the ring between two readings, so that the distance
modulo the ring is the distance.

`StreamPlaysInFull` needs none of this, only `TimeInv`: after a `stream_start` that succeeded
(`Started`) the engine runs until `Stop`, what is left on the playback timer and what was played
change with the same tick (`TimerInStep`), and what passed before the start is at
most `StartGap`. So neither an engine that an earlier call left running nor one that does not
restart its position matters.

`StreamImplementsOutput` is the refinement of `AudioOutput`, in which samples are heard
one at a time (`Block` 1) and started over (`Cyclic`). `Phase`, `Total`, `Heard` and
`Count` are read off the engine: what it plays is the sample whose place in the
caller's samples is in the slot LPIB points at, and `Count` is `played`, so that a
sample heard twice in a row would be a step and not a stutter. `StreamInStep` is the
state half of it: that slot holds sample `played % req.len`. A failed call
promises nothing any more and maps to "none".

`PlaybackAlwaysAdvances`, for any engine, is the safety half of `PlaybackEnds`: with
every step of a call, of the driver or of time, the measure `Ahead` becomes smaller in
`CallOrder`, the lexicographic order of six numbers, and `CallOrderIsWellFounded`.
In the loop the first of them that matters is the time until the playback
event, then the trace event that may come before it, the turn, the samples of a
copy, and the time that may pass before the driver must act. Both copy loops
take whole buffers and therefore meet their ends (`CopyInStep`). So no call goes on for
ever; that it does not come to a halt on the way is the part TLC checks.

**HdaBindingProofs** (`BindingAssumption`): `BindingTypeCorrect`,
`InterfacesOwned`, `ChildrenAreFound`, `UnloadLeavesNothing`, `LinkStopsLast`.
The strengthening adds that contexts are identified by their interfaces
(`IdsUnique`), that the binding goes only when nothing is started or left
(`UnloadedEmpty`), or something was started late, and that a disconnect's remaining children cover the
controller's contexts unless it was started again (`StopCovers`).
`ChildlessNeverReleased` proves a consequence of `hda_stop_bus` (main.rs 2486) that no run
asks for, as nothing in the repository denies it: a controller on which no child was ever made
keeps its BY_DRIVER open, whatever is disconnected or unloaded. It needs that a disconnect works on
recorded children only (`ChildrenTold`).

**Ac97PlaybackProofs** (`ListAssumption`): `TypeAlways`, `EngineInStep`,
`WriteImplementsOutput`, `QueuedIntactAlways`, `UnderrunDrainedAlways`, `FirstCallEndsInTime`, for lists and buffers of any
size. The invariant counts how many buffers were `heard` and how many `queued`
without the wrap, and relates CIV, LVI and `queue_head` to them
(`CursorsInStep`, `BuffersInStep`), the first turn of the list apart
(`FirstTurn`). The driver acts on an earlier reading of CIV: `SeenInStep` says
what that still tells, namely that the reading is less than a lap old, since
the engine halts at LVI and only the driver moves LVI.
`WriteImplementsOutput` is the refinement of `AudioOutput` with a buffer heard at a time
and none twice (`Cyclic` FALSE); a tone maps to "none". `EngineInStep` is its
state half: the descriptor the engine is at was filled from the buffer that is due.
`FirstCallEndsInTime` draws the line of the finding `EndedByOwnTimer`: the first call is ended
by its own timer (`FirstTimer`), so that it takes a second one to meet a stale event.

**CodecRoutingProofs** (`CodecAssumption`): `TypeAlways`, `PathsAreRoutes`,
`SearchFindsDac`, for graphs of any size and shape. While the search runs, every
parent is a vertex that was met, one connection away (`ParentsAreEdges`), and what was
met is queued, or holds no DAC and has only successors that were met
(`MetIsClosed`, `PivotInStep` in the middle of an expansion). When the queue is
empty, the nodes met are a closed set without a DAC, which is what
`SearchIsComplete` asks for. On the way back the path is a route to the node
before the pivot (`TraceInStep`), and the only node met without a parent is the
pin. Even the type invariant needs this: the index that is sent to a node
exists because the next node of its path is among its inputs.

**CodecRoutesProofs** (`CodecAssumption`): `SelectionsAlwaysAgree`,
`RoutesAlwaysWork`, `FirstSetupMutesOthers`, `TracesFit`, `EndlessNeedsCycle`,
`SetupAlwaysAdvances`. The first two are what the comment at 1774-1776 claims in its words "we always
choose lexigraphically first connection to a DAC". `Near(x, k)` says that a DAC is
within k connections of x, and `Firsts` pairs a node v with the first input in its
list that is as near to a DAC as any input of v. This does not depend on the pin.
The search is followed by what had been met before each node was (`Ordered`,
`QueueOrdered`): all inputs of what was met before a node's parent, and the
parent's own inputs before the node. The DAC at which the search ends is the
first one met, and from it back along the parents, each node is nearer
to a DAC than all that was met before it (`TraceOrdered`, `MetFromFirst`); so each
step of the path is one of `Firsts`, and two paths agree where they meet. The
search for a pin that gets a parent itself ends in `Endless` and is left out of
`OrderKnown`. `Plays` then says that the configured nodes are not muted and lead
to each other, or to nodes of the path at hand. A route, a recursive function whose existence
`SomeRoute` establishes, comes one connection nearer to its DAC with each step (`RouteNears`),
never meets a node twice, and so is there within `Cardinality(Nodes)` steps
(`DistBound`). What would be induction over numbers goes by a least
counterexample (`LeastIs`).

`FirstSetupMutesOthers` draws the line of the finding `OthersMuted`: after the first setup since
power-on all that is not muted is on a route. `OnlyRoutes` follows the least
set that holds the routed pins and goes along with the selections (`Reached`): no node in
it is switched again, and the path at hand joins it as a whole when its pin is
routed (`PathReached`). So what an earlier setup left unmuted is the only thing the code overlooks.

`SetupAlwaysAdvances` is the safety half of `SetupEnds`: every step of a setup that is not
`Endless` makes `Ahead` smaller in `CallOrder`, and `CallOrderIsWellFounded`: the
stages, the pins left in a pass, the stages of a pin's search and path, the nodes not yet
met, traced or configured, and the queue. That a trace runs out of nodes rests on
`DistInv`: its nodes have different distances to a DAC, so that none is there twice, and
`TracesFit` bounds the path that `hda_find_dac` collects by the number of nodes.
`EndlessNeedsCycle` tells when the excepted case can come up: only if
every set that holds the pin's inputs and goes along with connections holds the pin.

**AudioDriversProofs** (`DatabaseAssumption`, `BusAssumption`):
`AudioDriversTyped`, `PcmIsBacked`, `PcmIsReachable`, `BusIsBacked`,
`BusIsReachable`, `UnloadLeavesNothing`, for any number of controllers, children,
handles and addresses. The invariant has a part for each driver and a part that
keeps them apart: `Territories` says whose interfaces lie on which handles,
`FramesInStep` which of start and stop is on top. For the AC97 driver, contexts have
addresses of their own (`PcmAddressesUnique`), and an unload's remaining handles
cover its interfaces, or one was installed late (`PcmUnloadCovers`). For the
test bus, addresses are unique (`AddressesUnique`), a start that was not
interrupted still has its BY_DRIVER record (`StartHolds`), the context at hand of
`hdbus_stop_child` is that of its child, and a withdrawn child's handle is used by no other child of a
controller whose disconnect met no start (`StopHolds`), a stop's remaining
children cover the contexts of its controller (`StopCovers`), children are
recorded (`ChildrenRecorded`), and nothing is left once the unload has looked, nor is the
memory corrupted from then on (`BusEmptied`). Each driver's steps keep the other's part by frame lemmas
(`PcmKeeps`, `BusKeeps`), so that each is proved against its own actions only.
`StopIsFinal` proves what section 4 says of `pcm_stop` (1150): a controller that was stopped
carries no interface again as long as the driver is loaded, and keeps its BY_DRIVER record.

Only model-checked: `PlaybackEnds` (of both drivers) and `SetupEnds`, since liveness under
fairness, and that an action is enabled where a step is due, are out of the
prover's reach. For the HDA playback and the setup what is left to TLC is just
that; a call of the AC97 driver has no measure, since its loop may turn any number of
times before the timer, which only fairness brings, expires. Every safety and every
refinement property that the passing runs check is proved.

## 6. What is not modelled

- The two waits for GCTL.RST (641-660) have no time-out and would wait forever
  on a controller that does not answer; the model resets in one step.
- Memory ordering of ring memory against registers (fences at 718 and later):
  the models are sequentially consistent.
- Counts of zero samples (HDA), sample formats, the closest rate and volume are left
  out, as are allocation failures, which panic.
- `src/efi-pcm-test/src/data.rs`, 117,648 of the repository's 123,339 lines of
  Rust, is one table of samples: there is nothing in it to model. What the
  modules leave out of the remaining 5,700 lines is for the most part constants
  and names of registers and verbs, ABI declarations, and log output.
- HDA immediate commands (935-1005), which replace the rings in a build with
  `immediate_command_mode`: a busy wait without state of its own.
- Device paths (`device_path.rs`), component names (`driver_binding.rs`), the audio
  protocol and its client library (`src/efi-pcm`): layout and constants, no
  step of which depends on another.
- The runtime (`src/efi-dxe`): allocator, logger and panic handler are set
  up once; of the panic handler the models use that it shuts the machine down.
- The test applications are clients: what they may do is what the models let any
  client and any agent do.

## 7. What could come next

1. A composition of `HdaBinding` with `CommandRings`: what `hda_start` does when the
   rings of a codec probe fail, and what a disconnect during `hda_write` does to
   rings in use.
2. The HDA driver on `HandleDatabase`, next to the other two, in place of its own
   view of the database.
3. Pure operators against reference definitions: `wave`, the closest sample
   rate, the decoding of connection lists, device paths.
