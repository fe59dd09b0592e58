# Verification of z486_MiSTer

TLA+ models of the parts of the z486 PC core for MiSTer, and of the C++ simulator that
serves it, co-simulates it and saves it, in which several actors share state. TLC
checks them on small instances; TLAPS proves the core results for every value of
the constants.

Run `tlc -config <cfg> <MC module>` for a run of the table below and
`tlapm <module>` for each of the modules named `...Proofs` for the proofs.

## The system

The repository is a 486 PC: a CPU core (a git submodule, not in this tree), a system
on chip in Verilog (`src/src`), the MiSTer top level, and a Verilator host
(`src/verilator`) that plays the part of the ARM side (HPS). Almost all RTL is in one
clock domain, `clk_sys`; a hazard is therefore seldom a torn value and nearly always
an *order*: two always blocks that see each other's registers one clock late, a
request that meets a wait state, an answer that arrives after the asker has moved on.

| Component | State | Operations | Interacts with | What is hard | Correct when |
|---|---|---|---|---|---|
| DDR3 port (`system.sv` 1152-1277) | `mm_rd_pending`, the masters' states | multiplex, busy, route data | the three masters, DDR3 controller | answers carry no tag, wait states at any cycle | a word reaches the master that asked |
| Line fetcher (`svga_linebuf.sv`) | engine state, burst and line counters, request | take a request, issue a burst, store words | raster, DDR3 port | mode switches, requests while busy | each line complete and in place |
| GUS memory (`gus_ddr.sv`, `gus.sv`) | transfer state, kept word, `served` | read, write, answer from the kept word | GF1, DDR3 port | stale kept word, stalled GF1 clock | reads see the last write |
| Main memory (`main_memory.sv`) | request FSM, counters | SDRAM, VGA, framebuffer, mailbox, unmapped accesses | CPU, SDRAM, VGA, DDR3 port | one request over several back ends | one answer per request, in order |
| SDRAM (`sdram.v`, x2 wrapper) | bank FSM, refresh, DMA queue | read, write, refresh | main memory, DMA | refresh against bursts, two clocks | reads see writes, refresh in time |
| IDE channel (`ide.v`) | task file, status, buffer, two counters | guest register access, mgmt access | guest driver, host | two sides of one buffer | the block offered is the one asked for |
| Disk host (`ide_hps.cpp`) | 20-state machine, registers, packet state, image | `tick`, `handle_cmd`, `handle_packet` | `ide.v` over the mgmt bus | resets at any point, state left by an abandoned command | every command ends and moved its data |
| PICs (`pic.v`) | IRR, ISR, IMR, priority, vector | edge detect, ICW/OCW, acknowledge | lines, bridge, software | withdrawn requests, nesting | ISR follows the handlers |
| INTA bridge (`pic_inta_bridge.sv`) | 3-state FSM | two INTA cycles | PIC, CPU | vector and acknowledge are a clock apart | one acknowledge per vector, of that vector |
| I/O bus (`iobus_adapter.sv`, `sysctl.sv`) | byte FSM | split accesses | CPU, devices | wait handshake | each byte accessed once |
| DMA (`dma.v`) | channels, address, count, hold register | transfer, program | devices, memory | posted writes, programming during a transfer | count and address agree with data moved |
| Floppy (`floppy.v`, `HpsFloppy`) | state machine, FIFO, position; host state, image | read, write, format by DMA; `tick` | DMA, host over the mgmt bus | shared mgmt bus, terminal count, resets in mid-sector | every command moves the sectors it names and ends |
| PS/2, RTC, PIT | queues and counters | register access, ticks | PIC, devices | read while updating | no byte or tick lost |
| Sound (`sound_dsp.v`) | DSP command state | commands, DMA blocks | DMA, PIC | command during a block | IRQ once per block |
| VGA (`vga.v`, `vga_tv15.sv`) | CRTC and planes | CPU access, raster | main memory | mode change in mid-frame | picture, mostly timing |
| Pixel clock (`dot_resync.v`, `dot_pll_cfg.v`), `common/` FIFOs | pointers, PLL sequence | cross domains | video | unrelated clocks | no word lost, no half-programmed PLL |
| Co-simulation (`cosim_host.cpp`, `cosim/`) | reference CPU, RAM, queues of issues, reads, writes, vectors | one clock of taps, step and undo, match, interrupt, save, restore | z486's taps, main loop | reads come late, writes in another order, instructions are cut or squashed | a divergence is reported if and only if there is one |
| Control server (`control_server.cpp`) | two atomic descriptors, a command queue, a thread | start, accept, receive, queue, drain, stop | clients, main loop | both threads close descriptors; stop against a blocked call | every descriptor closed once, every acknowledged command done, stop returns |
| Checkpoints and snapshots (`main.cpp` 2162-2539, `snapshot.cpp`, `cosim_host.cpp` 528-664) | directories, `latest.txt`, keyframes | save, prune, sweep, restore | main loop, co-simulation, file system | death between two file operations, failing writes | what is complete can be restored, exactly |
| Main loop (`main.cpp` 2541-2945) | `current_cycle`, `running` | poll, clock, save, end | everything above | order within an iteration, restored cycle numbers | time counts the clocks made |
| Rest of the simulator shell (`main.cpp`, misterfs) | scripts, windows, files | input, drawing, shared folder | guest | I/O | |

`PROJECT.json` lists every component with its status, and the hazards line by line.

## Modules

### DdrPort

The DDR3 port after boot and its three masters: line fetcher (`lf`), GUS (`gus`) and
main_memory's framebuffer and mailbox path (`mm`). A step, `Clock`, is one edge of
`clk_sys`: the conjunction of one step of every always block (`LineFetcher` and its
states, `GusDdr`, `MainMemoryFb`, `RdPending`, `Raster`, the GF1 side) and of the
external DDR3 controller, which may raise waitrequest in any cycle and answers accepted
reads in order, a word at a time, after any delay. `q` holds the reads accepted and
not yet fully answered, each tagged with the master that asked: a ghost the hardware
does not have, and which the properties compare with the routing by ownership that it
does have. GUS bytes are kept by value, so that stale data is visible; framebuffer
data is not (only its place).

`FreeRelease` says whether the two switches (`video_fb_native`, the OSD's `gus_on`)
may be thrown at any time, as in the code, or only while the switched master is idle.

### IdeHost

`ide.v` with one `HpsIde` object. The host's `tick` and the clock edge alternate
(`Tick`, `Edge`), as in the main loop of `main.cpp`. `Tick` has one operator per state
of the C++ machine. The guest's driver (external) issues READ, WRITE, IDENTIFY and
PACKET commands, moves data, reads the status, and resets. `h` holds the host's fields,
`g` the guest's view: what it asked for, what it has moved, what it may rely on being
on the disk (`g.disk`) and the sectors a cut-off write leaves undetermined (`g.unsure`).
What it may write into the task file is the constant `Tasks`, a set of task files
(`TaskFile`) with a command of `Commands` for each kind of drive, and its packets are the
constant `Packets`; both sets are arbitrary for the proofs. `Geometries` are the geometries
the tasks can set, and `AddressesFit` says that each read and write names sectors its
registers can hold, and `PacketsFit` that each packet's answer fits its byte count limit and
the disc; TLC evaluates both for the tasks and packets of MCIdeHost.

A packet whose allocation length is zero is answered by a block of no words
(`ide_hps.cpp` 609, 625, 691, 710, 734, 751; 511-517): the host raises DRQ with a block
size of 0, `ide.v:233` ends a block only at its last word, and the command hangs until a
reset. `EmptyBlock` is that state, one of the packets of MCIdeHost leads to it, and
`CommandEnds` names it as the only way, beside the end, in which a command may stop.

Left out: 32-bit accesses and the fast read path, nIEN, contents of error codes and of
the second (HOB) register bytes. Assumed: the mgmt bus belongs to this channel (the
second channel and the floppy are idle), guest accesses are more than two clocks apart,
a soft reset is held until the host has taken it. CD reads past the end and aborted
packets occur only in the `ide_stale_packet` run, because that run shows they upset
the next packet.

### PicInta

Two `i8259`s wired as in `pic.v`, the bridge, the interrupt lines, and a CPU (external)
that programs the chips, takes interrupts with two INTA cycles, nests handlers, looks
for spurious interrupts before it enables interrupts again, and sends the EOIs. A step
is one clock edge. Vectors are pairs of chip and level, the offset of ICW2 being left
out; so are the poll command and the reading back of registers. Levels per chip is a
constant (`N`, 8 in the code).

`FreeLines` says whether lines may change at any time, as in the hardware, or stand
still from the CPU's decision to take an interrupt to the vector (five clocks). The
passing run needs the second, and the `pic_vector_race` run shows why.

`misled` is a history variable. A request that goes away after INTR was raised is
answered as spurious with `irq_value` (`pic.v:340`), the vector of the first request still
selected. With none selected that is the last level; but when another request waits
behind a running handler the vector names that one, even one of the slave, and the CPU
runs and ends a handler that no chip has in service. `Misleads` is that event. The
repository nowhere says which vector a spurious interrupt has, so this is recorded as a
hazard and not as a finding; the properties about handlers hold until it happens, and
without `~misled` TLC finds them violated with the two highest lines of the master and one
of the slave. The case came to light in the attempt to prove them. `Writes` are the OCWs software may write beside its EOIs, a subset of the
chip's commands (`WritesAssumption`).

### DmaPath

`dma.v` (both 8237s, the grant, the registered memory port), the hold register of
`system.sv`, the arbitration of `sdram.v`, the devices' request lines and software
(external) that programs blocks. A step is one clock edge. `prog`, `mask`, `pending` and
`eng` are the registers of the same names; `sd` keeps of the SDRAM its state and its
ready and response pulses: an access takes any time, refreshes and CPU accesses come at
any time. An item stands for a byte or a word, two digits for the two bytes of a
register. `expect`, `moved` and `ended` are bookkeeping: what memory and terminal count
should be, from the block and the acknowledges alone.

Left out: the command register and software requests, writes of the whole mask, reading
registers back, byte lanes, the cache's snoop port, CPU writes to the cells of a block, and the
clock-doubling SDRAM wrapper. Software reprograms a channel only while it is quiet. The
checked instance has one channel per chip: with two, a write to the mask register in
the clock of the other's terminal count drops the masking (`dma.v:564-570`) and
`AckWanted` fails; this is listed as a hazard.

### FloppyHost

The sector path of `floppy.v` and the class `HpsFloppy` of `main.cpp`. A step is one
clock: the host's `tick`, as far as the IDE hosts leave it the mgmt bus, and the rising
edge of the controller's registers (`NextState`, `Edge`), its FIFO and the DMA channel
(external, granted at any later clock). `IdeTick` is a clock in which an IDE host has
the bus. Bytes are kept by value and the image by sector, and `req.want`, computed from
the command alone, is what a read should return or a write or format leave behind. The
clocks from S_PREPARE_COUNT to S_SD_CONTROL and the 4000 clocks between two sectors are
one clock each, in which nothing else can happen to the sector.

Three things are not promised by the code, and two history variables exclude the
commands they happen to: `disturbed` (an IDE host drives the shared address in the clock
before the floppy host takes its data, or a checkpoint, which holds neither the host's
state nor the image, is restored in mid-command) and `hung` (a software reset clears the
command but not the state machine; a terminal count inside a sector of a read leaves
bytes in the FIFO that nobody fetches). Left out: PIO, seek and status commands, result
bytes, media registers; the image is writable in the checked instance.

### Cosim and Lockstep

`Cosim` is the co-simulation: `m` is the reference (`cosim86.c`, `stubs.c`,
`iss_glue.h`) with its host (`cosim_host.cpp`), `d` the z486 it watches. `HostCycle` is
one call of `cosim_host_cycle`, a function of `m` and of that clock's tap: reset, read
request, read completion, write, DMA or page walker write, RPTI, issue; then
`ProcessIssues`. `Run` is one instruction of the reference: it reads device and port
bytes z486 has returned, stages its writes, faults, and is undone as a whole when a byte
is missing (`Try`). `MatchWrite` and `MatchIo` pair both sides' writes in either order.

z486 is a submodule that is not in the tree, and so is 86Box. The first is modelled by
what its taps may show: two instructions in the pipe, reads that complete late, a store
buffer that drains in order between groups and in any order within one, faults with a
younger instruction already issued, RPTI, HLT, the interrupt shadow, warm resets. The
second is replaced by a small instruction set with one instruction for each kind of
control the reference has: loads and stores of RAM and devices, port I/O, split and
faulting stores, REP strings, undefined flags, PUSHF, x87 instructions, WAIT, far jumps
into an absent page, STI, HLT, IRET. One step of the model has one tap.

`Lockstep` is the abstract specification: z486 and the reference are two followers of one
stream of instructions, faults and interrupts, the one ahead fixes the next entry and the
other takes the same one, and neither is further ahead than a small number. `Cosim`
implements it (`FollowsLockstep`) with each side's history as the mapping.

`AnyPoint` says whether states are saved wherever the code allows it. The run has
`FALSE`: `host_write` does not save `dev_last`, `g_cur_restarted`, `g_ram_copied` and
the last RPTI level, and a checkpoint restored where one of them matters makes the
reference go its own way. Neither does a warm reset clear `g_cur_restarted`. Both are
listed as a hazard. Left out: a frozen x87 with unmasked errors, the ENTER probe, the
lenient x87 mode, the A20 gate, and the limit of 4096 bytes of an instruction's undo log
(`MAX_MEM_LOG`): undo is exact here.

### ControlServer, SnapshotStore and SimHost

`ControlServer` has the server thread (`srv`) and the thread that calls `start` and
`stop` (`stp`), one access to a shared atomic or one system call per step. Descriptors
are numbers that the kernel hands out again, so the model keeps apart a number and the
socket it stands for; a blocking call holds its socket from its begin on, and only data
or `shutdown` wakes it.

`SnapshotStore` has the directories of `save_checkpoint` and `save_snapshot`, one file
operation per step, in the code's order: temporary files, keyframe, page differences,
removal of an old directory of the name, rename, `latest.txt` (emptied, then written),
pruning by name, sweep of the keyframes no `meta.txt` names. `fs::remove_all` may be cut
off half-way.

`SimHost` composes both with the process that runs them: start, restore, the loop with
its snapshot, control poll, clock and checkpoint, the end, a kill at any moment and the
next start on the same directories. `clocks` is what `sim_time` counts. A fresh start has
made `SetupClocks` of them before cycle 0: two `full_step`s around the reset and two for each
of the 142 registers `configure_x86_management` writes, some 286 (`main.cpp` 1878-1886). A
restore takes the count from the file (`LoopStart` says at which cycle it goes on).
`ClockExact` is that `sim_time` keeps exactly that distance from `2 * cycle`; `TimeAsDocumented` is that
one at least of two sentences of the documents holds, which promise more: a behaviour that
violates it breaks both. A checkpoint's `harness.bin` is read without a look at the stream
(`read_pod`, 305-307): one cut off behind its first words is restored, and what is missing
keeps the value the process began with (`RestoreCut`, `Leftovers`).

Not promised by the code, and left out by history variables: `spoiled` (a run that went
back to an older snapshot saves names that sort before the ones it finds, and pruning by
name removes the newest save first, or the keyframe it uses; `meta.txt` and a
checkpoint's `harness.bin` are written without a look at the stream) and `strayed` (this
run, or one it goes back to, restored a cut `harness.bin`, or a checkpoint of the control
port, which is saved before the clocks of its iteration and restored after them, so that
they are never made). `SnapshotRestores` and `ClockExact` do not catch those cases.
Commands that were queued after the last poll are never carried out.

## Runs

| Run | Module / cfg | Expected | Shows |
|---|---|---|---|
| `ddr_port` | MCDdrPort / DdrPort.cfg | pass, 81,148 states | data is routed to the master that asked; lines are in place; no master waits for a read nobody made; GUS reads are exact; CPU and GF1 accesses end |
| `ddr_mode_switch` | MCDdrPort / DdrPortModeSwitch.cfg | violation of `BurstHeld` | a mode switch in mid-burst hands the rest of the burst to main_memory |
| `ide_host` | MCIdeHost / IdeHost.cfg | pass, 184,668 states | blocks, packet responses and the written image are exact, counts are met, every command ends but those answered by a block of no words, across resets |
| `ide_jitter` | MCIdeHost / IdeHostJitter.cfg | violation of `WrittenIsKept` | the jitter option makes the host store shifted data |
| `ide_stale_packet` | MCIdeHost / IdeHostStalePacket.cfg | violation of `SenseSucceeds` | an abandoned CD read is continued by the next packet |
| `pic_inta` | MCPicInta / PicInta.cfg | pass, 42,500 states | in-service bits follow the handlers; nesting by priority; no request lost; spurious interrupts are of the master's last level; the vector returned is the one acknowledged; the first outstanding request the masks let through is served, while software masks and unmasks |
| `dma_path` | MCDmaPath / DmaPath.cfg | pass, 40,336 states | DMA reads and writes hit exactly the cells of their block, acknowledge and terminal count are exact, granted transfers end |
| `pic_vector_race` | MCPicInta / PicIntaRace.cfg | violation of `VectorAcknowledged` | the vector returned and the one acknowledged can differ |
| `cosim` | MCCosim / Cosim.cfg | pass, 308,293 states | no false alarm, the reference follows z486's path (refinement of `Lockstep`), snapshots are exact, every issue is processed in the end |
| `simhost` | MCSimHost / SimHost.cfg | pass, 640,302 states | descriptors are closed once, acknowledged commands are carried out in order, complete saves restore exactly after any kill, `sim_time` keeps its distance from `2 * cycle`, `stop` returns |
| `simhost_time` | MCSimHost / SimHostTime.cfg | violation of `TimeAsDocumented` | a fresh start has made clocks before cycle 0, and a run that goes back to a checkpoint of the control port leaves one out |
| `floppy` | MCFloppyHost / FloppyHost.cfg | pass, 172,070 states | reads return and writes and formats change exactly the sectors named; commands end |

Bounds, and why they are enough:

* `ddr_port`: bursts of 2 words and lines of 0 and 3 words, so that a line has a full
  and a short burst and the empty line is met; mailbox reads of up to 2 dwords; two GUS
  words of one 16-bit lane pair with two byte values, read both and written by byte, so
  that a hit in the kept word, a miss and a write to the kept word all occur. The
  ordering hazards need one burst boundary and one change of owner each.
* `ide_host`: sectors of 2 words, 3 sectors, geometry of 1 head and 2 sectors per
  track so that CHS carries into the cylinder, transfers of 1 and 2 blocks, CD chunks
  of up to 2 sectors, two commands in succession (state left by the first meets the
  second), one reset at any point; CD answers of none, one and several words.
* `pic_inta`: four levels per chip with the cascade at level 2; the highest line of the
  master and the lowest of the slave, which software masks and unmasks on the slave and on
  the cascade at any time; handlers nest two deep, over both chips. The slave's line has the
  level of the spurious vector and the one that an empty in-service register reads as. With
  a third line liveness takes TLC too long; a spurious vector that misleads needs three lines
  of different priority, so that `misled` stays FALSE here, and the theorems, which hold for
  any lines and writes, cover it. `pic_vector_race` has two lines of the master, one of which
  replaces the vector of the other.
* `dma_path`: pages of four cells, registers of two digits of base 2; blocks that
  overlap, cross the end of their page, count down, autoinitialise and verify; two
  blocks, so that one channel runs while the other is programmed or competes with it;
  three items per device, one more than a block has.
* `cosim`: nine programs of one to five instructions and two handlers, each made for a few of the hard cases
  (late and doubled device reads, split and faulting stores, REP strings cut by an
  interrupt or a fault, undefined flags before PUSHF, x87 and WAIT, HLT, STI, a fetch
  fault), with interrupts, a warm reset, a save and a restore at any point of those that
  ask for them; errors of z486 (a wrong or a lost write) in some. `RegPersist` is 3, more
  than the issues a load can trail in a pipe of two; 64 in the code.
* `simhost`: six scenarios, because the product of all faults is too large: control port
  with two clients, a queue of 2, a flood and a quit; snapshots of four pages with two
  kinds of change, so that a keyframe is shared, replaced because a quarter of the pages
  differ and replaced because it is used up, two kept, and a kill anywhere; both kinds of
  save; each write failing; a control-port checkpoint that fails or is gone back to.
  `SetupClocks` is 3: any number but 0 shows whether a save or a restore loses or repeats
  it; the theorem has it arbitrary. `simhost_time` has one scenario: two iterations, one checkpoint, two
  lives and writes that all succeed.
* `floppy`: sectors of 2 bytes, 2 sectors per track, 2 heads, 2 cylinders; commands over
  the side, over the cylinder, with `eot` inside the track, off the end of the disk, with
  a count that ends inside a sector; two commands and two faults.

Fairness:

* DdrPort: the clock ticks, waitrequest is not raised for ever while a request is
  offered, accepted reads are answered; the Avalon slave promises the latter two.
* IdeHost: `Tick` and `Edge` are weakly fair (the main loop never stops); the guest
  driver goes on moving data and releases a reset (strongly fair, because the host's
  ticks disable these in between).
* PicInta: the clock ticks whether or not a line changes or software writes; handlers end; the CPU takes
  an interrupt that is offered again and again. The last is the guest's duty (it must
  enable interrupts).
* DmaPath: the clock ticks, SDRAM accesses and refreshes end, and the SDRAM takes a
  DMA request it is offered again and again: port 1 goes before the CPU and a refresh
  is due only every `REFRESH_CYCLES`.
* Cosim: the bus answers z486's reads and z486 asks for what its instruction needs. It is
  weak fairness of `Request \/ Complete` with the enabling condition written out
  (`Reading`). Nothing is assumed of issues: a z486 that stops issuing is allowed.
* SimHost: both threads are scheduled (`Main`, `ServerThread`); nothing of clients.
* FloppyHost: clocks go on and the IDE hosts leave ticks over, as a disk command ends;
  DMA requests are granted (`DmaPath`'s `TransferEnds`).

## Findings

1. **Mode switch in mid-burst** (`ddr_mode_switch`). `svga_linebuf.sv:277` returns to
   idle on `~enable` whatever is outstanding; `system.sv:1152-1156` promises that the
   port is held for a whole burst. The words that follow are routed to main_memory's
   or the GUS's pending read.
2. **Jitter corrupts writes** (`ide_jitter`). `ide_hps.cpp:1193` takes the data of the
   previous tick's read; the jitter option lets clocks pass in between, in which `ide.v`
   reloads it. The option is meant to expose races of the core, not to make its own.
3. **Stale CD transfer** (`ide_stale_packet`). `packet_remaining_` is not cleared when a
   CD read fails or is cut off; the next data-in packet continues that read.
4. **Vector race** (`pic_vector_race`). The bridge samples the vector a clock before
   the PIC acknowledges what it holds by then. A higher line rising at the right
   moment is acknowledged in place of the interrupt delivered; when the one delivered
   was a withdrawn request of the slave, a line of the master is lost altogether.
5. **Clocks before cycle 0** (`simhost_time`). `main.cpp:1360` and
   `verilator/README.md:124` say that simulator time is `2 * cycle`; a fresh start has
   counted some 286 clocks before the loop, and `sim_time` is never set back, so that it is
   ahead by about 572 in the whole run.
6. **A clock left out** (`simhost_time`, the same counterexample). `verilator/README.md:202-203` recommends
   checkpoints when a run must replay cycle for cycle. One asked for on the control port is
   saved before the clocks of its iteration, and `main.cpp:2418` goes on at the next cycle
   as after any other checkpoint: the run that replays is one clock behind.
   The counterexample begins afresh three clocks ahead, saves in cycle 0, and its second
   process begins cycle 1 with three clocks where the first had four.

Two things the code does that no document speaks of are hazards and not findings: the
spurious vector that names a waiting level (PicInta), and the command that hangs because its
packet's allocation length is zero (IdeHost).

## Proofs

Each theorem holds for all values of the constants that satisfy the module's ASSUMEs,
and for the hypotheses named here.

| Module | Theorem | States | Hypotheses |
|---|---|---|---|
| DdrPortProofs | `PortSharing` | the inductive invariant `RouteInv` | `FreeRelease = FALSE` in all of this module |
| | `DdrPortTypes` | `TypeOK` | |
| | `Routing` | `RoutedToRequester` | |
| | `LineInPlace` | `LineWordInPlace` | |
| | `NoLostRead` | `WaiterHasRead` | |
| | `SampleReads` | `SampleReadExact` | |
| PicIntaProofs | `PicTypes` | `TypeOK` | none |
| | `VectorSafe` | `VectorAcknowledged` | `FreeLines = FALSE` |
| | `RequestSafe` | `NoRequestLost` | `FreeLines = FALSE` |
| | `ServiceSafe` | `ServiceMatchesHandlers` | `FreeLines = FALSE`, `OnlyMasks`, `Cascade # N - 1` |
| | `NestingSafe` | `NestedByPriority` | the same |
| | `SpuriousSafe` | `SpuriousIsLast` | the same |
| DmaPathProofs | `DmaTypes` | `TypeOK` | none |
| | `MemorySafe` | `MemoryExact` | behaviours with `[][Unhurried]_vars` |
| | `ReadSafe` | `ReadExact` | the same |
| | `TcSafe` | `TcOnLast` | the same |
| | `AckSafe` | `AckWanted` | the same, `FloppySingle` |
| | `ApartSafe` | `[][Unhurried]_vars` | `Apart` |
| SimHostProofs | `DescriptorsSafe` | `DescriptorsOnce` | none |
| | `QueueSafe` | `AcknowledgedInOrder` | none |
| | `ClockSafe` | `ClockExact` | none |
| | `SnapshotsSafe` | `SnapshotRestores` | none |
| IdeHostProofs | `ControlCorrect` | the inductive invariant `ControlInv` | none |
| | `TypeCorrect` | `TypeOK` | none |
| | `TransfersComplete` | `TransferComplete` | none |
| | `FirstBlockSilent` | `FirstWriteBlockSilent` | none |
| IdeHostDataProofs | `DataCorrect` | the inductive invariant `DataInv` | `AddressesFit`, `~Jitter` |
| | `BlocksExact` | `BlockExact` | the same |
| | `WritesKept` | `WrittenIsKept` | the same |
| | `PacketCorrect` | the inductive invariant `PacketInv` | `PacketsFit`, `~Jitter`, `~CdAborts` |
| | `PacketResponsesExact` | `PacketResponseExact` | the same |
| | `PacketsEndComplete` | `PacketEndsComplete` | the same |

**DdrPort.** The routing property is not inductive: that the owner of the port is the
asker says nothing about a master that has raised its request and not yet been accepted.
`RouteInv` adds that at most one read is outstanding, and whose (`OneRead`); that the
fetcher's burst, word and buffer counters agree with that read (`LfCounters`); that a
GUS transfer has its request latched (`GusTransfer`); that a switched-off master is
idle (`OffIsIdle`); and that `mm_rd_pending` is set exactly when main_memory waits
(`PendingIsWait`). The proof takes one lemma for the effect of each master's step and
combines them, as a clock edge is the conjunction of all. `SampleReads` adds
`KeptCoherent`: the kept word, when valid, equals memory.

**PicInta.** `TypeInv` is the type invariant with what the types need: how far the boot has
initialised each chip (`BootPhase`), how the bridge goes with the CPU through the two INTA
cycles (`BridgePhase`) and the depth of nesting. `VectorSafe` rests on `Resting`: with the
lines still, the slave's request register has followed its lines after one clock of the
INTA sequence (`Stable`) and its request and vector after two (`Settled`), and the master,
whose cascade input is the slave's request, one clock after that; the vector is sampled
later still, so that the chips hold the same one when they acknowledge. It needs no
assumption about what software writes. `RequestSafe` adds that the vector the CPU receives
is that of the request the chips drop. For the handlers, `Serving` relates the whole stack
to both in-service registers (`Ranked`: the bits are those of the stack's handlers, which
stand in order of priority; `OddOnTop`: a spurious handler is on top, with interrupts off)
and `Asking` says the chips are in fully nested mode and a request the CPU answers is
still there or noted as gone. A non-specific EOI clears the highest bit; that this is the
bit of the handler on top follows from `Ranked`, and no weaker statement about the sets
alone is preserved. `OnlyMasks` says that software writes masks and no rotation, special
mask or specific EOI: the other modes are meant to break the nesting order. `Cascade # N - 1`
keeps the spurious level apart from the cascade; in the code they are 7 and 2.

**DmaPath.** `PathInv` says of each channel where its driver is (`Fresh`, `Closed` with
`Stage`: which registers and which half of them agree with the block after each of the nine
writes, and where the flip-flop points) or, once it is programmed (`Ready`), that address
and count are those of the block so many items on (`Within`, modulo the page and the length
of the block) or that the block is over and the channel masked (`Over`); and that at most
one engine is busy, in a state of its channel's transfer and at its address (`EngineInv`,
`Course`), with a device that still asks (`Wanted`). The lemmas on quotients and remainders
carry `Within` over one item, up and down and round the end of the page, for every base of
the digits. `DataInv` follows an item through the registers: a read is at the port, in the
hold register, in the SDRAM or answered (`Reading`), and there is none outside the state in
which the engine waits for it (`Calm`), so that no answer can be taken for another; the request the
SDRAM has accepted is still in the hold register for one clock (`Taken`), which is why
memory and hold register are taken together in `MemoryExact`. `Unhurried` excludes the one
race in which the code does otherwise: a mask write for one channel in the clock of another
one's terminal count, on the same chip, loses the mask the terminal count sets (dma.v:570),
and the channel runs on past its block. `ApartSafe` shows that it cannot happen while each
channel in use has a chip of its own, as in the checked instance; for two channels on one
chip the theorems hold of the behaviours without it. `FloppySingle` says that no block of
the floppy is repeated: pending registers the floppy's request before the floppy has seen
its terminal count (floppy.v:824, 834), so a channel that stays open is granted once more.

**SimHost.** The components' invariants are proved in ControlServerProofs and
SnapshotStoreProofs and combined. `ServerInv`: every open number is held by exactly one of
the listener, the published client, the server thread's local and stop()'s local
(`HeldExactly`, `HeldOnce`), and the two threads' places are in order (`ThreadOrder`). The
exchange of `client_fd` moves a holding from one to the other; `DescriptorsOnce` says
nothing about who holds a number and is not preserved by itself. `StoreSafe`: a whole
directory has a whole keyframe that rebuilds its memory (`WholeRestores`), what the job
under way has written so far, and that the keyframe in memory is that of the file
(`JobKey`); a kill between any two file operations preserves it because each step only adds
to a temporary directory, or removes what nothing whole refers to. `LoopInv` adds where in
the loop time and clocks differ by one more than `SetupClocks` (`PhaseClock`), and that every
directory and the job keep the same difference unless they are of a run that has strayed
(`DirClocks`, `JobClock`), without which a restore would lose it. `SnapshotsSafe` speaks of
directories that are not `spoiled`: every save was of a later cycle than the entries it found,
and no write failed without notice.
`QueueInv`: what was accepted is what is done, then the batch, then the queue.

**IdeHost, control.** A tick is a function of the twenty-odd states of the C++ machine and an
edge the conjunction of a dozen always blocks, so both are first put into a flat form: a
*move* says which fields of the host or which registers change, and to what (`TickMoves`,
`EdgeMoves`). Then each move is shown to keep each part of the invariant. The parts are:
types (`RtlType`, `HostType`, `GuestType`, `DataType`); what stands on the management bus in
each state of the host (`BusInv`); where the host can be while each request stands, and that
a block offered is the last one exactly when the host will be idle after it (`ServeInv`);
that the block size is the one the host means once its register is written, and that the
guest's position, `io_cnt` and the strobe under way agree (`MoveInv`); that the host answers
the task file the guest wrote, which a reset in between could replace (`AskInv`,
`PlaceInv`); that the sectors left in the host's count and the blocks moved add up, with the
block in hand on one side or the other (`CountInv`); and that no interrupt is owed before
the first block of a write (`SilentInv`). `TransferComplete` speaks of the end of a command
only, and `FirstWriteBlockSilent` of one of its states: neither says where the count was
before. The host is described by its *place*, the state it will be in once the six registers
are written, since the guest sees the answer one clock before the host's own state moves on.
Nothing is assumed about resets, `--jitter` or aborted packets: the control part holds with
all of them.

**IdeHost, data.** `DataInv` follows a sector. `GeometryInv` and `CutInv`: the host's heads
and sectors per track are the guest's, or the command that sets them stands, or a reset has
cut that command off and the guest no longer relies on it. `AddressInv`: the address in the
host's registers is that of the next sector of the transfer (`Ahead`, counted from what is
left), and the sector in hand is the one before or that one; the lemmas on cylinder, head
and sector show that `put_lba` inverts `get_lba` for every geometry, so that no induction over
the sectors of a transfer is needed. `PointerInv`: the pointer of the management side, at the
end of the access under way, counts with the host, and every access to another register
returns it to zero. `FetchInv`: the word read is the one under the pointer, two clocks later;
this is what fails with `--jitter` (the `ide_jitter` run), hence the hypothesis. `BlockInv`:
the words of the buffer are those of the source as far as the host has come, and stay so
while the block is offered. `WriteInv` and `KeptInv`: a block the guest has moved is in the
buffer, or in the image as far as the host has come, or cut off by a reset and then among
the sectors the guest is not sure of; every other sector is as the guest knows it.
`AddressesFit` leaves out only what a drive could not answer: sector 0 of a track in
cylinder, head and sector form, and a transfer that runs over 2^28 sectors; transfers over
the end of the image are included.

**IdeHost, packets.** `PacketInv` follows a packet and its answer. `CollectInv`: the words the
guest has written are those of its packet, in order, and the host has copied as many as it has
counted; nothing of the packet before is in the way. `StreamInv`: the answer is cut into what
the guest has taken (`g.off`), the block in hand and the sectors left (`h.rem`), which add up
to its length; the words of the block, in `data`, on the bus or in the buffer, are those of the
answer behind what was taken (`Base`), and `plba` is the sector the next chunk begins with. The
chunk is whatever the limit and the buffer allow, so that no induction over the blocks is
needed: the lemmas on chunks (`ShiftedDivision`, `ChunkSum`) say that a sector and a word
of it are found the same way from the middle of a read as from its start. `EndInv`: a command
at its end without an error has had the whole answer; `SenseInv`: the key in the host is the
one the guest may be told. `RestInv`: nothing is left of a read while no block of it is sent.
It is this part that the code does not keep in general, and that the hypotheses are about:

* a reset in the middle of a read leaves `h.rem` (`CdAborts`; the `ide_stale_packet` run), and
  so does a read beyond the disc (`PacketsFit`): a later packet's answer is then followed by
  sectors of the old one;
* an answer of a fixed length, or a sector, longer than the byte count limit is cut short and
  the rest never sent (`PacketsFit`).

On instances with such a reset, such a read or such a limit TLC finds `PacketResponseExact` or
`PacketEndsComplete` violated, so none of these hypotheses can be dropped. `~Jitter` is what
`FetchInv` needs: with it the host may read the words of a packet shifted.

Assumptions on constants: `DdrPortAssumption`, `PicIntaAssumption` and `WritesAssumption`,
`DmaPathAssumption`, and those of ControlServer (`LinesAssumption`: clients send sequences of command lines; the
queue limit is a number), SnapshotStore, SimHost and IdeHost (`IdeHostAssumption`: a sector, a
chunk of CD sectors and a packet fit the buffer; `TasksAssumption`, `PacketsAssumption`: the
guest's task files and packets have the fields of one, and a response fits the buffer;
`BlkHiAssumption`: the value that marks a CD's block size as not yet written is larger than
any block). They state types and sizes, and that the cascade is no line of its own.
`PacketsAssumption` leaves no answer out: the host sends whole words, so that the number of
words is zero exactly for an allocation length of zero, and request sense data, whose content is
one value here, is there or is not.

Only model-checked:

* Liveness (`CpuAccessEnds`, `Gf1AccessEnds`, `CommandEnds`, `FirstIsServed`,
  `TransferEnds`, `IssuesProcessed`, `StopReturns`, `FloppyCommandEnds`): fairness and ENABLED
  are out of the prover's reach.
* Cosim, with its refinement of `Lockstep`: the reference steps, matches writes and
  processes issues with folds over queues of any length, so that a proof for every program
  would be an induction over data.
* FloppyHost's `SectorExact`: the sector arithmetic is that of IdeHost, but the controller
  walks the sectors of a track itself while the host is disturbed by the disks.
* PicInta's handlers in rotating and special-mask modes.

## Plan

Next modules, in order:

1. `MainMemory`: the complete request FSM with SDRAM, VGA and unmapped back ends, as
   an implementation of an abstract one-answer-per-request memory; burst lengths at
   the 3-bit counter's limit; planar framebuffer accesses with several byte enables.
2. `LineFetch`: the raster side of the line fetcher with line numbers and buffer
   halves; the request raised in the cycle in which the engine takes the one before.
3. `IoBus`: `iobus_adapter.sv` with the devices' wait handshake; each byte of an access
   reaches its port once.
4. The mgmt bus with two disk hosts and the floppy at once (IdeHost and FloppyHost each
   have the others as a disturbance only); master clear during a transfer in DmaPath.
5. `Ps2`, `Rtc`, `Pit`, `SoundDsp`: queues, interrupts and two-byte accesses.
6. `DotResync`, `AsyncFifo`: the clock crossings, with two clocks that tick freely;
   `DotPllCfg`.

Theorems worth proving next: `SectorExact` for FloppyHost, for commands of one sector first;
`TypeOK` of Cosim.

## Not modelled

The CPU and 86Box are submodules whose directories are empty here; their visible
behaviour is modelled as external. The vendored sound cores and the MiSTer framework are
third-party code. VGA pixel arithmetic, and the simulator's drawing, option parsing,
screenshots and input scripts are computation or I/O without interaction. The shared
folder host serves one request at a time in step with the guest and forwards it to the
host's file system.
