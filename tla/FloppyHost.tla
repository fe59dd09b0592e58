---------------------------- MODULE FloppyHost -----------------------------
(* The floppy controller's sector path (src/src/soc/floppy.v) and the host    *)
(* that serves it (class HpsFloppy in src/verilator/main.cpp).  The           *)
(* controller asks for one sector at a time and passes its bytes through a    *)
(* FIFO between DMA and the mgmt bus; the host reads the sector's number and  *)
(* then pushes or pops one byte a clock.  Reads, writes and formatting of a   *)
(* two-sided disk by DMA; seeks, status commands and PIO leave no trace in    *)
(* the sector path and are left out.                                          *)
EXTENDS Integers, Sequences, FiniteSets

CONSTANTS
  Size,         \* bytes of a sector
  Spt, Cyls,    \* geometry: sectors per track, cylinders, two heads
  Writable,     \* floppy_writable
  Commands,     \* what the guest may ask for
  MaxCommands,  \* how many commands one behaviour issues
  MaxFaults     \* how many resets, restores and disturbing bus cycles it has

ASSUME GeometryAssumption ==
  /\ {Size, Spt, Cyls, MaxCommands} \subseteq Nat \ {0} /\ MaxFaults \in Nat
  /\ Writable \in BOOLEAN

FmtSize == 4    \* bytes of a sector's address in a format command
Sectors == 0..(2 * Spt * Cyls - 1)
Filler == -1
Pad == 0
Junk == -2      \* what another device drives on mgmt_readdata

VARIABLES
  fdc,          \* the controller's registers
  fifo,         \* its FIFO
  dma,          \* the DMA channel: bytes left, acknowledge and terminal count of this clock
  host,         \* HpsFloppy: state_, sector_, cnt_
  addr,         \* mgmt_address: who answers on mgmt_readdata
  image,        \* image_
  req,          \* the guest's command and what should come of it
  left,         \* commands still to issue
  faults,       \* faults still to come
  disturbed,    \* in this command the host lost its place: a restored checkpoint,
                \* the bus taken from it, a reset
  hung          \* the controller can no longer get on

vars == <<fdc, fifo, dma, host, addr, image, req, left, faults, disturbed, hung>>

NoReq == [cmd |-> "none"]
FdcReset == [st |-> "idle", cmd |-> "none", cyl |-> 0, head |-> 0, sec |-> 1, mt |-> FALSE, eot |-> 0,
             lba |-> 0, term |-> FALSE, fmt |-> <<>>, pops |-> 0, q |-> Pad]
DmaIdle == [left |-> 0, ack |-> FALSE, tc |-> FALSE]
HostIdle == [st |-> "idle", sector |-> 0, cnt |-> 0]
Image == [s \in Sectors |-> [i \in 1..Size |-> s * Size + i]]

Init ==
  /\ fdc = FdcReset /\ fifo = <<>> /\ dma = DmaIdle /\ host = HostIdle /\ addr = "fifo"
  /\ image = Image /\ req = NoReq /\ left = MaxCommands /\ faults = MaxFaults
  /\ disturbed = FALSE /\ hung = FALSE

--------------------------------------------------------------------------
(* The controller.                                                        *)

Full == Len(fifo) >= Size
Empty == fifo = <<>>

\* A request that leaves out S_SD_FORMAT_WAIT_FOR_FILL.
RequestNoFormat ==
  CASE fdc.st = "sdread" /\ fdc.cmd = "read" -> "read"
    [] fdc.st = "sdwrite" /\ fdc.cmd = "write" -> "write"
    [] OTHER -> "none"

\* assign request
Request ==
  CASE fdc.st = "sdread" /\ fdc.cmd = "read" -> "read"
    [] fdc.st \in {"sdwrite", "sdformat"} /\ fdc.cmd \in {"write", "format"} -> "write"
    [] OTHER -> "none"

\* assign dma_req
DmaReq ==
  /\ ~fdc.term /\ ~dma.ack
  /\ \/ fdc.cmd = "read" /\ ~Empty /\ fdc.st = "topc"
     \/ fdc.cmd = "write" /\ ~Full /\ fdc.st = "frompc"
     \/ fdc.cmd = "format" /\ Len(fdc.fmt) < FmtSize /\ fdc.st = "fmtin"

\* The logical sector, clamped to the medium (S_COUNT_LOGICAL, S_PREPARE).
Lba(c, h, s) == LET n == (c * 2 + h) * Spt + s - 1 IN IF n \in Sectors THEN n ELSE 2 * Spt * Cyls - 1

\* The next sector (S_UPDATE_SECTOR): only the sector, or the other head of a
\* multitrack command, or the next cylinder.
OnlySector == fdc.sec < fdc.eot /\ fdc.sec < Spt
NextCylinder == ~OnlySector /\ (~fdc.mt \/ fdc.head = 1)
Updated ==
  [fdc EXCEPT !.st = "wait",
              !.sec = IF OnlySector THEN @ + 1 ELSE 1,
              !.head = IF ~OnlySector /\ fdc.mt THEN 1 - @ ELSE @,
              !.cyl = IF ~NextCylinder THEN @ ELSE IF @ >= Cyls THEN Cyls - 1 ELSE @ + 1]

\* The state register.  S_PREPARE_COUNT to S_SD_CONTROL are one clock here,
\* and so is the wait of 4000 between two sectors.
NextState(op) ==
  LET to(s) == [fdc EXCEPT !.st = s]
      atLba(s) == [fdc EXCEPT !.st = s, !.lba = Lba(fdc.cyl, fdc.head, fdc.sec)] IN
  CASE fdc.st = "count" /\ fdc.cmd = "read" -> atLba("sdread")
    [] fdc.st = "count" /\ fdc.cmd = "write" -> to("frompc")
    [] fdc.st = "count" /\ fdc.cmd = "format" -> atLba("sdformat")
    [] fdc.st = "sdread" /\ Full -> to("topc")
    [] fdc.st = "topc" /\ Empty -> to("update")
    [] fdc.st = "frompc" /\ Full -> atLba("sdwrite")
    [] fdc.st = "sdwrite" /\ Empty -> to("update")
    [] fdc.st = "fmtin" /\ fdc.term -> [to("idle") EXCEPT !.cmd = "none"]
    [] fdc.st = "fmtin" /\ Len(fdc.fmt) = FmtSize ->
         [to("count") EXCEPT !.cyl = fdc.fmt[1], !.sec = fdc.fmt[3]]
    [] fdc.st = "sdformat" /\ fdc.pops = Size - 1 /\ op = "pop" -> to("wait")
    [] fdc.st = "update" -> Updated
    [] fdc.st = "wait" -> to("check")
    [] fdc.st = "check" /\ fdc.term /\ fdc.cmd # "none" -> [to("idle") EXCEPT !.cmd = "none"]
    [] fdc.st = "check" /\ fdc.cmd = "format" -> to("fmtin")
    [] fdc.st = "check" /\ ~(fdc.term /\ fdc.cmd # "none") /\ fdc.cmd # "format" -> to("count")
    [] OTHER -> fdc

\* The byte a DMA write or a format command brings.
FromMemory == req.data[Len(req.data) - dma.left + 1]

\* One rising edge: op is what the host does on the mgmt bus in this clock.
Edge(op, byte) ==
  LET n == NextState(op)
      ackIn == dma.ack /\ req.cmd \in {"write", "format"} IN
  /\ fdc' = [n EXCEPT
       !.term = IF fdc.st = "idle" THEN FALSE ELSE @ \/ dma.tc,
       !.fmt = IF fdc.st # "fmtin" THEN <<>>
               ELSE IF ackIn /\ Len(@) < FmtSize THEN Append(@, FromMemory) ELSE @,
       !.pops = IF fdc.st = "idle" THEN 0 ELSE IF op = "pop" THEN (@ + 1) % Size ELSE @,
       !.q = IF fdc.cmd = "format" THEN Filler ELSE IF Empty THEN Pad ELSE Head(fifo)]
  /\ fifo' =
       LET pops == IF fdc.st = "topc" THEN dma.ack ELSE op = "pop"
           in == IF fdc.st = "frompc"
                 THEN IF Full THEN <<>> ELSE IF fdc.term THEN <<Pad>> ELSE IF dma.ack THEN <<FromMemory>> ELSE <<>>
                 ELSE IF op = "push" THEN <<byte>> ELSE <<>> IN
       IF fdc.st = "idle" THEN <<>>
       ELSE (IF pops /\ ~Empty THEN Tail(fifo) ELSE fifo) \o in

\* The DMA controller (DmaPath): it answers a request some clocks later, and
\* the terminal count comes one clock after the last acknowledge.
DmaEdge(grant) ==
  /\ grant => DmaReq /\ dma.left > 0
  /\ dma' = [left |-> IF dma.ack THEN dma.left - 1 ELSE dma.left, ack |-> grant, tc |-> dma.ack /\ dma.left = 1]
  /\ req' = IF dma.ack /\ req.cmd = "read" THEN [req EXCEPT !.got = Append(@, IF Empty THEN Pad ELSE Head(fifo))]
            ELSE IF fdc.st = "idle" /\ fdc.cmd = "none" THEN NoReq ELSE req
  \* A terminal count inside a sector ends the requests of a read, and the
  \* rest of the FIFO has nowhere to go.
  /\ hung' = (hung \/ (dma.ack /\ dma.left = 1 /\ req.cmd = "read" /\ Len(fifo) > 1))

Fault == faults > 0 /\ faults' = faults - 1

--------------------------------------------------------------------------
(* The host: one tick before each edge.                                   *)

ReadByte == image[host.sector][host.cnt + 1]
InImage == host.sector \in Sectors
Written(b) == IF Writable /\ InImage THEN [image EXCEPT ![host.sector][host.cnt + 1] = b] ELSE image

GetSector(data, st) == host' = [st |-> st, sector |-> data, cnt |-> 0]

\* WRITE_GET_SECTOR that does not pop the first byte.
GetWriteSectorOnly(data) == GetSector(data, "recv") /\ Edge("none", Pad) /\ addr' = addr /\ UNCHANGED image

GetWriteSector(data) == GetSector(data, "recv") /\ Edge("pop", Pad) /\ addr' = "fifo" /\ UNCHANGED image

HostTick(data) ==
  \/ /\ host.st = "idle" /\ Request = "none"
     /\ Edge("none", Pad) /\ UNCHANGED <<host, addr, image>>
  \/ /\ host.st = "idle" /\ Request # "none"
     /\ host' = [host EXCEPT !.st = IF Request = "read" THEN "getread" ELSE "getwrite"]
     /\ Edge("sector", Pad) /\ addr' = "sector" /\ UNCHANGED image
  \/ /\ host.st = "getread"
     /\ GetSector(data, "send") /\ Edge("none", Pad) /\ UNCHANGED <<addr, image>>
  \/ /\ host.st = "send" /\ host.cnt < Size
     /\ host' = [host EXCEPT !.cnt = @ + 1]
     /\ Edge("push", IF InImage THEN ReadByte ELSE Pad) /\ addr' = "fifo" /\ UNCHANGED image
  \/ /\ host.st = "send" /\ ~(host.cnt < Size)
     /\ host' = [host EXCEPT !.st = "idle"] /\ Edge("none", Pad) /\ UNCHANGED <<addr, image>>
  \/ /\ host.st = "getwrite" /\ GetWriteSector(data)
  \/ /\ host.st = "recv"
     /\ image' = Written(data)
     /\ IF host.cnt + 1 < Size
        THEN host' = [host EXCEPT !.cnt = @ + 1] /\ Edge("pop", Pad) /\ addr' = "fifo"
        ELSE host' = [host EXCEPT !.cnt = @ + 1, !.st = "idle"] /\ Edge("none", Pad) /\ UNCHANGED addr

\* assign mgmt_readdata
ReadData == CASE addr = "sector" -> fdc.lba [] addr = "fifo" -> fdc.q [] addr = "ide" -> Junk

\* A clock in which the IDE hosts leave the bus alone.
Tick(grant) == DmaEdge(grant) /\ HostTick(ReadData) /\ UNCHANGED <<left, faults, disturbed>>

\* A clock in which one of them has it: the floppy host does not run, and
\* what it was to read next is gone.
IdeTick ==
  /\ DmaEdge(FALSE) /\ Edge("none", Pad) /\ addr' = "ide"
  /\ \/ host.st \in {"getread", "getwrite", "recv"} /\ Fault /\ disturbed' = TRUE
     \/ host.st \in {"idle", "send"} /\ UNCHANGED <<faults, disturbed>>
  /\ UNCHANGED <<host, image, left>>

--------------------------------------------------------------------------
(* The guest.                                                             *)

\* The k-th sector of a command, from its definition: up to eot on each
\* track, and then the next track of the same side, or of either side.
Nth(c, k) ==
  LET t == c.sec - 1 + k
      track == IF c.mt THEN 2 * c.cyl + c.head + (t \div c.eot) ELSE 2 * (c.cyl + (t \div c.eot)) + c.head
      n == track * Spt + (t % c.eot) IN
  IF n \in Sectors THEN n ELSE 2 * Spt * Cyls - 1

Byte(data, i) == IF i <= Len(data) THEN data[i] ELSE Pad
\* What a read should return, and the image a write or a format should leave.
ReadWant(c) == [i \in 1..c.count |-> image[Nth(c, (i - 1) \div Size)][((i - 1) % Size) + 1]]
WriteWant(c) ==
  LET last(s) == {k \in 0..((c.count - 1) \div Size) : Nth(c, k) = s} IN
  [s \in Sectors |-> IF last(s) = {} THEN image[s]
                     ELSE LET k == CHOOSE k \in last(s) : \A j \in last(s) : j <= k IN
                          [i \in 1..Size |-> Byte(c.data, k * Size + i)]]
FormatWant(c) ==
  [s \in Sectors |-> IF \E k \in 0..((c.count \div FmtSize) - 1) :
                          s = Lba(c.data[k * FmtSize + 1], c.head, c.data[k * FmtSize + 3])
                     THEN [i \in 1..Size |-> Filler] ELSE image[s]]

\* The last byte of a command that passed the checks (cmd_read_write_ok_at_start,
\* cmd_format_ok_at_start); a host still at work on a sector that a reset cut
\* off is done long before a guest gets here.
Start(c) ==
  /\ left > 0 /\ fdc.st = "idle" /\ req = NoReq /\ host.st = "idle"
  /\ c.cmd # "read" => Writable
  /\ left' = left - 1
  /\ fdc' = [fdc EXCEPT !.st = IF c.cmd = "format" THEN "fmtin" ELSE "count", !.cmd = c.cmd,
               !.cyl = IF c.cmd = "format" THEN @ ELSE c.cyl, !.head = c.head,
               !.sec = IF c.cmd = "format" THEN @ ELSE c.sec, !.mt = IF c.cmd = "format" THEN @ ELSE c.mt,
               !.eot = IF c.cmd = "format" THEN @ ELSE c.eot, !.term = FALSE, !.pops = 0]
  /\ fifo' = <<>> /\ dma' = [DmaIdle EXCEPT !.left = c.count]
  /\ req' = [cmd |-> c.cmd, data |-> c.data, got |-> <<>>,
             want |-> CASE c.cmd = "read" -> ReadWant(c) [] c.cmd = "write" -> WriteWant(c)
                        [] c.cmd = "format" -> FormatWant(c)]
  /\ disturbed' = FALSE /\ hung' = FALSE
  /\ UNCHANGED <<host, addr, image, faults>>

\* The digital output register resets the controller's command, but not its
\* state: in the middle of a transfer it is never idle again.
SwReset ==
  /\ req # NoReq /\ fdc.st # "idle" /\ Fault
  /\ fdc' = [fdc EXCEPT !.cmd = "none", !.cyl = 0, !.head = 0, !.sec = 1, !.eot = 0]
  /\ hung' = TRUE /\ disturbed' = TRUE
  /\ UNCHANGED <<fifo, dma, host, addr, image, req, left>>

\* A reset of the machine (GUI-R, Ctrl-Alt-Del) does not reach the host,
\* a reset of the model does.
Reset ==
  /\ req # NoReq /\ Fault
  /\ fdc' = FdcReset /\ fifo' = <<>> /\ dma' = DmaIdle /\ req' = NoReq /\ hung' = FALSE /\ left' = left
  /\ host' \in {host, [HostIdle EXCEPT !.sector = host.sector]}
  /\ UNCHANGED <<addr, image, disturbed>>

\* restore_checkpoint into a new process: the controller comes back, the
\* host's state does not, and the image is the file's again.
Restored ==
  /\ req # NoReq /\ Fault
  /\ disturbed' = TRUE /\ host' = HostIdle /\ image' = Image
  /\ UNCHANGED <<fdc, fifo, dma, addr, req, left, hung>>

Clock == (\E grant \in BOOLEAN : Tick(grant)) \/ IdeTick
Next == Clock \/ (\E c \in Commands : Start(c)) \/ SwReset \/ Reset \/ Restored

Spec == Init /\ [][Next]_vars
\* Clocks go on, the IDE hosts leave ticks over, DMA requests are granted.
FairSpec == Spec /\ WF_vars(\E grant \in BOOLEAN : Tick(grant)) /\ WF_vars(Tick(TRUE))

--------------------------------------------------------------------------
\* A read gives the guest the bytes of the sectors it named, in order, and
\* when a write or a format has ended exactly the sectors it named hold the
\* new bytes, unless the host was disturbed on the way.
SectorExact ==
  req # NoReq /\ ~disturbed =>
    /\ req.cmd = "read" => req.got = SubSeq(req.want, 1, Len(req.got))
    /\ req.cmd # "read" /\ fdc.cmd = "none" => image = req.want

\* Every command that was accepted ends, unless a reset or a terminal count
\* inside a sector left the controller hung.
FloppyCommandEnds == req # NoReq ~> (req = NoReq \/ hung)
=============================================================================
