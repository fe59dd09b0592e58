------------------------------- MODULE IdeHost -------------------------------
(***************************************************************************)
(* One IDE channel: the register block of ide.v, the guest's accesses to   *)
(* it, and the host that serves it over the management bus (the class      *)
(* HpsIde of the simulator, ide_hps.cpp) with a disk or a CD image.        *)
(*                                                                         *)
(* The main loop of the simulator alternates: the host's tick may drive    *)
(* one management access (pulse_read, pulse_write), then one rising edge   *)
(* of clk_sys clocks ide.v, in which the guest may make an I/O access as   *)
(* well.  A step of the specification is one tick or one edge.             *)
(*                                                                         *)
(* The management bus belongs to this channel alone: the other IDE channel *)
(* and the floppy are idle.                                                *)
(***************************************************************************)
EXTENDS Integers, Sequences, FiniteSets

CONSTANTS
  SectorWords,  \* words of a disk sector (256)
  CdWords,      \* words of a CD sector (1024)
  PacketWords,  \* words of an ATAPI packet (6)
  MaxChunk,     \* CD sectors per data block (8)
  BufWords,     \* words of the dual-port buffer (8192)
  Sectors,      \* sectors of the image
  SecBase, CylBase, HeadBase,   \* 2^8, 2^16, 2^4: the LBA taskfile bytes
  LbaSpace,     \* 2^32: uint32_t
  CountBase,    \* 256: what a sector count of zero stands for
  Heads, Spt,   \* the geometry open() sets
  Tasks,        \* taskfiles the guest writes with a command, for each kind
  Packets,      \* ATAPI packets the guest sends
  Kinds,        \* a subset of {"hdd", "cd"}
  Jitter,       \* TRUE: --jitter, idle ticks after a bus access
  CdAborts,     \* TRUE: the guest resets a CD channel while a packet runs
  MaxResets, MaxCommands   \* bounds on the resets and commands of a behaviour

ASSUME IdeHostAssumption ==
  /\ {SectorWords, CdWords, PacketWords, MaxChunk, BufWords, Sectors, SecBase,
      CylBase, HeadBase, LbaSpace, CountBase, Heads, Spt} \subseteq Nat \ {0}
  /\ SectorWords <= BufWords /\ MaxChunk * CdWords <= BufWords /\ PacketWords <= BufWords
  /\ Kinds \subseteq {"hdd", "cd"} /\ {MaxResets, MaxCommands} \subseteq Nat
  /\ Jitter \in BOOLEAN /\ CdAborts \in BOOLEAN

\* The task registers, and what the guest may write into them ("other": a
\* command the host does not know).
Commands == {"IDENTIFY", "READ", "WRITE", "GEOMETRY", "RECAL", "VERIFY", "IDPKT", "PACKET",
             "DEVRESET", "SETFEAT", "other"}
TaskFile == [cmd : Commands \cup {"none"}, dma : BOOLEAN, count : Nat, sec : Nat, cyl : Nat,
             lba : BOOLEAN, drv : {0, 1}, head : Nat]
ASSUME TasksAssumption ==
  \A k \in Kinds : Tasks[k] \subseteq {t \in TaskFile : t.cmd \in Commands}

\* A packet is known by its opcode; n is the length of what it asks for.  The
\* answer to an information packet or a REQUEST SENSE (one word here) is cut to
\* the allocation length in the packet, which may be zero.
ASSUME PacketsAssumption ==
  Packets \subseteq [op : {"none", "seek", "bad"}]
                    \cup [op : {"info"}, n : 0 .. BufWords]
                    \cup [op : {"sense"}, n : {0, 1}]
                    \cup [op : {"read"}, lba : Nat, n : Nat]

VARIABLES
  \* ide.v
  status,      \* the status register: the set of its bits
  request,     \* "none", "command" (4), "data" (5), "reset" (6)
  irq, lastRead, swReset,
  task,        \* cmd, features, sector_count, sector, cylinder, drv_addr
  blk,         \* blk_size
  ioCnt, oldStb,
  mgmtCnt, oldOp,
  buf, q, rdata,   \* io_buf0/1, their port A output, mgmt_readdata
  \* the bus and the host
  turn,        \* whose turn it is in the main loop: "tick" or "edge"
  bus,         \* mgmt_read / mgmt_write, the low bits of the address, the data
  kind,        \* the image open() or open_cdrom() loaded: "hdd" or "cd"
  h,           \* the members of HpsIde
  image,
  \* the guest
  g            \* the command it runs and how far it is; what it expects

rtl  == <<status, request, irq, lastRead, swReset, task, blk, ioCnt, oldStb,
          mgmtCnt, oldOp, buf, q, rdata>>
host == <<bus, h, image>>
vars == <<rtl, turn, bus, kind, h, image, g>>

Zero     == <<"zero", 0, 0>>
NoPacket == [op |-> "none"]
NoTask   == [cmd |-> "none"]
BlkHi    == 32768                     \* blk_size[15]
ASSUME BlkHiAssumption == BufWords < BlkHi
CdSig    == 60180                     \* 0xEB14
Absent   == 65535
SectorSize == IF kind = "cd" THEN CdWords ELSE SectorWords

OldSector(s) == [k \in 0 .. SectorSize - 1 |-> <<"old", s, k>>]

-----------------------------------------------------------------------------
(* ide.v.  One operator per always block; e is the guest's access in this  *)
(* cycle (op "none": no access).  rst_n is low in a cycle with op "cold".  *)

Drq      == "DRQ" \in status
IoDone   == blk # 0 /\ ioCnt >= blk
MgmtWr(n) == bus.op = "wr" /\ bus.n = n
Reset(e) == e.op = "cold" \/ swReset

StatusReg(e) ==
  status' = IF Reset(e) THEN {"BSY"}
            ELSE IF MgmtWr(5) THEN h.status \cap {"RDY", "DSC", "DRQ", "ERR"}
            ELSE IF e.op = "command" THEN {"BSY"}
            ELSE IF IoDone /\ Drq THEN (IF lastRead THEN {"RDY"} ELSE {"BSY"})
            ELSE status

RequestReg(e) ==
  request' = IF Reset(e) THEN "reset"
             ELSE IF MgmtWr(5) THEN "none"
             ELSE IF e.op = "command" THEN "command"
             ELSE IF IoDone /\ Drq /\ ~lastRead THEN "data"
             ELSE request

LastReadReg(e) ==
  lastRead' = IF Reset(e) THEN FALSE
              ELSE IF MgmtWr(5) THEN "END" \in h.status
              ELSE lastRead /\ ~(IoDone /\ Drq)

IrqReg(e) ==
  irq' = IF Reset(e) THEN FALSE
         ELSE (MgmtWr(5) /\ "IRQ" \in h.status) \/ (irq /\ e.op \notin {"command", "status"})

SwResetReg(e) ==
  swReset' = (e.op # "cold" /\ (e.op = "srst" \/ (swReset /\ e.op # "release")))

\* The task registers the host or the guest writes (the high-order bytes of
\* the addresses, which the host masks off, are left out).
PowerOnTask == [cmd |-> "none", dma |-> FALSE, count |-> 1, sec |-> 1, cyl |-> Absent,
                lba |-> FALSE, drv |-> 0, head |-> 0]
TaskRegs(e) ==
  task' = IF e.op = "cold" THEN PowerOnTask
          ELSE IF MgmtWr(1) THEN [task EXCEPT !.count = h.count % CountBase,
                                              !.sec = h.sec % SecBase]
          ELSE IF MgmtWr(2) THEN [task EXCEPT !.cyl = h.cyl]
          ELSE IF MgmtWr(5) THEN [task EXCEPT !.lba = h.lba, !.drv = h.drv, !.head = h.head]
          ELSE IF e.op = "command" THEN e.t
          ELSE task

BlkSizeReg(e) ==
  blk' = IF e.op = "cold" THEN 0
         ELSE IF MgmtWr(0) THEN (IF kind = "cd" THEN BlkHi ELSE h.io * SectorWords)
         ELSE IF MgmtWr(4) /\ blk >= BlkHi THEN h.pkt
         ELSE blk

IoCounter(e) ==
  /\ oldStb' = (e.op \in {"read", "write"})
  /\ ioCnt' = IF Reset(e) \/ MgmtWr(5) THEN 0
              ELSE IF oldStb /\ ~oldStb' THEN (ioCnt + 1) % (2 * BufWords)
              ELSE ioCnt

\* A slip: the pointer only returns to word zero at power-on.
MgmtCounterNoReturn(e) ==
  /\ oldOp' = IF e.op = "cold" THEN "none" ELSE bus.op
  /\ mgmtCnt' = IF e.op = "cold" THEN 0
                ELSE IF oldOp # "none" /\ bus.op # oldOp /\ bus.n = 15
                THEN (mgmtCnt + 1) % (2 * BufWords) ELSE mgmtCnt
MgmtCounter(e) ==
  /\ oldOp' = IF e.op = "cold" THEN "none" ELSE bus.op
  /\ mgmtCnt' = IF e.op = "cold" THEN 0
                ELSE IF oldOp # "none" /\ bus.op # oldOp
                THEN IF bus.n = 15 THEN (mgmtCnt + 1) % (2 * BufWords) ELSE 0
                ELSE mgmtCnt

\* The buffer, the registered output of its port A and mgmt_readdata, which
\* is loaded in every cycle from the address that stands on the bus.
At15 == mgmtCnt % BufWords
Buffer(e) ==
  /\ buf' = IF bus.op = "wr" /\ bus.n = 15 THEN [buf EXCEPT ![At15] = bus.d]
            ELSE IF e.op = "write" THEN [buf EXCEPT ![ioCnt % BufWords] = e.d]
            ELSE buf
  /\ q' = <<buf[2 * (At15 \div 2)], buf[((2 * (At15 \div 2)) + 1) % BufWords]>>
  /\ rdata' = IF bus.n <= 5 THEN task ELSE q[1 + (mgmtCnt % 2)]

-----------------------------------------------------------------------------
(* HpsIde: helpers.  x is the host's state.                                *)

\* jitter_next(): idle ticks after the cooldown, 0 to 63 in the code.
Delays == IF Jitter THEN 0 .. 2 ELSE {0}

Quiet(x) == h' = x /\ bus' = [bus EXCEPT !.op = "none"]
PulseRead(x, n) ==
  /\ bus' = [op |-> "rd", n |-> n, d |-> Zero]
  /\ \E j \in Delays : h' = [x EXCEPT !.wait = 1 + j]
PulseWrite(x, n, d) ==
  /\ bus' = [op |-> "wr", n |-> n, d |-> d]
  /\ \E j \in Delays : h' = [x EXCEPT !.wait = 1 + j]

At(s) == turn = "tick" /\ h.wait = 0 /\ h.st = s

GetLba(x) ==
  (IF x.lba THEN x.sec + SecBase * (x.cyl + CylBase * x.head)
   ELSE (x.cyl * x.heads + x.head) * x.spt + x.sec - 1) % LbaSpace

\* A slip: sectors of a track numbered from zero.
PutLbaFromZero(x, lba) ==
  IF x.lba
  THEN [x EXCEPT !.sec = lba % SecBase, !.cyl = (lba \div SecBase) % CylBase,
                 !.head = (lba \div (SecBase * CylBase)) % HeadBase]
  ELSE [x EXCEPT !.cyl = lba \div (x.heads * x.spt),
                 !.head = (lba % (x.heads * x.spt)) \div x.spt,
                 !.sec = lba % x.spt]
PutLba(x, lba) ==
  IF x.lba
  THEN [x EXCEPT !.sec = lba % SecBase, !.cyl = (lba \div SecBase) % CylBase,
                 !.head = (lba \div (SecBase * CylBase)) % HeadBase]
  ELSE [x EXCEPT !.cyl = lba \div (x.heads * x.spt),
                 !.head = (lba % (x.heads * x.spt)) \div x.spt,
                 !.sec = (lba % x.spt) + 1]

\* A slip: one sector too many.
InRangeOrEnd(lba) == lba <= Sectors
InRange(lba) == lba < Sectors

\* SET_REGS with a status, then next_state_.
Respond(x, stat, next) == [x EXCEPT !.status = stat, !.st = "SET_REGS", !.next = next]

SendPacketData(x, data) ==
  LET sent == SubSeq(data, 1, IF Len(data) > x.limit THEN x.limit ELSE Len(data)) IN
  [x EXCEPT !.data = sent, !.pkt = Len(sent), !.cyl = Len(sent), !.count = 2,
            !.status = {"RDY", "DRQ", "IRQ"}, !.cnt = 0, !.st = "PACKET_SEND"]

FinishPacket(x, key, extra) ==
  Respond([x EXCEPT !.sense = key, !.count = 3, !.pkt = 0],
          {"RDY", "IRQ"} \cup (IF key # 0 THEN {"ERR"} ELSE {}) \cup extra, "IDLE")

MinOf(a, b) == IF a < b THEN a ELSE b

CdData(lba, n) ==
  [i \in 1 .. n * CdWords |-> image[lba + (i - 1) \div CdWords][(i - 1) % CdWords]]

\* Sectors of the next data block.  A slip: the guest's byte count limit is
\* left to send_packet_data, which cuts the block off.
CdChunkNoLimit(x) == MinOf(x.rem, MaxChunk)
CdChunk(x) ==
  LET most == MinOf(x.rem, MaxChunk)
      fit  == IF x.limit >= CdWords THEN MinOf(most, x.limit \div CdWords) ELSE most
  IN IF fit = 0 THEN 1 ELSE fit

PrepareCdromRead(x) ==
  IF x.rem = 0 THEN FinishPacket(x, 0, {})
  ELSE IF x.plba + CdChunk(x) > Sectors THEN FinishPacket(x, 5, {})
  ELSE SendPacketData([x EXCEPT !.plba = @ + CdChunk(x), !.rem = @ - CdChunk(x)],
                      CdData(x.plba, CdChunk(x)))

\* The packet the six words make, or a garbled one (an unknown opcode).
Holds(x, p) == \A k \in 1 .. PacketWords : x.packet[k] = <<"pkt", p, k - 1>>
Assembled(x) ==
  IF \E p \in Packets : Holds(x, p) THEN CHOOSE p \in Packets : Holds(x, p) ELSE [op |-> "bad"]

HandlePacket(x) ==
  LET p == Assembled(x) IN
  CASE p.op = "none"  -> FinishPacket(x, 0, {})
    [] p.op = "seek"  -> FinishPacket(x, 0, {"DSC"})
    [] p.op = "sense" ->
         [SendPacketData(x, [k \in 1 .. p.n |-> <<"sense", x.sense, 0>>]) EXCEPT !.sense = 0]
    [] p.op = "info"  -> SendPacketData(x, [k \in 1 .. p.n |-> <<"info", p.n, k>>])
    [] p.op = "read"  -> PrepareCdromRead([x EXCEPT !.plba = p.lba, !.rem = p.n])
    [] OTHER          -> FinishPacket(x, 5, {})

FreshRegs(x) == [x EXCEPT !.count = 1, !.sec = 1, !.cyl = 0, !.head = 0, !.lba = FALSE,
                          !.io = 0, !.pkt = 0]
Identify(x) == [x EXCEPT !.status = {"RDY", "DRQ", "IRQ", "END"}, !.cnt = 0, !.st = "SEND_ID"]
Aborted == {"RDY", "ERR", "IRQ"}
Done    == {"RDY", "IRQ"}

HandleCdromCmd(x) ==
  CASE x.cmd = "IDPKT" -> Identify([FreshRegs(x) EXCEPT !.pkt = SectorWords])
    [] x.cmd = "PACKET" /\ x.dma -> FinishPacket(x, 5, {})
    [] x.cmd = "PACKET" /\ ~x.dma ->
         Respond([x EXCEPT !.limit = IF x.cyl = 0 THEN MaxChunk * CdWords ELSE x.cyl,
                           !.pkt = PacketWords, !.count = 1],
                 {"RDY", "DRQ"}, "PACKET_WAIT_REQ")
    [] x.cmd = "DEVRESET" ->
         Respond([x EXCEPT !.count = 1, !.sec = 1, !.cyl = CdSig, !.head = 0, !.pkt = 0],
                 {}, "IDLE")
    [] x.cmd = "SETFEAT" -> Respond(x, Done, "IDLE")
    [] OTHER -> Respond([x EXCEPT !.count = 1, !.sec = 1, !.cyl = CdSig], Aborted, "IDLE")

HandleHddCmd(x) ==
  CASE x.cmd = "IDENTIFY" -> Identify([FreshRegs(x) EXCEPT !.io = 1])
    [] x.cmd \in {"READ", "WRITE"} ->
         [x EXCEPT !.count = IF @ = 0 THEN CountBase ELSE @, !.st = x.cmd]
    [] x.cmd = "GEOMETRY" ->
         Respond([x EXCEPT !.spt = IF x.count = 0 THEN Spt ELSE x.count,
                           !.heads = x.head + 1], Done, "IDLE")
    [] x.cmd = "RECAL"  -> Respond([x EXCEPT !.cyl = 0], Done, "IDLE")
    [] x.cmd = "VERIFY" -> Respond(x, Done, "IDLE")
    [] OTHER            -> Respond(x, Aborted, "IDLE")

HandleCmd(x) ==
  IF x.drv # 0 THEN Respond(x, Aborted, "IDLE")
  ELSE IF kind = "cd" THEN HandleCdromCmd(x) ELSE HandleHddCmd(x)

-----------------------------------------------------------------------------
(* HpsIde::tick, an action per state.                                      *)

\* bus_cooldown_ (one tick after a bus access) and then jitter_delay_.
Cooldown == turn = "tick" /\ h.wait > 0 /\ Quiet([h EXCEPT !.wait = @ - 1])

Initial == At("INITIAL") /\ PulseWrite([h EXCEPT !.st = "IDLE"], 6, Zero)

IdleState ==
  /\ At("IDLE")
  /\ \/ request = "command" /\ PulseRead([h EXCEPT !.st = "GET_CMD"], 0)
     \/ request = "reset"   /\ PulseRead([h EXCEPT !.st = "GET_RESET_DRIVE"], 5)
     \/ request \in {"none", "data"} /\ Quiet(h)

GetResetDrive ==
  /\ At("GET_RESET_DRIVE")
  /\ Quiet(Respond([h EXCEPT !.drv = rdata.drv, !.lba = rdata.lba, !.head = 0, !.sec = 1,
                             !.count = 1,
                             !.cyl = IF rdata.drv # 0 THEN Absent
                                     ELSE IF kind = "cd" THEN CdSig ELSE 0],
                   IF kind = "cd" THEN {} ELSE {"RDY"}, "RESET_SET"))

ResetSet == At("RESET_SET") /\ Quiet([h EXCEPT !.st = "IDLE"])

\* The registers are staged in the host's copy; nothing reads it until DO_CMD.
GetCmd ==
  /\ At("GET_CMD")
  /\ LET x == CASE bus.n = 0 -> [h EXCEPT !.dma = rdata.dma]
                [] bus.n = 1 -> [h EXCEPT !.count = rdata.count, !.sec = rdata.sec]
                [] bus.n = 2 -> [h EXCEPT !.cyl = rdata.cyl]
                [] OTHER     -> h
     IN \/ bus.n < 5 /\ PulseRead(x, bus.n + 1)
        \/ bus.n = 5 /\ Quiet([h EXCEPT !.cmd = rdata.cmd, !.lba = rdata.lba,
                                        !.drv = rdata.drv, !.head = rdata.head,
                                        !.st = "DO_CMD"])
        \/ bus.n > 5 /\ Quiet([h EXCEPT !.st = "IDLE"])

DoCmd == At("DO_CMD") /\ Quiet(HandleCmd(h))

SendId ==
  /\ At("SEND_ID")
  /\ IF h.cnt < SectorWords
     THEN PulseWrite([h EXCEPT !.cnt = @ + 1], 15, <<"id", 0, h.cnt>>)
     ELSE Quiet([h EXCEPT !.st = "SET_REGS", !.next = "IDLE"])

SetRegs ==
  /\ At("SET_REGS")
  /\ Quiet([h EXCEPT !.status = IF kind = "hdd" /\ "DRQ" \notin @ THEN @ \cup {"DSC"} ELSE @,
                     !.cnt = 0, !.st = "SET_REGS_SEND"])

SetRegsSend ==
  /\ At("SET_REGS_SEND")
  /\ IF h.cnt < 6 THEN PulseWrite([h EXCEPT !.cnt = @ + 1], h.cnt, Zero)
     ELSE Quiet([h EXCEPT !.cnt = 0, !.st = h.next])

ReadState == At("READ") /\ Quiet([h EXCEPT !.st = "READ_REGS"])

\* A slip: the last block is announced one block early.
ReadRegsEarlyEnd ==
  /\ At("READ_REGS")
  /\ LET lba == GetLba(h) IN
     Quiet([PutLba(h, (lba + 1) % LbaSpace) EXCEPT
              !.sector = IF InRange(lba) THEN lba ELSE -1,
              !.count = @ - 1, !.io = 1, !.cnt = 0, !.st = "READ_SEND",
              !.status = {"RDY", "DRQ", "IRQ"} \cup (IF h.count <= 2 THEN {"END"} ELSE {})])
ReadRegs ==
  /\ At("READ_REGS")
  /\ LET lba == GetLba(h) IN
     Quiet([PutLba(h, (lba + 1) % LbaSpace) EXCEPT
              !.sector = IF InRange(lba) THEN lba ELSE -1,
              !.count = @ - 1, !.io = 1, !.cnt = 0, !.st = "READ_SEND",
              !.status = {"RDY", "DRQ", "IRQ"} \cup (IF h.count = 1 THEN {"END"} ELSE {})])

ReadSend ==
  /\ At("READ_SEND")
  /\ IF h.cnt < SectorWords
     THEN PulseWrite([h EXCEPT !.cnt = @ + 1], 15,
                     IF h.sector = -1 THEN Zero ELSE image[h.sector][h.cnt])
     ELSE Quiet([h EXCEPT !.cnt = 0, !.st = "SET_REGS",
                          !.next = IF h.count # 0 THEN "READ_WAIT_REQ" ELSE "IDLE"])

\* What the host does when the guest has finished with a block.  Any other
\* request (a reset, a new command) ends the transfer.
WaitReq(s, onData) ==
  /\ At(s)
  /\ Quiet(IF request = "data" THEN onData
           ELSE IF request # "none" THEN [h EXCEPT !.st = "IDLE"] ELSE h)

\* A slip: a reset while a read is under way goes unnoticed.
ReadWaitReqOnlyData ==
  /\ At("READ_WAIT_REQ")
  /\ Quiet(IF request = "data" THEN [h EXCEPT !.st = "READ_REGS"] ELSE h)
ReadWaitReq == WaitReq("READ_WAIT_REQ", [h EXCEPT !.st = "READ_REGS"])

\* A slip: the interrupt owed by an earlier write is not forgotten.
WriteStateKeeps == At("WRITE") /\ Quiet([h EXCEPT !.st = "WRITE_REGS"])
WriteState == At("WRITE") /\ Quiet([h EXCEPT !.irqPending = {}, !.st = "WRITE_REGS"])

WriteRegs ==
  /\ At("WRITE_REGS")
  /\ Quiet(Respond([h EXCEPT !.sector = IF InRange(GetLba(h)) THEN GetLba(h) ELSE -1,
                             !.irqPending = {"IRQ"}, !.io = 1],
                   {"RDY", "DRQ"} \cup h.irqPending, "WRITE_WAIT_REQ"))

WriteWaitReq == WaitReq("WRITE_WAIT_REQ", [h EXCEPT !.cnt = 0, !.st = "WRITE_RECV"])

StoreWord ==
  image' = IF h.cnt > 0 /\ h.sector # -1
           THEN [image EXCEPT ![h.sector][h.cnt - 1] = rdata] ELSE image

\* A slip: the address does not advance between the sectors of a write.
WriteRecvSameSector ==
  /\ At("WRITE_RECV") /\ StoreWord
  /\ IF h.cnt < SectorWords THEN PulseRead([h EXCEPT !.cnt = @ + 1], 15)
     ELSE LET x == [h EXCEPT !.cnt = 0, !.count = @ - 1]
          IN Quiet(IF x.count # 0 THEN [x EXCEPT !.st = "WRITE_REGS"]
                   ELSE Respond(x, Done, "IDLE"))
WriteRecv ==
  /\ At("WRITE_RECV") /\ StoreWord
  /\ IF h.cnt < SectorWords THEN PulseRead([h EXCEPT !.cnt = @ + 1], 15)
     ELSE LET x == [PutLba(h, (GetLba(h) + 1) % LbaSpace) EXCEPT !.cnt = 0, !.count = @ - 1]
          IN Quiet(IF x.count # 0 THEN [x EXCEPT !.st = "WRITE_REGS"]
                   ELSE Respond(x, Done, "IDLE"))

PacketWaitReq ==
  WaitReq("PACKET_WAIT_REQ",
          [h EXCEPT !.cnt = 0, !.packet = [k \in 1 .. PacketWords |-> Zero],
                    !.st = "PACKET_RECV"])

\* The last read is followed by a write to register 7, which returns the
\* buffer pointer to word zero.
PacketRecv ==
  /\ At("PACKET_RECV")
  /\ LET x == IF h.cnt > 0 THEN [h EXCEPT !.packet[h.cnt] = rdata] ELSE h IN
     IF h.cnt < PacketWords THEN PulseRead([x EXCEPT !.cnt = @ + 1], 15)
     ELSE PulseWrite([x EXCEPT !.cnt = 0, !.st = "PACKET_HANDLE"], 7, Zero)

PacketHandle == At("PACKET_HANDLE") /\ Quiet(HandlePacket(h))

PacketSend ==
  /\ At("PACKET_SEND")
  /\ IF h.cnt < h.pkt
     THEN PulseWrite([h EXCEPT !.cnt = @ + 1], 15, h.data[h.cnt + 1])
     ELSE Quiet([h EXCEPT !.cnt = 0, !.st = "SET_REGS", !.next = "PACKET_READ_WAIT_REQ"])

PacketReadWaitReq == WaitReq("PACKET_READ_WAIT_REQ", PrepareCdromRead(h))

Tick ==
  /\ \/ WriteRecv
     \/ /\ UNCHANGED image
        /\ \/ Cooldown \/ Initial \/ IdleState
           \/ GetResetDrive \/ ResetSet \/ GetCmd \/ DoCmd \/ SendId
           \/ SetRegs \/ SetRegsSend
           \/ ReadState \/ ReadRegs \/ ReadSend \/ ReadWaitReq
           \/ WriteState \/ WriteRegs \/ WriteWaitReq
           \/ PacketWaitReq \/ PacketRecv \/ PacketHandle \/ PacketSend \/ PacketReadWaitReq
  /\ turn' = "edge"
  /\ UNCHANGED <<rtl, kind, g>>

-----------------------------------------------------------------------------
(* The guest: a driver that waits for BSY to clear before it writes a      *)
(* command, moves every block it is offered, and may reset the channel.    *)
(* disk is the image as the guest knows it: every sector whose block it    *)
(* has moved.  unsure are sectors whose write a reset cut off.             *)

GuestLba ==
  LET t == g.task IN
  IF t.lba THEN t.sec + SecBase * (t.cyl + CylBase * t.head)
  ELSE (t.cyl * g.heads + t.head) * g.spt + t.sec - 1

NewSector(s) == [k \in 0 .. SectorSize - 1 |-> <<"new", s, k>>]

BlockOut == g.task.cmd = "WRITE" \/ (g.task.cmd = "PACKET" /\ g.blocks = 0)

\* Two accesses of the CPU are more than two clocks apart (iobus_adapter.sv).
Spaced == ~oldStb /\ ~(Drq /\ IoDone)
Free   == Spaced /\ ~swReset /\ status \cap {"BSY", "DRQ"} = {}

\* What a REQUEST SENSE may report: the outcome of the last packet (the
\* absent second drive takes none).
SenseNow == IF g.task.cmd # "PACKET" \/ g.task.drv # 0 THEN g.sense
            ELSE IF "ERR" \in status THEN {5} ELSE {0}

SetsGeometry(t) == t.cmd = "GEOMETRY" /\ t.drv = 0

Command(t, p) ==
  /\ Free /\ g.commands < MaxCommands
  /\ t.cmd \in {"READ", "WRITE"} /\ ~t.lba => g.geometry
  /\ g' = [g EXCEPT !.commands = @ + 1, !.task = t, !.packet = p, !.blocks = 0, !.pos = 0, !.off = 0,
                    !.sense = SenseNow,
                    !.heads = IF SetsGeometry(t) THEN t.head + 1 ELSE @,
                    !.spt = IF ~SetsGeometry(t) THEN @
                            ELSE IF t.count = 0 THEN Spt ELSE t.count,
                    !.geometry = @ \/ SetsGeometry(t)]

\* One word of a block: the last one ends it.
Moved ==
  [g EXCEPT !.off = IF BlockOut THEN @ ELSE @ + 1,
            !.pos = IF g.pos + 1 = blk THEN 0 ELSE @ + 1,
            !.blocks = IF g.pos + 1 = blk THEN @ + 1 ELSE @]

\* Of a block of no words there is nothing to move.
AtDataPort == Spaced /\ ~swReset /\ Drq /\ blk # 0 /\ g.task # NoTask

ReadData == AtDataPort /\ ~BlockOut /\ g' = Moved

OutWord == IF g.task.cmd = "PACKET" THEN <<"pkt", g.packet, g.pos>>
           ELSE <<"new", GuestLba + g.blocks, g.pos>>

WriteData ==
  /\ AtDataPort /\ BlockOut
  /\ LET s == GuestLba + g.blocks IN
     g' = IF g.task.cmd = "WRITE" /\ g.pos + 1 = blk /\ s \in DOMAIN image
          THEN [Moved EXCEPT !.disk[s] = NewSector(s), !.unsure = @ \ {s}]
          ELSE Moved

ReadStatus == Spaced /\ irq /\ UNCHANGED g

\* A reset, from the guest or of the machine: the command is gone.
CutOff ==
  /\ g.resets < MaxResets
  /\ kind = "cd" => CdAborts \/ Free \/ g.task = NoTask
  /\ g' = [g EXCEPT !.task = NoTask, !.resets = @ + 1, !.blocks = 0, !.pos = 0, !.off = 0,
                    !.sense = IF Free THEN SenseNow ELSE {0, 5},
                    !.geometry = @ /\ (Free \/ g.task.cmd # "GEOMETRY"),
                    !.unsure = IF g.task.cmd = "WRITE" /\ g.blocks > 0 /\ ~Free
                               THEN @ \cup ({GuestLba + g.blocks - 1} \cap DOMAIN image)
                               ELSE @]
SoftReset == Spaced /\ ~swReset /\ CutOff
\* SRST is held longer than the host needs to finish the sector in hand.
Release   == swReset /\ h.st = "RESET_SET" /\ UNCHANGED g

\* What a cold reset leaves of HpsIde (tb.reset in tick).
ColdHost(x) == [FreshRegs(x) EXCEPT !.st = "INITIAL", !.next = "IDLE", !.drv = 0,
                                    !.status = IF kind = "cd" THEN {} ELSE {"RDY"},
                                    !.wait = 0]

Rtl(e) ==
  /\ StatusReg(e) /\ RequestReg(e) /\ LastReadReg(e) /\ IrqReg(e) /\ SwResetReg(e)
  /\ TaskRegs(e) /\ BlkSizeReg(e) /\ IoCounter(e) /\ MgmtCounter(e) /\ Buffer(e)
  /\ turn = "edge" /\ turn' = "tick"
  /\ UNCHANGED <<bus, kind, image>>
  /\ h' = IF e.op = "cold" THEN ColdHost(h) ELSE h

Edge ==
  \/ UNCHANGED g /\ Rtl([op |-> "none"])
  \/ \E t \in Tasks[kind] : \E p \in IF t.cmd = "PACKET" THEN Packets ELSE {NoPacket} :
       Command(t, p) /\ Rtl([op |-> "command", t |-> t])
  \/ ReadStatus /\ Rtl([op |-> "status"])
  \/ CutOff /\ Rtl([op |-> "cold"])
  \/ SoftReset /\ Rtl([op |-> "srst"])
MoveEdge ==
  \/ ReadData /\ Rtl([op |-> "read"])
  \/ WriteData /\ Rtl([op |-> "write", d |-> OutWord])
ReleaseEdge == Release /\ Rtl([op |-> "release"])

Init ==
  /\ kind \in Kinds /\ turn = "tick"
  /\ status = {"BSY"} /\ request = "reset" /\ irq = FALSE /\ lastRead = FALSE
  /\ swReset = FALSE /\ task = PowerOnTask /\ blk = 0
  /\ ioCnt = 0 /\ oldStb = FALSE /\ mgmtCnt = 0 /\ oldOp = "none"
  /\ buf = [k \in 0 .. BufWords - 1 |-> Zero] /\ q = <<Zero, Zero>> /\ rdata = Zero
  /\ bus = [op |-> "none", n |-> 0, d |-> Zero]
  /\ h = [st |-> "INITIAL", next |-> "IDLE", cnt |-> 0, cmd |-> "none", dma |-> FALSE,
          count |-> 1, sec |-> 1, cyl |-> 0, head |-> 0, drv |-> 0, lba |-> FALSE,
          io |-> 0, pkt |-> 0, status |-> {"RDY"}, sector |-> -1, irqPending |-> {},
          heads |-> Heads, spt |-> Spt, packet |-> [k \in 1 .. PacketWords |-> Zero],
          data |-> <<>>, plba |-> 0, rem |-> 0, limit |-> 0, sense |-> 0,
          wait |-> 0]
  /\ image = [s \in 0 .. Sectors - 1 |-> OldSector(s)]
  /\ g = [task |-> NoTask, packet |-> NoPacket, blocks |-> 0, pos |-> 0, off |-> 0,
          disk |-> image, unsure |-> {}, sense |-> {0}, heads |-> Heads, spt |-> Spt,
          geometry |-> TRUE, resets |-> 0, commands |-> 0]

Next == Tick \/ Edge \/ MoveEdge \/ ReleaseEdge

Spec == Init /\ [][Next]_vars

\* The main loop runs, the guest moves the blocks it is offered and releases
\* SRST some time after it has been served.
FairSpec == Spec /\ WF_vars(Tick) /\ WF_vars(Edge) /\ SF_vars(MoveEdge) /\ SF_vars(ReleaseEdge)

-----------------------------------------------------------------------------
(* Properties                                                              *)

Bits == {"BSY", "RDY", "DSC", "DRQ", "ERR"}
TypeOK ==
  /\ status \subseteq Bits /\ request \in {"none", "command", "data", "reset"}
  /\ {irq, lastRead, swReset, oldStb} \subseteq BOOLEAN
  /\ turn \in {"tick", "edge"} /\ bus.op \in {"none", "rd", "wr"} /\ bus.n \in 0 .. 15
  /\ h.status \subseteq {"RDY", "DSC", "DRQ", "IRQ", "END", "ERR"}
  /\ h.cnt \in Nat /\ h.count \in Nat /\ h.sector \in -1 .. Sectors - 1
  /\ h.rem \in Nat /\ h.pkt <= BufWords
  /\ DOMAIN image = 0 .. Sectors - 1

\* The geometries the guest may have set.
Geometries ==
  {<<Heads, Spt>>} \cup {<<t.head + 1, IF t.count = 0 THEN Spt ELSE t.count>> :
                           t \in {u \in Tasks["hdd"] : SetsGeometry(u)}}

\* Every read and write of the guest is of sectors its registers can name: the
\* first sector of a track is 1, and no transfer runs over the largest address.
\* A hypothesis of the theorems about the data.
AddressesFit ==
  \A t \in Tasks["hdd"], m \in Geometries :
    t.cmd \in {"READ", "WRITE"} =>
      LET first == IF t.lba THEN t.sec + SecBase * (t.cyl + CylBase * t.head)
                   ELSE (t.cyl * m[1] + t.head) * m[2] + t.sec - 1
          last  == first + IF t.count = 0 THEN CountBase ELSE t.count
      IN 0 <= first /\ last <= LbaSpace /\ (t.lba => last <= SecBase * CylBase * HeadBase)

\* The most words of one block of a packet's answer, by the byte count in the
\* task file.
Limit(t) == IF t.cyl = 0 THEN MaxChunk * CdWords ELSE t.cyl

\* Every packet of the guest has an answer that fits: an answer of a fixed
\* length in one block, a sector of a read in one block, and the sectors on
\* the disc (a read beyond it leaves the host at a read nobody wants:
\* SenseSucceeds).  A hypothesis of the theorems about packets.
PacketsFit ==
  \A t \in Tasks["cd"], p \in Packets :
    t.cmd = "PACKET" => /\ p.op = "info" => p.n <= Limit(t)
                        /\ p.op = "read" => CdWords <= Limit(t) /\ p.lba + p.n <= Sectors

Settled == Spaced /\ ~swReset /\ "BSY" \notin status

\* The response stream of a packet.
Response ==
  LET p == g.packet IN
  CASE p.op = "info" -> [k \in 1 .. p.n |-> {<<"info", p.n, k>>}]
    [] p.op = "sense" -> [k \in 1 .. p.n |-> {<<"sense", key, 0>> : key \in g.sense}]
    [] p.op = "read" /\ p.lba + p.n <= Sectors ->
         [i \in 1 .. p.n * CdWords |-> {image[p.lba + (i - 1) \div CdWords][(i - 1) % CdWords]}]
    [] OTHER -> <<>>

\* A block offered for reading is the one the guest asked for: the sector of
\* its CHS or LBA address plus the blocks before (zeros beyond the end of the
\* image), or the identification.
BlockExact ==
  (Settled /\ Drq /\ g.pos = 0 /\ g.task.cmd \in {"READ", "IDENTIFY", "IDPKT"}) =>
    /\ blk = SectorWords
    /\ \A k \in 0 .. SectorWords - 1 :
         LET s == GuestLba + g.blocks IN
         buf[k] = IF g.task.cmd # "READ" THEN <<"id", 0, k>>
                  ELSE IF s \notin DOMAIN image THEN Zero
                  ELSE IF s \in g.unsure THEN image[s][k] ELSE g.disk[s][k]

\* A data block of a packet command is the next part of that packet's
\* response: nothing of an earlier packet, no word lost or repeated.
PacketResponseExact ==
  (Settled /\ Drq /\ g.pos = 0 /\ g.task.cmd = "PACKET" /\ g.blocks > 0) =>
    /\ g.off + blk <= Len(Response)
    /\ \A k \in 1 .. blk : buf[k - 1] \in Response[g.off + k]

\* When a packet command ends without error its whole response was moved.
PacketEndsComplete ==
  (Settled /\ ~Drq /\ g.task.cmd = "PACKET" /\ "ERR" \notin status) => g.off = Len(Response)

\* What the guest has written and the drive has acknowledged is in the image,
\* and nothing else of the image has changed.
WrittenIsKept ==
  Settled => \A s \in DOMAIN image \ g.unsure : image[s] = g.disk[s]

\* The command moved as many blocks as its sector count says.
TransferComplete ==
  (Settled /\ ~Drq /\ g.task.cmd \in {"READ", "WRITE"} /\ "ERR" \notin status) =>
    g.blocks = IF g.task.count = 0 THEN CountBase ELSE g.task.count

\* The first block of a write is asked for without an interrupt, whatever
\* happened to an earlier write.
FirstWriteBlockSilent ==
  (Settled /\ Drq /\ g.task.cmd = "WRITE" /\ g.blocks = 0) => ~irq

\* "REQUEST SENSE" (ide_hps.cpp, case 0x03) reports the failure of the packet
\* before it; it does not fail itself.
SenseSucceeds ==
  (Settled /\ ~Drq /\ g.task.cmd = "PACKET" /\ g.packet.op = "sense" /\ g.blocks > 0) =>
    "ERR" \notin status

\* A packet with an allocation length of zero: the host offers a block of no
\* words (ide_hps.cpp:511-517), and ide.v ends a block only at its last word
\* (ide.v:233).
EmptyBlock ==
  Drq /\ blk = 0 /\ g.task.cmd = "PACKET" /\ g.packet.op \in {"info", "sense"} /\ g.packet.n = 0

\* Every command, and every reset, comes to an end, but for the packets that
\* are answered by a block of no words: those hang with DRQ.
CommandEnds ==
  status \cap {"BSY", "DRQ"} # {} ~> status \cap {"BSY", "DRQ"} = {} \/ EmptyBlock
==============================================================================
