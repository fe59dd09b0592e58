---------------------------- MODULE IdeHostProofs ----------------------------
(***************************************************************************)
(* One IDE channel, proved for every size of the sectors, of the buffer    *)
(* and of the image, every set of tasks and packets, with and without      *)
(* --jitter.                                                               *)
(*                                                                         *)
(* A tick of the host or an edge of the clock is first put into a flat     *)
(* form, a move: which fields of the host change, and to what (TickMoves,  *)
(* EdgeMoves).  Then every move is shown to keep every part of the         *)
(* invariant.  The invariant says where the host can be while each request *)
(* stands (ServeInv), what stands on the management bus (BusInv), how far  *)
(* a block is moved (MoveInv), that the host has the guest's own task file *)
(* (AskInv, PlaceInv) and that the blocks it has yet to move and those the *)
(* guest has moved add up (CountInv).                                      *)
(***************************************************************************)
EXTENDS IdeHost, SequenceTheorems, TLAPS

-----------------------------------------------------------------------------
(* Types.                                                                   *)

HostFields == {"st", "next", "cnt", "cmd", "dma", "count", "sec", "cyl", "head", "drv", "lba",
  "io", "pkt", "status", "sector", "irqPending", "heads", "spt", "packet", "data", "plba",
  "rem", "limit", "sense", "wait"}
GuestFields == {"task", "packet", "blocks", "pos", "off", "disk", "unsure", "sense", "heads",
  "spt", "geometry", "resets", "commands"}

Waits == {"READ_WAIT_REQ", "WRITE_WAIT_REQ", "PACKET_WAIT_REQ", "PACKET_READ_WAIT_REQ"}
Ends == {"IDLE", "RESET_SET"}
Sends == {"SEND_ID", "READ_SEND", "PACKET_SEND"}
Recvs == {"WRITE_RECV", "PACKET_RECV"}
Sets == {"SET_REGS", "SET_REGS_SEND"}
States == Waits \cup Ends \cup Sends \cup Recvs \cup Sets \cup
  {"INITIAL", "GET_RESET_DRIVE", "GET_CMD", "DO_CMD", "READ", "READ_REGS", "WRITE",
   "WRITE_REGS", "PACKET_HANDLE"}
HostBits == {"RDY", "DSC", "DRQ", "IRQ", "END", "ERR"}

\* The host is to move or has moved a block, and its count is not zero.
Counting == \/ h.st \in {"READ", "READ_REGS", "READ_WAIT_REQ", "WRITE", "WRITE_REGS",
                         "WRITE_WAIT_REQ", "WRITE_RECV"}
            \/ h.st \in Sets /\ h.next \in {"READ_WAIT_REQ", "WRITE_WAIT_REQ"}

\* The host is at a packet.
PacketStates == {"PACKET_WAIT_REQ", "PACKET_RECV", "PACKET_HANDLE", "PACKET_SEND",
                 "PACKET_READ_WAIT_REQ"}
InPacket == h.st \in PacketStates \/ (h.st \in Sets /\ h.next \in PacketStates)

RtlType ==
  /\ status \subseteq Bits /\ request \in {"none", "command", "data", "reset"}
  /\ irq \in BOOLEAN /\ lastRead \in BOOLEAN /\ swReset \in BOOLEAN /\ oldStb \in BOOLEAN
  /\ (request = "none" /\ "BSY" \notin status) \/ (request # "none" /\ status = {"BSY"})
  /\ task \in TaskFile /\ blk \in Nat
  /\ ioCnt \in 0 .. (2 * BufWords) - 1 /\ mgmtCnt \in 0 .. (2 * BufWords) - 1
  /\ oldOp \in {"none", "rd", "wr"}
  /\ turn \in {"tick", "edge"} /\ kind \in Kinds
  /\ DOMAIN bus = {"op", "n", "d"} /\ bus.op \in {"none", "rd", "wr"} /\ bus.n \in 0 .. 15
HostType ==
  /\ DOMAIN h = HostFields
  /\ h.st \in States /\ h.next \in Waits \cup Ends
  /\ h.cnt \in Nat /\ h.count \in Nat /\ h.sec \in Nat /\ h.cyl \in Nat /\ h.head \in Nat
  /\ h.drv \in {0, 1} /\ h.lba \in BOOLEAN /\ h.dma \in BOOLEAN /\ h.io \in {0, 1}
  /\ h.pkt \in 0 .. BufWords /\ h.status \subseteq HostBits /\ h.irqPending \subseteq {"IRQ"}
  /\ h.sector \in -1 .. Sectors - 1 /\ h.heads \in Nat \ {0} /\ h.spt \in Nat \ {0}
  /\ h.plba \in Nat /\ h.rem \in Nat /\ h.limit \in Nat /\ h.sense \in {0, 5} /\ h.wait \in Nat
  /\ DOMAIN h.packet = 1 .. PacketWords
  /\ Counting => h.count # 0
  /\ InPacket => h.limit # 0
\* Sectors of SectorSize words.
IsImage(f) == /\ DOMAIN f = 0 .. Sectors - 1
              /\ \A s \in 0 .. Sectors - 1 : f[s] = [k \in 0 .. SectorSize - 1 |-> f[s][k]]
GuestType ==
  /\ DOMAIN g = GuestFields
  /\ g.task \in TaskFile \cup {NoTask} /\ g.packet \in Packets \cup {NoPacket}
  /\ g.blocks \in Nat /\ g.pos \in Nat /\ g.off \in Nat
  /\ g.unsure \subseteq 0 .. Sectors - 1 /\ g.sense \subseteq {0, 5}
  /\ g.heads \in Nat \ {0} /\ g.spt \in Nat \ {0} /\ g.geometry \in BOOLEAN
  /\ IsImage(g.disk)
DataType ==
  /\ DOMAIN buf = 0 .. BufWords - 1 /\ IsImage(image)

-----------------------------------------------------------------------------
(* The management bus.                                                      *)

\* An access stands on the bus that the next edge performs.
Pending == turn = "edge" /\ bus.op # "none"
\* The six registers are written; the host has yet to go on to h.next.
SetDone == h.st = "SET_REGS_SEND" /\ h.cnt = 6 /\ ~Pending
Setting == h.st \in Sets /\ ~SetDone
Place   == IF SetDone THEN h.next ELSE h.st

BusInv ==
  /\ Pending => oldOp = "none" /\ h.wait > 0
  /\ turn = "tick" /\ oldOp # "none" => oldOp = bus.op /\ h.wait > 0
  /\ turn = "tick" /\ bus.op # "none" => oldOp = bus.op \/ h.st = "INITIAL"
  /\ Pending => \/ h.st = "IDLE" /\ bus.op = "wr" /\ bus.n = 6
                \/ h.st \in {"GET_CMD", "GET_RESET_DRIVE"} /\ bus.op = "rd"
                \/ h.st = "SET_REGS_SEND" /\ bus.op = "wr" /\ h.cnt > 0
                \/ h.st \in Sends /\ bus.op = "wr" /\ h.cnt > 0
                \/ h.st \in Recvs /\ bus.op = "rd" /\ h.cnt > 0
                \/ h.st = "PACKET_HANDLE" /\ bus.op = "wr" /\ bus.n = 7
  /\ h.st = "GET_CMD" => bus.n \in 0 .. 5
  /\ h.st = "GET_RESET_DRIVE" => bus.n = 5
  /\ h.st \in {"GET_CMD", "GET_RESET_DRIVE"} /\ turn = "tick" => rdata = task
  /\ h.st = "SET_REGS_SEND" => h.cnt \in 0 .. 6 /\ (h.cnt > 0 => bus.n = h.cnt - 1)
  /\ h.st \in Sends \cup Recvs /\ h.cnt > 0 => bus.n = 15
  /\ h.st \in {"SEND_ID", "READ_SEND", "WRITE_RECV"} => h.cnt <= SectorWords
  /\ h.st = "PACKET_RECV" => h.cnt <= PacketWords
  /\ h.st = "PACKET_SEND" => h.cnt <= h.pkt
  /\ h.st = "INITIAL" => h.wait = 0

-----------------------------------------------------------------------------
(* Requests, and what the host is doing about them.                         *)

Active == g.task # NoTask
Busy == h.st \notin Waits \cup Ends \cup Sets \/ Setting \/ Pending
\* A host that has nothing to do but to serve a reset.
ResetPlace == \/ h.st \in {"INITIAL", "GET_RESET_DRIVE"} \cup Ends
              \/ h.st \in Sets /\ h.next \in Ends /\ "DRQ" \notin h.status

ServeInv ==
  /\ Busy => request # "none"
  /\ Place \in Waits => request # "command" /\ (request = "none" => Drq)
  /\ Place \in Ends => request # "data"
  /\ Drq => (lastRead <=> Place \in Ends)
  /\ Drq => Active \/ swReset
  /\ Setting /\ h.next \in Ends => ("DRQ" \in h.status => "END" \in h.status)
  /\ Setting /\ h.next \in Waits => "DRQ" \in h.status /\ "END" \notin h.status
  /\ h.st = "SEND_ID" => "DRQ" \in h.status /\ "END" \in h.status
  /\ h.st = "READ_SEND" => "DRQ" \in h.status /\ ("END" \in h.status <=> h.count = 0)
  /\ h.st = "PACKET_SEND" => "DRQ" \in h.status /\ "END" \notin h.status
  /\ swReset \/ request = "reset" => ~Active
  /\ request \in {"command", "data"} => Active \/ swReset
  /\ h.st = "INITIAL" => request = "reset"
  /\ Active => h.st \notin {"INITIAL", "GET_RESET_DRIVE"} /\ ~(Setting /\ h.next = "RESET_SET")
  /\ ~Active /\ ~swReset => ResetPlace
  /\ oldStb => Drq /\ ~swReset
  /\ h.st \in {"GET_CMD", "DO_CMD", "READ", "WRITE"} /\ ~swReset => request = "command"
  /\ h.st \in {"WRITE_RECV", "PACKET_RECV", "PACKET_HANDLE"} /\ ~swReset => request = "data"

-----------------------------------------------------------------------------
(* The blocks of a command.                                                 *)

Stb == IF oldStb THEN 1 ELSE 0
\* The guest has moved the block in hand.
BlockMoved == request = "data" \/ (Drq /\ blk # 0 /\ ioCnt + Stb = blk)
Hand == IF BlockMoved THEN g.blocks - 1 ELSE g.blocks

\* The registers the host has written of the six.
Written == IF Pending THEN h.cnt - 1 ELSE h.cnt
Words == IF kind = "cd" THEN h.pkt ELSE h.io * SectorWords

MoveInv ==
  /\ h.st = "SET_REGS_SEND" /\ kind = "hdd" /\ Written >= 1 => blk = Words
  /\ h.st = "SET_REGS_SEND" /\ kind = "cd" /\ Written \in 1 .. 4 => blk = BlkHi
  /\ h.st = "SET_REGS_SEND" /\ kind = "cd" /\ Written > 4 => blk = Words
  /\ Setting /\ "DRQ" \in h.status => Words \in 0 .. BufWords /\ (kind # "cd" => Words # 0)
  /\ h.st \in Sends => Words \in 0 .. BufWords /\ (kind # "cd" => Words # 0)
  /\ Drq => blk = Words /\ blk \in 0 .. BufWords /\ (kind # "cd" => blk # 0) /\ ioCnt + Stb <= blk
  /\ Active /\ Drq => g.pos = IF BlockMoved THEN 0 ELSE ioCnt + Stb
  /\ Active /\ BlockMoved => g.blocks > 0
  /\ Active /\ ~Drq => g.pos = 0
  /\ request = "command" => g.blocks = 0 /\ g.off = 0

-----------------------------------------------------------------------------
(* The life of a command.                                                   *)

Total == IF g.task.count = 0 THEN CountBase ELSE g.task.count
Is(k, c) == kind = k /\ g.task.cmd = c /\ g.task.drv = 0

\* The task file the guest has written is in the registers, then in the host.
AskInv ==
  /\ request = "command" => ~irq
  /\ Active /\ request = "command" /\ Place \in Ends \cup {"GET_CMD"} => task = g.task
  /\ Active /\ h.st = "GET_CMD" =>
       /\ bus.n > 0 => h.dma = g.task.dma
       /\ bus.n > 1 => h.count = g.task.count /\ h.sec = g.task.sec
       /\ bus.n > 2 => h.cyl = g.task.cyl
  /\ Active /\ h.st \in {"DO_CMD", "READ", "WRITE"} =>
       /\ h.cmd = g.task.cmd /\ h.dma = g.task.dma /\ h.sec = g.task.sec /\ h.cyl = g.task.cyl
       /\ h.lba = g.task.lba /\ h.drv = g.task.drv /\ h.head = g.task.head
       /\ h.count = IF h.st = "DO_CMD" THEN g.task.count ELSE Total

\* Which image, and which commands, bring the host where.
DiskStates == {"READ", "READ_REGS", "READ_SEND", "READ_WAIT_REQ", "WRITE", "WRITE_REGS",
               "WRITE_RECV", "WRITE_WAIT_REQ"}
PlaceInv ==
  /\ h.st \in DiskStates \/ h.next \in DiskStates => kind = "hdd"
  /\ h.st \in PacketStates \/ h.next \in PacketStates => kind = "cd"
  /\ Active =>
      /\ h.st \in {"READ", "READ_REGS", "READ_SEND"} \/ Place = "READ_WAIT_REQ"
           \/ (Setting /\ h.next = "READ_WAIT_REQ") => Is("hdd", "READ")
      /\ h.st \in {"WRITE", "WRITE_REGS", "WRITE_RECV"} \/ Place = "WRITE_WAIT_REQ"
           \/ (Setting /\ h.next = "WRITE_WAIT_REQ") => Is("hdd", "WRITE")
      /\ h.st \in {"PACKET_RECV", "PACKET_HANDLE", "PACKET_SEND"}
           \/ Place \in {"PACKET_WAIT_REQ", "PACKET_READ_WAIT_REQ"}
           \/ (Setting /\ h.next \in {"PACKET_WAIT_REQ", "PACKET_READ_WAIT_REQ"})
           => Is("cd", "PACKET") /\ ~g.task.dma
      /\ h.st = "SEND_ID" => Is("hdd", "IDENTIFY") \/ Is("cd", "IDPKT")
      /\ Setting /\ h.next \in Ends /\ "DRQ" \in h.status =>
           Is("hdd", "READ") \/ Is("hdd", "IDENTIFY") \/ Is("cd", "IDPKT")
      /\ Drq /\ Place \in Ends => Is("hdd", "READ") \/ Is("hdd", "IDENTIFY") \/ Is("cd", "IDPKT")

CountInv ==
  Active =>
    /\ h.st \in {"READ_REGS", "WRITE_REGS"} => h.count + g.blocks = Total
    /\ h.st = "READ_SEND" => h.count + g.blocks + 1 = Total
    /\ Setting /\ h.next = "READ_WAIT_REQ" => h.count + g.blocks + 1 = Total
    /\ Place = "READ_WAIT_REQ" => h.count + Hand + 1 = Total
    /\ Setting /\ h.next = "WRITE_WAIT_REQ" => h.count + g.blocks = Total
    /\ Place = "WRITE_WAIT_REQ" => h.count + Hand = Total
    /\ h.st = "WRITE_RECV" => h.count + g.blocks = Total + 1
    /\ Setting /\ h.next \in Ends /\ g.task.cmd \in {"READ", "WRITE"} =>
         \/ "DRQ" \in h.status /\ g.blocks + 1 = Total
         \/ "DRQ" \notin h.status /\ ("ERR" \in h.status \/ g.blocks = Total)
    /\ Place \in Ends /\ request = "none" /\ g.task.cmd \in {"READ", "WRITE"} =>
         \/ Drq /\ Hand + 1 = Total
         \/ ~Drq /\ ("ERR" \in status \/ g.blocks = Total)

SilentInv ==
  Is("hdd", "WRITE") /\ g.blocks = 0 =>
    /\ h.st = "WRITE_REGS" => h.irqPending = {}
    /\ Setting /\ h.next = "WRITE_WAIT_REQ" => "IRQ" \notin h.status
    /\ Place \notin Ends => ~irq

ControlInv == /\ RtlType /\ HostType /\ GuestType /\ DataType /\ BusInv /\ ServeInv /\ MoveInv /\ AskInv
              /\ PlaceInv /\ CountInv /\ SilentInv

-----------------------------------------------------------------------------
(* A tick of the host, field by field.  Every tick is one of these moves    *)
(* (TickMoves); what is not named stays.                                    *)

Keeps(S) == DOMAIN h' = HostFields /\ \A f \in HostFields \ S : h'[f] = h[f]
Bus(op, n) == bus'.op = op /\ bus'.n = n /\ DOMAIN bus' = {"op", "n", "d"}
Pulse(op, n) == Bus(op, n) /\ h'.wait \in Nat \ {0} /\ (~Jitter => h'.wait = 1)
NoPulse == Bus("none", bus.n)

StayMove ==
  /\ Keeps({"wait"}) /\ NoPulse
  /\ \/ h.wait > 0 /\ h'.wait = h.wait - 1
     \/ h.wait = 0 /\ h'.wait = 0 /\ h.st \in {"IDLE"} \cup Waits
InitialMove ==
  h.st = "INITIAL" /\ Keeps({"st", "wait"}) /\ h'.st = "IDLE" /\ Pulse("wr", 6)
CommandMove ==
  /\ h.st = "IDLE" /\ request = "command" /\ Keeps({"st", "wait"}) /\ h'.st = "GET_CMD"
  /\ Pulse("rd", 0)
ResetMove ==
  /\ h.st = "IDLE" /\ request = "reset" /\ Keeps({"st", "wait"}) /\ h'.st = "GET_RESET_DRIVE"
  /\ Pulse("rd", 5)
DriveMove ==
  /\ h.st = "GET_RESET_DRIVE" /\ NoPulse
  /\ Keeps({"st", "next", "status", "drv", "lba", "head", "sec", "count", "cyl"})
  /\ h'.st = "SET_REGS" /\ h'.next = "RESET_SET" /\ h'.status \subseteq {"RDY"}
  /\ h'.drv \in {0, 1} /\ h'.lba \in BOOLEAN /\ h'.head = 0 /\ h'.sec = 1 /\ h'.count = 1
  /\ h'.cyl \in Nat
RestMove == h.st = "RESET_SET" /\ Keeps({"st"}) /\ h'.st = "IDLE" /\ NoPulse
StageMove ==
  /\ h.st = "GET_CMD" /\ bus.n < 5 /\ Keeps({"dma", "count", "sec", "cyl", "wait"})
  /\ h'.dma = (IF bus.n = 0 THEN task.dma ELSE h.dma)
  /\ h'.count = (IF bus.n = 1 THEN task.count ELSE h.count)
  /\ h'.sec = (IF bus.n = 1 THEN task.sec ELSE h.sec)
  /\ h'.cyl = (IF bus.n = 2 THEN task.cyl ELSE h.cyl)
  /\ Pulse("rd", bus.n + 1)
StagedMove ==
  /\ h.st = "GET_CMD" /\ bus.n = 5 /\ NoPulse
  /\ Keeps({"cmd", "lba", "drv", "head", "st"})
  /\ h'.cmd = task.cmd /\ h'.lba = task.lba /\ h'.drv = task.drv /\ h'.head = task.head
  /\ h'.st = "DO_CMD"

\* The commands: one that is over at once, ...
ShortMove ==
  /\ h.st = "DO_CMD" /\ NoPulse
  /\ Keeps({"st", "next", "status", "count", "sec", "cyl", "head", "pkt", "heads", "spt", "sense"})
  /\ h'.st = "SET_REGS" /\ h'.next = "IDLE" /\ h'.status \subseteq HostBits
  /\ "DRQ" \notin h'.status /\ "END" \notin h'.status
  /\ h'.count \in Nat /\ h'.sec \in Nat /\ h'.cyl \in Nat /\ h'.head \in Nat
  /\ h'.pkt \in {h.pkt, 0}
  /\ IF kind = "hdd" /\ h.cmd = "GEOMETRY" /\ h.drv = 0
     THEN h'.heads = h.head + 1 /\ h'.spt = IF h.count = 0 THEN Spt ELSE h.count
     ELSE h'.heads = h.heads /\ h'.spt = h.spt
  /\ h.cmd \in {"READ", "WRITE", "PACKET"} => "ERR" \in h'.status
  /\ IF kind = "cd" /\ h.cmd = "PACKET" /\ h.drv = 0
     THEN h.dma /\ h'.sense = 5 /\ "ERR" \in h'.status
     ELSE h'.sense = h.sense
\* ... an identification, ...
IdentifyMove ==
  /\ h.st = "DO_CMD" /\ NoPulse /\ h.drv = 0
  /\ (kind = "hdd" /\ h.cmd = "IDENTIFY") \/ (kind = "cd" /\ h.cmd = "IDPKT")
  /\ Keeps({"st", "cnt", "status", "count", "sec", "cyl", "head", "lba", "io", "pkt"})
  /\ h'.st = "SEND_ID" /\ h'.cnt = 0 /\ h'.status = {"RDY", "DRQ", "IRQ", "END"}
  /\ h'.count = 1 /\ h'.sec = 1 /\ h'.cyl = 0 /\ h'.head = 0 /\ h'.lba = FALSE
  /\ h'.io = (IF kind = "hdd" THEN 1 ELSE 0) /\ h'.pkt = IF kind = "cd" THEN SectorWords ELSE 0
\* ... a transfer of sectors, ...
TransferMove ==
  /\ h.st = "DO_CMD" /\ NoPulse /\ h.drv = 0 /\ kind = "hdd" /\ h.cmd \in {"READ", "WRITE"}
  /\ Keeps({"st", "count"}) /\ h'.st = h.cmd
  /\ h'.count = IF h.count = 0 THEN CountBase ELSE h.count
\* ... a packet.
PacketMove ==
  /\ h.st = "DO_CMD" /\ NoPulse /\ h.drv = 0 /\ kind = "cd" /\ h.cmd = "PACKET" /\ ~h.dma
  /\ Keeps({"st", "next", "status", "limit", "pkt", "count"})
  /\ h'.st = "SET_REGS" /\ h'.next = "PACKET_WAIT_REQ" /\ h'.status = {"RDY", "DRQ"}
  /\ h'.limit = (IF h.cyl = 0 THEN MaxChunk * CdWords ELSE h.cyl)
  /\ h'.pkt = PacketWords /\ h'.count = 1

\* One word of a block to the guest, and the end of the block.
SendMove ==
  /\ h.st \in Sends /\ Keeps({"cnt", "wait"}) /\ h'.cnt = h.cnt + 1 /\ Pulse("wr", 15)
  /\ h.cnt < IF h.st = "PACKET_SEND" THEN h.pkt ELSE SectorWords
  /\ bus'.d = CASE h.st = "SEND_ID" -> <<"id", 0, h.cnt>>
                [] h.st = "READ_SEND" -> IF h.sector = -1 THEN Zero ELSE image[h.sector][h.cnt]
                [] h.st = "PACKET_SEND" -> h.data[h.cnt + 1]
SentMove ==
  /\ h.st \in Sends /\ NoPulse
  /\ h.cnt >= IF h.st = "PACKET_SEND" THEN h.pkt ELSE SectorWords
  /\ Keeps({"cnt", "st", "next"}) /\ h'.cnt \in Nat /\ h'.st = "SET_REGS"
  /\ h'.next = CASE h.st = "SEND_ID" -> "IDLE"
                 [] h.st = "READ_SEND" -> IF h.count # 0 THEN "READ_WAIT_REQ" ELSE "IDLE"
                 [] h.st = "PACKET_SEND" -> "PACKET_READ_WAIT_REQ"
\* The six registers.
SetMove ==
  /\ h.st = "SET_REGS" /\ NoPulse /\ Keeps({"status", "cnt", "st"})
  /\ h'.cnt = 0 /\ h'.st = "SET_REGS_SEND"
  /\ h'.status = h.status \/ ("DRQ" \notin h.status /\ h'.status = h.status \cup {"DSC"})
RegMove ==
  /\ h.st = "SET_REGS_SEND" /\ h.cnt < 6 /\ Keeps({"cnt", "wait"}) /\ h'.cnt = h.cnt + 1
  /\ Pulse("wr", h.cnt)
RegsMove ==
  /\ h.st = "SET_REGS_SEND" /\ h.cnt >= 6 /\ NoPulse /\ Keeps({"cnt", "st"})
  /\ h'.cnt = 0 /\ h'.st = h.next
\* Sectors to the guest.
ReadMove == h.st = "READ" /\ NoPulse /\ Keeps({"st"}) /\ h'.st = "READ_REGS"
\* Cylinder, head and sector go on to the next sector.
NextSector ==
  LET y == PutLba(h, (GetLba(h) + 1) % LbaSpace) IN
  h'.sec = y.sec /\ h'.cyl = y.cyl /\ h'.head = y.head
ReadRegsMove ==
  /\ h.st = "READ_REGS" /\ NoPulse /\ NextSector
  /\ Keeps({"sec", "cyl", "head", "sector", "count", "io", "cnt", "st", "status"})
  /\ h'.sec \in Nat /\ h'.cyl \in Nat /\ h'.head \in Nat
  /\ h'.sector = (IF InRange(GetLba(h)) THEN GetLba(h) ELSE -1)
  /\ h'.count = h.count - 1 /\ h'.io = 1 /\ h'.cnt = 0 /\ h'.st = "READ_SEND"
  /\ h'.status = {"RDY", "DRQ", "IRQ"} \cup (IF h.count = 1 THEN {"END"} ELSE {})
\* A request in one of the wait states: the block was moved, or all is over.
OverMove ==
  /\ h.st \in Waits /\ NoPulse /\ request \notin {"none", "data"}
  /\ Keeps({"st"}) /\ h'.st = "IDLE"
ReadDataMove ==
  h.st = "READ_WAIT_REQ" /\ request = "data" /\ NoPulse /\ Keeps({"st"}) /\ h'.st = "READ_REGS"
\* Sectors from the guest.
WriteMove ==
  /\ h.st = "WRITE" /\ NoPulse /\ Keeps({"st", "irqPending"})
  /\ h'.st = "WRITE_REGS" /\ h'.irqPending = {}
WriteRegsMove ==
  /\ h.st = "WRITE_REGS" /\ NoPulse
  /\ Keeps({"sector", "irqPending", "io", "status", "st", "next"})
  /\ h'.sector = (IF InRange(GetLba(h)) THEN GetLba(h) ELSE -1)
  /\ h'.irqPending = {"IRQ"} /\ h'.io = 1 /\ h'.status = {"RDY", "DRQ"} \cup h.irqPending
  /\ h'.st = "SET_REGS" /\ h'.next = "WRITE_WAIT_REQ"
WriteDataMove ==
  /\ h.st = "WRITE_WAIT_REQ" /\ request = "data" /\ NoPulse /\ Keeps({"st", "cnt"})
  /\ h'.st = "WRITE_RECV" /\ h'.cnt = 0
RecvMove ==
  /\ h.st \in Recvs /\ h.cnt < (IF h.st = "WRITE_RECV" THEN SectorWords ELSE PacketWords)
  /\ Keeps({"cnt", "wait", "packet"}) /\ h'.cnt = h.cnt + 1 /\ Pulse("rd", 15)
  /\ h'.packet = IF h.st = "PACKET_RECV" /\ h.cnt > 0
                 THEN [h.packet EXCEPT ![h.cnt] = rdata] ELSE h.packet
WrittenMove ==
  /\ h.st = "WRITE_RECV" /\ h.cnt >= SectorWords /\ NoPulse /\ NextSector
  /\ Keeps({"sec", "cyl", "head", "cnt", "count", "st", "next", "status"})
  /\ h'.sec \in Nat /\ h'.cyl \in Nat /\ h'.head \in Nat /\ h'.cnt = 0 /\ h'.count = h.count - 1
  /\ \/ h.count # 1 /\ h'.st = "WRITE_REGS" /\ h'.status = h.status /\ h'.next = h.next
     \/ h.count = 1 /\ h'.st = "SET_REGS" /\ h'.next = "IDLE" /\ h'.status = {"RDY", "IRQ"}
\* Packets.
PacketDataMove ==
  /\ h.st = "PACKET_WAIT_REQ" /\ request = "data" /\ NoPulse /\ Keeps({"st", "cnt", "packet"})
  /\ h'.st = "PACKET_RECV" /\ h'.cnt = 0 /\ DOMAIN h'.packet = 1 .. PacketWords
ReceivedMove ==
  /\ h.st = "PACKET_RECV" /\ h.cnt >= PacketWords /\ Keeps({"st", "cnt", "packet", "wait"})
  /\ h'.st = "PACKET_HANDLE" /\ h'.cnt = 0 /\ Pulse("wr", 7)
  /\ h'.packet = [h.packet EXCEPT ![h.cnt] = rdata]
\* The answer to a packet, or the rest of it: data, or the end.
Start == IF h.st = "PACKET_HANDLE" THEN Assembled(h).lba ELSE h.plba
Left  == IF h.st = "PACKET_HANDLE" THEN Assembled(h).n ELSE h.rem
Asked(op) == h.st = "PACKET_HANDLE" /\ Assembled(h).op = op
More == h.st = "PACKET_READ_WAIT_REQ" \/ Asked("read")
SenseAnswer ==
  /\ Asked("sense") /\ h'.pkt = Assembled(h).n /\ h'.sense = 0
  /\ \A k \in 1 .. h'.pkt : h'.data[k] = <<"sense", h.sense, 0>>
  /\ h'.plba = h.plba /\ h'.rem = h.rem
InfoAnswer ==
  /\ Asked("info") /\ h'.pkt = MinOf(Assembled(h).n, h.limit) /\ h'.sense = h.sense
  /\ \A k \in 1 .. h'.pkt : h'.data[k] = <<"info", Assembled(h).n, k>>
  /\ h'.plba = h.plba /\ h'.rem = h.rem
ReadAnswer ==
  /\ More /\ h'.sense = h.sense
  /\ \E c \in 1 .. MaxChunk :
       /\ c <= Left /\ Start + c <= Sectors /\ (h.limit >= CdWords => c * CdWords <= h.limit)
       /\ h'.plba = Start + c /\ h'.rem = Left - c /\ h'.pkt = MinOf(c * CdWords, h.limit)
  /\ \A k \in 1 .. h'.pkt :
       h'.data[k] = image[Start + (k - 1) \div CdWords][(k - 1) % CdWords]
AnswerMove ==
  /\ NoPulse /\ (h.st = "PACKET_HANDLE" \/ (h.st = "PACKET_READ_WAIT_REQ" /\ request = "data"))
  /\ Keeps({"data", "pkt", "cyl", "count", "status", "cnt", "st", "sense", "plba", "rem"})
  /\ h'.st = "PACKET_SEND" /\ h'.cnt = 0 /\ h'.status = {"RDY", "DRQ", "IRQ"}
  /\ h'.count = 2 /\ h'.cyl = h'.pkt /\ h'.pkt \in 0 .. BufWords
  /\ h'.plba \in Nat /\ h'.rem \in Nat /\ h'.sense \in {0, 5}
  /\ SenseAnswer \/ InfoAnswer \/ ReadAnswer
PlainFinish ==
  /\ h'.plba = h.plba /\ h'.rem = h.rem
  /\ \/ Asked("none") /\ h'.sense = 0
     \/ Asked("seek") /\ h'.sense = 0
     \/ Asked("bad") /\ h'.sense = 5
ReadFinish ==
  /\ More /\ h'.plba = Start /\ h'.rem = Left
  /\ \/ Left = 0 /\ h'.sense = 0
     \/ \E c \in 1 .. MaxChunk : c <= Left /\ Start + c > Sectors /\ h'.sense = 5
FinishMove ==
  /\ NoPulse /\ (h.st = "PACKET_HANDLE" \/ (h.st = "PACKET_READ_WAIT_REQ" /\ request = "data"))
  /\ Keeps({"pkt", "count", "status", "st", "next", "sense", "plba", "rem"})
  /\ h'.st = "SET_REGS" /\ h'.next = "IDLE" /\ h'.count = 3 /\ h'.pkt = 0
  /\ h'.status \subseteq HostBits /\ "DRQ" \notin h'.status /\ "END" \notin h'.status
  /\ h'.plba \in Nat /\ h'.rem \in Nat /\ h'.sense \in {0, 5}
  /\ h'.sense = 5 <=> "ERR" \in h'.status
  /\ PlainFinish \/ ReadFinish
-----------------------------------------------------------------------------
(* Every tick is one of the moves.                                          *)

\* The constants as the proofs use them.
LEMMA ConstantTypes ==
  /\ SectorWords \in Nat \ {0} /\ CdWords \in Nat \ {0} /\ PacketWords \in Nat \ {0}
  /\ MaxChunk \in Nat \ {0} /\ BufWords \in Nat \ {0} /\ Sectors \in Nat \ {0}
  /\ SecBase \in Nat \ {0} /\ CylBase \in Nat \ {0} /\ HeadBase \in Nat \ {0}
  /\ LbaSpace \in Nat \ {0} /\ CountBase \in Nat \ {0} /\ Heads \in Nat \ {0} /\ Spt \in Nat \ {0}
  /\ SectorWords <= BufWords /\ MaxChunk * CdWords <= BufWords /\ PacketWords <= BufWords
  /\ Kinds \subseteq {"hdd", "cd"} /\ Jitter \in BOOLEAN /\ CdAborts \in BOOLEAN
BY IdeHostAssumption

\* A pulse waits at least one tick, and no more than one without --jitter.
LEMMA DelayTypes == \A j \in Delays : j \in Nat /\ (~Jitter => j = 0)
BY DEF Delays

\* The address the host computes is a number.
LEMMA LbaType ==
  ASSUME HostType
  PROVE  GetLba(h) \in Nat
<1>1. h.sec \in Nat /\ h.cyl \in Nat /\ h.head \in Nat /\ h.heads \in Nat /\ h.spt \in Nat
  BY DEF HostType
<1>2. LbaSpace \in Nat \ {0} /\ SecBase \in Nat /\ CylBase \in Nat
  BY ConstantTypes
<1>3. \A n \in Int : n % LbaSpace \in Nat
  BY <1>2
<1>4. SecBase * (h.cyl + CylBase * h.head) \in Nat /\ (h.cyl * h.heads + h.head) * h.spt \in Nat
  <2>1. CylBase * h.head \in Nat /\ h.cyl * h.heads \in Nat
    BY <1>1, <1>2
  <2> QED
    BY <1>1, <1>2, <2>1
<1> DEFINE a == SecBase * (h.cyl + CylBase * h.head)
           b == (h.cyl * h.heads + h.head) * h.spt
<1>5. h.sec + a \in Int /\ b + h.sec - 1 \in Int
  <2> HIDE DEF a, b
  <2>1. a \in Nat /\ b \in Nat
    BY <1>4 DEF a, b
  <2> QED
    BY <1>1, <2>1
<1> QED
  BY <1>3, <1>5 DEF GetLba

\* Cylinder, head and sector of a number are numbers.
LEMMA PutTypes ==
  ASSUME HostType, NEW n \in Nat
  PROVE  LET y == PutLba(h, n) IN
         /\ DOMAIN y = HostFields /\ y.sec \in Nat /\ y.cyl \in Nat /\ y.head \in Nat
         /\ \A f \in HostFields \ {"sec", "cyl", "head"} : y[f] = h[f]
<1>1. DOMAIN h = HostFields /\ h.heads \in Nat \ {0} /\ h.spt \in Nat \ {0}
  BY DEF HostType
<1>2. SecBase \in Nat \ {0} /\ CylBase \in Nat \ {0} /\ HeadBase \in Nat \ {0}
  BY ConstantTypes
<1>3. \A m \in Nat, d \in Nat \ {0} : m \div d \in Nat /\ m % d \in Nat
  OBVIOUS
<1>4. SecBase * CylBase \in Nat \ {0} /\ h.heads * h.spt \in Nat \ {0}
  BY <1>1, <1>2
<1>5. CASE h.lba
  <2>1. /\ n % SecBase \in Nat /\ (n \div SecBase) % CylBase \in Nat
        /\ (n \div (SecBase * CylBase)) % HeadBase \in Nat
    BY <1>2, <1>3, <1>4
  <2> DEFINE a == n % SecBase
             b == (n \div SecBase) % CylBase
             c == (n \div (SecBase * CylBase)) % HeadBase
  <2>2. PutLba(h, n) = [h EXCEPT !.sec = a, !.cyl = b, !.head = c]
    BY <1>5 DEF PutLba
  <2> HIDE DEF a, b, c
  <2>3. a \in Nat /\ b \in Nat /\ c \in Nat
    BY <2>1 DEF a, b, c
  <2> QED
    BY <1>1, <2>2, <2>3 DEF HostFields
<1>6. CASE ~h.lba
  <2>1. /\ n \div (h.heads * h.spt) \in Nat /\ (n % (h.heads * h.spt)) \div h.spt \in Nat
        /\ (n % h.spt) + 1 \in Nat
    BY <1>1, <1>3, <1>4
  <2> DEFINE a == (n % h.spt) + 1
             b == n \div (h.heads * h.spt)
             c == (n % (h.heads * h.spt)) \div h.spt
  <2>2. PutLba(h, n) = [h EXCEPT !.cyl = b, !.head = c, !.sec = a]
    BY <1>6 DEF PutLba
  <2> HIDE DEF a, b, c
  <2>3. a \in Nat /\ b \in Nat /\ c \in Nat
    BY <2>1 DEF a, b, c
  <2> QED
    BY <1>1, <2>2, <2>3 DEF HostFields
<1> QED
  BY <1>5, <1>6
\* What the helpers of a tick do to the bus.
LEMMA QuietBus ==
  ASSUME NEW x, Quiet(x), RtlType
  PROVE  h' = x /\ NoPulse
BY DEF Quiet, NoPulse, Bus, RtlType
\* A read of the bus is a pulse.
LEMMA ReadPulse ==
  ASSUME NEW x, NEW n, PulseRead(x, n), DOMAIN x = HostFields
  PROVE  /\ DOMAIN h' = HostFields /\ \A f \in HostFields \ {"wait"} : h'[f] = x[f]
         /\ Pulse("rd", n)
BY DelayTypes DEF PulseRead, Pulse, Bus, HostFields
\* A write is one too, and brings its word.
LEMMA WritePulse ==
  ASSUME NEW x, NEW n, NEW d, PulseWrite(x, n, d), DOMAIN x = HostFields
  PROVE  /\ DOMAIN h' = HostFields /\ \A f \in HostFields \ {"wait"} : h'[f] = x[f]
         /\ Pulse("wr", n) /\ bus'.d = d
BY DelayTypes DEF PulseWrite, Pulse, Bus, HostFields

\* Waiting, resets and the reading of the task file.
LEMMA PlainMoves ==
  ASSUME RtlType, HostType, BusInv
  PROVE  /\ Cooldown => StayMove
         /\ Initial => InitialMove
         /\ IdleState => CommandMove \/ ResetMove \/ StayMove
         /\ GetResetDrive => DriveMove
         /\ ResetSet => RestMove
         /\ GetCmd => StageMove \/ StagedMove
<1> USE DEF HostType, Keeps
<1>1. ASSUME Cooldown PROVE StayMove
  <2>1. h' = [h EXCEPT !.wait = @ - 1] /\ NoPulse
    BY <1>1, QuietBus DEF Cooldown
  <2> QED
    BY <1>1, <2>1 DEF Cooldown, StayMove, HostFields
<1>2. ASSUME Initial PROVE InitialMove
  <2> DEFINE x == [h EXCEPT !.st = "IDLE"]
  <2>1. /\ DOMAIN h' = HostFields /\ \A f \in HostFields \ {"wait"} : h'[f] = x[f]
        /\ Pulse("wr", 6)
    BY <1>2, WritePulse DEF Initial
  <2> QED
    BY <1>2, <2>1 DEF Initial, At, InitialMove, HostFields
<1>3. ASSUME IdleState PROVE CommandMove \/ ResetMove \/ StayMove
  <2>1. CASE request = "command" /\ PulseRead([h EXCEPT !.st = "GET_CMD"], 0)
    <3> DEFINE x == [h EXCEPT !.st = "GET_CMD"]
    <3>1. /\ DOMAIN h' = HostFields /\ \A f \in HostFields \ {"wait"} : h'[f] = x[f]
          /\ Pulse("rd", 0)
      BY <2>1, ReadPulse
    <3> QED
      BY <1>3, <2>1, <3>1 DEF IdleState, At, CommandMove, HostFields
  <2>2. CASE request = "reset" /\ PulseRead([h EXCEPT !.st = "GET_RESET_DRIVE"], 5)
    <3> DEFINE x == [h EXCEPT !.st = "GET_RESET_DRIVE"]
    <3>1. /\ DOMAIN h' = HostFields /\ \A f \in HostFields \ {"wait"} : h'[f] = x[f]
          /\ Pulse("rd", 5)
      BY <2>2, ReadPulse
    <3> QED
      BY <1>3, <2>2, <3>1 DEF IdleState, At, ResetMove, HostFields
  <2>3. CASE Quiet(h)
    <3>1. h' = h /\ NoPulse
      BY <2>3, QuietBus
    <3> QED
      BY <1>3, <3>1 DEF IdleState, At, StayMove
  <2> QED
    BY <1>3, <2>1, <2>2, <2>3 DEF IdleState
<1>4. ASSUME GetResetDrive PROVE DriveMove
  <2>1. rdata = task /\ task \in TaskFile
    BY <1>4 DEF GetResetDrive, At, BusInv, RtlType
  <2>2. NoPulse
    BY <1>4, QuietBus DEF GetResetDrive
  <2>3. rdata.drv \in {0, 1} /\ rdata.lba \in BOOLEAN
    BY <2>1 DEF TaskFile
  <2> DEFINE c == IF rdata.drv # 0 THEN Absent ELSE IF kind = "cd" THEN CdSig ELSE 0
             s == IF kind = "cd" THEN {} ELSE {"RDY"}
  <2>4. c \in Nat /\ s \subseteq {"RDY"}
    BY DEF Absent, CdSig
  <2>5. h' = Respond([h EXCEPT !.drv = rdata.drv, !.lba = rdata.lba, !.head = 0, !.sec = 1,
                               !.count = 1, !.cyl = c], s, "RESET_SET")
    BY <1>4 DEF GetResetDrive, Quiet
  <2> HIDE DEF c, s
  <2> QED
    BY <1>4, <2>2, <2>3, <2>4, <2>5 DEF GetResetDrive, At, Respond, DriveMove, HostFields
<1>5. ASSUME ResetSet PROVE RestMove
  <2>1. h' = [h EXCEPT !.st = "IDLE"] /\ NoPulse
    BY <1>5, QuietBus DEF ResetSet
  <2> QED
    BY <1>5, <2>1 DEF ResetSet, At, RestMove, HostFields
<1>6. ASSUME GetCmd PROVE StageMove \/ StagedMove
  <2>1. rdata = task /\ bus.n \in 0 .. 5 /\ h.st = "GET_CMD" /\ h.wait = 0
    BY <1>6 DEF GetCmd, At, BusInv
  <2> DEFINE x == CASE bus.n = 0 -> [h EXCEPT !.dma = rdata.dma]
                    [] bus.n = 1 -> [h EXCEPT !.count = rdata.count, !.sec = rdata.sec]
                    [] bus.n = 2 -> [h EXCEPT !.cyl = rdata.cyl]
                    [] OTHER     -> h
  <2>2. CASE bus.n < 5 /\ PulseRead(x, bus.n + 1)
    <3>1. /\ DOMAIN x = HostFields
          /\ \A f \in HostFields \ {"dma", "count", "sec", "cyl"} : x[f] = h[f]
          /\ x.dma = (IF bus.n = 0 THEN task.dma ELSE h.dma)
          /\ x.count = (IF bus.n = 1 THEN task.count ELSE h.count)
          /\ x.sec = (IF bus.n = 1 THEN task.sec ELSE h.sec)
          /\ x.cyl = (IF bus.n = 2 THEN task.cyl ELSE h.cyl)
      <4>1. CASE bus.n = 0
        <5>1. x = [h EXCEPT !.dma = rdata.dma]
          BY <4>1
        <5> HIDE DEF x
        <5> QED
          BY <2>1, <4>1, <5>1 DEF HostFields
      <4>2. CASE bus.n = 1
        <5>1. x = [h EXCEPT !.count = rdata.count, !.sec = rdata.sec]
          BY <4>2
        <5> HIDE DEF x
        <5>2. /\ DOMAIN x = HostFields /\ x.count = task.count /\ x.sec = task.sec
              /\ \A f \in HostFields \ {"count", "sec"} : x[f] = h[f]
          BY <2>1, <5>1 DEF HostFields
        <5>3. x.dma = h.dma /\ x.cyl = h.cyl
          BY <5>2 DEF HostFields
        <5> QED
          BY <4>2, <5>2, <5>3
      <4>3. CASE bus.n = 2
        <5>1. x = [h EXCEPT !.cyl = rdata.cyl]
          BY <4>3
        <5> HIDE DEF x
        <5> QED
          BY <2>1, <4>3, <5>1, SMTT(30) DEF HostFields
      <4>4. CASE bus.n \notin {0, 1, 2}
        BY <2>1, <4>4 DEF HostFields
      <4> QED
        BY <4>1, <4>2, <4>3, <4>4
    <3> HIDE DEF x
    <3>2. /\ DOMAIN h' = HostFields /\ \A f \in HostFields \ {"wait"} : h'[f] = x[f]
          /\ Pulse("rd", bus.n + 1)
      BY <2>2, <3>1, ReadPulse
    <3> QED
      BY <2>1, <2>2, <3>1, <3>2, SMTT(30) DEF StageMove, HostFields
  <2>3. CASE bus.n = 5 /\ Quiet([h EXCEPT !.cmd = rdata.cmd, !.lba = rdata.lba,
                                        !.drv = rdata.drv, !.head = rdata.head,
                                        !.st = "DO_CMD"])
    <3> DEFINE y == [h EXCEPT !.cmd = rdata.cmd, !.lba = rdata.lba, !.drv = rdata.drv,
                              !.head = rdata.head, !.st = "DO_CMD"]
    <3>1. h' = y /\ NoPulse
      BY <2>3, QuietBus
    <3> QED
      BY <2>1, <2>3, <3>1 DEF StagedMove, HostFields
  <2> HIDE DEF HostType, Keeps
  <2> QED
    BY <1>6, <2>1, <2>2, <2>3 DEF GetCmd
<1> QED
  BY <1>1, <1>2, <1>3, <1>4, <1>5, <1>6

\* The fields of a response, and of the registers of an identification.
LEMMA RespondFields ==
  ASSUME NEW x, DOMAIN x = HostFields, NEW s, NEW n
  PROVE  LET y == Respond(x, s, n) IN
         /\ DOMAIN y = HostFields /\ y.st = "SET_REGS" /\ y.status = s /\ y.next = n
         /\ \A f \in HostFields \ {"st", "status", "next"} : y[f] = x[f]
BY DEF Respond, HostFields
\* The registers before an identification.
LEMMA FreshFields ==
  ASSUME NEW x, DOMAIN x = HostFields
  PROVE  LET y == FreshRegs(x) IN
         /\ DOMAIN y = HostFields /\ y.count = 1 /\ y.sec = 1 /\ y.cyl = 0 /\ y.head = 0
         /\ y.lba = FALSE /\ y.io = 0 /\ y.pkt = 0
         /\ \A f \in HostFields \ {"count", "sec", "cyl", "head", "lba", "io", "pkt"} : y[f] = x[f]
BY DEF FreshRegs, HostFields
\* ... and the state it begins in.
LEMMA IdentifyFields ==
  ASSUME NEW x, DOMAIN x = HostFields
  PROVE  LET y == Identify(x) IN
         /\ DOMAIN y = HostFields /\ y.st = "SEND_ID" /\ y.cnt = 0
         /\ y.status = {"RDY", "DRQ", "IRQ", "END"}
         /\ \A f \in HostFields \ {"st", "cnt", "status"} : y[f] = x[f]
BY DEF Identify, HostFields

\* A command that is over at once.
LEMMA ShortAnswer ==
  ASSUME NEW x, NEW s, h' = Respond(x, s, "IDLE"), h.st = "DO_CMD", NoPulse,
         s \subseteq HostBits, "DRQ" \notin s, "END" \notin s,
         DOMAIN h = HostFields, DOMAIN x = HostFields,
         \A f \in HostFields \ {"count", "sec", "cyl", "head", "pkt", "heads", "spt", "sense"} :
           x[f] = h[f],
         x.count \in Nat, x.sec \in Nat, x.cyl \in Nat, x.head \in Nat, x.pkt \in {h.pkt, 0},
         IF kind = "hdd" /\ h.cmd = "GEOMETRY" /\ h.drv = 0
         THEN x.heads = h.head + 1 /\ x.spt = IF h.count = 0 THEN Spt ELSE h.count
         ELSE x.heads = h.heads /\ x.spt = h.spt,
         h.cmd \in {"READ", "WRITE", "PACKET"} => "ERR" \in s,
         IF kind = "cd" /\ h.cmd = "PACKET" /\ h.drv = 0
         THEN h.dma /\ x.sense = 5 /\ "ERR" \in s
         ELSE x.sense = h.sense
  PROVE  ShortMove
<1>1. /\ DOMAIN h' = HostFields /\ h'.st = "SET_REGS" /\ h'.status = s /\ h'.next = "IDLE"
      /\ \A f \in HostFields \ {"st", "status", "next"} : h'[f] = x[f]
  BY RespondFields
<1>2. Keeps({"st", "next", "status", "count", "sec", "cyl", "head", "pkt", "heads", "spt", "sense"})
  BY <1>1 DEF Keeps, HostFields
<1>3. /\ h'.count = x.count /\ h'.sec = x.sec /\ h'.cyl = x.cyl /\ h'.head = x.head
      /\ h'.pkt = x.pkt /\ h'.heads = x.heads /\ h'.spt = x.spt /\ h'.sense = x.sense
  BY <1>1 DEF HostFields
<1> QED
  BY <1>1, <1>2, <1>3 DEF ShortMove

\* The status of such a command.
LEMMA ShortStatus ==
  /\ Done \subseteq HostBits /\ "DRQ" \notin Done /\ "END" \notin Done
  /\ Aborted \subseteq HostBits /\ "DRQ" \notin Aborted /\ "END" \notin Aborted /\ "ERR" \in Aborted
BY DEF Done, Aborted, HostBits

\* The commands.
LEMMA CommandMoves ==
  ASSUME RtlType, HostType, BusInv, DoCmd
  PROVE  ShortMove \/ IdentifyMove \/ TransferMove \/ PacketMove
<1> USE DEF Keeps
<1>1. h' = HandleCmd(h) /\ NoPulse /\ h.st = "DO_CMD"
  BY QuietBus DEF DoCmd, At
<1>2. /\ DOMAIN h = HostFields /\ h.drv \in {0, 1} /\ h.dma \in BOOLEAN /\ h.count \in Nat
      /\ h.sec \in Nat /\ h.cyl \in Nat /\ h.head \in Nat /\ kind \in {"hdd", "cd"}
  BY ConstantTypes DEF HostType, RtlType
<1>3. CASE h.drv # 0
  <2>1. h' = Respond(h, Aborted, "IDLE")
    BY <1>1, <1>3 DEF HandleCmd
  <2> QED
    BY <1>1, <1>2, <1>3, <2>1, ShortAnswer, ShortStatus
<1>4. CASE h.drv = 0 /\ kind = "cd"
  <2>1. h' = HandleCdromCmd(h) /\ kind # "hdd"
    BY <1>1, <1>4 DEF HandleCmd
  <2>2. CASE h.cmd = "IDPKT"
    <3> DEFINE x == [FreshRegs(h) EXCEPT !.pkt = SectorWords]
    <3>1. h' = Identify(x)
      BY <2>1, <2>2 DEF HandleCdromCmd
    <3>2. /\ DOMAIN x = HostFields /\ x.count = 1 /\ x.sec = 1 /\ x.cyl = 0 /\ x.head = 0
          /\ x.lba = FALSE /\ x.io = 0 /\ x.pkt = SectorWords
          /\ \A f \in HostFields \ {"count", "sec", "cyl", "head", "lba", "io", "pkt"} : x[f] = h[f]
      BY <1>2, FreshFields, ZenonT(60) DEF HostFields
    <3> HIDE DEF x
    <3>3. /\ DOMAIN h' = HostFields /\ h'.st = "SEND_ID" /\ h'.cnt = 0
          /\ h'.status = {"RDY", "DRQ", "IRQ", "END"}
          /\ \A f \in HostFields \ {"st", "cnt", "status"} : h'[f] = x[f]
      BY <3>1, <3>2, IdentifyFields
    <3> QED
      BY <1>1, <1>4, <2>1, <2>2, <3>2, <3>3 DEF IdentifyMove, HostFields
  <2>3. CASE h.cmd = "PACKET" /\ h.dma
    <3> DEFINE x == [h EXCEPT !.sense = 5, !.count = 3, !.pkt = 0]
               s == {"RDY", "IRQ"} \cup {"ERR"} \cup {}
    <3>1. h' = Respond(x, s, "IDLE")
      BY <1>2, <2>1, <2>3 DEF HandleCdromCmd, FinishPacket
    <3>2. /\ DOMAIN x = HostFields /\ x.sense = 5 /\ x.count = 3 /\ x.pkt = 0
          /\ \A f \in HostFields \ {"sense", "count", "pkt"} : x[f] = h[f]
      BY <1>2 DEF HostFields
    <3>3. s \subseteq HostBits /\ "DRQ" \notin s /\ "END" \notin s /\ "ERR" \in s
      BY DEF HostBits
    <3> HIDE DEF x, s
    <3>4. x.sec = h.sec /\ x.cyl = h.cyl /\ x.head = h.head /\ x.heads = h.heads /\ x.spt = h.spt
      BY <3>2 DEF HostFields
    <3> QED
      BY <1>1, <1>2, <1>4, <2>1, <2>3, <3>1, <3>2, <3>3, <3>4, ShortAnswer
  <2>4. CASE h.cmd = "PACKET" /\ ~h.dma
    <3> DEFINE l == IF h.cyl = 0 THEN MaxChunk * CdWords ELSE h.cyl
               x == [h EXCEPT !.limit = l, !.pkt = PacketWords, !.count = 1]
    <3>1. h' = Respond(x, {"RDY", "DRQ"}, "PACKET_WAIT_REQ")
      BY <1>2, <2>1, <2>4 DEF HandleCdromCmd
    <3>2. /\ DOMAIN x = HostFields /\ x.limit = l /\ x.pkt = PacketWords /\ x.count = 1
          /\ \A f \in HostFields \ {"limit", "pkt", "count"} : x[f] = h[f]
      BY <1>2 DEF HostFields
    <3> HIDE DEF x
    <3>3. /\ DOMAIN h' = HostFields /\ h'.st = "SET_REGS" /\ h'.status = {"RDY", "DRQ"}
          /\ h'.next = "PACKET_WAIT_REQ"
          /\ \A f \in HostFields \ {"st", "status", "next"} : h'[f] = x[f]
      BY <3>1, <3>2, RespondFields
    <3> QED
      BY <1>1, <1>4, <2>4, <3>2, <3>3 DEF PacketMove, HostFields
  <2>5. CASE h.cmd = "DEVRESET"
    <3> DEFINE x == [h EXCEPT !.count = 1, !.sec = 1, !.cyl = CdSig, !.head = 0, !.pkt = 0]
    <3>1. h' = Respond(x, {}, "IDLE")
      BY <2>1, <2>5 DEF HandleCdromCmd
    <3>2. /\ DOMAIN x = HostFields /\ x.count = 1 /\ x.sec = 1 /\ x.cyl = CdSig /\ x.head = 0
          /\ x.pkt = 0 /\ \A f \in HostFields \ {"count", "sec", "cyl", "head", "pkt"} : x[f] = h[f]
      BY <1>2 DEF HostFields
    <3> HIDE DEF x
    <3>3. x.heads = h.heads /\ x.spt = h.spt /\ x.sense = h.sense /\ CdSig \in Nat
      BY <3>2 DEF HostFields, CdSig
    <3> QED
      BY <1>1, <1>2, <1>4, <2>1, <2>5, <3>1, <3>2, <3>3, ShortAnswer
  <2>6. CASE h.cmd = "SETFEAT"
    <3>1. h' = Respond(h, Done, "IDLE")
      BY <2>1, <2>6 DEF HandleCdromCmd
    <3> QED
      BY <1>1, <1>2, <1>4, <2>1, <2>6, <3>1, ShortAnswer, ShortStatus
  <2>7. CASE h.cmd \notin {"IDPKT", "PACKET", "DEVRESET", "SETFEAT"}
    <3> DEFINE x == [h EXCEPT !.count = 1, !.sec = 1, !.cyl = CdSig]
    <3>1. h' = Respond(x, Aborted, "IDLE")
      BY <2>1, <2>7 DEF HandleCdromCmd
    <3>2. /\ DOMAIN x = HostFields /\ x.count = 1 /\ x.sec = 1 /\ x.cyl = CdSig
          /\ \A f \in HostFields \ {"count", "sec", "cyl"} : x[f] = h[f]
      BY <1>2 DEF HostFields
    <3> HIDE DEF x
    <3>3. /\ x.heads = h.heads /\ x.spt = h.spt /\ x.sense = h.sense /\ x.head = h.head
          /\ x.pkt = h.pkt /\ CdSig \in Nat
      BY <3>2 DEF HostFields, CdSig
    <3> QED
      BY <1>1, <1>2, <1>4, <2>1, <2>7, <3>1, <3>2, <3>3, ShortAnswer, ShortStatus
  <2> QED
    BY <2>2, <2>3, <2>4, <2>5, <2>6, <2>7
<1>5. CASE h.drv = 0 /\ kind = "hdd"
  <2>1. h' = HandleHddCmd(h) /\ kind # "cd"
    BY <1>1, <1>5 DEF HandleCmd
  <2>2. CASE h.cmd = "IDENTIFY"
    <3> DEFINE x == [FreshRegs(h) EXCEPT !.io = 1]
    <3>1. h' = Identify(x)
      BY <2>1, <2>2 DEF HandleHddCmd
    <3>2. /\ DOMAIN x = HostFields /\ x.count = 1 /\ x.sec = 1 /\ x.cyl = 0 /\ x.head = 0
          /\ x.lba = FALSE /\ x.io = 1 /\ x.pkt = 0
          /\ \A f \in HostFields \ {"count", "sec", "cyl", "head", "lba", "io", "pkt"} : x[f] = h[f]
      BY <1>2, FreshFields, ZenonT(60) DEF HostFields
    <3> HIDE DEF x
    <3>3. /\ DOMAIN h' = HostFields /\ h'.st = "SEND_ID" /\ h'.cnt = 0
          /\ h'.status = {"RDY", "DRQ", "IRQ", "END"}
          /\ \A f \in HostFields \ {"st", "cnt", "status"} : h'[f] = x[f]
      BY <3>1, <3>2, IdentifyFields
    <3> QED
      BY <1>1, <1>5, <2>1, <2>2, <3>2, <3>3 DEF IdentifyMove, HostFields
  <2>3. CASE h.cmd \in {"READ", "WRITE"}
    <3>1. h' = [h EXCEPT !.count = IF @ = 0 THEN CountBase ELSE @, !.st = h.cmd]
      BY <2>1, <2>3 DEF HandleHddCmd
    <3> QED
      BY <1>1, <1>2, <1>5, <2>3, <3>1 DEF TransferMove, HostFields
  <2>4. CASE h.cmd = "GEOMETRY"
    <3> DEFINE c == IF h.count = 0 THEN Spt ELSE h.count
               x == [h EXCEPT !.spt = c, !.heads = h.head + 1]
    <3>1. h' = Respond(x, Done, "IDLE")
      BY <2>1, <2>4 DEF HandleHddCmd
    <3>2. /\ DOMAIN x = HostFields /\ x.spt = c /\ x.heads = h.head + 1
          /\ \A f \in HostFields \ {"spt", "heads"} : x[f] = h[f]
      BY <1>2 DEF HostFields
    <3> HIDE DEF x
    <3>3. /\ x.count = h.count /\ x.sec = h.sec /\ x.cyl = h.cyl /\ x.head = h.head
          /\ x.pkt = h.pkt /\ x.sense = h.sense
      BY <3>2 DEF HostFields
    <3> QED
      BY <1>1, <1>2, <1>5, <2>1, <2>4, <3>1, <3>2, <3>3, ShortAnswer, ShortStatus
  <2>5. CASE h.cmd = "RECAL"
    <3> DEFINE x == [h EXCEPT !.cyl = 0]
    <3>1. h' = Respond(x, Done, "IDLE")
      BY <2>1, <2>5 DEF HandleHddCmd
    <3>2. /\ DOMAIN x = HostFields /\ x.cyl = 0 /\ \A f \in HostFields \ {"cyl"} : x[f] = h[f]
      BY <1>2 DEF HostFields
    <3> HIDE DEF x
    <3>3. /\ x.count = h.count /\ x.sec = h.sec /\ x.head = h.head /\ x.pkt = h.pkt
          /\ x.sense = h.sense /\ x.heads = h.heads /\ x.spt = h.spt
      BY <3>2 DEF HostFields
    <3> QED
      BY <1>1, <1>2, <1>5, <2>1, <2>5, <3>1, <3>2, <3>3, ShortAnswer, ShortStatus
  <2>6. CASE h.cmd = "VERIFY"
    <3>1. h' = Respond(h, Done, "IDLE")
      BY <2>1, <2>6 DEF HandleHddCmd
    <3> QED
      BY <1>1, <1>2, <1>5, <2>1, <2>6, <3>1, ShortAnswer, ShortStatus
  <2>7. CASE h.cmd \notin {"IDENTIFY", "READ", "WRITE", "GEOMETRY", "RECAL", "VERIFY"}
    <3>1. h' = Respond(h, Aborted, "IDLE")
      BY <2>1, <2>7 DEF HandleHddCmd
    <3> QED
      BY <1>1, <1>2, <1>5, <2>1, <2>7, <3>1, ShortAnswer, ShortStatus
  <2> QED
    BY <2>2, <2>3, <2>4, <2>5, <2>6, <2>7
<1> QED
  BY <1>2, <1>3, <1>4, <1>5

\* The words of a block and the registers.
LEMMA SendMoves ==
  ASSUME RtlType, HostType
  PROVE  /\ SendId => SendMove \/ SentMove
         /\ ReadSend => SendMove \/ SentMove
         /\ PacketSend => SendMove \/ SentMove
         /\ SetRegs => SetMove
         /\ SetRegsSend => RegMove \/ RegsMove
         /\ ReadState => ReadMove
         /\ WriteState => WriteMove
<1> USE DEF Keeps
<1>0. DOMAIN h = HostFields /\ h.cnt \in Nat /\ SectorWords \in Nat /\ h.pkt \in Nat
  <2>1. DOMAIN h = HostFields /\ h.cnt \in Nat /\ h.pkt \in 0 .. BufWords
    BY DEF HostType
  <2> QED
    BY <2>1, ConstantTypes
<1> DEFINE x == [h EXCEPT !.cnt = @ + 1]
<1>a. DOMAIN x = HostFields /\ x.cnt = h.cnt + 1 /\ \A f \in HostFields \ {"cnt"} : x[f] = h[f]
  BY <1>0 DEF HostFields
<1> HIDE DEF x
<1>b. ASSUME NEW n, NEW d, PulseWrite(x, n, d)
      PROVE  /\ Keeps({"cnt", "wait"}) /\ h'.cnt = h.cnt + 1 /\ Pulse("wr", n) /\ bus'.d = d
  <2>1. /\ DOMAIN h' = HostFields /\ \A f \in HostFields \ {"wait"} : h'[f] = x[f]
        /\ Pulse("wr", n) /\ bus'.d = d
    BY <1>a, <1>b, WritePulse
  <2> QED
    BY <1>a, <2>1 DEF HostFields
<1>1. ASSUME SendId PROVE SendMove \/ SentMove
  <2>0. h.st = "SEND_ID"
    BY <1>1 DEF SendId, At
  <2>1. CASE h.cnt < SectorWords
    <3>1. PulseWrite(x, 15, <<"id", 0, h.cnt>>)
      BY <1>1, <2>1 DEF SendId, x
    <3> QED
      BY <1>b, <2>0, <2>1, <3>1 DEF SendMove, Sends
  <2>2. CASE ~(h.cnt < SectorWords)
    <3>1. h' = [h EXCEPT !.st = "SET_REGS", !.next = "IDLE"] /\ NoPulse
      BY <1>1, <2>2, QuietBus DEF SendId
    <3>2. Keeps({"st", "next"}) /\ h'.st = "SET_REGS" /\ h'.next = "IDLE" /\ h'.cnt = h.cnt
      BY <1>0, <3>1 DEF HostFields
    <3> QED
      BY <1>0, <2>0, <2>2, <3>1, <3>2 DEF SentMove, Sends
  <2> QED
    BY <2>1, <2>2
<1>2. ASSUME ReadSend PROVE SendMove \/ SentMove
  <2>0. h.st = "READ_SEND"
    BY <1>2 DEF ReadSend, At
  <2>1. CASE h.cnt < SectorWords
    <3>1. PulseWrite(x, 15, IF h.sector = -1 THEN Zero ELSE image[h.sector][h.cnt])
      BY <1>2, <2>1 DEF ReadSend, x
    <3> QED
      BY <1>b, <2>0, <2>1, <3>1 DEF SendMove, Sends
  <2>2. CASE ~(h.cnt < SectorWords)
    <3> DEFINE n == IF h.count # 0 THEN "READ_WAIT_REQ" ELSE "IDLE"
    <3>1. h' = [h EXCEPT !.cnt = 0, !.st = "SET_REGS", !.next = n] /\ NoPulse
      BY <1>2, <2>2, QuietBus DEF ReadSend
    <3>2. n = IF h.count # 0 THEN "READ_WAIT_REQ" ELSE "IDLE"
      OBVIOUS
    <3> HIDE DEF n
    <3>3. Keeps({"cnt", "st", "next"}) /\ h'.st = "SET_REGS" /\ h'.next = n /\ h'.cnt = 0
      BY <1>0, <3>1 DEF HostFields
    <3> QED
      BY <1>0, <2>0, <2>2, <3>1, <3>2, <3>3 DEF SentMove, Sends
  <2> QED
    BY <2>1, <2>2
<1>3. ASSUME PacketSend PROVE SendMove \/ SentMove
  <2>0. h.st = "PACKET_SEND"
    BY <1>3 DEF PacketSend, At
  <2>1. CASE h.cnt < h.pkt
    <3>1. PulseWrite(x, 15, h.data[h.cnt + 1])
      BY <1>3, <2>1 DEF PacketSend, x
    <3> QED
      BY <1>b, <2>0, <2>1, <3>1 DEF SendMove, Sends
  <2>2. CASE ~(h.cnt < h.pkt)
    <3>1. h' = [h EXCEPT !.cnt = 0, !.st = "SET_REGS", !.next = "PACKET_READ_WAIT_REQ"] /\ NoPulse
      BY <1>3, <2>2, QuietBus DEF PacketSend
    <3>3. /\ Keeps({"cnt", "st", "next"}) /\ h'.st = "SET_REGS" /\ h'.next = "PACKET_READ_WAIT_REQ"
          /\ h'.cnt = 0
      BY <1>0, <3>1 DEF HostFields
    <3> QED
      BY <1>0, <2>0, <2>2, <3>1, <3>3 DEF SentMove, Sends
  <2> QED
    BY <2>1, <2>2
<1>4. ASSUME SetRegs PROVE SetMove
  <2> DEFINE s == IF kind = "hdd" /\ "DRQ" \notin h.status THEN h.status \cup {"DSC"} ELSE h.status
  <2>1. h' = [h EXCEPT !.status = s, !.cnt = 0, !.st = "SET_REGS_SEND"] /\ NoPulse /\ h.st = "SET_REGS"
    BY <1>4, QuietBus DEF SetRegs, At
  <2>2. s = h.status \/ ("DRQ" \notin h.status /\ s = h.status \cup {"DSC"})
    OBVIOUS
  <2> HIDE DEF s
  <2>3. Keeps({"status", "cnt", "st"}) /\ h'.status = s /\ h'.cnt = 0 /\ h'.st = "SET_REGS_SEND"
    BY <1>0, <2>1 DEF HostFields
  <2> QED
    BY <2>1, <2>2, <2>3 DEF SetMove
<1>5. ASSUME SetRegsSend PROVE RegMove \/ RegsMove
  <2>0. h.st = "SET_REGS_SEND"
    BY <1>5 DEF SetRegsSend, At
  <2>1. CASE h.cnt < 6
    <3>1. PulseWrite(x, h.cnt, Zero)
      BY <1>5, <2>1 DEF SetRegsSend, x
    <3> QED
      BY <1>b, <2>0, <2>1, <3>1 DEF RegMove
  <2>2. CASE ~(h.cnt < 6)
    <3>1. h' = [h EXCEPT !.cnt = 0, !.st = h.next] /\ NoPulse
      BY <1>5, <2>2, QuietBus DEF SetRegsSend
    <3>2. Keeps({"cnt", "st"}) /\ h'.cnt = 0 /\ h'.st = h.next
      BY <1>0, <3>1 DEF HostFields
    <3> QED
      BY <1>0, <2>0, <2>2, <3>1, <3>2 DEF RegsMove
  <2> QED
    BY <2>1, <2>2
<1>6. ASSUME ReadState PROVE ReadMove
  <2>1. h' = [h EXCEPT !.st = "READ_REGS"] /\ NoPulse /\ h.st = "READ"
    BY <1>6, QuietBus DEF ReadState, At
  <2> QED
    BY <1>0, <2>1 DEF ReadMove, HostFields
<1>7. ASSUME WriteState PROVE WriteMove
  <2>1. h' = [h EXCEPT !.irqPending = {}, !.st = "WRITE_REGS"] /\ NoPulse /\ h.st = "WRITE"
    BY <1>7, QuietBus DEF WriteState, At
  <2> QED
    BY <1>0, <2>1 DEF WriteMove, HostFields
<1> QED
  BY <1>1, <1>2, <1>3, <1>4, <1>5, <1>6, <1>7

\* The sector of a transfer.
LEMMA SectorMoves ==
  ASSUME RtlType, HostType
  PROVE  /\ ReadRegs => ReadRegsMove
         /\ WriteRegs => WriteRegsMove
<1> USE DEF Keeps
<1>0. DOMAIN h = HostFields /\ h.count \in Nat
  BY DEF HostType
<1> DEFINE sec == IF InRange(GetLba(h)) THEN GetLba(h) ELSE -1
<1>1. ASSUME ReadRegs PROVE ReadRegsMove
  <2> DEFINE y == PutLba(h, (GetLba(h) + 1) % LbaSpace)
             s == {"RDY", "DRQ", "IRQ"} \cup (IF h.count = 1 THEN {"END"} ELSE {})
             c == h.count - 1
  <2>1. (GetLba(h) + 1) % LbaSpace \in Nat
    BY LbaType, ConstantTypes
  <2>2. /\ DOMAIN y = HostFields /\ y.sec \in Nat /\ y.cyl \in Nat /\ y.head \in Nat
        /\ \A f \in HostFields \ {"sec", "cyl", "head"} : y[f] = h[f]
    BY <2>1, PutTypes
  <2>3. /\ h' = [y EXCEPT !.sector = sec, !.count = y.count - 1, !.io = 1, !.cnt = 0, !.st = "READ_SEND",
                         !.status = s]
        /\ NoPulse /\ h.st = "READ_REGS"
    BY <1>1, QuietBus DEF ReadRegs, At
  <2>4. y.count - 1 = c
    BY <2>2 DEF HostFields
  <2> HIDE DEF y, s, c, sec
  <2>5. /\ DOMAIN h' = HostFields /\ h'.sector = sec /\ h'.count = c /\ h'.io = 1 /\ h'.cnt = 0
        /\ h'.st = "READ_SEND" /\ h'.status = s
        /\ \A f \in HostFields \ {"sector", "count", "io", "cnt", "st", "status"} : h'[f] = y[f]
    BY <2>2, <2>3, <2>4 DEF HostFields
  <2>6. h'.sec \in Nat /\ h'.cyl \in Nat /\ h'.head \in Nat
    BY <2>2, <2>5 DEF HostFields
  <2>7. Keeps({"sec", "cyl", "head", "sector", "count", "io", "cnt", "st", "status"})
    BY <2>2, <2>5
  <2>8. NextSector
    BY <2>5 DEF NextSector, HostFields, y
  <2> QED
    BY <2>3, <2>5, <2>6, <2>7, <2>8 DEF ReadRegsMove, s, c, sec
<1>2. ASSUME WriteRegs PROVE WriteRegsMove
  <2> DEFINE x == [h EXCEPT !.sector = sec, !.irqPending = {"IRQ"}, !.io = 1]
             s == {"RDY", "DRQ"} \cup h.irqPending
  <2>1. h' = Respond(x, s, "WRITE_WAIT_REQ") /\ NoPulse /\ h.st = "WRITE_REGS"
    BY <1>2, QuietBus DEF WriteRegs, At
  <2>2. sec = IF InRange(GetLba(h)) THEN GetLba(h) ELSE -1
    OBVIOUS
  <2>3. s = {"RDY", "DRQ"} \cup h.irqPending
    OBVIOUS
  <2> HIDE DEF sec, s
  <2>4. /\ DOMAIN x = HostFields /\ x.sector = sec /\ x.irqPending = {"IRQ"} /\ x.io = 1
        /\ \A f \in HostFields \ {"sector", "irqPending", "io"} : x[f] = h[f]
    BY <1>0 DEF HostFields
  <2> HIDE DEF x
  <2>5. /\ DOMAIN h' = HostFields /\ h'.st = "SET_REGS" /\ h'.status = s /\ h'.next = "WRITE_WAIT_REQ"
        /\ \A f \in HostFields \ {"st", "status", "next"} : h'[f] = x[f]
    BY <2>1, <2>4, RespondFields
  <2>6. h'.sector = sec /\ h'.irqPending = {"IRQ"} /\ h'.io = 1
    BY <2>4, <2>5 DEF HostFields
  <2>7. Keeps({"sector", "irqPending", "io", "status", "st", "next"})
    BY <2>4, <2>5
  <2> QED
    BY <2>1, <2>2, <2>3, <2>5, <2>6, <2>7 DEF WriteRegsMove
<1> QED
  BY <1>1, <1>2

\* The requests a waiting host sees.
LEMMA WaitMoves ==
  ASSUME RtlType, HostType
  PROVE  /\ ReadWaitReq => ReadDataMove \/ OverMove \/ StayMove
         /\ WriteWaitReq => WriteDataMove \/ OverMove \/ StayMove
         /\ PacketWaitReq => PacketDataMove \/ OverMove \/ StayMove
         /\ PacketReadWaitReq =>
              \/ OverMove \/ StayMove
              \/ /\ h.st = "PACKET_READ_WAIT_REQ" /\ request = "data" /\ NoPulse
                 /\ h' = PrepareCdromRead(h)
<1> USE DEF Keeps
<1>0. DOMAIN h = HostFields
  BY DEF HostType
<1>1. ASSUME NEW s \in Waits, NEW y, WaitReq(s, y)
      PROVE  \/ OverMove \/ StayMove
             \/ h.st = s /\ request = "data" /\ NoPulse /\ h' = y
  <2>0. h.st = s /\ h.wait = 0
    BY <1>1 DEF WaitReq, At
  <2>1. CASE request = "data"
    BY <1>1, <2>0, <2>1, QuietBus DEF WaitReq
  <2>2. CASE request = "none"
    <3>1. h' = h /\ NoPulse
      BY <1>1, <2>2, QuietBus DEF WaitReq
    <3> QED
      BY <1>0, <2>0, <3>1 DEF StayMove
  <2>3. CASE request \notin {"none", "data"}
    <3>1. h' = [h EXCEPT !.st = "IDLE"] /\ NoPulse
      BY <1>1, <2>3, QuietBus DEF WaitReq
    <3> QED
      BY <1>0, <2>0, <2>3, <3>1 DEF OverMove, HostFields
  <2> QED
    BY <2>1, <2>2, <2>3
<1>2. ASSUME ReadWaitReq PROVE ReadDataMove \/ OverMove \/ StayMove
  <2>1. CASE /\ h.st = "READ_WAIT_REQ" /\ request = "data" /\ NoPulse
             /\ h' = [h EXCEPT !.st = "READ_REGS"]
    BY <1>0, <2>1 DEF ReadDataMove, HostFields
  <2> QED
    BY <1>1, <1>2, <2>1 DEF ReadWaitReq, Waits
<1>3. ASSUME WriteWaitReq PROVE WriteDataMove \/ OverMove \/ StayMove
  <2>1. CASE /\ h.st = "WRITE_WAIT_REQ" /\ request = "data" /\ NoPulse
             /\ h' = [h EXCEPT !.cnt = 0, !.st = "WRITE_RECV"]
    BY <1>0, <2>1 DEF WriteDataMove, HostFields
  <2> QED
    BY <1>1, <1>3, <2>1 DEF WriteWaitReq, Waits
<1>4. ASSUME PacketWaitReq PROVE PacketDataMove \/ OverMove \/ StayMove
  <2> DEFINE p == [k \in 1 .. PacketWords |-> Zero]
  <2>1. CASE /\ h.st = "PACKET_WAIT_REQ" /\ request = "data" /\ NoPulse
             /\ h' = [h EXCEPT !.cnt = 0, !.packet = p, !.st = "PACKET_RECV"]
    <3>1. DOMAIN p = 1 .. PacketWords
      OBVIOUS
    <3> HIDE DEF p
    <3>2. Keeps({"st", "cnt", "packet"}) /\ h'.st = "PACKET_RECV" /\ h'.cnt = 0 /\ h'.packet = p
      BY <1>0, <2>1 DEF HostFields
    <3> QED
      BY <2>1, <3>1, <3>2 DEF PacketDataMove
  <2> QED
    BY <1>1, <1>4, <2>1 DEF PacketWaitReq, Waits
<1>5. ASSUME PacketReadWaitReq
      PROVE  \/ OverMove \/ StayMove
             \/ /\ h.st = "PACKET_READ_WAIT_REQ" /\ request = "data" /\ NoPulse
                /\ h' = PrepareCdromRead(h)
  BY <1>1, <1>5 DEF PacketReadWaitReq, Waits
<1> QED
  BY <1>2, <1>3, <1>4, <1>5

\* A sequence given as a function, its length and its beginning.
LEMMA SequenceFields ==
  ASSUME NEW n \in Nat, NEW f, f = [i \in 1 .. n |-> f[i]], NEW m \in 0 .. n
  PROVE  /\ Len(f) = n
         /\ SubSeq(f, 1, m) = [i \in 1 .. m |-> f[i]] /\ Len(SubSeq(f, 1, m)) = m
<1> DEFINE S == {f[i] : i \in 1 .. n}
<1>1. f \in [1 .. n -> S]
  OBVIOUS
<1>2. f \in Seq(S) /\ Len(f) = n
  BY <1>1, IsASeq, LenProperties
<1>3. SubSeq(f, 1, m) = [i \in 1 .. m |-> f[i]]
  BY <1>2, SubSeqProperties
<1> QED
  BY <1>2, <1>3, SubSeqProperties

\* The response send_packet_data prepares: as much of it as the limit allows.
LEMMA SendFields ==
  ASSUME NEW x, DOMAIN x = HostFields, x.limit \in Nat \ {0},
         NEW n \in Nat, NEW d, d = [i \in 1 .. n |-> d[i]]
  PROVE  LET y == SendPacketData(x, d)
             m == MinOf(n, x.limit)
         IN  /\ m \in 0 .. n /\ m <= x.limit /\ (n # 0 => m # 0)
             /\ DOMAIN y = HostFields /\ y.pkt = m /\ y.cyl = m /\ y.count = 2 /\ y.cnt = 0
             /\ y.status = {"RDY", "DRQ", "IRQ"} /\ y.st = "PACKET_SEND"
             /\ \A k \in 1 .. m : y.data[k] = d[k]
             /\ \A f \in HostFields \ {"data", "pkt", "cyl", "count", "status", "cnt", "st"} :
                  y[f] = x[f]
<1> DEFINE m == MinOf(n, x.limit)
           y == SendPacketData(x, d)
           s == SubSeq(d, 1, m)
<1>1. m \in 0 .. n /\ m <= x.limit /\ (n # 0 => m # 0)
  BY DEF MinOf
<1>2. Len(d) = n /\ s = [i \in 1 .. m |-> d[i]] /\ Len(s) = m
  BY <1>1, SequenceFields
<1>3. m = IF Len(d) > x.limit THEN x.limit ELSE Len(d)
  BY <1>2 DEF MinOf
<1>4. SubSeq(d, 1, IF Len(d) > x.limit THEN x.limit ELSE Len(d)) = s
  BY <1>3
<1>5. y = [x EXCEPT !.data = s, !.pkt = Len(s), !.cyl = Len(s), !.count = 2,
                    !.status = {"RDY", "DRQ", "IRQ"}, !.cnt = 0, !.st = "PACKET_SEND"]
  BY <1>4 DEF SendPacketData
<1> DEFINE r == {"RDY", "DRQ", "IRQ"}
<1>6. r = {"RDY", "DRQ", "IRQ"}
  OBVIOUS
<1>7. \A k \in 1 .. m : s[k] = d[k]
  BY <1>2
<1> HIDE DEF m, y, s, r
<1>8. y = [x EXCEPT !.data = s, !.pkt = m, !.cyl = m, !.count = 2,
                    !.status = r, !.cnt = 0, !.st = "PACKET_SEND"]
  BY <1>2, <1>5, <1>6
<1>9. /\ DOMAIN y = HostFields /\ y.pkt = m /\ y.cyl = m /\ y.count = 2 /\ y.cnt = 0
      /\ y.status = r /\ y.st = "PACKET_SEND" /\ y.data = s
      /\ \A f \in HostFields \ {"data", "pkt", "cyl", "count", "status", "cnt", "st"} : y[f] = x[f]
  BY <1>8 DEF HostFields
<1> QED
  BY <1>1, <1>6, <1>7, <1>9 DEF m, y

\* The end of a packet.
LEMMA FinishFields ==
  ASSUME NEW x, DOMAIN x = HostFields, NEW key \in {0, 5}, NEW extra \in SUBSET {"DSC"}
  PROVE  LET y == FinishPacket(x, key, extra) IN
         /\ DOMAIN y = HostFields /\ y.st = "SET_REGS" /\ y.next = "IDLE" /\ y.count = 3
         /\ y.pkt = 0 /\ y.sense = key
         /\ y.status \subseteq HostBits /\ "DRQ" \notin y.status /\ "END" \notin y.status
         /\ key = 5 <=> "ERR" \in y.status
         /\ \A f \in HostFields \ {"st", "next", "count", "pkt", "sense", "status"} : y[f] = x[f]
<1> DEFINE y == FinishPacket(x, key, extra)
           z == [x EXCEPT !.sense = key, !.count = 3, !.pkt = 0]
           s == {"RDY", "IRQ"} \cup (IF key # 0 THEN {"ERR"} ELSE {}) \cup extra
<1>1. y = Respond(z, s, "IDLE")
  BY DEF FinishPacket
<1>2. DOMAIN z = HostFields /\ z.sense = key /\ z.count = 3 /\ z.pkt = 0
      /\ \A f \in HostFields \ {"sense", "count", "pkt"} : z[f] = x[f]
  BY DEF HostFields
<1>3. /\ s \subseteq HostBits /\ "DRQ" \notin s /\ "END" \notin s
      /\ key = 5 <=> "ERR" \in s
  BY DEF HostBits
<1> HIDE DEF y, z, s
<1>4. /\ DOMAIN y = HostFields /\ y.st = "SET_REGS" /\ y.status = s /\ y.next = "IDLE"
      /\ \A f \in HostFields \ {"st", "status", "next"} : y[f] = z[f]
  BY <1>1, <1>2, RespondFields
<1>5. y.sense = key /\ y.count = 3 /\ y.pkt = 0
  BY <1>2, <1>4 DEF HostFields
<1>6. \A f \in HostFields \ {"st", "next", "count", "pkt", "sense", "status"} : y[f] = x[f]
  BY <1>2, <1>4
<1> QED
  BY <1>3, <1>4, <1>5, <1>6 DEF y

\* The sectors of a data block: at least one, no more than are left, than fit
\* the buffer, and than the guest's limit has room for.
LEMMA ChunkBounds ==
  ASSUME NEW x, x.rem \in Nat \ {0}, x.limit \in Nat \ {0}
  PROVE  /\ CdChunk(x) \in 1 .. MaxChunk /\ CdChunk(x) <= x.rem
         /\ x.limit >= CdWords => CdChunk(x) * CdWords <= x.limit
<1>1. MaxChunk \in Nat \ {0} /\ CdWords \in Nat \ {0}
  BY ConstantTypes
<1> DEFINE most == MinOf(x.rem, MaxChunk)
           d == x.limit \div CdWords
<1>2. most \in 1 .. MaxChunk /\ most <= x.rem
  BY <1>1 DEF MinOf
<1>3. d \in Nat /\ d * CdWords <= x.limit /\ (x.limit >= CdWords => d >= 1)
  <2>1. d \in Nat /\ x.limit = CdWords * d + (x.limit % CdWords) /\ x.limit % CdWords \in 0 .. CdWords - 1
    BY <1>1
  <2>2. CdWords * d = d * CdWords
    BY <1>1, <2>1
  <2>3. d * CdWords <= x.limit
    <3> HIDE DEF d
    <3>1. d * CdWords \in Nat
      BY <1>1, <2>1
    <3> QED
      BY <1>1, <2>1, <2>2, <3>1
  <2>4. ASSUME x.limit >= CdWords PROVE d >= 1
    <3> HIDE DEF d
    <3>1. CASE d = 0
      <4>1. CdWords * d = 0
        BY <1>1, <3>1
      <4> QED
        BY <1>1, <2>1, <2>4, <4>1
    <3> QED
      BY <2>1, <3>1
  <2> QED
    BY <2>1, <2>3, <2>4
<1> DEFINE fit == IF x.limit >= CdWords THEN MinOf(most, d) ELSE most
<1>4. CdChunk(x) = IF fit = 0 THEN 1 ELSE fit
  BY DEF CdChunk
<1> HIDE DEF most, d
<1>5. fit \in 1 .. MaxChunk /\ fit <= x.rem /\ (x.limit >= CdWords => fit <= d)
  BY <1>1, <1>2, <1>3 DEF MinOf
<1> HIDE DEF fit
<1>6. CdChunk(x) = fit
  BY <1>4, <1>5
<1>7. ASSUME x.limit >= CdWords PROVE fit * CdWords <= x.limit
  <2>1. fit \in Nat /\ fit <= d
    BY <1>5, <1>7
  <2>2. fit * CdWords <= d * CdWords
    BY <1>1, <1>3, <2>1
  <2>3. fit * CdWords \in Nat /\ d * CdWords \in Nat
    BY <1>1, <1>3, <2>1
  <2> QED
    BY <1>3, <2>2, <2>3
<1> QED
  BY <1>5, <1>6, <1>7

\* The next part of a CD read.
LEMMA PrepareMoves ==
  ASSUME NEW x, DOMAIN x = HostFields, x.limit \in Nat \ {0}, x.limit = h.limit,
         x.plba \in Nat, x.rem \in Nat, x.plba = Start, x.rem = Left, x.sense = h.sense,
         h.sense \in {0, 5}, More, NoPulse,
         h.st = "PACKET_HANDLE" \/ (h.st = "PACKET_READ_WAIT_REQ" /\ request = "data"),
         \A f \in HostFields \ {"plba", "rem"} : x[f] = h[f],
         h' = PrepareCdromRead(x)
  PROVE  AnswerMove \/ FinishMove
<1> USE DEF Keeps
<1>0. MaxChunk \in Nat \ {0} /\ CdWords \in Nat \ {0} /\ Sectors \in Nat \ {0} /\ BufWords \in Nat
      /\ MaxChunk * CdWords <= BufWords
  BY ConstantTypes
<1>1. ASSUME NEW key \in {0, 5}, h' = FinishPacket(x, key, {}),
             \/ Left = 0 /\ key = 0
             \/ \E c \in 1 .. MaxChunk : c <= Left /\ Start + c > Sectors /\ key = 5
      PROVE  FinishMove
  <2>1. /\ DOMAIN h' = HostFields /\ h'.st = "SET_REGS" /\ h'.next = "IDLE" /\ h'.count = 3
        /\ h'.pkt = 0 /\ h'.sense = key
        /\ h'.status \subseteq HostBits /\ "DRQ" \notin h'.status /\ "END" \notin h'.status
        /\ key = 5 <=> "ERR" \in h'.status
        /\ \A f \in HostFields \ {"st", "next", "count", "pkt", "sense", "status"} : h'[f] = x[f]
    BY <1>1, FinishFields
  <2>2. h'.plba = x.plba /\ h'.rem = x.rem
    BY <2>1 DEF HostFields
  <2>3. Keeps({"pkt", "count", "status", "st", "next", "sense", "plba", "rem"})
    BY <2>1
  <2>4. ReadFinish
    BY <1>1, <2>1, <2>2 DEF ReadFinish
  <2> HIDE DEF Keeps
  <2> QED
    BY <2>1, <2>2, <2>3, <2>4 DEF FinishMove
<1>2. CASE x.rem = 0
  <2>1. h' = FinishPacket(x, 0, {})
    BY <1>2 DEF PrepareCdromRead
  <2> QED
    BY <1>1, <1>2, <2>1
<1>3. CASE x.rem # 0
  <2> DEFINE c == CdChunk(x)
  <2>1. c \in 1 .. MaxChunk /\ c <= x.rem /\ (x.limit >= CdWords => c * CdWords <= x.limit)
    BY <1>3, ChunkBounds
  <2>2. CASE x.plba + c > Sectors
    <3>1. h' = FinishPacket(x, 5, {})
      BY <1>3, <2>2 DEF PrepareCdromRead
    <3> QED
      BY <1>1, <2>1, <2>2, <3>1
  <2>3. CASE ~(x.plba + c > Sectors)
    <3> DEFINE y == [x EXCEPT !.plba = x.plba + c, !.rem = x.rem - c]
               d == CdData(x.plba, c)
               n == c * CdWords
               m == MinOf(n, h.limit)
               e(i) == image[x.plba + (i - 1) \div CdWords][(i - 1) % CdWords]
    <3>1. h' = SendPacketData(y, d)
      BY <1>3, <2>3 DEF PrepareCdromRead
    <3> HIDE DEF c
    <3>2. /\ DOMAIN y = HostFields /\ y.plba = x.plba + c /\ y.rem = x.rem - c
          /\ \A f \in HostFields \ {"plba", "rem"} : y[f] = x[f]
      BY DEF HostFields
    <3>3. d = [i \in 1 .. n |-> e(i)]
      BY DEF CdData
    <3>4. n \in Nat \ {0} /\ n <= BufWords
      <4>1. n \in Nat \ {0} /\ c * CdWords <= MaxChunk * CdWords
        BY <1>0, <2>1
      <4>2. MaxChunk * CdWords \in Nat
        BY <1>0
      <4> QED
        BY <1>0, <4>1, <4>2
    <3> HIDE DEF n, d, y, e
    <3>5. d = [i \in 1 .. n |-> d[i]]
      BY <3>3
    <3>6. y.limit = h.limit /\ y.limit \in Nat \ {0} /\ MinOf(n, y.limit) = m
      BY <3>2 DEF HostFields
    <3> HIDE DEF m
    <3>7. /\ m \in 0 .. n
          /\ DOMAIN h' = HostFields /\ h'.pkt = m /\ h'.cyl = m /\ h'.count = 2 /\ h'.cnt = 0
          /\ h'.status = {"RDY", "DRQ", "IRQ"} /\ h'.st = "PACKET_SEND"
          /\ \A k \in 1 .. m : h'.data[k] = d[k]
          /\ \A f \in HostFields \ {"data", "pkt", "cyl", "count", "status", "cnt", "st"} :
               h'[f] = y[f]
      BY <3>1, <3>2, <3>4, <3>5, <3>6, SendFields, SMTT(30)
    <3>8. h'.plba = x.plba + c /\ h'.rem = x.rem - c /\ h'.sense = h.sense
      BY <3>2, <3>7 DEF HostFields
    <3>9. Keeps({"data", "pkt", "cyl", "count", "status", "cnt", "st", "sense", "plba", "rem"})
      BY <3>2, <3>7
    <3>10. ReadAnswer
      <4>0. \A k \in 1 .. m : k \in 1 .. n
        BY <3>4, <3>7
      <4>1. \A k \in 1 .. h'.pkt : h'.data[k] = e(k)
        <5>1. \A k \in 1 .. n : d[k] = e(k)
          BY <3>3
        <5> QED
          BY <3>7, <4>0, <5>1
      <4>2. Start + c <= Sectors
        BY <1>0, <2>1, <2>3
      <4>3. h'.pkt = MinOf(c * CdWords, h.limit)
        BY <3>7 DEF m, n
      <4> QED
        BY <2>1, <3>8, <4>1, <4>2, <4>3 DEF ReadAnswer, e
    <3>11. h'.pkt \in 0 .. BufWords /\ h'.plba \in Nat /\ h'.rem \in Nat
      BY <1>0, <2>1, <3>4, <3>7, <3>8
    <3> HIDE DEF Keeps
    <3> QED
      BY <3>7, <3>8, <3>9, <3>10, <3>11 DEF AnswerMove
  <2> QED
    BY <2>2, <2>3
<1> QED
  BY <1>2, <1>3

\* The packet the host reads out of the buffer is one of those the guest
\* sends, or has an unknown opcode.
LEMMA AssembledType ==
  LET p == Assembled(h) IN
  \/ p.op \in {"none", "seek", "bad"}
  \/ p.op = "sense" /\ p.n \in {0, 1}
  \/ p.op = "info" /\ p.n \in 0 .. BufWords
  \/ p.op = "read" /\ p.lba \in Nat /\ p.n \in Nat
<1>1. \A p \in Packets : \/ p.op \in {"none", "seek", "bad"}
                         \/ p.op = "sense" /\ p.n \in {0, 1}
                         \/ p.op = "info" /\ p.n \in 0 .. BufWords
                         \/ p.op = "read" /\ p.lba \in Nat /\ p.n \in Nat
  BY PacketsAssumption
<1>2. Assembled(h) \in Packets \/ Assembled(h) = [op |-> "bad"]
  BY DEF Assembled
<1> QED
  BY <1>1, <1>2

\* What the host does with a packet.
LEMMA HandleMoves ==
  ASSUME RtlType, HostType, PacketHandle
  PROVE  AnswerMove \/ FinishMove
<1> USE DEF Keeps
<1>1. h' = HandlePacket(h) /\ NoPulse /\ h.st = "PACKET_HANDLE"
  BY QuietBus DEF PacketHandle, At
<1>2. /\ DOMAIN h = HostFields /\ h.limit \in Nat \ {0} /\ h.sense \in {0, 5} /\ BufWords \in Nat \ {0}
      /\ h.plba \in Nat /\ h.rem \in Nat
  BY <1>1, ConstantTypes DEF HostType, InPacket, PacketStates
<1> DEFINE p == Assembled(h)
<1>3. \/ p.op \in {"none", "seek", "bad"}
      \/ p.op = "sense" /\ p.n \in {0, 1}
      \/ p.op = "info" /\ p.n \in 0 .. BufWords
      \/ p.op = "read" /\ p.lba \in Nat /\ p.n \in Nat
  BY AssembledType
<1>4. ASSUME NEW key \in {0, 5}, NEW extra \in SUBSET {"DSC"}, h' = FinishPacket(h, key, extra),
             (Asked("none") /\ key = 0) \/ (Asked("seek") /\ key = 0) \/ (Asked("bad") /\ key = 5)
      PROVE  FinishMove
  <2>1. /\ DOMAIN h' = HostFields /\ h'.st = "SET_REGS" /\ h'.next = "IDLE" /\ h'.count = 3
        /\ h'.pkt = 0 /\ h'.sense = key
        /\ h'.status \subseteq HostBits /\ "DRQ" \notin h'.status /\ "END" \notin h'.status
        /\ key = 5 <=> "ERR" \in h'.status
        /\ \A f \in HostFields \ {"st", "next", "count", "pkt", "sense", "status"} : h'[f] = h[f]
    BY <1>2, <1>4, FinishFields
  <2>2. h'.plba = h.plba /\ h'.rem = h.rem
    BY <2>1 DEF HostFields
  <2>3. Keeps({"pkt", "count", "status", "st", "next", "sense", "plba", "rem"})
    BY <2>1
  <2>4. PlainFinish
    BY <1>4, <2>1, <2>2 DEF PlainFinish
  <2> HIDE DEF Keeps
  <2> QED
    BY <1>1, <1>2, <2>1, <2>2, <2>3, <2>4 DEF FinishMove
<1>5. CASE p.op = "none"
  <2>1. h' = FinishPacket(h, 0, {})
    BY <1>1, <1>5 DEF HandlePacket
  <2>2. Asked("none") /\ {} \in SUBSET {"DSC"}
    BY <1>1, <1>5 DEF Asked
  <2> HIDE DEF p
  <2> QED
    BY <1>4, <2>1, <2>2
<1>6. CASE p.op = "seek"
  <2>1. h' = FinishPacket(h, 0, {"DSC"})
    BY <1>1, <1>6 DEF HandlePacket
  <2>2. Asked("seek") /\ {"DSC"} \in SUBSET {"DSC"}
    BY <1>1, <1>6 DEF Asked
  <2> HIDE DEF p
  <2> QED
    BY <1>4, <2>1, <2>2
<1>7. CASE p.op = "bad"
  <2>1. h' = FinishPacket(h, 5, {})
    BY <1>1, <1>7 DEF HandlePacket
  <2>2. Asked("bad") /\ {} \in SUBSET {"DSC"}
    BY <1>1, <1>7 DEF Asked
  <2> HIDE DEF p
  <2> QED
    BY <1>4, <2>1, <2>2
<1>8. CASE p.op = "sense"
  <2> DEFINE n == p.n
             d == [k \in 1 .. n |-> <<"sense", h.sense, 0>>]
             y == SendPacketData(h, d)
             m == MinOf(n, h.limit)
             e == <<"sense", h.sense, 0>>
  <2>1. h' = [y EXCEPT !.sense = 0]
    BY <1>1, <1>8 DEF HandlePacket
  <2>2. n \in {0, 1} /\ n \in 0 .. BufWords
    BY <1>2, <1>3, <1>8
  <2> HIDE DEF n
  <2>3. /\ m = n /\ MinOf(n, h.limit) = m /\ n \in Nat
        /\ d = [i \in 1 .. n |-> d[i]] /\ \A k \in 1 .. n : d[k] = e
    BY <1>2, <2>2 DEF MinOf
  <2> HIDE DEF d, m, e, p
  <2>4. /\ m \in 0 .. n /\ DOMAIN y = HostFields /\ y.pkt = m /\ y.cyl = m /\ y.count = 2 /\ y.cnt = 0
        /\ y.status = {"RDY", "DRQ", "IRQ"} /\ y.st = "PACKET_SEND"
        /\ \A k \in 1 .. m : y.data[k] = d[k]
        /\ \A f \in HostFields \ {"data", "pkt", "cyl", "count", "status", "cnt", "st"} : y[f] = h[f]
    BY <1>2, <2>2, <2>3, SendFields, SMTT(30)
  <2> HIDE DEF y
  <2>5. h'.sense = 0 /\ DOMAIN h' = HostFields /\ \A f \in HostFields \ {"sense"} : h'[f] = y[f]
    BY <2>1, <2>4 DEF HostFields
  <2>6. /\ h'.pkt = n /\ h'.cyl = n /\ h'.count = 2 /\ h'.cnt = 0 /\ h'.status = {"RDY", "DRQ", "IRQ"}
        /\ h'.st = "PACKET_SEND" /\ h'.data = y.data /\ h'.plba = h.plba /\ h'.rem = h.rem
    BY <2>3, <2>4, <2>5 DEF HostFields
  <2>7. Keeps({"data", "pkt", "cyl", "count", "status", "cnt", "st", "sense", "plba", "rem"})
    BY <2>4, <2>5
  <2>8. SenseAnswer
    <3>1. \A k \in 1 .. h'.pkt : h'.data[k] = e
      BY <2>2, <2>3, <2>4, <2>6
    <3> QED
      BY <1>1, <1>8, <2>5, <2>6, <3>1 DEF SenseAnswer, Asked, n, e, p
  <2> HIDE DEF Keeps
  <2> QED
    BY <1>1, <1>2, <2>2, <2>5, <2>6, <2>7, <2>8 DEF AnswerMove
<1>9. CASE p.op = "info"
  <2> DEFINE n == p.n
             d == [k \in 1 .. n |-> <<"info", n, k>>]
             m == MinOf(n, h.limit)
             e(k) == <<"info", n, k>>
  <2>1. h' = SendPacketData(h, d)
    BY <1>1, <1>9 DEF HandlePacket
  <2>2. n \in 0 .. BufWords /\ n \in Nat
    BY <1>2, <1>3, <1>9
  <2> HIDE DEF n
  <2>3. d = [i \in 1 .. n |-> d[i]] /\ (\A k \in 1 .. n : d[k] = e(k)) /\ MinOf(n, h.limit) = m
    OBVIOUS
  <2> HIDE DEF d, m, e, p
  <2>4. /\ m \in 0 .. n /\ DOMAIN h' = HostFields /\ h'.pkt = m /\ h'.cyl = m /\ h'.count = 2 /\ h'.cnt = 0
        /\ h'.status = {"RDY", "DRQ", "IRQ"} /\ h'.st = "PACKET_SEND"
        /\ \A k \in 1 .. m : h'.data[k] = d[k]
        /\ \A f \in HostFields \ {"data", "pkt", "cyl", "count", "status", "cnt", "st"} : h'[f] = h[f]
    BY <1>2, <2>1, <2>2, <2>3, SendFields, SMTT(30)
  <2>5. h'.sense = h.sense /\ h'.plba = h.plba /\ h'.rem = h.rem
    BY <2>4 DEF HostFields
  <2>6. Keeps({"data", "pkt", "cyl", "count", "status", "cnt", "st", "sense", "plba", "rem"})
    BY <2>4
  <2>7. InfoAnswer
    <3>1. \A k \in 1 .. h'.pkt : h'.data[k] = e(k)
      BY <2>2, <2>3, <2>4
    <3> QED
      BY <1>1, <1>9, <2>4, <2>5, <3>1 DEF InfoAnswer, Asked, m, n, e, p
  <2>8. h'.pkt \in 0 .. BufWords
    BY <1>2, <2>2, <2>4
  <2> HIDE DEF Keeps
  <2> QED
    BY <1>1, <1>2, <2>4, <2>5, <2>6, <2>7, <2>8 DEF AnswerMove
<1>10. CASE p.op = "read"
  <2> DEFINE x == [h EXCEPT !.plba = p.lba, !.rem = p.n]
  <2>1. h' = PrepareCdromRead(x)
    BY <1>1, <1>10 DEF HandlePacket
  <2>2. p.lba \in Nat /\ p.n \in Nat /\ p.lba = Start /\ p.n = Left /\ More
    BY <1>1, <1>3, <1>10 DEF Start, Left, More, Asked
  <2> HIDE DEF p
  <2>3. /\ DOMAIN x = HostFields /\ x.plba = p.lba /\ x.rem = p.n
        /\ \A f \in HostFields \ {"plba", "rem"} : x[f] = h[f]
    BY <1>2 DEF HostFields
  <2> HIDE DEF x
  <2>4. x.limit = h.limit /\ x.sense = h.sense
    BY <2>3 DEF HostFields
  <2> QED
    BY <1>1, <1>2, <2>1, <2>2, <2>3, <2>4, PrepareMoves
<1> HIDE DEF p
<1> QED
  BY <1>3, <1>5, <1>6, <1>7, <1>8, <1>9, <1>10

\* The words the host reads out of the buffer.
StoreMove == StoreWord /\ (RecvMove \/ WrittenMove)
\* WRITE_RECV and PACKET_RECV.
LEMMA RecvMoves ==
  ASSUME RtlType, HostType
  PROVE  /\ WriteRecv => h.st = "WRITE_RECV" /\ StoreMove
         /\ PacketRecv => RecvMove \/ ReceivedMove
<1> USE DEF Keeps
<1>0. /\ DOMAIN h = HostFields /\ h.cnt \in Nat /\ h.count \in Nat
      /\ SectorWords \in Nat \ {0} /\ PacketWords \in Nat \ {0}
  BY ConstantTypes DEF HostType
<1>1. ASSUME WriteRecv PROVE h.st = "WRITE_RECV" /\ StoreMove
  <2>0. h.st = "WRITE_RECV" /\ StoreWord
    BY <1>1 DEF WriteRecv, At
  <2>1. CASE h.cnt < SectorWords
    <3> DEFINE x == [h EXCEPT !.cnt = @ + 1]
    <3>1. PulseRead(x, 15)
      BY <1>1, <2>1 DEF WriteRecv
    <3>2. DOMAIN x = HostFields /\ x.cnt = h.cnt + 1 /\ \A f \in HostFields \ {"cnt"} : x[f] = h[f]
      BY <1>0 DEF HostFields
    <3> HIDE DEF x
    <3>3. /\ DOMAIN h' = HostFields /\ \A f \in HostFields \ {"wait"} : h'[f] = x[f]
          /\ Pulse("rd", 15)
      BY <3>1, <3>2, ReadPulse
    <3>4. Keeps({"cnt", "wait", "packet"}) /\ h'.cnt = h.cnt + 1 /\ h'.packet = h.packet
      BY <3>2, <3>3 DEF HostFields
    <3> QED
      BY <2>0, <2>1, <3>3, <3>4 DEF StoreMove, RecvMove, Recvs
  <2>2. CASE ~(h.cnt < SectorWords)
    <3> DEFINE y == PutLba(h, (GetLba(h) + 1) % LbaSpace)
               c == h.count - 1
               x == [y EXCEPT !.cnt = 0, !.count = y.count - 1]
    <3>1. (GetLba(h) + 1) % LbaSpace \in Nat
      BY LbaType, ConstantTypes
    <3>2. /\ DOMAIN y = HostFields /\ y.sec \in Nat /\ y.cyl \in Nat /\ y.head \in Nat
          /\ \A f \in HostFields \ {"sec", "cyl", "head"} : y[f] = h[f]
      BY <3>1, PutTypes
    <3>3. /\ h' = IF x.count # 0 THEN [x EXCEPT !.st = "WRITE_REGS"] ELSE Respond(x, Done, "IDLE")
          /\ NoPulse
      BY <1>1, <2>2, QuietBus DEF WriteRecv
    <3>4. y.count - 1 = c
      BY <3>2 DEF HostFields
    <3> HIDE DEF y, c
    <3>5. /\ DOMAIN x = HostFields /\ x.cnt = 0 /\ x.count = c
          /\ \A f \in HostFields \ {"cnt", "count"} : x[f] = y[f]
      BY <3>2, <3>4 DEF HostFields
    <3> HIDE DEF x
    <3>6. /\ x.sec \in Nat /\ x.cyl \in Nat /\ x.head \in Nat /\ x.status = h.status /\ x.next = h.next
          /\ \A f \in HostFields \ {"sec", "cyl", "head", "cnt", "count"} : x[f] = h[f]
      BY <3>2, <3>5 DEF HostFields
    <3>a. x.sec = y.sec /\ x.cyl = y.cyl /\ x.head = y.head
      BY <3>2, <3>5 DEF HostFields
    <3>7. CASE c # 0
      <4>1. h' = [x EXCEPT !.st = "WRITE_REGS"]
        BY <3>3, <3>5, <3>7
      <4>2. DOMAIN h' = HostFields /\ h'.st = "WRITE_REGS" /\ \A f \in HostFields \ {"st"} : h'[f] = x[f]
        BY <3>5, <4>1 DEF HostFields
      <4>3. /\ h'.sec = x.sec /\ h'.cyl = x.cyl /\ h'.head = x.head /\ h'.status = x.status
            /\ h'.next = x.next /\ h'.cnt = 0 /\ h'.count = c
        BY <3>5, <4>2 DEF HostFields
      <4>4. Keeps({"sec", "cyl", "head", "cnt", "count", "st", "next", "status"})
        BY <3>6, <4>2
      <4>5. NextSector
        BY <3>a, <4>3 DEF NextSector, y
      <4> HIDE DEF Keeps
      <4> QED
        BY <1>0, <2>0, <2>2, <3>3, <3>6, <3>7, <4>2, <4>3, <4>4, <4>5 DEF StoreMove, WrittenMove, c
    <3>8. CASE c = 0
      <4>1. h' = Respond(x, Done, "IDLE")
        BY <3>3, <3>5, <3>8
      <4>2. /\ DOMAIN h' = HostFields /\ h'.st = "SET_REGS" /\ h'.status = Done /\ h'.next = "IDLE"
            /\ \A f \in HostFields \ {"st", "status", "next"} : h'[f] = x[f]
        BY <3>5, <4>1, RespondFields
      <4>3. h'.sec = x.sec /\ h'.cyl = x.cyl /\ h'.head = x.head /\ h'.cnt = 0 /\ h'.count = c
        BY <3>5, <4>2 DEF HostFields
      <4>4. Keeps({"sec", "cyl", "head", "cnt", "count", "st", "next", "status"})
        BY <3>6, <4>2
      <4>5. NextSector
        BY <3>a, <4>3 DEF NextSector, y
      <4> HIDE DEF Keeps
      <4> QED
        BY <1>0, <2>0, <2>2, <3>3, <3>6, <3>8, <4>2, <4>3, <4>4, <4>5 DEF StoreMove, WrittenMove, Done, c
    <3> QED
      BY <3>7, <3>8
  <2> QED
    BY <2>1, <2>2
<1>2. ASSUME PacketRecv PROVE RecvMove \/ ReceivedMove
  <2>0. h.st = "PACKET_RECV"
    BY <1>2 DEF PacketRecv, At
  <2> DEFINE y == IF h.cnt > 0 THEN [h EXCEPT !.packet[h.cnt] = rdata] ELSE h
             p == IF h.cnt > 0 THEN [h.packet EXCEPT ![h.cnt] = rdata] ELSE h.packet
  <2>1. DOMAIN y = HostFields /\ y.packet = p /\ \A f \in HostFields \ {"packet"} : y[f] = h[f]
    <3>1. CASE h.cnt > 0
      <4> DEFINE r == [h.packet EXCEPT ![h.cnt] = rdata]
      <4>1. y = [h EXCEPT !.packet = r] /\ p = r
        BY <3>1
      <4> HIDE DEF y, p, r
      <4> QED
        BY <1>0, <4>1 DEF HostFields
    <3>2. CASE ~(h.cnt > 0)
      BY <1>0, <3>2
    <3> QED
      BY <3>1, <3>2
  <2>2. p = IF h.cnt > 0 THEN [h.packet EXCEPT ![h.cnt] = rdata] ELSE h.packet
    OBVIOUS
  <2>3. CASE h.cnt < PacketWords
    <3> DEFINE x == [y EXCEPT !.cnt = y.cnt + 1]
    <3>1. PulseRead(x, 15)
      BY <1>2, <2>3 DEF PacketRecv
    <3>a. y.cnt = h.cnt
      BY <2>1 DEF HostFields
    <3> HIDE DEF y, p
    <3>2. DOMAIN x = HostFields /\ x.cnt = h.cnt + 1 /\ \A f \in HostFields \ {"cnt"} : x[f] = y[f]
      BY <2>1, <3>a DEF HostFields
    <3> HIDE DEF x
    <3>3. /\ DOMAIN h' = HostFields /\ \A f \in HostFields \ {"wait"} : h'[f] = x[f]
          /\ Pulse("rd", 15)
      BY <3>1, <3>2, ReadPulse
    <3>4. Keeps({"cnt", "wait", "packet"}) /\ h'.cnt = h.cnt + 1 /\ h'.packet = p
      BY <2>1, <3>2, <3>3 DEF HostFields
    <3> QED
      BY <2>0, <2>2, <2>3, <3>3, <3>4 DEF RecvMove, Recvs
  <2>4. CASE ~(h.cnt < PacketWords)
    <3> DEFINE x == [y EXCEPT !.cnt = 0, !.st = "PACKET_HANDLE"]
    <3>1. PulseWrite(x, 7, Zero)
      BY <1>2, <2>4 DEF PacketRecv
    <3> HIDE DEF y, p
    <3>2. /\ DOMAIN x = HostFields /\ x.cnt = 0 /\ x.st = "PACKET_HANDLE"
          /\ \A f \in HostFields \ {"cnt", "st"} : x[f] = y[f]
      BY <2>1 DEF HostFields
    <3> HIDE DEF x
    <3>3. /\ DOMAIN h' = HostFields /\ \A f \in HostFields \ {"wait"} : h'[f] = x[f]
          /\ Pulse("wr", 7)
      BY <3>1, <3>2, WritePulse
    <3>4. Keeps({"st", "cnt", "packet", "wait"}) /\ h'.cnt = 0 /\ h'.st = "PACKET_HANDLE" /\ h'.packet = p
      BY <2>1, <3>2, <3>3 DEF HostFields
    <3>5. h.cnt > 0
      BY <1>0, <2>4
    <3> QED
      BY <1>0, <2>0, <2>2, <2>4, <3>3, <3>4, <3>5 DEF ReceivedMove
  <2> QED
    BY <2>3, <2>4
<1> QED
  BY <1>1, <1>2

\* The ticks that leave the image alone.
PlainMove ==
  \/ StayMove \/ InitialMove \/ CommandMove \/ ResetMove \/ DriveMove \/ RestMove
  \/ StageMove \/ StagedMove \/ ShortMove \/ IdentifyMove \/ TransferMove \/ PacketMove
  \/ SendMove \/ SentMove \/ SetMove \/ RegMove \/ RegsMove
  \/ ReadMove \/ ReadRegsMove \/ OverMove \/ ReadDataMove
  \/ WriteMove \/ WriteRegsMove \/ WriteDataMove
  \/ PacketDataMove \/ (RecvMove /\ h.st = "PACKET_RECV") \/ ReceivedMove \/ AnswerMove \/ FinishMove
TickMove ==
  /\ turn = "tick" /\ turn' = "edge" /\ UNCHANGED <<rtl, kind, g>>
  /\ \/ UNCHANGED image /\ PlainMove
     \/ h.st = "WRITE_RECV" /\ StoreMove
  /\ h.wait > 0 => UNCHANGED image /\ StayMove

\* Every tick is one of the moves.
LEMMA TickMoves ==
  ASSUME RtlType, HostType, BusInv, Tick
  PROVE  TickMove
<1>1. turn' = "edge" /\ UNCHANGED <<rtl, kind, g>>
  BY DEF Tick
<1>2. CASE WriteRecv
  BY <1>1, <1>2, RecvMoves DEF TickMove, WriteRecv, At
<1>3. CASE UNCHANGED image /\ Cooldown
  BY <1>1, <1>3, PlainMoves DEF TickMove, PlainMove, Cooldown
<1>4. ASSUME UNCHANGED image, turn = "tick", h.wait = 0, PlainMove PROVE TickMove
  BY <1>1, <1>4 DEF TickMove
<1>5. CASE UNCHANGED image /\ (\/ Initial \/ IdleState \/ GetResetDrive \/ ResetSet \/ GetCmd)
  <2>1. turn = "tick" /\ h.wait = 0
    BY <1>5 DEF Initial, IdleState, GetResetDrive, ResetSet, GetCmd, At
  <2>2. PlainMove
    BY <1>5, PlainMoves DEF PlainMove
  <2> QED
    BY <1>4, <1>5, <2>1, <2>2
<1>6. CASE UNCHANGED image /\ (\/ DoCmd \/ SendId \/ SetRegs \/ SetRegsSend \/ ReadState \/ ReadSend
                               \/ WriteState \/ PacketSend)
  <2>1. turn = "tick" /\ h.wait = 0
    BY <1>6 DEF DoCmd, SendId, SetRegs, SetRegsSend, ReadState, ReadSend, WriteState, PacketSend, At
  <2>2. PlainMove
    BY <1>6, CommandMoves, SendMoves DEF PlainMove
  <2> QED
    BY <1>4, <1>6, <2>1, <2>2
<1>7. CASE UNCHANGED image /\ (\/ ReadRegs \/ WriteRegs \/ ReadWaitReq \/ WriteWaitReq \/ PacketWaitReq)
  <2>1. turn = "tick" /\ h.wait = 0
    BY <1>7 DEF ReadRegs, WriteRegs, ReadWaitReq, WriteWaitReq, PacketWaitReq, WaitReq, At
  <2>2. PlainMove
    BY <1>7, SectorMoves, WaitMoves DEF PlainMove
  <2> QED
    BY <1>4, <1>7, <2>1, <2>2
<1>8. CASE UNCHANGED image /\ (\/ PacketRecv \/ PacketHandle)
  <2>1. turn = "tick" /\ h.wait = 0 /\ (PacketRecv => h.st = "PACKET_RECV")
    BY <1>8 DEF PacketRecv, PacketHandle, At
  <2>2. PlainMove
    BY <1>8, <2>1, RecvMoves, HandleMoves DEF PlainMove
  <2> QED
    BY <1>4, <1>8, <2>1, <2>2
<1>9. CASE UNCHANGED image /\ PacketReadWaitReq
  <2>1. turn = "tick" /\ h.wait = 0 /\ h.st = "PACKET_READ_WAIT_REQ"
    BY <1>9 DEF PacketReadWaitReq, WaitReq, At
  <2>2. CASE OverMove \/ StayMove
    BY <1>4, <1>9, <2>1, <2>2 DEF PlainMove
  <2>3. CASE request = "data" /\ NoPulse /\ h' = PrepareCdromRead(h)
    <3>1. /\ DOMAIN h = HostFields /\ h.limit \in Nat \ {0} /\ h.sense \in {0, 5}
          /\ h.plba \in Nat /\ h.rem \in Nat
      BY <2>1 DEF HostType, InPacket, PacketStates
    <3>2. h.plba = Start /\ h.rem = Left /\ More
      BY <2>1 DEF Start, Left, More
    <3>3. AnswerMove \/ FinishMove
      BY <2>1, <2>3, <3>1, <3>2, PrepareMoves
    <3> QED
      BY <1>4, <1>9, <2>1, <3>3 DEF PlainMove
  <2> QED
    BY <1>9, <2>2, <2>3, WaitMoves
<1> QED
  BY <1>2, <1>3, <1>5, <1>6, <1>7, <1>8, <1>9 DEF Tick
-----------------------------------------------------------------------------
(* A tick keeps the invariant, move by move.                                *)

\* What no tick changes.
TickFrame == turn = "tick" /\ turn' = "edge" /\ UNCHANGED <<rtl, kind, g>>
\* The guest and the registers, across a tick.
LEMMA TickKeeps ==
  ASSUME TickFrame
  PROVE  /\ status' = status /\ request' = request /\ irq' = irq /\ lastRead' = lastRead
         /\ swReset' = swReset /\ task' = task /\ blk' = blk /\ ioCnt' = ioCnt /\ oldStb' = oldStb
         /\ mgmtCnt' = mgmtCnt /\ oldOp' = oldOp /\ buf' = buf /\ q' = q /\ rdata' = rdata
         /\ turn = "tick" /\ turn' = "edge" /\ kind' = kind /\ g' = g
         /\ ~Pending /\ (Pending' <=> bus'.op # "none")
         /\ (Drq' <=> Drq) /\ (Active' <=> Active) /\ (BlockMoved' <=> BlockMoved)
         /\ Hand' = Hand /\ Total' = Total /\ Stb' = Stb
BY DEF TickFrame, rtl, Pending, Drq, Active, BlockMoved, Hand, Total, Stb

\* The types of the host's fields, when only the fields in S change.
LEMMA HostTypeKept ==
  ASSUME HostType, NEW S, Keeps(S),
         "st" \in S => h'.st \in States, "next" \in S => h'.next \in Waits \cup Ends,
         "cnt" \in S => h'.cnt \in Nat, "count" \in S => h'.count \in Nat,
         "sec" \in S => h'.sec \in Nat, "cyl" \in S => h'.cyl \in Nat, "head" \in S => h'.head \in Nat,
         "drv" \in S => h'.drv \in {0, 1}, "lba" \in S => h'.lba \in BOOLEAN,
         "dma" \in S => h'.dma \in BOOLEAN, "io" \in S => h'.io \in {0, 1},
         "pkt" \in S => h'.pkt \in 0 .. BufWords, "status" \in S => h'.status \subseteq HostBits,
         "irqPending" \in S => h'.irqPending \subseteq {"IRQ"},
         "sector" \in S => h'.sector \in -1 .. Sectors - 1,
         "heads" \in S => h'.heads \in Nat \ {0}, "spt" \in S => h'.spt \in Nat \ {0},
         "plba" \in S => h'.plba \in Nat, "rem" \in S => h'.rem \in Nat,
         "limit" \in S => h'.limit \in Nat, "sense" \in S => h'.sense \in {0, 5},
         "wait" \in S => h'.wait \in Nat,
         "packet" \in S => DOMAIN h'.packet = 1 .. PacketWords,
         (Counting => h.count # 0) => (Counting' => h'.count # 0),
         (InPacket => h.limit # 0) => (InPacket' => h'.limit # 0)
  PROVE  HostType'
<1>1. DOMAIN h' = HostFields /\ \A f \in HostFields \ S : h'[f] = h[f]
  BY DEF Keeps
<1>2. /\ h'.st \in States /\ h'.next \in Waits \cup Ends
      /\ h'.cnt \in Nat /\ h'.count \in Nat /\ h'.sec \in Nat /\ h'.cyl \in Nat /\ h'.head \in Nat
  BY <1>1 DEF HostFields, HostType
<1>3. /\ h'.drv \in {0, 1} /\ h'.lba \in BOOLEAN /\ h'.dma \in BOOLEAN /\ h'.io \in {0, 1}
      /\ h'.pkt \in 0 .. BufWords /\ h'.status \subseteq HostBits /\ h'.irqPending \subseteq {"IRQ"}
  BY <1>1 DEF HostFields, HostType
<1>4. /\ h'.sector \in -1 .. Sectors - 1 /\ h'.heads \in Nat \ {0} /\ h'.spt \in Nat \ {0}
      /\ h'.plba \in Nat /\ h'.rem \in Nat /\ h'.limit \in Nat /\ h'.sense \in {0, 5} /\ h'.wait \in Nat
      /\ DOMAIN h'.packet = 1 .. PacketWords
  BY <1>1, ZenonT(60) DEF HostFields, HostType
<1>5. (Counting' => h'.count # 0) /\ (InPacket' => h'.limit # 0)
  BY DEF HostType
<1> QED
  BY <1>1, <1>2, <1>3, <1>4, <1>5 DEF HostType

\* The numbers of the host.
LEMMA HostNumbers ==
  ASSUME HostType
  PROVE  /\ h.cnt \in Nat /\ h.count \in Nat /\ h.pkt \in Nat /\ h.io \in Nat /\ h.wait \in Nat
         /\ h.limit \in Nat /\ h.status \subseteq HostBits /\ h.next \in Waits \cup Ends
<1>1. /\ h.cnt \in Nat /\ h.count \in Nat /\ h.pkt \in 0 .. BufWords /\ h.io \in {0, 1} /\ h.wait \in Nat
      /\ h.limit \in Nat /\ h.status \subseteq HostBits /\ h.next \in Waits \cup Ends
  BY DEF HostType
<1> QED
  BY <1>1, ConstantTypes

\* The parts of the invariant a tick leaves alone.
LEMMA TickTypes ==
  ASSUME ControlInv, TickFrame, UNCHANGED image,
         NEW op \in {"none", "rd", "wr"}, NEW n \in 0 .. 15, Bus(op, n)
  PROVE  RtlType' /\ GuestType' /\ DataType'
<1>1. RtlType'
  BY TickKeeps DEF ControlInv, RtlType, Bus
<1>2. GuestType' /\ DataType'
  BY TickKeeps DEF ControlInv, GuestType, DataType, IsImage, SectorSize
<1> QED
  BY <1>1, <1>2

\* A block is only offered while no request stands; what a request tells.
LEMMA Requests ==
  ASSUME ControlInv
  PROVE  /\ Drq => request = "none"
         /\ request = "reset" => ~Active
         /\ request = "command" => ~irq /\ g.blocks = 0
         /\ request = "data" => Hand = g.blocks - 1
         /\ Active /\ request = "data" => g.blocks > 0
         /\ g.blocks \in Nat
         /\ Busy => request # "none"
         /\ ~Active => \A k, c : c # "none" => ~Is(k, c)
         /\ ~Active => g.task.cmd = "none"
         /\ h.st \in {"INITIAL", "GET_RESET_DRIVE"} => ~Active
         /\ h.st = "INITIAL" => request = "reset"
BY DEF ControlInv, RtlType, GuestType, ServeInv, MoveInv, AskInv, Drq, Active, Is, NoTask, Hand,
       BlockMoved

\* The image keeps its shape when the host stores a word.
LEMMA StoreTypes ==
  ASSUME ControlInv, TickFrame, StoreWord \/ UNCHANGED image,
         NEW op \in {"none", "rd", "wr"}, NEW n \in 0 .. 15, Bus(op, n)
  PROVE  RtlType' /\ GuestType' /\ DataType'
<1>1. RtlType' /\ GuestType'
  BY TickKeeps DEF ControlInv, RtlType, Bus, GuestType, IsImage, SectorSize
<1>2. IsImage(image')
  <2>1. CASE image' = image
    BY <2>1 DEF ControlInv, DataType
  <2>2. CASE image' = [image EXCEPT ![h.sector][h.cnt - 1] = rdata]
    <3> DEFINE r == [image[h.sector] EXCEPT ![h.cnt - 1] = rdata]
    <3>1. image' = [image EXCEPT ![h.sector] = r]
      BY <2>2
    <3>2. IsImage(image)
      BY DEF ControlInv, DataType
    <3>3. ASSUME h.sector \in 0 .. Sectors - 1 PROVE r = [k \in 0 .. SectorSize - 1 |-> r[k]]
      BY <3>2, <3>3 DEF IsImage
    <3> HIDE DEF r
    <3> QED
      BY <3>1, <3>2, <3>3 DEF IsImage
  <2> QED
    BY <2>1, <2>2 DEF StoreWord
<1>3. DataType'
  <2>1. SectorSize' = SectorSize
    BY TickKeeps DEF SectorSize
  <2> QED
    BY <1>2, <2>1, TickKeeps DEF ControlInv, DataType, IsImage
<1> QED
  BY <1>1, <1>3

\* The sectors of a command.
LEMMA TotalType ==
  ASSUME GuestType, Active
  PROVE  Total \in Nat \ {0}
BY ConstantTypes DEF GuestType, Active, Total, TaskFile

\* A tick that waits.
LEMMA StayKeeps ==
  ASSUME ControlInv, TickFrame, StayMove, UNCHANGED image
  PROVE  ControlInv'
<1>0. HostType /\ Keeps({"wait"}) /\ Bus("none", bus.n)
  BY DEF ControlInv, StayMove, NoPulse, Pulse
<1>1. /\ h'.st = h.st /\ h'.next = h.next /\ h'.cnt = h.cnt /\ h'.cmd = h.cmd /\ h'.dma = h.dma
      /\ h'.count = h.count /\ h'.sec = h.sec /\ h'.cyl = h.cyl /\ h'.head = h.head
      /\ h'.drv = h.drv /\ h'.lba = h.lba /\ h'.io = h.io /\ h'.pkt = h.pkt /\ h'.status = h.status
      /\ h'.irqPending = h.irqPending /\ h'.limit = h.limit
  BY <1>0 DEF Keeps, HostFields
<1>2. /\ ((h.wait > 0 /\ h'.wait = h.wait - 1) \/ h'.wait = h.wait) /\ bus'.op = "none"
      /\ bus'.n = bus.n
  BY DEF StayMove, NoPulse, Pulse, Bus
<1>3. /\ (Setting' <=> Setting) /\ Place' = Place /\ ~Pending' /\ (Busy' <=> Busy)
  BY <1>0, <1>1, <1>2, TickKeeps, HostNumbers DEF Setting, SetDone, Place, Busy, Sets, Sends, Recvs, Waits,
     Ends
<1>4. /\ h'.wait \in Nat
  BY <1>0, <1>1, <1>2, HostNumbers, ConstantTypes DEF Sets, Sends, Recvs, Waits, Ends, States, HostBits
<1>t. /\ ((Counting => h.count # 0) => (Counting' => h'.count # 0))
      /\ ((InPacket => h.limit # 0) => (InPacket' => h'.limit # 0))
  BY <1>0, <1>1, <1>2, HostNumbers, ConstantTypes DEF Counting, InPacket, PacketStates, Sets, Sends, Recvs,
     Waits, Ends
<1>5. RtlType' /\ GuestType' /\ DataType'
  BY <1>0, <1>2, HostNumbers, TickTypes DEF ControlInv, RtlType
<1>6. HostType'
  BY <1>0, <1>4, <1>t, HostTypeKept
<1>7. BusInv'
  BY <1>0, <1>1, <1>2, <1>3, TickKeeps, Requests, HostNumbers, ConstantTypes DEF ControlInv, BusInv, Sets,
     Sends, Recvs, Waits, Ends
<1>8. ServeInv'
  BY <1>0, <1>1, <1>2, <1>3, TickKeeps, Requests DEF ControlInv, ServeInv, Sets, Sends, Recvs, Waits, Ends,
     ResetPlace
<1>9. MoveInv'
  BY <1>0, <1>1, <1>2, <1>3, TickKeeps, Requests, HostNumbers, ConstantTypes DEF ControlInv, MoveInv, Sets,
     Sends, Recvs, Waits, Ends, Words, Written
<1>10. AskInv'
  BY <1>0, <1>1, <1>2, <1>3, TickKeeps, Requests DEF ControlInv, AskInv, Sets, Sends, Recvs, Waits, Ends
<1>11. PlaceInv'
  BY <1>0, <1>1, <1>2, <1>3, TickKeeps, Requests DEF ControlInv, PlaceInv, Sets, Sends, Recvs, Waits, Ends,
     Is, DiskStates, PacketStates
<1>12. CountInv'
  BY <1>0, <1>1, <1>2, <1>3, TickKeeps, Requests, HostNumbers, ConstantTypes DEF ControlInv, CountInv, Sets,
     Sends, Recvs, Waits, Ends, Is
<1>13. SilentInv'
  BY <1>0, <1>1, <1>2, <1>3, TickKeeps, Requests DEF ControlInv, SilentInv, Sets, Sends, Recvs, Waits, Ends,
     Is
<1> QED
  BY <1>5, <1>6, <1>7, <1>8, <1>9, <1>10, <1>11, <1>12, <1>13 DEF ControlInv

\* The first tick after a cold reset.
LEMMA InitialKeeps ==
  ASSUME ControlInv, TickFrame, InitialMove, UNCHANGED image, h.wait = 0
  PROVE  ControlInv'
<1>0. HostType /\ Keeps({"st", "wait"}) /\ Bus("wr", 6)
  BY DEF ControlInv, InitialMove, NoPulse, Pulse
<1>1. /\ h'.next = h.next /\ h'.cnt = h.cnt /\ h'.cmd = h.cmd /\ h'.dma = h.dma
      /\ h'.count = h.count /\ h'.sec = h.sec /\ h'.cyl = h.cyl /\ h'.head = h.head
      /\ h'.drv = h.drv /\ h'.lba = h.lba /\ h'.io = h.io /\ h'.pkt = h.pkt /\ h'.status = h.status
      /\ h'.irqPending = h.irqPending /\ h'.limit = h.limit
  BY <1>0 DEF Keeps, HostFields
<1>2. /\ h.st = "INITIAL" /\ h'.st = "IDLE" /\ bus'.op = "wr" /\ bus'.n = 6 /\ h'.wait \in Nat \ {0}
  BY DEF InitialMove, NoPulse, Pulse, Bus
<1>3. /\ ~Setting /\ ~Setting' /\ Place = h.st /\ Place' = h'.st /\ Pending'
      /\ (Busy <=> h.st \notin Waits \cup Ends) /\ Busy'
  BY <1>0, <1>1, <1>2, TickKeeps, HostNumbers DEF Setting, SetDone, Place, Busy, Sets, Sends, Recvs, Waits,
     Ends
<1>4. /\ h'.st \in States /\ h'.wait \in Nat
  BY <1>0, <1>1, <1>2, HostNumbers, ConstantTypes DEF Sets, Sends, Recvs, Waits, Ends, States, HostBits
<1>t. /\ ((Counting => h.count # 0) => (Counting' => h'.count # 0))
      /\ ((InPacket => h.limit # 0) => (InPacket' => h'.limit # 0))
  BY <1>0, <1>1, <1>2, HostNumbers, ConstantTypes DEF Counting, InPacket, PacketStates, Sets, Sends, Recvs,
     Waits, Ends
<1>5. RtlType' /\ GuestType' /\ DataType'
  BY <1>0, <1>2, HostNumbers, TickTypes DEF ControlInv, RtlType
<1>6. HostType'
  BY <1>0, <1>4, <1>t, HostTypeKept
<1>7. BusInv'
  BY <1>0, <1>1, <1>2, <1>3, TickKeeps, Requests, HostNumbers, ConstantTypes DEF ControlInv, BusInv, Sets,
     Sends, Recvs, Waits, Ends
<1>8. ServeInv'
  BY <1>0, <1>1, <1>2, <1>3, TickKeeps, Requests DEF ControlInv, ServeInv, Sets, Sends, Recvs, Waits, Ends,
     ResetPlace
<1>9. MoveInv'
  BY <1>0, <1>1, <1>2, <1>3, TickKeeps, Requests, HostNumbers, ConstantTypes DEF ControlInv, MoveInv, Sets,
     Sends, Recvs, Waits, Ends, Words, Written
<1>10. AskInv'
  BY <1>0, <1>1, <1>2, <1>3, TickKeeps, Requests DEF ControlInv, AskInv, Sets, Sends, Recvs, Waits, Ends
<1>11. PlaceInv'
  BY <1>0, <1>1, <1>2, <1>3, TickKeeps, Requests DEF ControlInv, PlaceInv, Sets, Sends, Recvs, Waits, Ends,
     Is, DiskStates, PacketStates
<1>12. CountInv'
  BY <1>0, <1>1, <1>2, <1>3, TickKeeps, Requests, HostNumbers, ConstantTypes DEF ControlInv, CountInv, Sets,
     Sends, Recvs, Waits, Ends, Is
<1>13. SilentInv'
  BY <1>0, <1>1, <1>2, <1>3, TickKeeps, Requests DEF ControlInv, SilentInv, Sets, Sends, Recvs, Waits, Ends,
     Is
<1> QED
  BY <1>5, <1>6, <1>7, <1>8, <1>9, <1>10, <1>11, <1>12, <1>13 DEF ControlInv

\* A command is seen.
LEMMA CommandKeeps ==
  ASSUME ControlInv, TickFrame, CommandMove, UNCHANGED image, h.wait = 0
  PROVE  ControlInv'
<1>0. HostType /\ Keeps({"st", "wait"}) /\ Bus("rd", 0)
  BY DEF ControlInv, CommandMove, NoPulse, Pulse
<1>1. /\ h'.next = h.next /\ h'.cnt = h.cnt /\ h'.cmd = h.cmd /\ h'.dma = h.dma
      /\ h'.count = h.count /\ h'.sec = h.sec /\ h'.cyl = h.cyl /\ h'.head = h.head
      /\ h'.drv = h.drv /\ h'.lba = h.lba /\ h'.io = h.io /\ h'.pkt = h.pkt /\ h'.status = h.status
      /\ h'.irqPending = h.irqPending /\ h'.limit = h.limit
  BY <1>0 DEF Keeps, HostFields
<1>2. /\ h.st = "IDLE" /\ h'.st = "GET_CMD" /\ request = "command" /\ bus'.op = "rd" /\ bus'.n = 0
      /\ h'.wait \in Nat \ {0}
  BY DEF CommandMove, NoPulse, Pulse, Bus
<1>3. /\ ~Setting /\ ~Setting' /\ Place = h.st /\ Place' = h'.st /\ Pending'
      /\ (Busy <=> h.st \notin Waits \cup Ends) /\ Busy'
  BY <1>0, <1>1, <1>2, TickKeeps, HostNumbers DEF Setting, SetDone, Place, Busy, Sets, Sends, Recvs, Waits,
     Ends
<1>4. /\ h'.st \in States /\ h'.wait \in Nat
  BY <1>0, <1>1, <1>2, HostNumbers, ConstantTypes DEF Sets, Sends, Recvs, Waits, Ends, States, HostBits
<1>t. /\ ((Counting => h.count # 0) => (Counting' => h'.count # 0))
      /\ ((InPacket => h.limit # 0) => (InPacket' => h'.limit # 0))
  BY <1>0, <1>1, <1>2, HostNumbers, ConstantTypes DEF Counting, InPacket, PacketStates, Sets, Sends, Recvs,
     Waits, Ends
<1>5. RtlType' /\ GuestType' /\ DataType'
  BY <1>0, <1>2, HostNumbers, TickTypes DEF ControlInv, RtlType
<1>6. HostType'
  BY <1>0, <1>4, <1>t, HostTypeKept
<1>7. BusInv'
  BY <1>0, <1>1, <1>2, <1>3, TickKeeps, Requests, HostNumbers, ConstantTypes DEF ControlInv, BusInv, Sets,
     Sends, Recvs, Waits, Ends
<1>8. ServeInv'
  BY <1>0, <1>1, <1>2, <1>3, TickKeeps, Requests DEF ControlInv, ServeInv, Sets, Sends, Recvs, Waits, Ends,
     ResetPlace
<1>9. MoveInv'
  BY <1>0, <1>1, <1>2, <1>3, TickKeeps, Requests, HostNumbers, ConstantTypes DEF ControlInv, MoveInv, Sets,
     Sends, Recvs, Waits, Ends, Words, Written
<1>10. AskInv'
  BY <1>0, <1>1, <1>2, <1>3, TickKeeps, Requests DEF ControlInv, AskInv, Sets, Sends, Recvs, Waits, Ends
<1>11. PlaceInv'
  BY <1>0, <1>1, <1>2, <1>3, TickKeeps, Requests DEF ControlInv, PlaceInv, Sets, Sends, Recvs, Waits, Ends,
     Is, DiskStates, PacketStates
<1>12. CountInv'
  BY <1>0, <1>1, <1>2, <1>3, TickKeeps, Requests, HostNumbers, ConstantTypes DEF ControlInv, CountInv, Sets,
     Sends, Recvs, Waits, Ends, Is
<1>13. SilentInv'
  BY <1>0, <1>1, <1>2, <1>3, TickKeeps, Requests DEF ControlInv, SilentInv, Sets, Sends, Recvs, Waits, Ends,
     Is
<1> QED
  BY <1>5, <1>6, <1>7, <1>8, <1>9, <1>10, <1>11, <1>12, <1>13 DEF ControlInv

\* A reset is seen.
LEMMA ResetKeeps ==
  ASSUME ControlInv, TickFrame, ResetMove, UNCHANGED image, h.wait = 0
  PROVE  ControlInv'
<1>0. HostType /\ Keeps({"st", "wait"}) /\ Bus("rd", 5)
  BY DEF ControlInv, ResetMove, NoPulse, Pulse
<1>1. /\ h'.next = h.next /\ h'.cnt = h.cnt /\ h'.cmd = h.cmd /\ h'.dma = h.dma
      /\ h'.count = h.count /\ h'.sec = h.sec /\ h'.cyl = h.cyl /\ h'.head = h.head
      /\ h'.drv = h.drv /\ h'.lba = h.lba /\ h'.io = h.io /\ h'.pkt = h.pkt /\ h'.status = h.status
      /\ h'.irqPending = h.irqPending /\ h'.limit = h.limit
  BY <1>0 DEF Keeps, HostFields
<1>2. /\ h.st = "IDLE" /\ h'.st = "GET_RESET_DRIVE" /\ request = "reset" /\ bus'.op = "rd"
      /\ bus'.n = 5 /\ h'.wait \in Nat \ {0}
  BY DEF ResetMove, NoPulse, Pulse, Bus
<1>3. /\ ~Setting /\ ~Setting' /\ Place = h.st /\ Place' = h'.st /\ Pending'
      /\ (Busy <=> h.st \notin Waits \cup Ends) /\ Busy'
  BY <1>0, <1>1, <1>2, TickKeeps, HostNumbers DEF Setting, SetDone, Place, Busy, Sets, Sends, Recvs, Waits,
     Ends
<1>4. /\ h'.st \in States /\ h'.wait \in Nat
  BY <1>0, <1>1, <1>2, HostNumbers, ConstantTypes DEF Sets, Sends, Recvs, Waits, Ends, States, HostBits
<1>t. /\ ((Counting => h.count # 0) => (Counting' => h'.count # 0))
      /\ ((InPacket => h.limit # 0) => (InPacket' => h'.limit # 0))
  BY <1>0, <1>1, <1>2, HostNumbers, ConstantTypes DEF Counting, InPacket, PacketStates, Sets, Sends, Recvs,
     Waits, Ends
<1>5. RtlType' /\ GuestType' /\ DataType'
  BY <1>0, <1>2, HostNumbers, TickTypes DEF ControlInv, RtlType
<1>6. HostType'
  BY <1>0, <1>4, <1>t, HostTypeKept
<1>7. BusInv'
  BY <1>0, <1>1, <1>2, <1>3, TickKeeps, Requests, HostNumbers, ConstantTypes DEF ControlInv, BusInv, Sets,
     Sends, Recvs, Waits, Ends
<1>8. ServeInv'
  BY <1>0, <1>1, <1>2, <1>3, TickKeeps, Requests DEF ControlInv, ServeInv, Sets, Sends, Recvs, Waits, Ends,
     ResetPlace
<1>9. MoveInv'
  BY <1>0, <1>1, <1>2, <1>3, TickKeeps, Requests, HostNumbers, ConstantTypes DEF ControlInv, MoveInv, Sets,
     Sends, Recvs, Waits, Ends, Words, Written
<1>10. AskInv'
  BY <1>0, <1>1, <1>2, <1>3, TickKeeps, Requests DEF ControlInv, AskInv, Sets, Sends, Recvs, Waits, Ends
<1>11. PlaceInv'
  BY <1>0, <1>1, <1>2, <1>3, TickKeeps, Requests DEF ControlInv, PlaceInv, Sets, Sends, Recvs, Waits, Ends,
     Is, DiskStates, PacketStates
<1>12. CountInv'
  BY <1>0, <1>1, <1>2, <1>3, TickKeeps, Requests, HostNumbers, ConstantTypes DEF ControlInv, CountInv, Sets,
     Sends, Recvs, Waits, Ends, Is
<1>13. SilentInv'
  BY <1>0, <1>1, <1>2, <1>3, TickKeeps, Requests DEF ControlInv, SilentInv, Sets, Sends, Recvs, Waits, Ends,
     Is
<1> QED
  BY <1>5, <1>6, <1>7, <1>8, <1>9, <1>10, <1>11, <1>12, <1>13 DEF ControlInv

\* The registers after a reset.
LEMMA DriveKeeps ==
  ASSUME ControlInv, TickFrame, DriveMove, UNCHANGED image, h.wait = 0
  PROVE  ControlInv'
<1>0. /\ HostType
      /\ Keeps({"st", "next", "status", "drv", "lba", "head", "sec", "count", "cyl"})
      /\ Bus("none", bus.n)
  BY DEF ControlInv, DriveMove, NoPulse, Pulse
<1>1. /\ h'.cnt = h.cnt /\ h'.cmd = h.cmd /\ h'.dma = h.dma /\ h'.io = h.io /\ h'.pkt = h.pkt
      /\ h'.irqPending = h.irqPending /\ h'.limit = h.limit /\ h'.wait = h.wait
  BY <1>0 DEF Keeps, HostFields
<1>2. /\ h.st = "GET_RESET_DRIVE" /\ h'.st = "SET_REGS" /\ h'.next = "RESET_SET"
      /\ h'.status \subseteq {"RDY"} /\ h'.drv \in {0, 1} /\ h'.lba \in BOOLEAN /\ h'.head = 0
      /\ h'.sec = 1 /\ h'.count = 1 /\ h'.cyl \in Nat /\ bus'.op = "none" /\ bus'.n = bus.n
  BY DEF DriveMove, NoPulse, Pulse, Bus
<1>3. /\ ~Setting /\ Setting' /\ Place = h.st /\ Place' = "SET_REGS" /\ ~Pending'
      /\ (Busy <=> h.st \notin Waits \cup Ends) /\ Busy'
  BY <1>0, <1>1, <1>2, TickKeeps, HostNumbers DEF Setting, SetDone, Place, Busy, Sets, Sends, Recvs, Waits,
     Ends
<1>4. /\ h'.st \in States /\ h'.next \in Waits \cup Ends /\ h'.status \subseteq HostBits
      /\ h'.count \in Nat /\ h'.head \in Nat /\ h'.sec \in Nat /\ h'.drv \in {0, 1}
      /\ h'.lba \in BOOLEAN /\ h'.cyl \in Nat /\ h'.wait \in Nat
  BY <1>0, <1>1, <1>2, HostNumbers, ConstantTypes DEF Sets, Sends, Recvs, Waits, Ends, States, HostBits
<1>t. /\ ((Counting => h.count # 0) => (Counting' => h'.count # 0))
      /\ ((InPacket => h.limit # 0) => (InPacket' => h'.limit # 0))
  BY <1>0, <1>1, <1>2, HostNumbers, ConstantTypes DEF Counting, InPacket, PacketStates, Sets, Sends, Recvs,
     Waits, Ends
<1>5. RtlType' /\ GuestType' /\ DataType'
  BY <1>0, <1>2, HostNumbers, TickTypes DEF ControlInv, RtlType
<1>6. HostType'
  BY <1>0, <1>4, <1>t, HostTypeKept
<1>7. BusInv'
  BY <1>0, <1>1, <1>2, <1>3, TickKeeps, Requests, HostNumbers, ConstantTypes DEF ControlInv, BusInv, Sets,
     Sends, Recvs, Waits, Ends
<1>8. ServeInv'
  BY <1>0, <1>1, <1>2, <1>3, TickKeeps, Requests DEF ControlInv, ServeInv, Sets, Sends, Recvs, Waits, Ends,
     ResetPlace
<1>9. MoveInv'
  BY <1>0, <1>1, <1>2, <1>3, TickKeeps, Requests, HostNumbers, ConstantTypes DEF ControlInv, MoveInv, Sets,
     Sends, Recvs, Waits, Ends, Words, Written
<1>10. AskInv'
  BY <1>0, <1>1, <1>2, <1>3, TickKeeps, Requests DEF ControlInv, AskInv, Sets, Sends, Recvs, Waits, Ends
<1>11. PlaceInv'
  BY <1>0, <1>1, <1>2, <1>3, TickKeeps, Requests DEF ControlInv, PlaceInv, Sets, Sends, Recvs, Waits, Ends,
     Is, DiskStates, PacketStates
<1>12. CountInv'
  BY <1>0, <1>1, <1>2, <1>3, TickKeeps, Requests, HostNumbers, ConstantTypes DEF ControlInv, CountInv, Sets,
     Sends, Recvs, Waits, Ends, Is
<1>13. SilentInv'
  BY <1>0, <1>1, <1>2, <1>3, TickKeeps, Requests DEF ControlInv, SilentInv, Sets, Sends, Recvs, Waits, Ends,
     Is
<1> QED
  BY <1>5, <1>6, <1>7, <1>8, <1>9, <1>10, <1>11, <1>12, <1>13 DEF ControlInv

\* A reset is served.
LEMMA RestKeeps ==
  ASSUME ControlInv, TickFrame, RestMove, UNCHANGED image, h.wait = 0
  PROVE  ControlInv'
<1>0. HostType /\ Keeps({"st"}) /\ Bus("none", bus.n)
  BY DEF ControlInv, RestMove, NoPulse, Pulse
<1>1. /\ h'.next = h.next /\ h'.cnt = h.cnt /\ h'.cmd = h.cmd /\ h'.dma = h.dma
      /\ h'.count = h.count /\ h'.sec = h.sec /\ h'.cyl = h.cyl /\ h'.head = h.head
      /\ h'.drv = h.drv /\ h'.lba = h.lba /\ h'.io = h.io /\ h'.pkt = h.pkt /\ h'.status = h.status
      /\ h'.irqPending = h.irqPending /\ h'.limit = h.limit /\ h'.wait = h.wait
  BY <1>0 DEF Keeps, HostFields
<1>2. /\ h.st = "RESET_SET" /\ h'.st = "IDLE" /\ bus'.op = "none" /\ bus'.n = bus.n
  BY DEF RestMove, NoPulse, Pulse, Bus
<1>3. /\ ~Setting /\ ~Setting' /\ Place = h.st /\ Place' = h'.st /\ ~Pending'
      /\ (Busy <=> h.st \notin Waits \cup Ends) /\ (Busy' <=> h'.st \notin Waits \cup Ends)
  BY <1>0, <1>1, <1>2, TickKeeps, HostNumbers DEF Setting, SetDone, Place, Busy, Sets, Sends, Recvs, Waits,
     Ends
<1>4. /\ h'.st \in States /\ h'.wait \in Nat
  BY <1>0, <1>1, <1>2, HostNumbers, ConstantTypes DEF Sets, Sends, Recvs, Waits, Ends, States, HostBits
<1>t. /\ ((Counting => h.count # 0) => (Counting' => h'.count # 0))
      /\ ((InPacket => h.limit # 0) => (InPacket' => h'.limit # 0))
  BY <1>0, <1>1, <1>2, HostNumbers, ConstantTypes DEF Counting, InPacket, PacketStates, Sets, Sends, Recvs,
     Waits, Ends
<1>5. RtlType' /\ GuestType' /\ DataType'
  BY <1>0, <1>2, HostNumbers, TickTypes DEF ControlInv, RtlType
<1>6. HostType'
  BY <1>0, <1>4, <1>t, HostTypeKept
<1>7. BusInv'
  BY <1>0, <1>1, <1>2, <1>3, TickKeeps, Requests, HostNumbers, ConstantTypes DEF ControlInv, BusInv, Sets,
     Sends, Recvs, Waits, Ends
<1>8. ServeInv'
  BY <1>0, <1>1, <1>2, <1>3, TickKeeps, Requests DEF ControlInv, ServeInv, Sets, Sends, Recvs, Waits, Ends,
     ResetPlace
<1>9. MoveInv'
  BY <1>0, <1>1, <1>2, <1>3, TickKeeps, Requests, HostNumbers, ConstantTypes DEF ControlInv, MoveInv, Sets,
     Sends, Recvs, Waits, Ends, Words, Written
<1>10. AskInv'
  BY <1>0, <1>1, <1>2, <1>3, TickKeeps, Requests DEF ControlInv, AskInv, Sets, Sends, Recvs, Waits, Ends
<1>11. PlaceInv'
  BY <1>0, <1>1, <1>2, <1>3, TickKeeps, Requests DEF ControlInv, PlaceInv, Sets, Sends, Recvs, Waits, Ends,
     Is, DiskStates, PacketStates
<1>12. CountInv'
  BY <1>0, <1>1, <1>2, <1>3, TickKeeps, Requests, HostNumbers, ConstantTypes DEF ControlInv, CountInv, Sets,
     Sends, Recvs, Waits, Ends, Is
<1>13. SilentInv'
  BY <1>0, <1>1, <1>2, <1>3, TickKeeps, Requests DEF ControlInv, SilentInv, Sets, Sends, Recvs, Waits, Ends,
     Is
<1> QED
  BY <1>5, <1>6, <1>7, <1>8, <1>9, <1>10, <1>11, <1>12, <1>13 DEF ControlInv

\* A register of the task file is read.
LEMMA StageKeeps ==
  ASSUME ControlInv, TickFrame, StageMove, UNCHANGED image, h.wait = 0
  PROVE  ControlInv'
<1>0. HostType /\ Keeps({"dma", "count", "sec", "cyl", "wait"}) /\ Bus("rd", bus.n + 1)
  BY DEF ControlInv, StageMove, NoPulse, Pulse
<1>1. /\ h'.st = h.st /\ h'.next = h.next /\ h'.cnt = h.cnt /\ h'.cmd = h.cmd /\ h'.head = h.head
      /\ h'.drv = h.drv /\ h'.lba = h.lba /\ h'.io = h.io /\ h'.pkt = h.pkt /\ h'.status = h.status
      /\ h'.irqPending = h.irqPending /\ h'.limit = h.limit
  BY <1>0 DEF Keeps, HostFields
<1>2. /\ h.st = "GET_CMD" /\ bus.n < 5 /\ h'.dma = (IF bus.n = 0 THEN task.dma ELSE h.dma)
      /\ h'.count = (IF bus.n = 1 THEN task.count ELSE h.count)
      /\ h'.sec = (IF bus.n = 1 THEN task.sec ELSE h.sec)
      /\ h'.cyl = (IF bus.n = 2 THEN task.cyl ELSE h.cyl) /\ bus'.op = "rd" /\ bus'.n = bus.n + 1
      /\ h'.wait \in Nat \ {0}
  BY DEF StageMove, NoPulse, Pulse, Bus
<1>s. /\ (Active => request = "command" /\ ~swReset) /\ bus.n \in 0 .. 5
  BY <1>0, <1>2, TickKeeps, Requests DEF ControlInv, ServeInv, BusInv
<1>3. /\ ~Setting /\ ~Setting' /\ Place = h.st /\ Place' = h'.st /\ Pending'
      /\ (Busy <=> h.st \notin Waits \cup Ends) /\ Busy'
  BY <1>0, <1>1, <1>2, <1>s, TickKeeps, HostNumbers DEF Setting, SetDone, Place, Busy, Sets, Sends, Recvs,
     Waits, Ends
<1>4. /\ h'.dma \in BOOLEAN /\ h'.count \in Nat /\ h'.sec \in Nat /\ h'.cyl \in Nat
      /\ h'.wait \in Nat
  BY <1>0, <1>1, <1>2, <1>s, HostNumbers, ConstantTypes DEF Sets, Sends, Recvs, Waits, Ends, States, HostBits,
     ControlInv, RtlType, HostType, TaskFile
<1>t. /\ ((Counting => h.count # 0) => (Counting' => h'.count # 0))
      /\ ((InPacket => h.limit # 0) => (InPacket' => h'.limit # 0))
  BY <1>0, <1>1, <1>2, <1>s, HostNumbers, ConstantTypes DEF Counting, InPacket, PacketStates, Sets, Sends,
     Recvs, Waits, Ends
<1>5. RtlType' /\ GuestType' /\ DataType'
  BY <1>0, <1>2, <1>s, HostNumbers, TickTypes DEF ControlInv, RtlType
<1>6. HostType'
  BY <1>0, <1>4, <1>t, HostTypeKept
<1>7. BusInv'
  BY <1>0, <1>1, <1>2, <1>3, <1>s, TickKeeps, Requests, HostNumbers, ConstantTypes DEF ControlInv, BusInv,
     Sets, Sends, Recvs, Waits, Ends
<1>8. ServeInv'
  BY <1>0, <1>1, <1>2, <1>3, <1>s, TickKeeps, Requests DEF ControlInv, ServeInv, Sets, Sends, Recvs, Waits,
     Ends, ResetPlace
<1>9. MoveInv'
  BY <1>0, <1>1, <1>2, <1>3, <1>s, TickKeeps, Requests, HostNumbers, ConstantTypes DEF ControlInv, MoveInv,
     Sets, Sends, Recvs, Waits, Ends, Words, Written
<1>10. AskInv'
  BY <1>0, <1>1, <1>2, <1>3, <1>s, TickKeeps, Requests DEF ControlInv, AskInv, Sets, Sends, Recvs, Waits, Ends
<1>11. PlaceInv'
  BY <1>0, <1>1, <1>2, <1>3, <1>s, TickKeeps, Requests DEF ControlInv, PlaceInv, Sets, Sends, Recvs, Waits,
     Ends, Is, DiskStates, PacketStates
<1>12. CountInv'
  BY <1>0, <1>1, <1>2, <1>3, <1>s, TickKeeps, Requests, HostNumbers, ConstantTypes DEF ControlInv, CountInv,
     Sets, Sends, Recvs, Waits, Ends, Is
<1>13. SilentInv'
  BY <1>0, <1>1, <1>2, <1>3, <1>s, TickKeeps, Requests DEF ControlInv, SilentInv, Sets, Sends, Recvs, Waits,
     Ends, Is
<1> QED
  BY <1>5, <1>6, <1>7, <1>8, <1>9, <1>10, <1>11, <1>12, <1>13 DEF ControlInv

\* The task file has been read.
LEMMA StagedKeeps ==
  ASSUME ControlInv, TickFrame, StagedMove, UNCHANGED image, h.wait = 0
  PROVE  ControlInv'
<1>0. HostType /\ Keeps({"cmd", "lba", "drv", "head", "st"}) /\ Bus("none", bus.n)
  BY DEF ControlInv, StagedMove, NoPulse, Pulse
<1>1. /\ h'.next = h.next /\ h'.cnt = h.cnt /\ h'.dma = h.dma /\ h'.count = h.count
      /\ h'.sec = h.sec /\ h'.cyl = h.cyl /\ h'.io = h.io /\ h'.pkt = h.pkt /\ h'.status = h.status
      /\ h'.irqPending = h.irqPending /\ h'.limit = h.limit /\ h'.wait = h.wait
  BY <1>0 DEF Keeps, HostFields
<1>2. /\ h.st = "GET_CMD" /\ h'.st = "DO_CMD" /\ bus.n = 5 /\ h'.cmd = task.cmd /\ h'.lba = task.lba
      /\ h'.drv = task.drv /\ h'.head = task.head /\ bus'.op = "none" /\ bus'.n = bus.n
  BY DEF StagedMove, NoPulse, Pulse, Bus
<1>s. /\ (Active => request = "command" /\ ~swReset) /\ bus.n \in 0 .. 5
  BY <1>0, <1>2, TickKeeps, Requests DEF ControlInv, ServeInv, BusInv
<1>3. /\ ~Setting /\ ~Setting' /\ Place = h.st /\ Place' = h'.st /\ ~Pending'
      /\ (Busy <=> h.st \notin Waits \cup Ends) /\ (Busy' <=> h'.st \notin Waits \cup Ends)
  BY <1>0, <1>1, <1>2, <1>s, TickKeeps, HostNumbers DEF Setting, SetDone, Place, Busy, Sets, Sends, Recvs,
     Waits, Ends
<1>4. /\ h'.st \in States /\ h'.lba \in BOOLEAN /\ h'.drv \in {0, 1} /\ h'.head \in Nat
      /\ h'.wait \in Nat
  BY <1>0, <1>1, <1>2, <1>s, HostNumbers, ConstantTypes DEF Sets, Sends, Recvs, Waits, Ends, States, HostBits,
     ControlInv, RtlType, TaskFile
<1>t. /\ ((Counting => h.count # 0) => (Counting' => h'.count # 0))
      /\ ((InPacket => h.limit # 0) => (InPacket' => h'.limit # 0))
  BY <1>0, <1>1, <1>2, <1>s, HostNumbers, ConstantTypes DEF Counting, InPacket, PacketStates, Sets, Sends,
     Recvs, Waits, Ends
<1>5. RtlType' /\ GuestType' /\ DataType'
  BY <1>0, <1>2, <1>s, HostNumbers, TickTypes DEF ControlInv, RtlType
<1>6. HostType'
  BY <1>0, <1>4, <1>t, HostTypeKept
<1>7. BusInv'
  BY <1>0, <1>1, <1>2, <1>3, <1>s, TickKeeps, Requests, HostNumbers, ConstantTypes DEF ControlInv, BusInv,
     Sets, Sends, Recvs, Waits, Ends
<1>8. ServeInv'
  BY <1>0, <1>1, <1>2, <1>3, <1>s, TickKeeps, Requests DEF ControlInv, ServeInv, Sets, Sends, Recvs, Waits,
     Ends, ResetPlace
<1>9. MoveInv'
  BY <1>0, <1>1, <1>2, <1>3, <1>s, TickKeeps, Requests, HostNumbers, ConstantTypes DEF ControlInv, MoveInv,
     Sets, Sends, Recvs, Waits, Ends, Words, Written
<1>10. AskInv'
  BY <1>0, <1>1, <1>2, <1>3, <1>s, TickKeeps, Requests DEF ControlInv, AskInv, Sets, Sends, Recvs, Waits, Ends
<1>11. PlaceInv'
  BY <1>0, <1>1, <1>2, <1>3, <1>s, TickKeeps, Requests DEF ControlInv, PlaceInv, Sets, Sends, Recvs, Waits,
     Ends, Is, DiskStates, PacketStates
<1>12. CountInv'
  BY <1>0, <1>1, <1>2, <1>3, <1>s, TickKeeps, Requests, HostNumbers, ConstantTypes DEF ControlInv, CountInv,
     Sets, Sends, Recvs, Waits, Ends, Is
<1>13. SilentInv'
  BY <1>0, <1>1, <1>2, <1>3, <1>s, TickKeeps, Requests DEF ControlInv, SilentInv, Sets, Sends, Recvs, Waits,
     Ends, Is
<1> QED
  BY <1>5, <1>6, <1>7, <1>8, <1>9, <1>10, <1>11, <1>12, <1>13 DEF ControlInv

\* A command that is over at once.
LEMMA ShortKeeps ==
  ASSUME ControlInv, TickFrame, ShortMove, UNCHANGED image, h.wait = 0
  PROVE  ControlInv'
<1>0. /\ HostType
      /\ Keeps({"st", "next", "status", "count", "sec", "cyl", "head", "pkt", "heads", "spt", "sense"})
      /\ Bus("none", bus.n)
  BY DEF ControlInv, ShortMove, NoPulse, Pulse
<1>1. /\ h'.cnt = h.cnt /\ h'.cmd = h.cmd /\ h'.dma = h.dma /\ h'.drv = h.drv /\ h'.lba = h.lba
      /\ h'.io = h.io /\ h'.irqPending = h.irqPending /\ h'.limit = h.limit /\ h'.wait = h.wait
  BY <1>0 DEF Keeps, HostFields
<1>2. /\ h.st = "DO_CMD" /\ h'.st = "SET_REGS" /\ h'.next = "IDLE" /\ h'.status \subseteq HostBits
      /\ "DRQ" \notin h'.status /\ "END" \notin h'.status /\ h'.count \in Nat /\ h'.sec \in Nat
      /\ h'.cyl \in Nat /\ h'.head \in Nat /\ h'.pkt \in {h.pkt, 0}
      /\ (h.cmd \in {"READ", "WRITE"} => "ERR" \in h'.status) /\ bus'.op = "none" /\ bus'.n = bus.n
  BY DEF ShortMove, NoPulse, Pulse, Bus
<1>s. /\ (Active => request = "command" /\ ~swReset)
      /\ (Active => h.cmd = g.task.cmd /\ h.drv = g.task.drv /\ h.dma = g.task.dma /\ h.count = g.task.count)
  BY <1>0, <1>2, TickKeeps, Requests DEF ControlInv, ServeInv, AskInv
<1>a. h'.heads \in {h.heads, h.head + 1} /\ h'.sense \in {h.sense, 5}
  BY DEF ShortMove
<1>b. h.heads \in Nat \ {0} /\ h.head \in Nat /\ h.sense \in {0, 5} /\ h.spt \in Nat \ {0} /\ h.count \in Nat
  BY <1>0 DEF HostType
<1>c. h'.heads \in Nat \ {0} /\ h'.sense \in {0, 5}
  BY <1>a, <1>b
<1>d. h'.spt = h.spt \/ h'.spt = Spt \/ (h.count # 0 /\ h'.spt = h.count)
  BY DEF ShortMove
<1>e. h'.spt \in Nat \ {0}
  BY <1>b, <1>d, ConstantTypes
<1>f. h'.pkt \in 0 .. BufWords
  BY <1>0, <1>2, ConstantTypes DEF HostType
<1>3. /\ ~Setting /\ Setting' /\ Place = h.st /\ Place' = "SET_REGS" /\ ~Pending'
      /\ (Busy <=> h.st \notin Waits \cup Ends) /\ Busy'
  BY <1>0, <1>1, <1>2, <1>s, <1>a, <1>b, <1>c, <1>d, <1>e, <1>f, TickKeeps, HostNumbers DEF Setting, SetDone,
     Place, Busy, Sets, Sends, Recvs, Waits, Ends
<1>4. /\ h'.st \in States /\ h'.next \in Waits \cup Ends /\ h'.status \subseteq HostBits
      /\ h'.pkt \in 0 .. BufWords /\ h'.heads \in Nat \ {0} /\ h'.spt \in Nat \ {0}
      /\ h'.sense \in {0, 5} /\ h'.count \in Nat /\ h'.sec \in Nat /\ h'.cyl \in Nat
      /\ h'.head \in Nat /\ h'.wait \in Nat
  BY <1>0, <1>1, <1>2, <1>s, <1>a, <1>b, <1>c, <1>d, <1>e, <1>f, HostNumbers, ConstantTypes DEF Sets, Sends,
     Recvs, Waits, Ends, States, HostBits
<1>t. /\ ((Counting => h.count # 0) => (Counting' => h'.count # 0))
      /\ ((InPacket => h.limit # 0) => (InPacket' => h'.limit # 0))
  BY <1>0, <1>1, <1>2, <1>s, <1>a, <1>b, <1>c, <1>d, <1>e, <1>f, HostNumbers, ConstantTypes DEF Counting,
     InPacket, PacketStates, Sets, Sends, Recvs, Waits, Ends
<1>5. RtlType' /\ GuestType' /\ DataType'
  BY <1>0, <1>2, <1>s, <1>a, <1>b, <1>c, <1>d, <1>e, <1>f, HostNumbers, TickTypes DEF ControlInv, RtlType
<1>6. HostType'
  BY <1>0, <1>4, <1>t, HostTypeKept
<1>7. BusInv'
  BY <1>0, <1>1, <1>2, <1>3, <1>s, <1>a, <1>b, <1>c, <1>d, <1>e, <1>f, TickKeeps, Requests, HostNumbers,
     ConstantTypes DEF ControlInv, BusInv, Sets, Sends, Recvs, Waits, Ends
<1>8. ServeInv'
  BY <1>0, <1>1, <1>2, <1>3, <1>s, <1>a, <1>b, <1>c, <1>d, <1>e, <1>f, TickKeeps, Requests DEF ControlInv,
     ServeInv, Sets, Sends, Recvs, Waits, Ends, ResetPlace
<1>9. MoveInv'
  BY <1>0, <1>1, <1>2, <1>3, <1>s, <1>a, <1>b, <1>c, <1>d, <1>e, <1>f, TickKeeps, Requests, HostNumbers,
     ConstantTypes DEF ControlInv, MoveInv, Sets, Sends, Recvs, Waits, Ends, Words, Written
<1>10. AskInv'
  BY <1>0, <1>1, <1>2, <1>3, <1>s, <1>a, <1>b, <1>c, <1>d, <1>e, <1>f, TickKeeps, Requests DEF ControlInv,
     AskInv, Sets, Sends, Recvs, Waits, Ends
<1>11. PlaceInv'
  BY <1>0, <1>1, <1>2, <1>3, <1>s, <1>a, <1>b, <1>c, <1>d, <1>e, <1>f, TickKeeps, Requests DEF ControlInv,
     PlaceInv, Sets, Sends, Recvs, Waits, Ends, Is, DiskStates, PacketStates
<1>12. CountInv'
  BY <1>0, <1>1, <1>2, <1>3, <1>s, <1>a, <1>b, <1>c, <1>d, <1>e, <1>f, TickKeeps, Requests, HostNumbers,
     ConstantTypes DEF ControlInv, CountInv, Sets, Sends, Recvs, Waits, Ends, Is
<1>13. SilentInv'
  BY <1>0, <1>1, <1>2, <1>3, <1>s, <1>a, <1>b, <1>c, <1>d, <1>e, <1>f, TickKeeps, Requests DEF ControlInv,
     SilentInv, Sets, Sends, Recvs, Waits, Ends, Is
<1> QED
  BY <1>5, <1>6, <1>7, <1>8, <1>9, <1>10, <1>11, <1>12, <1>13 DEF ControlInv

\* An identification.
LEMMA IdentifyKeeps ==
  ASSUME ControlInv, TickFrame, IdentifyMove, UNCHANGED image, h.wait = 0
  PROVE  ControlInv'
<1>0. /\ HostType
      /\ Keeps({"st", "cnt", "status", "count", "sec", "cyl", "head", "lba", "io", "pkt"})
      /\ Bus("none", bus.n)
  BY DEF ControlInv, IdentifyMove, NoPulse, Pulse
<1>1. /\ h'.next = h.next /\ h'.cmd = h.cmd /\ h'.dma = h.dma /\ h'.drv = h.drv
      /\ h'.irqPending = h.irqPending /\ h'.limit = h.limit /\ h'.wait = h.wait
  BY <1>0 DEF Keeps, HostFields
<1>2. /\ h.st = "DO_CMD" /\ h'.st = "SEND_ID" /\ h'.cnt = 0
      /\ h'.status = {"RDY", "DRQ", "IRQ", "END"} /\ h'.count = 1 /\ h'.sec = 1 /\ h'.cyl = 0
      /\ h'.head = 0 /\ h'.lba = FALSE /\ h'.io = (IF kind = "hdd" THEN 1 ELSE 0)
      /\ h'.pkt = (IF kind = "cd" THEN SectorWords ELSE 0) /\ h.drv = 0
      /\ ((kind = "hdd" /\ h.cmd = "IDENTIFY") \/ (kind = "cd" /\ h.cmd = "IDPKT"))
      /\ bus'.op = "none" /\ bus'.n = bus.n
  BY DEF IdentifyMove, NoPulse, Pulse, Bus
<1>s. /\ (Active => request = "command" /\ ~swReset)
      /\ (Active => h.cmd = g.task.cmd /\ h.drv = g.task.drv /\ h.dma = g.task.dma /\ h.count = g.task.count)
  BY <1>0, <1>2, TickKeeps, Requests DEF ControlInv, ServeInv, AskInv
<1>a. h'.lba \in BOOLEAN
  BY <1>2
<1>b. h'.pkt \in 0 .. BufWords /\ h'.io \in {0, 1} /\ h'.status \subseteq HostBits
  BY <1>2, ConstantTypes DEF HostBits
<1>3. /\ ~Setting /\ ~Setting' /\ Place = h.st /\ Place' = h'.st /\ ~Pending'
      /\ (Busy <=> h.st \notin Waits \cup Ends) /\ (Busy' <=> h'.st \notin Waits \cup Ends)
  BY <1>0, <1>1, <1>2, <1>s, <1>a, <1>b, TickKeeps, HostNumbers DEF Setting, SetDone, Place, Busy, Sets,
     Sends, Recvs, Waits, Ends
<1>4. /\ h'.st \in States /\ h'.status \subseteq HostBits /\ h'.lba \in BOOLEAN
      /\ h'.pkt \in 0 .. BufWords /\ h'.cnt \in Nat /\ h'.count \in Nat /\ h'.sec \in Nat
      /\ h'.cyl \in Nat /\ h'.head \in Nat /\ h'.io \in {0, 1} /\ h'.wait \in Nat
  BY <1>0, <1>1, <1>2, <1>s, <1>a, <1>b, HostNumbers, ConstantTypes DEF Sets, Sends, Recvs, Waits, Ends,
     States, HostBits
<1>t. /\ ((Counting => h.count # 0) => (Counting' => h'.count # 0))
      /\ ((InPacket => h.limit # 0) => (InPacket' => h'.limit # 0))
  BY <1>0, <1>1, <1>2, <1>s, <1>a, <1>b, HostNumbers, ConstantTypes DEF Counting, InPacket, PacketStates,
     Sets, Sends, Recvs, Waits, Ends
<1>5. RtlType' /\ GuestType' /\ DataType'
  BY <1>0, <1>2, <1>s, <1>a, <1>b, HostNumbers, TickTypes DEF ControlInv, RtlType
<1>6. HostType'
  BY <1>0, <1>4, <1>t, HostTypeKept
<1>7. BusInv'
  BY <1>0, <1>1, <1>2, <1>3, <1>s, <1>a, <1>b, TickKeeps, Requests, HostNumbers, ConstantTypes DEF ControlInv,
     BusInv, Sets, Sends, Recvs, Waits, Ends
<1>8. ServeInv'
  BY <1>0, <1>1, <1>2, <1>3, <1>s, <1>a, <1>b, TickKeeps, Requests DEF ControlInv, ServeInv, Sets, Sends,
     Recvs, Waits, Ends, ResetPlace
<1>9. MoveInv'
  BY <1>0, <1>1, <1>2, <1>3, <1>s, <1>a, <1>b, TickKeeps, Requests, HostNumbers, ConstantTypes DEF ControlInv,
     MoveInv, Sets, Sends, Recvs, Waits, Ends, Words, Written
<1>10. AskInv'
  BY <1>0, <1>1, <1>2, <1>3, <1>s, <1>a, <1>b, TickKeeps, Requests DEF ControlInv, AskInv, Sets, Sends, Recvs,
     Waits, Ends
<1>11. PlaceInv'
  BY <1>0, <1>1, <1>2, <1>3, <1>s, <1>a, <1>b, TickKeeps, Requests DEF ControlInv, PlaceInv, Sets, Sends,
     Recvs, Waits, Ends, Is, DiskStates, PacketStates
<1>12. CountInv'
  BY <1>0, <1>1, <1>2, <1>3, <1>s, <1>a, <1>b, TickKeeps, Requests, HostNumbers, ConstantTypes DEF ControlInv,
     CountInv, Sets, Sends, Recvs, Waits, Ends, Is
<1>13. SilentInv'
  BY <1>0, <1>1, <1>2, <1>3, <1>s, <1>a, <1>b, TickKeeps, Requests DEF ControlInv, SilentInv, Sets, Sends,
     Recvs, Waits, Ends, Is
<1> QED
  BY <1>5, <1>6, <1>7, <1>8, <1>9, <1>10, <1>11, <1>12, <1>13 DEF ControlInv

\* A transfer of sectors begins.
LEMMA TransferKeeps ==
  ASSUME ControlInv, TickFrame, TransferMove, UNCHANGED image, h.wait = 0
  PROVE  ControlInv'
<1>0. HostType /\ Keeps({"st", "count"}) /\ Bus("none", bus.n)
  BY DEF ControlInv, TransferMove, NoPulse, Pulse
<1>1. /\ h'.next = h.next /\ h'.cnt = h.cnt /\ h'.cmd = h.cmd /\ h'.dma = h.dma /\ h'.sec = h.sec
      /\ h'.cyl = h.cyl /\ h'.head = h.head /\ h'.drv = h.drv /\ h'.lba = h.lba /\ h'.io = h.io
      /\ h'.pkt = h.pkt /\ h'.status = h.status /\ h'.irqPending = h.irqPending
      /\ h'.limit = h.limit /\ h'.wait = h.wait
  BY <1>0 DEF Keeps, HostFields
<1>2. /\ h.st = "DO_CMD" /\ h'.st = h.cmd /\ h.cmd \in {"READ", "WRITE"} /\ h.drv = 0
      /\ kind = "hdd" /\ h'.count = (IF h.count = 0 THEN CountBase ELSE h.count) /\ bus'.op = "none"
      /\ bus'.n = bus.n
  BY DEF TransferMove, NoPulse, Pulse, Bus
<1>s. /\ (Active => request = "command" /\ ~swReset)
      /\ (Active => h.cmd = g.task.cmd /\ h.drv = g.task.drv /\ h.dma = g.task.dma /\ h.count = g.task.count)
      /\ (Active => h'.count = Total)
  BY <1>0, <1>2, TickKeeps, Requests DEF ControlInv, ServeInv, AskInv, Total
<1>3. /\ ~Setting /\ ~Setting' /\ Place = h.st /\ Place' = h'.st /\ ~Pending'
      /\ (Busy <=> h.st \notin Waits \cup Ends) /\ (Busy' <=> h'.st \notin Waits \cup Ends)
  BY <1>0, <1>1, <1>2, <1>s, TickKeeps, HostNumbers DEF Setting, SetDone, Place, Busy, Sets, Sends, Recvs,
     Waits, Ends
<1>4. /\ h'.st \in States /\ h'.count \in Nat /\ h'.wait \in Nat
  BY <1>0, <1>1, <1>2, <1>s, HostNumbers, ConstantTypes DEF Sets, Sends, Recvs, Waits, Ends, States, HostBits
<1>t. /\ ((Counting => h.count # 0) => (Counting' => h'.count # 0))
      /\ ((InPacket => h.limit # 0) => (InPacket' => h'.limit # 0))
  BY <1>0, <1>1, <1>2, <1>s, HostNumbers, ConstantTypes DEF Counting, InPacket, PacketStates, Sets, Sends,
     Recvs, Waits, Ends
<1>5. RtlType' /\ GuestType' /\ DataType'
  BY <1>0, <1>2, <1>s, HostNumbers, TickTypes DEF ControlInv, RtlType
<1>6. HostType'
  BY <1>0, <1>4, <1>t, HostTypeKept
<1>7. BusInv'
  BY <1>0, <1>1, <1>2, <1>3, <1>s, TickKeeps, Requests, HostNumbers, ConstantTypes DEF ControlInv, BusInv,
     Sets, Sends, Recvs, Waits, Ends
<1>8. ServeInv'
  BY <1>0, <1>1, <1>2, <1>3, <1>s, TickKeeps, Requests DEF ControlInv, ServeInv, Sets, Sends, Recvs, Waits,
     Ends, ResetPlace
<1>9. MoveInv'
  BY <1>0, <1>1, <1>2, <1>3, <1>s, TickKeeps, Requests, HostNumbers, ConstantTypes DEF ControlInv, MoveInv,
     Sets, Sends, Recvs, Waits, Ends, Words, Written
<1>10. AskInv'
  BY <1>0, <1>1, <1>2, <1>3, <1>s, TickKeeps, Requests DEF ControlInv, AskInv, Sets, Sends, Recvs, Waits, Ends
<1>11. PlaceInv'
  BY <1>0, <1>1, <1>2, <1>3, <1>s, TickKeeps, Requests DEF ControlInv, PlaceInv, Sets, Sends, Recvs, Waits,
     Ends, Is, DiskStates, PacketStates
<1>12. CountInv'
  BY <1>0, <1>1, <1>2, <1>3, <1>s, TickKeeps, Requests, HostNumbers, ConstantTypes DEF ControlInv, CountInv,
     Sets, Sends, Recvs, Waits, Ends, Is
<1>13. SilentInv'
  BY <1>0, <1>1, <1>2, <1>3, <1>s, TickKeeps, Requests DEF ControlInv, SilentInv, Sets, Sends, Recvs, Waits,
     Ends, Is
<1> QED
  BY <1>5, <1>6, <1>7, <1>8, <1>9, <1>10, <1>11, <1>12, <1>13 DEF ControlInv

\* A packet is asked for.
LEMMA PacketKeeps ==
  ASSUME ControlInv, TickFrame, PacketMove, UNCHANGED image, h.wait = 0
  PROVE  ControlInv'
<1>0. HostType /\ Keeps({"st", "next", "status", "limit", "pkt", "count"}) /\ Bus("none", bus.n)
  BY DEF ControlInv, PacketMove, NoPulse, Pulse
<1>1. /\ h'.cnt = h.cnt /\ h'.cmd = h.cmd /\ h'.dma = h.dma /\ h'.sec = h.sec /\ h'.cyl = h.cyl
      /\ h'.head = h.head /\ h'.drv = h.drv /\ h'.lba = h.lba /\ h'.io = h.io
      /\ h'.irqPending = h.irqPending /\ h'.wait = h.wait
  BY <1>0 DEF Keeps, HostFields
<1>2. /\ h.st = "DO_CMD" /\ h'.st = "SET_REGS" /\ h'.next = "PACKET_WAIT_REQ"
      /\ h'.status = {"RDY", "DRQ"} /\ h'.limit = (IF h.cyl = 0 THEN MaxChunk * CdWords ELSE h.cyl)
      /\ h'.pkt = PacketWords /\ h'.count = 1 /\ kind = "cd" /\ h.cmd = "PACKET" /\ h.drv = 0
      /\ ~h.dma /\ bus'.op = "none" /\ bus'.n = bus.n
  BY DEF PacketMove, NoPulse, Pulse, Bus
<1>s. /\ (Active => request = "command" /\ ~swReset)
      /\ (Active => h.cmd = g.task.cmd /\ h.drv = g.task.drv /\ h.dma = g.task.dma /\ h.count = g.task.count)
  BY <1>0, <1>2, TickKeeps, Requests DEF ControlInv, ServeInv, AskInv
<1>3. /\ ~Setting /\ Setting' /\ Place = h.st /\ Place' = "SET_REGS" /\ ~Pending'
      /\ (Busy <=> h.st \notin Waits \cup Ends) /\ Busy'
  BY <1>0, <1>1, <1>2, <1>s, TickKeeps, HostNumbers DEF Setting, SetDone, Place, Busy, Sets, Sends, Recvs,
     Waits, Ends
<1>4. /\ h'.st \in States /\ h'.next \in Waits \cup Ends /\ h'.status \subseteq HostBits
      /\ h'.pkt \in 0 .. BufWords /\ h'.limit \in Nat /\ h'.limit # 0 /\ h'.count \in Nat
      /\ h'.wait \in Nat
  BY <1>0, <1>1, <1>2, <1>s, HostNumbers, ConstantTypes DEF Sets, Sends, Recvs, Waits, Ends, States, HostBits,
     HostType
<1>t. /\ ((Counting => h.count # 0) => (Counting' => h'.count # 0))
      /\ ((InPacket => h.limit # 0) => (InPacket' => h'.limit # 0))
  BY <1>0, <1>1, <1>2, <1>s, HostNumbers, ConstantTypes DEF Counting, InPacket, PacketStates, Sets, Sends,
     Recvs, Waits, Ends
<1>5. RtlType' /\ GuestType' /\ DataType'
  BY <1>0, <1>2, <1>s, HostNumbers, TickTypes DEF ControlInv, RtlType
<1>6. HostType'
  BY <1>0, <1>4, <1>t, HostTypeKept
<1>7. BusInv'
  BY <1>0, <1>1, <1>2, <1>3, <1>s, TickKeeps, Requests, HostNumbers, ConstantTypes DEF ControlInv, BusInv,
     Sets, Sends, Recvs, Waits, Ends
<1>8. ServeInv'
  BY <1>0, <1>1, <1>2, <1>3, <1>s, TickKeeps, Requests DEF ControlInv, ServeInv, Sets, Sends, Recvs, Waits,
     Ends, ResetPlace
<1>9. MoveInv'
  BY <1>0, <1>1, <1>2, <1>3, <1>s, TickKeeps, Requests, HostNumbers, ConstantTypes DEF ControlInv, MoveInv,
     Sets, Sends, Recvs, Waits, Ends, Words, Written
<1>10. AskInv'
  BY <1>0, <1>1, <1>2, <1>3, <1>s, TickKeeps, Requests DEF ControlInv, AskInv, Sets, Sends, Recvs, Waits, Ends
<1>11. PlaceInv'
  BY <1>0, <1>1, <1>2, <1>3, <1>s, TickKeeps, Requests DEF ControlInv, PlaceInv, Sets, Sends, Recvs, Waits,
     Ends, Is, DiskStates, PacketStates
<1>12. CountInv'
  BY <1>0, <1>1, <1>2, <1>3, <1>s, TickKeeps, Requests, HostNumbers, ConstantTypes DEF ControlInv, CountInv,
     Sets, Sends, Recvs, Waits, Ends, Is
<1>13. SilentInv'
  BY <1>0, <1>1, <1>2, <1>3, <1>s, TickKeeps, Requests DEF ControlInv, SilentInv, Sets, Sends, Recvs, Waits,
     Ends, Is
<1> QED
  BY <1>5, <1>6, <1>7, <1>8, <1>9, <1>10, <1>11, <1>12, <1>13 DEF ControlInv

\* One word of a block to the guest.
LEMMA SendKeeps ==
  ASSUME ControlInv, TickFrame, SendMove, UNCHANGED image, h.wait = 0
  PROVE  ControlInv'
<1>0. HostType /\ Keeps({"cnt", "wait"}) /\ Bus("wr", 15)
  BY DEF ControlInv, SendMove, NoPulse, Pulse
<1>1. /\ h'.st = h.st /\ h'.next = h.next /\ h'.cmd = h.cmd /\ h'.dma = h.dma /\ h'.count = h.count
      /\ h'.sec = h.sec /\ h'.cyl = h.cyl /\ h'.head = h.head /\ h'.drv = h.drv /\ h'.lba = h.lba
      /\ h'.io = h.io /\ h'.pkt = h.pkt /\ h'.status = h.status /\ h'.irqPending = h.irqPending
      /\ h'.limit = h.limit
  BY <1>0 DEF Keeps, HostFields
<1>2. /\ h.st \in Sends /\ h'.cnt = h.cnt + 1 /\ (h.st = "PACKET_SEND" => h.cnt < h.pkt)
      /\ (h.st # "PACKET_SEND" => h.cnt < SectorWords) /\ bus'.op = "wr" /\ bus'.n = 15
      /\ h'.wait \in Nat \ {0}
  BY DEF SendMove, NoPulse, Pulse, Bus
<1>3. /\ ~Setting /\ ~Setting' /\ Place = h.st /\ Place' = h'.st /\ Pending'
      /\ (Busy <=> h.st \notin Waits \cup Ends) /\ Busy'
  BY <1>0, <1>1, <1>2, TickKeeps, HostNumbers DEF Setting, SetDone, Place, Busy, Sets, Sends, Recvs, Waits,
     Ends
<1>4. /\ h'.cnt \in Nat /\ h'.wait \in Nat
  BY <1>0, <1>1, <1>2, HostNumbers, ConstantTypes DEF Sets, Sends, Recvs, Waits, Ends, States, HostBits
<1>t. /\ ((Counting => h.count # 0) => (Counting' => h'.count # 0))
      /\ ((InPacket => h.limit # 0) => (InPacket' => h'.limit # 0))
  BY <1>0, <1>1, <1>2, HostNumbers, ConstantTypes DEF Counting, InPacket, PacketStates, Sets, Sends, Recvs,
     Waits, Ends
<1>5. RtlType' /\ GuestType' /\ DataType'
  BY <1>0, <1>2, HostNumbers, TickTypes DEF ControlInv, RtlType
<1>6. HostType'
  BY <1>0, <1>4, <1>t, HostTypeKept
<1>7. BusInv'
  BY <1>0, <1>1, <1>2, <1>3, TickKeeps, Requests, HostNumbers, ConstantTypes DEF ControlInv, BusInv, Sets,
     Sends, Recvs, Waits, Ends
<1>8. ServeInv'
  BY <1>0, <1>1, <1>2, <1>3, TickKeeps, Requests DEF ControlInv, ServeInv, Sets, Sends, Recvs, Waits, Ends,
     ResetPlace
<1>9. MoveInv'
  BY <1>0, <1>1, <1>2, <1>3, TickKeeps, Requests, HostNumbers, ConstantTypes DEF ControlInv, MoveInv, Sets,
     Sends, Recvs, Waits, Ends, Words, Written
<1>10. AskInv'
  BY <1>0, <1>1, <1>2, <1>3, TickKeeps, Requests DEF ControlInv, AskInv, Sets, Sends, Recvs, Waits, Ends
<1>11. PlaceInv'
  BY <1>0, <1>1, <1>2, <1>3, TickKeeps, Requests DEF ControlInv, PlaceInv, Sets, Sends, Recvs, Waits, Ends,
     Is, DiskStates, PacketStates
<1>12. CountInv'
  BY <1>0, <1>1, <1>2, <1>3, TickKeeps, Requests, HostNumbers, ConstantTypes DEF ControlInv, CountInv, Sets,
     Sends, Recvs, Waits, Ends, Is
<1>13. SilentInv'
  BY <1>0, <1>1, <1>2, <1>3, TickKeeps, Requests DEF ControlInv, SilentInv, Sets, Sends, Recvs, Waits, Ends,
     Is
<1> QED
  BY <1>5, <1>6, <1>7, <1>8, <1>9, <1>10, <1>11, <1>12, <1>13 DEF ControlInv

\* The end of a block to the guest.
LEMMA SentKeeps ==
  ASSUME ControlInv, TickFrame, SentMove, UNCHANGED image, h.wait = 0
  PROVE  ControlInv'
<1>0. HostType /\ Keeps({"cnt", "st", "next"}) /\ Bus("none", bus.n)
  BY DEF ControlInv, SentMove, NoPulse, Pulse
<1>1. /\ h'.cmd = h.cmd /\ h'.dma = h.dma /\ h'.count = h.count /\ h'.sec = h.sec /\ h'.cyl = h.cyl
      /\ h'.head = h.head /\ h'.drv = h.drv /\ h'.lba = h.lba /\ h'.io = h.io /\ h'.pkt = h.pkt
      /\ h'.status = h.status /\ h'.irqPending = h.irqPending /\ h'.limit = h.limit
      /\ h'.wait = h.wait
  BY <1>0 DEF Keeps, HostFields
<1>2. /\ h.st \in Sends /\ h'.st = "SET_REGS" /\ (h.st = "SEND_ID" => h'.next = "IDLE")
      /\ (h.st = "READ_SEND" => h'.next = IF h.count # 0 THEN "READ_WAIT_REQ" ELSE "IDLE")
      /\ (h.st = "PACKET_SEND" => h'.next = "PACKET_READ_WAIT_REQ") /\ h'.cnt \in Nat
      /\ bus'.op = "none" /\ bus'.n = bus.n
  BY DEF SentMove, NoPulse, Pulse, Bus, Sends
<1>s. /\ (h.st = "SEND_ID" /\ Active => g.task.cmd \notin {"READ", "WRITE"})
      /\ (h.st \in {"SEND_ID", "READ_SEND"} => "DRQ" \in h.status)
  BY <1>0, <1>2, TickKeeps, Requests DEF ControlInv, PlaceInv, ServeInv, Is
<1>3. /\ ~Setting /\ Setting' /\ Place = h.st /\ Place' = "SET_REGS" /\ ~Pending'
      /\ (Busy <=> h.st \notin Waits \cup Ends) /\ Busy'
  BY <1>0, <1>1, <1>2, <1>s, TickKeeps, HostNumbers DEF Setting, SetDone, Place, Busy, Sets, Sends, Recvs,
     Waits, Ends
<1>4. /\ h'.st \in States /\ h'.next \in Waits \cup Ends /\ h'.cnt \in Nat /\ h'.wait \in Nat
  BY <1>0, <1>1, <1>2, <1>s, HostNumbers, ConstantTypes DEF Sets, Sends, Recvs, Waits, Ends, States, HostBits
<1>t. /\ ((Counting => h.count # 0) => (Counting' => h'.count # 0))
      /\ ((InPacket => h.limit # 0) => (InPacket' => h'.limit # 0))
  BY <1>0, <1>1, <1>2, <1>s, HostNumbers, ConstantTypes DEF Counting, InPacket, PacketStates, Sets, Sends,
     Recvs, Waits, Ends
<1>5. RtlType' /\ GuestType' /\ DataType'
  BY <1>0, <1>2, <1>s, HostNumbers, TickTypes DEF ControlInv, RtlType
<1>6. HostType'
  BY <1>0, <1>4, <1>t, HostTypeKept
<1>7. BusInv'
  BY <1>0, <1>1, <1>2, <1>3, <1>s, TickKeeps, Requests, HostNumbers, ConstantTypes DEF ControlInv, BusInv,
     Sets, Sends, Recvs, Waits, Ends
<1>8. ServeInv'
  BY <1>0, <1>1, <1>2, <1>3, <1>s, TickKeeps, Requests DEF ControlInv, ServeInv, Sets, Sends, Recvs, Waits,
     Ends, ResetPlace
<1>9. MoveInv'
  BY <1>0, <1>1, <1>2, <1>3, <1>s, TickKeeps, Requests, HostNumbers, ConstantTypes DEF ControlInv, MoveInv,
     Sets, Sends, Recvs, Waits, Ends, Words, Written
<1>10. AskInv'
  BY <1>0, <1>1, <1>2, <1>3, <1>s, TickKeeps, Requests DEF ControlInv, AskInv, Sets, Sends, Recvs, Waits, Ends
<1>11. PlaceInv'
  BY <1>0, <1>1, <1>2, <1>3, <1>s, TickKeeps, Requests DEF ControlInv, PlaceInv, Sets, Sends, Recvs, Waits,
     Ends, Is, DiskStates, PacketStates
<1>12. CountInv'
  BY <1>0, <1>1, <1>2, <1>3, <1>s, TickKeeps, Requests, HostNumbers, ConstantTypes DEF ControlInv, CountInv,
     Sets, Sends, Recvs, Waits, Ends, Is
<1>13. SilentInv'
  BY <1>0, <1>1, <1>2, <1>3, <1>s, TickKeeps, Requests DEF ControlInv, SilentInv, Sets, Sends, Recvs, Waits,
     Ends, Is
<1> QED
  BY <1>5, <1>6, <1>7, <1>8, <1>9, <1>10, <1>11, <1>12, <1>13 DEF ControlInv

\* The registers are about to be written.
LEMMA SetKeeps ==
  ASSUME ControlInv, TickFrame, SetMove, UNCHANGED image, h.wait = 0
  PROVE  ControlInv'
<1>0. HostType /\ Keeps({"status", "cnt", "st"}) /\ Bus("none", bus.n)
  BY DEF ControlInv, SetMove, NoPulse, Pulse
<1>1. /\ h'.next = h.next /\ h'.cmd = h.cmd /\ h'.dma = h.dma /\ h'.count = h.count
      /\ h'.sec = h.sec /\ h'.cyl = h.cyl /\ h'.head = h.head /\ h'.drv = h.drv /\ h'.lba = h.lba
      /\ h'.io = h.io /\ h'.pkt = h.pkt /\ h'.irqPending = h.irqPending /\ h'.limit = h.limit
      /\ h'.wait = h.wait
  BY <1>0 DEF Keeps, HostFields
<1>2. /\ h.st = "SET_REGS" /\ h'.st = "SET_REGS_SEND" /\ h'.cnt = 0
      /\ (h'.status = h.status \/ ("DRQ" \notin h.status /\ h'.status = h.status \cup {"DSC"}))
      /\ bus'.op = "none" /\ bus'.n = bus.n
  BY DEF SetMove, NoPulse, Pulse, Bus
<1>3. /\ Setting /\ Setting' /\ Place = "SET_REGS" /\ Place' = "SET_REGS_SEND" /\ ~Pending' /\ Busy
      /\ Busy'
  BY <1>0, <1>1, <1>2, TickKeeps, HostNumbers DEF Setting, SetDone, Place, Busy, Sets, Sends, Recvs, Waits,
     Ends
<1>4. /\ h'.st \in States /\ h'.status \subseteq HostBits /\ h'.cnt \in Nat /\ h'.wait \in Nat
  BY <1>0, <1>1, <1>2, HostNumbers, ConstantTypes DEF Sets, Sends, Recvs, Waits, Ends, States, HostBits
<1>t. /\ ((Counting => h.count # 0) => (Counting' => h'.count # 0))
      /\ ((InPacket => h.limit # 0) => (InPacket' => h'.limit # 0))
  BY <1>0, <1>1, <1>2, HostNumbers, ConstantTypes DEF Counting, InPacket, PacketStates, Sets, Sends, Recvs,
     Waits, Ends
<1>5. RtlType' /\ GuestType' /\ DataType'
  BY <1>0, <1>2, HostNumbers, TickTypes DEF ControlInv, RtlType
<1>6. HostType'
  BY <1>0, <1>4, <1>t, HostTypeKept
<1>7. BusInv'
  BY <1>0, <1>1, <1>2, <1>3, TickKeeps, Requests, HostNumbers, ConstantTypes DEF ControlInv, BusInv, Sets,
     Sends, Recvs, Waits, Ends
<1>8. ServeInv'
  BY <1>0, <1>1, <1>2, <1>3, TickKeeps, Requests DEF ControlInv, ServeInv, Sets, Sends, Recvs, Waits, Ends,
     ResetPlace
<1>9. MoveInv'
  BY <1>0, <1>1, <1>2, <1>3, TickKeeps, Requests, HostNumbers, ConstantTypes DEF ControlInv, MoveInv, Sets,
     Sends, Recvs, Waits, Ends, Words, Written
<1>10. AskInv'
  BY <1>0, <1>1, <1>2, <1>3, TickKeeps, Requests DEF ControlInv, AskInv, Sets, Sends, Recvs, Waits, Ends
<1>11. PlaceInv'
  BY <1>0, <1>1, <1>2, <1>3, TickKeeps, Requests DEF ControlInv, PlaceInv, Sets, Sends, Recvs, Waits, Ends,
     Is, DiskStates, PacketStates
<1>12. CountInv'
  BY <1>0, <1>1, <1>2, <1>3, TickKeeps, Requests, HostNumbers, ConstantTypes DEF ControlInv, CountInv, Sets,
     Sends, Recvs, Waits, Ends, Is
<1>13. SilentInv'
  BY <1>0, <1>1, <1>2, <1>3, TickKeeps, Requests DEF ControlInv, SilentInv, Sets, Sends, Recvs, Waits, Ends,
     Is
<1> QED
  BY <1>5, <1>6, <1>7, <1>8, <1>9, <1>10, <1>11, <1>12, <1>13 DEF ControlInv

\* One register is written.
LEMMA RegKeeps ==
  ASSUME ControlInv, TickFrame, RegMove, UNCHANGED image, h.wait = 0
  PROVE  ControlInv'
<1>0. HostType /\ Keeps({"cnt", "wait"}) /\ Bus("wr", h.cnt)
  BY DEF ControlInv, RegMove, NoPulse, Pulse
<1>1. /\ h'.st = h.st /\ h'.next = h.next /\ h'.cmd = h.cmd /\ h'.dma = h.dma /\ h'.count = h.count
      /\ h'.sec = h.sec /\ h'.cyl = h.cyl /\ h'.head = h.head /\ h'.drv = h.drv /\ h'.lba = h.lba
      /\ h'.io = h.io /\ h'.pkt = h.pkt /\ h'.status = h.status /\ h'.irqPending = h.irqPending
      /\ h'.limit = h.limit
  BY <1>0 DEF Keeps, HostFields
<1>2. /\ h.st = "SET_REGS_SEND" /\ h.cnt < 6 /\ h'.cnt = h.cnt + 1 /\ bus'.op = "wr"
      /\ bus'.n = h.cnt /\ h'.wait \in Nat \ {0}
  BY DEF RegMove, NoPulse, Pulse, Bus
<1>3. /\ Setting /\ Setting' /\ Place = "SET_REGS_SEND" /\ Place' = "SET_REGS_SEND" /\ Pending'
      /\ Busy /\ Busy'
  BY <1>0, <1>1, <1>2, TickKeeps, HostNumbers DEF Setting, SetDone, Place, Busy, Sets, Sends, Recvs, Waits,
     Ends
<1>4. /\ h'.cnt \in Nat /\ h'.wait \in Nat
  BY <1>0, <1>1, <1>2, HostNumbers, ConstantTypes DEF Sets, Sends, Recvs, Waits, Ends, States, HostBits
<1>t. /\ ((Counting => h.count # 0) => (Counting' => h'.count # 0))
      /\ ((InPacket => h.limit # 0) => (InPacket' => h'.limit # 0))
  BY <1>0, <1>1, <1>2, HostNumbers, ConstantTypes DEF Counting, InPacket, PacketStates, Sets, Sends, Recvs,
     Waits, Ends
<1>5. RtlType' /\ GuestType' /\ DataType'
  BY <1>0, <1>2, HostNumbers, TickTypes DEF ControlInv, RtlType
<1>6. HostType'
  BY <1>0, <1>4, <1>t, HostTypeKept
<1>7. BusInv'
  BY <1>0, <1>1, <1>2, <1>3, TickKeeps, Requests, HostNumbers, ConstantTypes DEF ControlInv, BusInv, Sets,
     Sends, Recvs, Waits, Ends
<1>8. ServeInv'
  BY <1>0, <1>1, <1>2, <1>3, TickKeeps, Requests DEF ControlInv, ServeInv, Sets, Sends, Recvs, Waits, Ends,
     ResetPlace
<1>9. MoveInv'
  BY <1>0, <1>1, <1>2, <1>3, TickKeeps, Requests, HostNumbers, ConstantTypes DEF ControlInv, MoveInv, Sets,
     Sends, Recvs, Waits, Ends, Words, Written
<1>10. AskInv'
  BY <1>0, <1>1, <1>2, <1>3, TickKeeps, Requests DEF ControlInv, AskInv, Sets, Sends, Recvs, Waits, Ends
<1>11. PlaceInv'
  BY <1>0, <1>1, <1>2, <1>3, TickKeeps, Requests DEF ControlInv, PlaceInv, Sets, Sends, Recvs, Waits, Ends,
     Is, DiskStates, PacketStates
<1>12. CountInv'
  BY <1>0, <1>1, <1>2, <1>3, TickKeeps, Requests, HostNumbers, ConstantTypes DEF ControlInv, CountInv, Sets,
     Sends, Recvs, Waits, Ends, Is
<1>13. SilentInv'
  BY <1>0, <1>1, <1>2, <1>3, TickKeeps, Requests DEF ControlInv, SilentInv, Sets, Sends, Recvs, Waits, Ends,
     Is
<1> QED
  BY <1>5, <1>6, <1>7, <1>8, <1>9, <1>10, <1>11, <1>12, <1>13 DEF ControlInv

\* The registers have been written.
LEMMA RegsKeeps ==
  ASSUME ControlInv, TickFrame, RegsMove, UNCHANGED image, h.wait = 0
  PROVE  ControlInv'
<1>0. HostType /\ Keeps({"cnt", "st"}) /\ Bus("none", bus.n)
  BY DEF ControlInv, RegsMove, NoPulse, Pulse
<1>1. /\ h'.next = h.next /\ h'.cmd = h.cmd /\ h'.dma = h.dma /\ h'.count = h.count
      /\ h'.sec = h.sec /\ h'.cyl = h.cyl /\ h'.head = h.head /\ h'.drv = h.drv /\ h'.lba = h.lba
      /\ h'.io = h.io /\ h'.pkt = h.pkt /\ h'.status = h.status /\ h'.irqPending = h.irqPending
      /\ h'.limit = h.limit /\ h'.wait = h.wait
  BY <1>0 DEF Keeps, HostFields
<1>2. /\ h.st = "SET_REGS_SEND" /\ h.cnt >= 6 /\ h'.cnt = 0 /\ h'.st = h.next /\ bus'.op = "none"
      /\ bus'.n = bus.n
  BY DEF RegsMove, NoPulse, Pulse, Bus
<1>s. /\ h.cnt = 6
  BY <1>0, <1>2, TickKeeps, Requests DEF ControlInv, BusInv
<1>a. h.next \in Waits \cup Ends
  BY <1>0, HostNumbers
<1>3. /\ ~Setting /\ ~Setting' /\ Place = h.next /\ Place' = h.next /\ ~Pending' /\ ~Busy /\ ~Busy'
  BY <1>0, <1>1, <1>2, <1>s, <1>a, TickKeeps, HostNumbers DEF Setting, SetDone, Place, Busy, Sets, Sends,
     Recvs, Waits, Ends
<1>4. /\ h'.st \in States /\ h'.cnt \in Nat /\ h'.wait \in Nat
  BY <1>0, <1>1, <1>2, <1>s, <1>a, HostNumbers, ConstantTypes DEF Sets, Sends, Recvs, Waits, Ends, States,
     HostBits, HostType
<1>t. /\ ((Counting => h.count # 0) => (Counting' => h'.count # 0))
      /\ ((InPacket => h.limit # 0) => (InPacket' => h'.limit # 0))
  BY <1>0, <1>1, <1>2, <1>s, <1>a, HostNumbers, ConstantTypes DEF Counting, InPacket, PacketStates, Sets,
     Sends, Recvs, Waits, Ends
<1>5. RtlType' /\ GuestType' /\ DataType'
  BY <1>0, <1>2, <1>s, <1>a, HostNumbers, TickTypes DEF ControlInv, RtlType
<1>6. HostType'
  BY <1>0, <1>4, <1>t, HostTypeKept
<1>7. BusInv'
  BY <1>0, <1>1, <1>2, <1>3, <1>s, <1>a, TickKeeps, Requests, HostNumbers, ConstantTypes DEF ControlInv,
     BusInv, Sets, Sends, Recvs, Waits, Ends
<1>8. ServeInv'
  BY <1>0, <1>1, <1>2, <1>3, <1>s, <1>a, TickKeeps, Requests DEF ControlInv, ServeInv, Sets, Sends, Recvs,
     Waits, Ends, ResetPlace
<1>9. MoveInv'
  BY <1>0, <1>1, <1>2, <1>3, <1>s, <1>a, TickKeeps, Requests, HostNumbers, ConstantTypes DEF ControlInv,
     MoveInv, Sets, Sends, Recvs, Waits, Ends, Words, Written
<1>10. AskInv'
  BY <1>0, <1>1, <1>2, <1>3, <1>s, <1>a, TickKeeps, Requests DEF ControlInv, AskInv, Sets, Sends, Recvs,
     Waits, Ends
<1>11. PlaceInv'
  BY <1>0, <1>1, <1>2, <1>3, <1>s, <1>a, TickKeeps, Requests DEF ControlInv, PlaceInv, Sets, Sends, Recvs,
     Waits, Ends, Is, DiskStates, PacketStates
<1>12. CountInv'
  BY <1>0, <1>1, <1>2, <1>3, <1>s, <1>a, TickKeeps, Requests, HostNumbers, ConstantTypes DEF ControlInv,
     CountInv, Sets, Sends, Recvs, Waits, Ends, Is
<1>13. SilentInv'
  BY <1>0, <1>1, <1>2, <1>3, <1>s, <1>a, TickKeeps, Requests DEF ControlInv, SilentInv, Sets, Sends, Recvs,
     Waits, Ends, Is
<1> QED
  BY <1>5, <1>6, <1>7, <1>8, <1>9, <1>10, <1>11, <1>12, <1>13 DEF ControlInv

\* A read begins.
LEMMA ReadKeeps ==
  ASSUME ControlInv, TickFrame, ReadMove, UNCHANGED image, h.wait = 0
  PROVE  ControlInv'
<1>0. HostType /\ Keeps({"st"}) /\ Bus("none", bus.n)
  BY DEF ControlInv, ReadMove, NoPulse, Pulse
<1>1. /\ h'.next = h.next /\ h'.cnt = h.cnt /\ h'.cmd = h.cmd /\ h'.dma = h.dma
      /\ h'.count = h.count /\ h'.sec = h.sec /\ h'.cyl = h.cyl /\ h'.head = h.head
      /\ h'.drv = h.drv /\ h'.lba = h.lba /\ h'.io = h.io /\ h'.pkt = h.pkt /\ h'.status = h.status
      /\ h'.irqPending = h.irqPending /\ h'.limit = h.limit /\ h'.wait = h.wait
  BY <1>0 DEF Keeps, HostFields
<1>2. /\ h.st = "READ" /\ h'.st = "READ_REGS" /\ bus'.op = "none" /\ bus'.n = bus.n
  BY DEF ReadMove, NoPulse, Pulse, Bus
<1>s. /\ (Active => request = "command" /\ ~swReset) /\ (Active => h.count = Total)
  BY <1>0, <1>2, TickKeeps, Requests DEF ControlInv, ServeInv, AskInv
<1>3. /\ ~Setting /\ ~Setting' /\ Place = h.st /\ Place' = h'.st /\ ~Pending'
      /\ (Busy <=> h.st \notin Waits \cup Ends) /\ (Busy' <=> h'.st \notin Waits \cup Ends)
  BY <1>0, <1>1, <1>2, <1>s, TickKeeps, HostNumbers DEF Setting, SetDone, Place, Busy, Sets, Sends, Recvs,
     Waits, Ends
<1>4. /\ h'.st \in States /\ h'.wait \in Nat
  BY <1>0, <1>1, <1>2, <1>s, HostNumbers, ConstantTypes DEF Sets, Sends, Recvs, Waits, Ends, States, HostBits
<1>t. /\ ((Counting => h.count # 0) => (Counting' => h'.count # 0))
      /\ ((InPacket => h.limit # 0) => (InPacket' => h'.limit # 0))
  BY <1>0, <1>1, <1>2, <1>s, HostNumbers, ConstantTypes DEF Counting, InPacket, PacketStates, Sets, Sends,
     Recvs, Waits, Ends
<1>5. RtlType' /\ GuestType' /\ DataType'
  BY <1>0, <1>2, <1>s, HostNumbers, TickTypes DEF ControlInv, RtlType
<1>6. HostType'
  BY <1>0, <1>4, <1>t, HostTypeKept
<1>7. BusInv'
  BY <1>0, <1>1, <1>2, <1>3, <1>s, TickKeeps, Requests, HostNumbers, ConstantTypes DEF ControlInv, BusInv,
     Sets, Sends, Recvs, Waits, Ends
<1>8. ServeInv'
  BY <1>0, <1>1, <1>2, <1>3, <1>s, TickKeeps, Requests DEF ControlInv, ServeInv, Sets, Sends, Recvs, Waits,
     Ends, ResetPlace
<1>9. MoveInv'
  BY <1>0, <1>1, <1>2, <1>3, <1>s, TickKeeps, Requests, HostNumbers, ConstantTypes DEF ControlInv, MoveInv,
     Sets, Sends, Recvs, Waits, Ends, Words, Written
<1>10. AskInv'
  BY <1>0, <1>1, <1>2, <1>3, <1>s, TickKeeps, Requests DEF ControlInv, AskInv, Sets, Sends, Recvs, Waits, Ends
<1>11. PlaceInv'
  BY <1>0, <1>1, <1>2, <1>3, <1>s, TickKeeps, Requests DEF ControlInv, PlaceInv, Sets, Sends, Recvs, Waits,
     Ends, Is, DiskStates, PacketStates
<1>12. CountInv'
  BY <1>0, <1>1, <1>2, <1>3, <1>s, TickKeeps, Requests, HostNumbers, ConstantTypes DEF ControlInv, CountInv,
     Sets, Sends, Recvs, Waits, Ends, Is
<1>13. SilentInv'
  BY <1>0, <1>1, <1>2, <1>3, <1>s, TickKeeps, Requests DEF ControlInv, SilentInv, Sets, Sends, Recvs, Waits,
     Ends, Is
<1> QED
  BY <1>5, <1>6, <1>7, <1>8, <1>9, <1>10, <1>11, <1>12, <1>13 DEF ControlInv

\* The next sector of a read.
LEMMA ReadRegsKeeps ==
  ASSUME ControlInv, TickFrame, ReadRegsMove, UNCHANGED image, h.wait = 0
  PROVE  ControlInv'
<1>0. /\ HostType
      /\ Keeps({"sec", "cyl", "head", "sector", "count", "io", "cnt", "st", "status"})
      /\ Bus("none", bus.n)
  BY DEF ControlInv, ReadRegsMove, NoPulse, Pulse
<1>1. /\ h'.next = h.next /\ h'.cmd = h.cmd /\ h'.dma = h.dma /\ h'.drv = h.drv /\ h'.lba = h.lba
      /\ h'.pkt = h.pkt /\ h'.irqPending = h.irqPending /\ h'.limit = h.limit /\ h'.wait = h.wait
  BY <1>0 DEF Keeps, HostFields
<1>2. /\ h.st = "READ_REGS" /\ h'.st = "READ_SEND" /\ h'.sec \in Nat /\ h'.cyl \in Nat
      /\ h'.head \in Nat /\ h'.sector = (IF InRange(GetLba(h)) THEN GetLba(h) ELSE -1)
      /\ h'.count = h.count - 1 /\ h'.io = 1 /\ h'.cnt = 0
      /\ h'.status = {"RDY", "DRQ", "IRQ"} \cup (IF h.count = 1 THEN {"END"} ELSE {})
      /\ bus'.op = "none" /\ bus'.n = bus.n
  BY DEF ReadRegsMove, NoPulse, Pulse, Bus
<1>s. /\ kind = "hdd" /\ h.count # 0
  BY <1>0, <1>2, TickKeeps, Requests DEF ControlInv, PlaceInv, HostType, Counting, DiskStates
<1>a. h'.sector \in -1 .. Sectors - 1
  BY <1>0, <1>2, LbaType, ConstantTypes DEF InRange
<1>b. h'.status \subseteq HostBits
  BY <1>2 DEF HostBits
<1>3. /\ ~Setting /\ ~Setting' /\ Place = h.st /\ Place' = h'.st /\ ~Pending'
      /\ (Busy <=> h.st \notin Waits \cup Ends) /\ (Busy' <=> h'.st \notin Waits \cup Ends)
  BY <1>0, <1>1, <1>2, <1>s, <1>a, <1>b, TickKeeps, HostNumbers DEF Setting, SetDone, Place, Busy, Sets,
     Sends, Recvs, Waits, Ends
<1>4. /\ h'.st \in States /\ h'.status \subseteq HostBits /\ h'.sector \in -1 .. Sectors - 1
      /\ h'.sec \in Nat /\ h'.cyl \in Nat /\ h'.head \in Nat /\ h'.count \in Nat /\ h'.cnt \in Nat
      /\ h'.io \in {0, 1} /\ h'.wait \in Nat
  BY <1>0, <1>1, <1>2, <1>s, <1>a, <1>b, HostNumbers, ConstantTypes DEF Sets, Sends, Recvs, Waits, Ends,
     States, HostBits
<1>t. /\ ((Counting => h.count # 0) => (Counting' => h'.count # 0))
      /\ ((InPacket => h.limit # 0) => (InPacket' => h'.limit # 0))
  BY <1>0, <1>1, <1>2, <1>s, <1>a, <1>b, HostNumbers, ConstantTypes DEF Counting, InPacket, PacketStates,
     Sets, Sends, Recvs, Waits, Ends
<1>5. RtlType' /\ GuestType' /\ DataType'
  BY <1>0, <1>2, <1>s, <1>a, <1>b, HostNumbers, TickTypes DEF ControlInv, RtlType
<1>6. HostType'
  BY <1>0, <1>4, <1>t, HostTypeKept
<1>7. BusInv'
  BY <1>0, <1>1, <1>2, <1>3, <1>s, <1>a, <1>b, TickKeeps, Requests, HostNumbers, ConstantTypes DEF ControlInv,
     BusInv, Sets, Sends, Recvs, Waits, Ends
<1>8. ServeInv'
  BY <1>0, <1>1, <1>2, <1>3, <1>s, <1>a, <1>b, TickKeeps, Requests DEF ControlInv, ServeInv, Sets, Sends,
     Recvs, Waits, Ends, ResetPlace
<1>9. MoveInv'
  BY <1>0, <1>1, <1>2, <1>3, <1>s, <1>a, <1>b, TickKeeps, Requests, HostNumbers, ConstantTypes DEF ControlInv,
     MoveInv, Sets, Sends, Recvs, Waits, Ends, Words, Written
<1>10. AskInv'
  BY <1>0, <1>1, <1>2, <1>3, <1>s, <1>a, <1>b, TickKeeps, Requests DEF ControlInv, AskInv, Sets, Sends, Recvs,
     Waits, Ends
<1>11. PlaceInv'
  BY <1>0, <1>1, <1>2, <1>3, <1>s, <1>a, <1>b, TickKeeps, Requests DEF ControlInv, PlaceInv, Sets, Sends,
     Recvs, Waits, Ends, Is, DiskStates, PacketStates
<1>12. CountInv'
  BY <1>0, <1>1, <1>2, <1>3, <1>s, <1>a, <1>b, TickKeeps, Requests, HostNumbers, ConstantTypes DEF ControlInv,
     CountInv, Sets, Sends, Recvs, Waits, Ends, Is
<1>13. SilentInv'
  BY <1>0, <1>1, <1>2, <1>3, <1>s, <1>a, <1>b, TickKeeps, Requests DEF ControlInv, SilentInv, Sets, Sends,
     Recvs, Waits, Ends, Is
<1> QED
  BY <1>5, <1>6, <1>7, <1>8, <1>9, <1>10, <1>11, <1>12, <1>13 DEF ControlInv

\* A reset ends a transfer.
LEMMA OverKeeps ==
  ASSUME ControlInv, TickFrame, OverMove, UNCHANGED image, h.wait = 0
  PROVE  ControlInv'
<1>0. HostType /\ Keeps({"st"}) /\ Bus("none", bus.n)
  BY DEF ControlInv, OverMove, NoPulse, Pulse
<1>1. /\ h'.next = h.next /\ h'.cnt = h.cnt /\ h'.cmd = h.cmd /\ h'.dma = h.dma
      /\ h'.count = h.count /\ h'.sec = h.sec /\ h'.cyl = h.cyl /\ h'.head = h.head
      /\ h'.drv = h.drv /\ h'.lba = h.lba /\ h'.io = h.io /\ h'.pkt = h.pkt /\ h'.status = h.status
      /\ h'.irqPending = h.irqPending /\ h'.limit = h.limit /\ h'.wait = h.wait
  BY <1>0 DEF Keeps, HostFields
<1>2. /\ h.st \in Waits /\ h'.st = "IDLE" /\ request \notin {"none", "data"} /\ bus'.op = "none"
      /\ bus'.n = bus.n
  BY DEF OverMove, NoPulse, Pulse, Bus
<1>s. /\ request = "reset"
  BY <1>0, <1>2, TickKeeps, Requests DEF ControlInv, ServeInv, RtlType, SetDone, Place, Waits
<1>3. /\ ~Setting /\ ~Setting' /\ Place = h.st /\ Place' = h'.st /\ ~Pending'
      /\ (Busy <=> h.st \notin Waits \cup Ends) /\ (Busy' <=> h'.st \notin Waits \cup Ends)
  BY <1>0, <1>1, <1>2, <1>s, TickKeeps, HostNumbers DEF Setting, SetDone, Place, Busy, Sets, Sends, Recvs,
     Waits, Ends
<1>4. /\ h'.st \in States /\ h'.wait \in Nat
  BY <1>0, <1>1, <1>2, <1>s, HostNumbers, ConstantTypes DEF Sets, Sends, Recvs, Waits, Ends, States, HostBits
<1>t. /\ ((Counting => h.count # 0) => (Counting' => h'.count # 0))
      /\ ((InPacket => h.limit # 0) => (InPacket' => h'.limit # 0))
  BY <1>0, <1>1, <1>2, <1>s, HostNumbers, ConstantTypes DEF Counting, InPacket, PacketStates, Sets, Sends,
     Recvs, Waits, Ends
<1>5. RtlType' /\ GuestType' /\ DataType'
  BY <1>0, <1>2, <1>s, HostNumbers, TickTypes DEF ControlInv, RtlType
<1>6. HostType'
  BY <1>0, <1>4, <1>t, HostTypeKept
<1>7. BusInv'
  BY <1>0, <1>1, <1>2, <1>3, <1>s, TickKeeps, Requests, HostNumbers, ConstantTypes DEF ControlInv, BusInv,
     Sets, Sends, Recvs, Waits, Ends
<1>8. ServeInv'
  BY <1>0, <1>1, <1>2, <1>3, <1>s, TickKeeps, Requests DEF ControlInv, ServeInv, Sets, Sends, Recvs, Waits,
     Ends, ResetPlace
<1>9. MoveInv'
  BY <1>0, <1>1, <1>2, <1>3, <1>s, TickKeeps, Requests, HostNumbers, ConstantTypes DEF ControlInv, MoveInv,
     Sets, Sends, Recvs, Waits, Ends, Words, Written
<1>10. AskInv'
  BY <1>0, <1>1, <1>2, <1>3, <1>s, TickKeeps, Requests DEF ControlInv, AskInv, Sets, Sends, Recvs, Waits, Ends
<1>11. PlaceInv'
  BY <1>0, <1>1, <1>2, <1>3, <1>s, TickKeeps, Requests DEF ControlInv, PlaceInv, Sets, Sends, Recvs, Waits,
     Ends, Is, DiskStates, PacketStates
<1>12. CountInv'
  BY <1>0, <1>1, <1>2, <1>3, <1>s, TickKeeps, Requests, HostNumbers, ConstantTypes DEF ControlInv, CountInv,
     Sets, Sends, Recvs, Waits, Ends, Is
<1>13. SilentInv'
  BY <1>0, <1>1, <1>2, <1>3, <1>s, TickKeeps, Requests DEF ControlInv, SilentInv, Sets, Sends, Recvs, Waits,
     Ends, Is
<1> QED
  BY <1>5, <1>6, <1>7, <1>8, <1>9, <1>10, <1>11, <1>12, <1>13 DEF ControlInv

\* A block of a read has been moved.
LEMMA ReadDataKeeps ==
  ASSUME ControlInv, TickFrame, ReadDataMove, UNCHANGED image, h.wait = 0
  PROVE  ControlInv'
<1>0. HostType /\ Keeps({"st"}) /\ Bus("none", bus.n)
  BY DEF ControlInv, ReadDataMove, NoPulse, Pulse
<1>1. /\ h'.next = h.next /\ h'.cnt = h.cnt /\ h'.cmd = h.cmd /\ h'.dma = h.dma
      /\ h'.count = h.count /\ h'.sec = h.sec /\ h'.cyl = h.cyl /\ h'.head = h.head
      /\ h'.drv = h.drv /\ h'.lba = h.lba /\ h'.io = h.io /\ h'.pkt = h.pkt /\ h'.status = h.status
      /\ h'.irqPending = h.irqPending /\ h'.limit = h.limit /\ h'.wait = h.wait
  BY <1>0 DEF Keeps, HostFields
<1>2. /\ h.st = "READ_WAIT_REQ" /\ h'.st = "READ_REGS" /\ request = "data" /\ bus'.op = "none"
      /\ bus'.n = bus.n
  BY DEF ReadDataMove, NoPulse, Pulse, Bus
<1>3. /\ ~Setting /\ ~Setting' /\ Place = h.st /\ Place' = h'.st /\ ~Pending'
      /\ (Busy <=> h.st \notin Waits \cup Ends) /\ (Busy' <=> h'.st \notin Waits \cup Ends)
  BY <1>0, <1>1, <1>2, TickKeeps, HostNumbers DEF Setting, SetDone, Place, Busy, Sets, Sends, Recvs, Waits,
     Ends
<1>4. /\ h'.st \in States /\ h'.wait \in Nat
  BY <1>0, <1>1, <1>2, HostNumbers, ConstantTypes DEF Sets, Sends, Recvs, Waits, Ends, States, HostBits
<1>t. /\ ((Counting => h.count # 0) => (Counting' => h'.count # 0))
      /\ ((InPacket => h.limit # 0) => (InPacket' => h'.limit # 0))
  BY <1>0, <1>1, <1>2, HostNumbers, ConstantTypes DEF Counting, InPacket, PacketStates, Sets, Sends, Recvs,
     Waits, Ends
<1>5. RtlType' /\ GuestType' /\ DataType'
  BY <1>0, <1>2, HostNumbers, TickTypes DEF ControlInv, RtlType
<1>6. HostType'
  BY <1>0, <1>4, <1>t, HostTypeKept
<1>7. BusInv'
  BY <1>0, <1>1, <1>2, <1>3, TickKeeps, Requests, HostNumbers, ConstantTypes DEF ControlInv, BusInv, Sets,
     Sends, Recvs, Waits, Ends
<1>8. ServeInv'
  BY <1>0, <1>1, <1>2, <1>3, TickKeeps, Requests DEF ControlInv, ServeInv, Sets, Sends, Recvs, Waits, Ends,
     ResetPlace
<1>9. MoveInv'
  BY <1>0, <1>1, <1>2, <1>3, TickKeeps, Requests, HostNumbers, ConstantTypes DEF ControlInv, MoveInv, Sets,
     Sends, Recvs, Waits, Ends, Words, Written
<1>10. AskInv'
  BY <1>0, <1>1, <1>2, <1>3, TickKeeps, Requests DEF ControlInv, AskInv, Sets, Sends, Recvs, Waits, Ends
<1>11. PlaceInv'
  BY <1>0, <1>1, <1>2, <1>3, TickKeeps, Requests DEF ControlInv, PlaceInv, Sets, Sends, Recvs, Waits, Ends,
     Is, DiskStates, PacketStates
<1>12. CountInv'
  BY <1>0, <1>1, <1>2, <1>3, TickKeeps, Requests, HostNumbers, ConstantTypes DEF ControlInv, CountInv, Sets,
     Sends, Recvs, Waits, Ends, Is
<1>13. SilentInv'
  BY <1>0, <1>1, <1>2, <1>3, TickKeeps, Requests DEF ControlInv, SilentInv, Sets, Sends, Recvs, Waits, Ends,
     Is
<1> QED
  BY <1>5, <1>6, <1>7, <1>8, <1>9, <1>10, <1>11, <1>12, <1>13 DEF ControlInv

\* A write begins.
LEMMA WriteKeeps ==
  ASSUME ControlInv, TickFrame, WriteMove, UNCHANGED image, h.wait = 0
  PROVE  ControlInv'
<1>0. HostType /\ Keeps({"st", "irqPending"}) /\ Bus("none", bus.n)
  BY DEF ControlInv, WriteMove, NoPulse, Pulse
<1>1. /\ h'.next = h.next /\ h'.cnt = h.cnt /\ h'.cmd = h.cmd /\ h'.dma = h.dma
      /\ h'.count = h.count /\ h'.sec = h.sec /\ h'.cyl = h.cyl /\ h'.head = h.head
      /\ h'.drv = h.drv /\ h'.lba = h.lba /\ h'.io = h.io /\ h'.pkt = h.pkt /\ h'.status = h.status
      /\ h'.limit = h.limit /\ h'.wait = h.wait
  BY <1>0 DEF Keeps, HostFields
<1>2. /\ h.st = "WRITE" /\ h'.st = "WRITE_REGS" /\ h'.irqPending = {} /\ bus'.op = "none"
      /\ bus'.n = bus.n
  BY DEF WriteMove, NoPulse, Pulse, Bus
<1>s. /\ (Active => request = "command" /\ ~swReset) /\ (Active => h.count = Total)
  BY <1>0, <1>2, TickKeeps, Requests DEF ControlInv, ServeInv, AskInv
<1>3. /\ ~Setting /\ ~Setting' /\ Place = h.st /\ Place' = h'.st /\ ~Pending'
      /\ (Busy <=> h.st \notin Waits \cup Ends) /\ (Busy' <=> h'.st \notin Waits \cup Ends)
  BY <1>0, <1>1, <1>2, <1>s, TickKeeps, HostNumbers DEF Setting, SetDone, Place, Busy, Sets, Sends, Recvs,
     Waits, Ends
<1>4. /\ h'.st \in States /\ h'.irqPending \subseteq {"IRQ"} /\ h'.wait \in Nat
  BY <1>0, <1>1, <1>2, <1>s, HostNumbers, ConstantTypes DEF Sets, Sends, Recvs, Waits, Ends, States, HostBits
<1>t. /\ ((Counting => h.count # 0) => (Counting' => h'.count # 0))
      /\ ((InPacket => h.limit # 0) => (InPacket' => h'.limit # 0))
  BY <1>0, <1>1, <1>2, <1>s, HostNumbers, ConstantTypes DEF Counting, InPacket, PacketStates, Sets, Sends,
     Recvs, Waits, Ends
<1>5. RtlType' /\ GuestType' /\ DataType'
  BY <1>0, <1>2, <1>s, HostNumbers, TickTypes DEF ControlInv, RtlType
<1>6. HostType'
  BY <1>0, <1>4, <1>t, HostTypeKept
<1>7. BusInv'
  BY <1>0, <1>1, <1>2, <1>3, <1>s, TickKeeps, Requests, HostNumbers, ConstantTypes DEF ControlInv, BusInv,
     Sets, Sends, Recvs, Waits, Ends
<1>8. ServeInv'
  BY <1>0, <1>1, <1>2, <1>3, <1>s, TickKeeps, Requests DEF ControlInv, ServeInv, Sets, Sends, Recvs, Waits,
     Ends, ResetPlace
<1>9. MoveInv'
  BY <1>0, <1>1, <1>2, <1>3, <1>s, TickKeeps, Requests, HostNumbers, ConstantTypes DEF ControlInv, MoveInv,
     Sets, Sends, Recvs, Waits, Ends, Words, Written
<1>10. AskInv'
  BY <1>0, <1>1, <1>2, <1>3, <1>s, TickKeeps, Requests DEF ControlInv, AskInv, Sets, Sends, Recvs, Waits, Ends
<1>11. PlaceInv'
  BY <1>0, <1>1, <1>2, <1>3, <1>s, TickKeeps, Requests DEF ControlInv, PlaceInv, Sets, Sends, Recvs, Waits,
     Ends, Is, DiskStates, PacketStates
<1>12. CountInv'
  BY <1>0, <1>1, <1>2, <1>3, <1>s, TickKeeps, Requests, HostNumbers, ConstantTypes DEF ControlInv, CountInv,
     Sets, Sends, Recvs, Waits, Ends, Is
<1>13. SilentInv'
  BY <1>0, <1>1, <1>2, <1>3, <1>s, TickKeeps, Requests DEF ControlInv, SilentInv, Sets, Sends, Recvs, Waits,
     Ends, Is
<1> QED
  BY <1>5, <1>6, <1>7, <1>8, <1>9, <1>10, <1>11, <1>12, <1>13 DEF ControlInv

\* The next sector of a write.
LEMMA WriteRegsKeeps ==
  ASSUME ControlInv, TickFrame, WriteRegsMove, UNCHANGED image, h.wait = 0
  PROVE  ControlInv'
<1>0. HostType /\ Keeps({"sector", "irqPending", "io", "status", "st", "next"}) /\ Bus("none", bus.n)
  BY DEF ControlInv, WriteRegsMove, NoPulse, Pulse
<1>1. /\ h'.cnt = h.cnt /\ h'.cmd = h.cmd /\ h'.dma = h.dma /\ h'.count = h.count /\ h'.sec = h.sec
      /\ h'.cyl = h.cyl /\ h'.head = h.head /\ h'.drv = h.drv /\ h'.lba = h.lba /\ h'.pkt = h.pkt
      /\ h'.limit = h.limit /\ h'.wait = h.wait
  BY <1>0 DEF Keeps, HostFields
<1>2. /\ h.st = "WRITE_REGS" /\ h'.st = "SET_REGS"
      /\ h'.sector = (IF InRange(GetLba(h)) THEN GetLba(h) ELSE -1) /\ h'.irqPending = {"IRQ"}
      /\ h'.io = 1 /\ h'.status = {"RDY", "DRQ"} \cup h.irqPending /\ h'.next = "WRITE_WAIT_REQ"
      /\ bus'.op = "none" /\ bus'.n = bus.n
  BY DEF WriteRegsMove, NoPulse, Pulse, Bus
<1>s. /\ kind = "hdd" /\ "END" \notin h'.status /\ "DRQ" \in h'.status
      /\ h'.status \subseteq HostBits
  BY <1>0, <1>2, TickKeeps, Requests DEF ControlInv, PlaceInv, HostType, DiskStates, HostBits
<1>a. h'.sector \in -1 .. Sectors - 1
  BY <1>0, <1>2, LbaType, ConstantTypes DEF InRange
<1>3. /\ ~Setting /\ Setting' /\ Place = h.st /\ Place' = "SET_REGS" /\ ~Pending'
      /\ (Busy <=> h.st \notin Waits \cup Ends) /\ Busy'
  BY <1>0, <1>1, <1>2, <1>s, <1>a, TickKeeps, HostNumbers DEF Setting, SetDone, Place, Busy, Sets, Sends,
     Recvs, Waits, Ends
<1>4. /\ h'.st \in States /\ h'.next \in Waits \cup Ends /\ h'.status \subseteq HostBits
      /\ h'.irqPending \subseteq {"IRQ"} /\ h'.sector \in -1 .. Sectors - 1 /\ h'.io \in {0, 1}
      /\ h'.wait \in Nat
  BY <1>0, <1>1, <1>2, <1>s, <1>a, HostNumbers, ConstantTypes DEF Sets, Sends, Recvs, Waits, Ends, States,
     HostBits
<1>t. /\ ((Counting => h.count # 0) => (Counting' => h'.count # 0))
      /\ ((InPacket => h.limit # 0) => (InPacket' => h'.limit # 0))
  BY <1>0, <1>1, <1>2, <1>s, <1>a, HostNumbers, ConstantTypes DEF Counting, InPacket, PacketStates, Sets,
     Sends, Recvs, Waits, Ends
<1>5. RtlType' /\ GuestType' /\ DataType'
  BY <1>0, <1>2, <1>s, <1>a, HostNumbers, TickTypes DEF ControlInv, RtlType
<1>6. HostType'
  BY <1>0, <1>4, <1>t, HostTypeKept
<1>7. BusInv'
  BY <1>0, <1>1, <1>2, <1>3, <1>s, <1>a, TickKeeps, Requests, HostNumbers, ConstantTypes DEF ControlInv,
     BusInv, Sets, Sends, Recvs, Waits, Ends
<1>8. ServeInv'
  BY <1>0, <1>1, <1>2, <1>3, <1>s, <1>a, TickKeeps, Requests DEF ControlInv, ServeInv, Sets, Sends, Recvs,
     Waits, Ends, ResetPlace
<1>9. MoveInv'
  BY <1>0, <1>1, <1>2, <1>3, <1>s, <1>a, TickKeeps, Requests, HostNumbers, ConstantTypes DEF ControlInv,
     MoveInv, Sets, Sends, Recvs, Waits, Ends, Words, Written
<1>10. AskInv'
  BY <1>0, <1>1, <1>2, <1>3, <1>s, <1>a, TickKeeps, Requests DEF ControlInv, AskInv, Sets, Sends, Recvs,
     Waits, Ends
<1>11. PlaceInv'
  BY <1>0, <1>1, <1>2, <1>3, <1>s, <1>a, TickKeeps, Requests DEF ControlInv, PlaceInv, Sets, Sends, Recvs,
     Waits, Ends, Is, DiskStates, PacketStates
<1>12. CountInv'
  BY <1>0, <1>1, <1>2, <1>3, <1>s, <1>a, TickKeeps, Requests, HostNumbers, ConstantTypes DEF ControlInv,
     CountInv, Sets, Sends, Recvs, Waits, Ends, Is
<1>13. SilentInv'
  BY <1>0, <1>1, <1>2, <1>3, <1>s, <1>a, TickKeeps, Requests DEF ControlInv, SilentInv, Sets, Sends, Recvs,
     Waits, Ends, Is
<1> QED
  BY <1>5, <1>6, <1>7, <1>8, <1>9, <1>10, <1>11, <1>12, <1>13 DEF ControlInv

\* A block of a write has been moved.
LEMMA WriteDataKeeps ==
  ASSUME ControlInv, TickFrame, WriteDataMove, UNCHANGED image, h.wait = 0
  PROVE  ControlInv'
<1>0. HostType /\ Keeps({"st", "cnt"}) /\ Bus("none", bus.n)
  BY DEF ControlInv, WriteDataMove, NoPulse, Pulse
<1>1. /\ h'.next = h.next /\ h'.cmd = h.cmd /\ h'.dma = h.dma /\ h'.count = h.count
      /\ h'.sec = h.sec /\ h'.cyl = h.cyl /\ h'.head = h.head /\ h'.drv = h.drv /\ h'.lba = h.lba
      /\ h'.io = h.io /\ h'.pkt = h.pkt /\ h'.status = h.status /\ h'.irqPending = h.irqPending
      /\ h'.limit = h.limit /\ h'.wait = h.wait
  BY <1>0 DEF Keeps, HostFields
<1>2. /\ h.st = "WRITE_WAIT_REQ" /\ h'.st = "WRITE_RECV" /\ h'.cnt = 0 /\ request = "data"
      /\ bus'.op = "none" /\ bus'.n = bus.n
  BY DEF WriteDataMove, NoPulse, Pulse, Bus
<1>3. /\ ~Setting /\ ~Setting' /\ Place = h.st /\ Place' = h'.st /\ ~Pending'
      /\ (Busy <=> h.st \notin Waits \cup Ends) /\ (Busy' <=> h'.st \notin Waits \cup Ends)
  BY <1>0, <1>1, <1>2, TickKeeps, HostNumbers DEF Setting, SetDone, Place, Busy, Sets, Sends, Recvs, Waits,
     Ends
<1>4. /\ h'.st \in States /\ h'.cnt \in Nat /\ h'.wait \in Nat
  BY <1>0, <1>1, <1>2, HostNumbers, ConstantTypes DEF Sets, Sends, Recvs, Waits, Ends, States, HostBits
<1>t. /\ ((Counting => h.count # 0) => (Counting' => h'.count # 0))
      /\ ((InPacket => h.limit # 0) => (InPacket' => h'.limit # 0))
  BY <1>0, <1>1, <1>2, HostNumbers, ConstantTypes DEF Counting, InPacket, PacketStates, Sets, Sends, Recvs,
     Waits, Ends
<1>5. RtlType' /\ GuestType' /\ DataType'
  BY <1>0, <1>2, HostNumbers, TickTypes DEF ControlInv, RtlType
<1>6. HostType'
  BY <1>0, <1>4, <1>t, HostTypeKept
<1>7. BusInv'
  BY <1>0, <1>1, <1>2, <1>3, TickKeeps, Requests, HostNumbers, ConstantTypes DEF ControlInv, BusInv, Sets,
     Sends, Recvs, Waits, Ends
<1>8. ServeInv'
  BY <1>0, <1>1, <1>2, <1>3, TickKeeps, Requests DEF ControlInv, ServeInv, Sets, Sends, Recvs, Waits, Ends,
     ResetPlace
<1>9. MoveInv'
  BY <1>0, <1>1, <1>2, <1>3, TickKeeps, Requests, HostNumbers, ConstantTypes DEF ControlInv, MoveInv, Sets,
     Sends, Recvs, Waits, Ends, Words, Written
<1>10. AskInv'
  BY <1>0, <1>1, <1>2, <1>3, TickKeeps, Requests DEF ControlInv, AskInv, Sets, Sends, Recvs, Waits, Ends
<1>11. PlaceInv'
  BY <1>0, <1>1, <1>2, <1>3, TickKeeps, Requests DEF ControlInv, PlaceInv, Sets, Sends, Recvs, Waits, Ends,
     Is, DiskStates, PacketStates
<1>12. CountInv'
  BY <1>0, <1>1, <1>2, <1>3, TickKeeps, Requests, HostNumbers, ConstantTypes DEF ControlInv, CountInv, Sets,
     Sends, Recvs, Waits, Ends, Is
<1>13. SilentInv'
  BY <1>0, <1>1, <1>2, <1>3, TickKeeps, Requests DEF ControlInv, SilentInv, Sets, Sends, Recvs, Waits, Ends,
     Is
<1> QED
  BY <1>5, <1>6, <1>7, <1>8, <1>9, <1>10, <1>11, <1>12, <1>13 DEF ControlInv

\* A sector has been stored.
LEMMA WrittenKeeps ==
  ASSUME ControlInv, TickFrame, WrittenMove, StoreWord, h.wait = 0
  PROVE  ControlInv'
<1>0. HostType /\ Keeps({"sec", "cyl", "head", "cnt", "count", "st", "next", "status"}) /\ Bus("none", bus.n)
  BY DEF ControlInv, WrittenMove, NoPulse, Pulse
<1>1. /\ h'.cmd = h.cmd /\ h'.dma = h.dma /\ h'.drv = h.drv /\ h'.lba = h.lba /\ h'.io = h.io
      /\ h'.pkt = h.pkt /\ h'.irqPending = h.irqPending /\ h'.limit = h.limit /\ h'.wait = h.wait
  BY <1>0 DEF Keeps, HostFields
<1>2. /\ h.st = "WRITE_RECV" /\ h.cnt >= SectorWords /\ h'.sec \in Nat /\ h'.cyl \in Nat
      /\ h'.head \in Nat /\ h'.cnt = 0 /\ h'.count = h.count - 1
      /\ (\/ (h.count # 1 /\ h'.st = "WRITE_REGS" /\ h'.status = h.status /\ h'.next = h.next)
          \/ (h.count = 1 /\ h'.st = "SET_REGS" /\ h'.next = "IDLE" /\ h'.status = {"RDY", "IRQ"}))
      /\ bus'.op = "none" /\ bus'.n = bus.n
  BY DEF WrittenMove, NoPulse, Pulse, Bus
<1>s. /\ (Active => request = "data") /\ h.count # 0
  BY <1>0, <1>2, TickKeeps, Requests DEF ControlInv, ServeInv, HostType, Counting
<1>a. (Active => Total \in Nat)
  BY TotalType DEF ControlInv
<1>3. /\ ~Setting /\ (Setting' <=> h'.st = "SET_REGS") /\ Place = h.st /\ Place' = h'.st
      /\ ~Pending' /\ Busy /\ Busy'
  BY <1>0, <1>1, <1>2, <1>s, <1>a, TickKeeps, HostNumbers DEF Setting, SetDone, Place, Busy, Sets, Sends,
     Recvs, Waits, Ends
<1>4. /\ h'.st \in States /\ h'.next \in Waits \cup Ends /\ h'.status \subseteq HostBits
      /\ h'.sec \in Nat /\ h'.cyl \in Nat /\ h'.head \in Nat /\ h'.cnt \in Nat /\ h'.count \in Nat
      /\ h'.wait \in Nat
  BY <1>0, <1>1, <1>2, <1>s, <1>a, HostNumbers, ConstantTypes DEF Sets, Sends, Recvs, Waits, Ends, States,
     HostBits
<1>t. /\ ((Counting => h.count # 0) => (Counting' => h'.count # 0))
      /\ ((InPacket => h.limit # 0) => (InPacket' => h'.limit # 0))
  BY <1>0, <1>1, <1>2, <1>s, <1>a, HostNumbers, ConstantTypes DEF Counting, InPacket, PacketStates, Sets,
     Sends, Recvs, Waits, Ends
<1>5. RtlType' /\ GuestType' /\ DataType'
  BY <1>0, <1>2, <1>s, <1>a, StoreTypes DEF ControlInv, RtlType
<1>6. HostType'
  BY <1>0, <1>4, <1>t, HostTypeKept
<1>7. BusInv'
  BY <1>0, <1>1, <1>2, <1>3, <1>s, <1>a, TickKeeps, Requests, HostNumbers, ConstantTypes DEF ControlInv,
     BusInv, Sets, Sends, Recvs, Waits, Ends
<1>8. ServeInv'
  BY <1>0, <1>1, <1>2, <1>3, <1>s, <1>a, TickKeeps, Requests DEF ControlInv, ServeInv, Sets, Sends, Recvs,
     Waits, Ends, ResetPlace
<1>9. MoveInv'
  BY <1>0, <1>1, <1>2, <1>3, <1>s, <1>a, TickKeeps, Requests, HostNumbers, ConstantTypes DEF ControlInv,
     MoveInv, Sets, Sends, Recvs, Waits, Ends, Words, Written
<1>10. AskInv'
  BY <1>0, <1>1, <1>2, <1>3, <1>s, <1>a, TickKeeps, Requests DEF ControlInv, AskInv, Sets, Sends, Recvs,
     Waits, Ends
<1>11. PlaceInv'
  BY <1>0, <1>1, <1>2, <1>3, <1>s, <1>a, TickKeeps, Requests DEF ControlInv, PlaceInv, Sets, Sends, Recvs,
     Waits, Ends, Is, DiskStates, PacketStates
<1>12. CountInv'
  <2>1. CASE h.count = 1
    BY <2>1, <1>0, <1>1, <1>2, <1>3, <1>s, <1>a, TickKeeps, Requests, HostNumbers, ConstantTypes
       DEF ControlInv, CountInv, Sets, Sends, Recvs, Waits, Ends, Is
  <2>2. CASE h.count # 1
    BY <2>2, <1>0, <1>1, <1>2, <1>3, <1>s, <1>a, TickKeeps, Requests, HostNumbers, ConstantTypes
       DEF ControlInv, CountInv, Sets, Sends, Recvs, Waits, Ends, Is
  <2> QED
    BY <2>1, <2>2
<1>13. SilentInv'
  BY <1>0, <1>1, <1>2, <1>3, <1>s, <1>a, TickKeeps, Requests DEF ControlInv, SilentInv, Sets, Sends, Recvs,
     Waits, Ends, Is
<1> QED
  BY <1>5, <1>6, <1>7, <1>8, <1>9, <1>10, <1>11, <1>12, <1>13 DEF ControlInv

\* One word of a block from the guest.
LEMMA RecvKeeps ==
  ASSUME ControlInv, TickFrame, RecvMove, (StoreWord \/ UNCHANGED image), h.wait = 0
  PROVE  ControlInv'
<1>0. HostType /\ Keeps({"cnt", "wait", "packet"}) /\ Bus("rd", 15)
  BY DEF ControlInv, RecvMove, NoPulse, Pulse
<1>1. /\ h'.st = h.st /\ h'.next = h.next /\ h'.cmd = h.cmd /\ h'.dma = h.dma /\ h'.count = h.count
      /\ h'.sec = h.sec /\ h'.cyl = h.cyl /\ h'.head = h.head /\ h'.drv = h.drv /\ h'.lba = h.lba
      /\ h'.io = h.io /\ h'.pkt = h.pkt /\ h'.status = h.status /\ h'.irqPending = h.irqPending
      /\ h'.limit = h.limit
  BY <1>0 DEF Keeps, HostFields
<1>2. /\ h.st \in Recvs /\ h.cnt < (IF h.st = "WRITE_RECV" THEN SectorWords ELSE PacketWords)
      /\ h'.cnt = h.cnt + 1
      /\ h'.packet = (IF h.st = "PACKET_RECV" /\ h.cnt > 0 THEN [h.packet EXCEPT ![h.cnt] = rdata] ELSE h.packet)
      /\ bus'.op = "rd" /\ bus'.n = 15 /\ h'.wait \in Nat \ {0}
  BY DEF RecvMove, NoPulse, Pulse, Bus
<1>s. /\ TRUE
  BY <1>0, <1>2, TickKeeps, Requests DEF ControlInv, HostType
<1>a. DOMAIN h'.packet = 1 .. PacketWords
  BY <1>0, <1>2 DEF HostType
<1>3. /\ ~Setting /\ ~Setting' /\ Place = h.st /\ Place' = h'.st /\ Pending'
      /\ (Busy <=> h.st \notin Waits \cup Ends) /\ Busy'
  BY <1>0, <1>1, <1>2, <1>s, <1>a, TickKeeps, HostNumbers DEF Setting, SetDone, Place, Busy, Sets, Sends,
     Recvs, Waits, Ends
<1>4. /\ h'.cnt \in Nat /\ DOMAIN h'.packet = 1 .. PacketWords /\ h'.wait \in Nat
  BY <1>0, <1>1, <1>2, <1>s, <1>a, HostNumbers, ConstantTypes DEF Sets, Sends, Recvs, Waits, Ends, States,
     HostBits
<1>t. /\ ((Counting => h.count # 0) => (Counting' => h'.count # 0))
      /\ ((InPacket => h.limit # 0) => (InPacket' => h'.limit # 0))
  BY <1>0, <1>1, <1>2, <1>s, <1>a, HostNumbers, ConstantTypes DEF Counting, InPacket, PacketStates, Sets,
     Sends, Recvs, Waits, Ends
<1>5. RtlType' /\ GuestType' /\ DataType'
  BY <1>0, <1>2, <1>s, <1>a, StoreTypes DEF ControlInv, RtlType
<1>6. HostType'
  BY <1>0, <1>4, <1>t, HostTypeKept
<1>7. BusInv'
  BY <1>0, <1>1, <1>2, <1>3, <1>s, <1>a, TickKeeps, Requests, HostNumbers, ConstantTypes, SMTT(30) DEF ControlInv,
     BusInv, Sets, Sends, Recvs, Waits, Ends
<1>8. ServeInv'
  BY <1>0, <1>1, <1>2, <1>3, <1>s, <1>a, TickKeeps, Requests DEF ControlInv, ServeInv, Sets, Sends, Recvs,
     Waits, Ends, ResetPlace
<1>9. MoveInv'
  BY <1>0, <1>1, <1>2, <1>3, <1>s, <1>a, TickKeeps, Requests, HostNumbers, ConstantTypes DEF ControlInv,
     MoveInv, Sets, Sends, Recvs, Waits, Ends, Words, Written
<1>10. AskInv'
  BY <1>0, <1>1, <1>2, <1>3, <1>s, <1>a, TickKeeps, Requests DEF ControlInv, AskInv, Sets, Sends, Recvs,
     Waits, Ends
<1>11. PlaceInv'
  BY <1>0, <1>1, <1>2, <1>3, <1>s, <1>a, TickKeeps, Requests DEF ControlInv, PlaceInv, Sets, Sends, Recvs,
     Waits, Ends, Is, DiskStates, PacketStates
<1>12. CountInv'
  BY <1>0, <1>1, <1>2, <1>3, <1>s, <1>a, TickKeeps, Requests, HostNumbers, ConstantTypes DEF ControlInv,
     CountInv, Sets, Sends, Recvs, Waits, Ends, Is
<1>13. SilentInv'
  BY <1>0, <1>1, <1>2, <1>3, <1>s, <1>a, TickKeeps, Requests DEF ControlInv, SilentInv, Sets, Sends, Recvs,
     Waits, Ends, Is
<1> QED
  BY <1>5, <1>6, <1>7, <1>8, <1>9, <1>10, <1>11, <1>12, <1>13 DEF ControlInv

\* The packet has been moved.
LEMMA PacketDataKeeps ==
  ASSUME ControlInv, TickFrame, PacketDataMove, UNCHANGED image, h.wait = 0
  PROVE  ControlInv'
<1>0. HostType /\ Keeps({"st", "cnt", "packet"}) /\ Bus("none", bus.n)
  BY DEF ControlInv, PacketDataMove, NoPulse, Pulse
<1>1. /\ h'.next = h.next /\ h'.cmd = h.cmd /\ h'.dma = h.dma /\ h'.count = h.count
      /\ h'.sec = h.sec /\ h'.cyl = h.cyl /\ h'.head = h.head /\ h'.drv = h.drv /\ h'.lba = h.lba
      /\ h'.io = h.io /\ h'.pkt = h.pkt /\ h'.status = h.status /\ h'.irqPending = h.irqPending
      /\ h'.limit = h.limit /\ h'.wait = h.wait
  BY <1>0 DEF Keeps, HostFields
<1>2. /\ h.st = "PACKET_WAIT_REQ" /\ h'.st = "PACKET_RECV" /\ h'.cnt = 0 /\ request = "data"
      /\ DOMAIN h'.packet = 1 .. PacketWords /\ bus'.op = "none" /\ bus'.n = bus.n
  BY DEF PacketDataMove, NoPulse, Pulse, Bus
<1>3. /\ ~Setting /\ ~Setting' /\ Place = h.st /\ Place' = h'.st /\ ~Pending'
      /\ (Busy <=> h.st \notin Waits \cup Ends) /\ (Busy' <=> h'.st \notin Waits \cup Ends)
  BY <1>0, <1>1, <1>2, TickKeeps, HostNumbers DEF Setting, SetDone, Place, Busy, Sets, Sends, Recvs, Waits,
     Ends
<1>4. /\ h'.st \in States /\ DOMAIN h'.packet = 1 .. PacketWords /\ h'.cnt \in Nat
      /\ h'.wait \in Nat
  BY <1>0, <1>1, <1>2, HostNumbers, ConstantTypes DEF Sets, Sends, Recvs, Waits, Ends, States, HostBits
<1>t. /\ ((Counting => h.count # 0) => (Counting' => h'.count # 0))
      /\ ((InPacket => h.limit # 0) => (InPacket' => h'.limit # 0))
  BY <1>0, <1>1, <1>2, HostNumbers, ConstantTypes DEF Counting, InPacket, PacketStates, Sets, Sends, Recvs,
     Waits, Ends
<1>5. RtlType' /\ GuestType' /\ DataType'
  BY <1>0, <1>2, HostNumbers, TickTypes DEF ControlInv, RtlType
<1>6. HostType'
  BY <1>0, <1>4, <1>t, HostTypeKept
<1>7. BusInv'
  BY <1>0, <1>1, <1>2, <1>3, TickKeeps, Requests, HostNumbers, ConstantTypes DEF ControlInv, BusInv, Sets,
     Sends, Recvs, Waits, Ends
<1>8. ServeInv'
  BY <1>0, <1>1, <1>2, <1>3, TickKeeps, Requests DEF ControlInv, ServeInv, Sets, Sends, Recvs, Waits, Ends,
     ResetPlace
<1>9. MoveInv'
  BY <1>0, <1>1, <1>2, <1>3, TickKeeps, Requests, HostNumbers, ConstantTypes DEF ControlInv, MoveInv, Sets,
     Sends, Recvs, Waits, Ends, Words, Written
<1>10. AskInv'
  BY <1>0, <1>1, <1>2, <1>3, TickKeeps, Requests DEF ControlInv, AskInv, Sets, Sends, Recvs, Waits, Ends
<1>11. PlaceInv'
  BY <1>0, <1>1, <1>2, <1>3, TickKeeps, Requests DEF ControlInv, PlaceInv, Sets, Sends, Recvs, Waits, Ends,
     Is, DiskStates, PacketStates
<1>12. CountInv'
  BY <1>0, <1>1, <1>2, <1>3, TickKeeps, Requests, HostNumbers, ConstantTypes DEF ControlInv, CountInv, Sets,
     Sends, Recvs, Waits, Ends, Is
<1>13. SilentInv'
  BY <1>0, <1>1, <1>2, <1>3, TickKeeps, Requests DEF ControlInv, SilentInv, Sets, Sends, Recvs, Waits, Ends,
     Is
<1> QED
  BY <1>5, <1>6, <1>7, <1>8, <1>9, <1>10, <1>11, <1>12, <1>13 DEF ControlInv

\* The packet has been read.
LEMMA ReceivedKeeps ==
  ASSUME ControlInv, TickFrame, ReceivedMove, UNCHANGED image, h.wait = 0
  PROVE  ControlInv'
<1>0. HostType /\ Keeps({"st", "cnt", "packet", "wait"}) /\ Bus("wr", 7)
  BY DEF ControlInv, ReceivedMove, NoPulse, Pulse
<1>1. /\ h'.next = h.next /\ h'.cmd = h.cmd /\ h'.dma = h.dma /\ h'.count = h.count
      /\ h'.sec = h.sec /\ h'.cyl = h.cyl /\ h'.head = h.head /\ h'.drv = h.drv /\ h'.lba = h.lba
      /\ h'.io = h.io /\ h'.pkt = h.pkt /\ h'.status = h.status /\ h'.irqPending = h.irqPending
      /\ h'.limit = h.limit
  BY <1>0 DEF Keeps, HostFields
<1>2. /\ h.st = "PACKET_RECV" /\ h'.st = "PACKET_HANDLE" /\ h'.cnt = 0 /\ h.cnt >= PacketWords
      /\ h'.packet = [h.packet EXCEPT ![h.cnt] = rdata] /\ bus'.op = "wr" /\ bus'.n = 7
      /\ h'.wait \in Nat \ {0}
  BY DEF ReceivedMove, NoPulse, Pulse, Bus
<1>3. /\ ~Setting /\ ~Setting' /\ Place = h.st /\ Place' = h'.st /\ Pending'
      /\ (Busy <=> h.st \notin Waits \cup Ends) /\ Busy'
  BY <1>0, <1>1, <1>2, TickKeeps, HostNumbers DEF Setting, SetDone, Place, Busy, Sets, Sends, Recvs, Waits,
     Ends
<1>4. /\ h'.st \in States /\ DOMAIN h'.packet = 1 .. PacketWords /\ h'.cnt \in Nat
      /\ h'.wait \in Nat
  BY <1>0, <1>1, <1>2, HostNumbers, ConstantTypes DEF Sets, Sends, Recvs, Waits, Ends, States, HostBits,
     HostType
<1>t. /\ ((Counting => h.count # 0) => (Counting' => h'.count # 0))
      /\ ((InPacket => h.limit # 0) => (InPacket' => h'.limit # 0))
  BY <1>0, <1>1, <1>2, HostNumbers, ConstantTypes DEF Counting, InPacket, PacketStates, Sets, Sends, Recvs,
     Waits, Ends
<1>5. RtlType' /\ GuestType' /\ DataType'
  BY <1>0, <1>2, HostNumbers, TickTypes DEF ControlInv, RtlType
<1>6. HostType'
  BY <1>0, <1>4, <1>t, HostTypeKept
<1>7. BusInv'
  BY <1>0, <1>1, <1>2, <1>3, TickKeeps, Requests, HostNumbers, ConstantTypes DEF ControlInv, BusInv, Sets,
     Sends, Recvs, Waits, Ends
<1>8. ServeInv'
  BY <1>0, <1>1, <1>2, <1>3, TickKeeps, Requests DEF ControlInv, ServeInv, Sets, Sends, Recvs, Waits, Ends,
     ResetPlace
<1>9. MoveInv'
  BY <1>0, <1>1, <1>2, <1>3, TickKeeps, Requests, HostNumbers, ConstantTypes DEF ControlInv, MoveInv, Sets,
     Sends, Recvs, Waits, Ends, Words, Written
<1>10. AskInv'
  BY <1>0, <1>1, <1>2, <1>3, TickKeeps, Requests DEF ControlInv, AskInv, Sets, Sends, Recvs, Waits, Ends
<1>11. PlaceInv'
  BY <1>0, <1>1, <1>2, <1>3, TickKeeps, Requests DEF ControlInv, PlaceInv, Sets, Sends, Recvs, Waits, Ends,
     Is, DiskStates, PacketStates
<1>12. CountInv'
  BY <1>0, <1>1, <1>2, <1>3, TickKeeps, Requests, HostNumbers, ConstantTypes DEF ControlInv, CountInv, Sets,
     Sends, Recvs, Waits, Ends, Is
<1>13. SilentInv'
  BY <1>0, <1>1, <1>2, <1>3, TickKeeps, Requests DEF ControlInv, SilentInv, Sets, Sends, Recvs, Waits, Ends,
     Is
<1> QED
  BY <1>5, <1>6, <1>7, <1>8, <1>9, <1>10, <1>11, <1>12, <1>13 DEF ControlInv

\* The host answers a packet.
LEMMA AnswerKeeps ==
  ASSUME ControlInv, TickFrame, AnswerMove, UNCHANGED image, h.wait = 0
  PROVE  ControlInv'
<1>0. /\ HostType
      /\ Keeps({"data", "pkt", "cyl", "count", "status", "cnt", "st", "sense", "plba", "rem"})
      /\ Bus("none", bus.n)
  BY DEF ControlInv, AnswerMove, NoPulse, Pulse
<1>1. /\ h'.next = h.next /\ h'.cmd = h.cmd /\ h'.dma = h.dma /\ h'.sec = h.sec /\ h'.head = h.head
      /\ h'.drv = h.drv /\ h'.lba = h.lba /\ h'.io = h.io /\ h'.irqPending = h.irqPending
      /\ h'.limit = h.limit /\ h'.wait = h.wait
  BY <1>0 DEF Keeps, HostFields
<1>2. /\ (h.st = "PACKET_HANDLE" \/ (h.st = "PACKET_READ_WAIT_REQ" /\ request = "data"))
      /\ h'.st = "PACKET_SEND" /\ h'.cnt = 0 /\ h'.status = {"RDY", "DRQ", "IRQ"} /\ h'.count = 2
      /\ h'.cyl = h'.pkt /\ h'.pkt \in 0 .. BufWords /\ h'.plba \in Nat /\ h'.rem \in Nat
      /\ h'.sense \in {0, 5} /\ bus'.op = "none" /\ bus'.n = bus.n
  BY DEF AnswerMove, NoPulse, Pulse, Bus
<1>s. /\ kind = "cd"
  BY <1>0, <1>2, TickKeeps, Requests DEF ControlInv, PlaceInv, PacketStates
<1>3. /\ ~Setting /\ ~Setting' /\ Place = h.st /\ Place' = h'.st /\ ~Pending'
      /\ (Busy <=> h.st \notin Waits \cup Ends) /\ (Busy' <=> h'.st \notin Waits \cup Ends)
  BY <1>0, <1>1, <1>2, <1>s, TickKeeps, HostNumbers DEF Setting, SetDone, Place, Busy, Sets, Sends, Recvs,
     Waits, Ends
<1>4. /\ h'.st \in States /\ h'.status \subseteq HostBits /\ h'.pkt \in 0 .. BufWords
      /\ h'.sense \in {0, 5} /\ h'.cnt \in Nat /\ h'.count \in Nat /\ h'.cyl \in Nat
      /\ h'.plba \in Nat /\ h'.rem \in Nat /\ h'.wait \in Nat
  BY <1>0, <1>1, <1>2, <1>s, HostNumbers, ConstantTypes DEF Sets, Sends, Recvs, Waits, Ends, States, HostBits
<1>t. /\ ((Counting => h.count # 0) => (Counting' => h'.count # 0))
      /\ ((InPacket => h.limit # 0) => (InPacket' => h'.limit # 0))
  BY <1>0, <1>1, <1>2, <1>s, HostNumbers, ConstantTypes DEF Counting, InPacket, PacketStates, Sets, Sends,
     Recvs, Waits, Ends
<1>5. RtlType' /\ GuestType' /\ DataType'
  BY <1>0, <1>2, <1>s, HostNumbers, TickTypes DEF ControlInv, RtlType
<1>6. HostType'
  BY <1>0, <1>4, <1>t, HostTypeKept
<1>7. BusInv'
  BY <1>0, <1>1, <1>2, <1>3, <1>s, TickKeeps, Requests, HostNumbers, ConstantTypes DEF ControlInv, BusInv,
     Sets, Sends, Recvs, Waits, Ends
<1>8. ServeInv'
  BY <1>0, <1>1, <1>2, <1>3, <1>s, TickKeeps, Requests DEF ControlInv, ServeInv, Sets, Sends, Recvs, Waits,
     Ends, ResetPlace
<1>9. MoveInv'
  BY <1>0, <1>1, <1>2, <1>3, <1>s, TickKeeps, Requests, HostNumbers, ConstantTypes DEF ControlInv, MoveInv,
     Sets, Sends, Recvs, Waits, Ends, Words, Written
<1>10. AskInv'
  BY <1>0, <1>1, <1>2, <1>3, <1>s, TickKeeps, Requests DEF ControlInv, AskInv, Sets, Sends, Recvs, Waits, Ends
<1>11. PlaceInv'
  BY <1>0, <1>1, <1>2, <1>3, <1>s, TickKeeps, Requests DEF ControlInv, PlaceInv, Sets, Sends, Recvs, Waits,
     Ends, Is, DiskStates, PacketStates
<1>12. CountInv'
  BY <1>0, <1>1, <1>2, <1>3, <1>s, TickKeeps, Requests, HostNumbers, ConstantTypes DEF ControlInv, CountInv,
     Sets, Sends, Recvs, Waits, Ends, Is
<1>13. SilentInv'
  BY <1>0, <1>1, <1>2, <1>3, <1>s, TickKeeps, Requests DEF ControlInv, SilentInv, Sets, Sends, Recvs, Waits,
     Ends, Is
<1> QED
  BY <1>5, <1>6, <1>7, <1>8, <1>9, <1>10, <1>11, <1>12, <1>13 DEF ControlInv

\* The host ends a packet.
LEMMA FinishKeeps ==
  ASSUME ControlInv, TickFrame, FinishMove, UNCHANGED image, h.wait = 0
  PROVE  ControlInv'
<1>0. /\ HostType
      /\ Keeps({"pkt", "count", "status", "st", "next", "sense", "plba", "rem"})
      /\ Bus("none", bus.n)
  BY DEF ControlInv, FinishMove, NoPulse, Pulse
<1>1. /\ h'.cnt = h.cnt /\ h'.cmd = h.cmd /\ h'.dma = h.dma /\ h'.sec = h.sec /\ h'.cyl = h.cyl
      /\ h'.head = h.head /\ h'.drv = h.drv /\ h'.lba = h.lba /\ h'.io = h.io
      /\ h'.irqPending = h.irqPending /\ h'.limit = h.limit /\ h'.wait = h.wait
  BY <1>0 DEF Keeps, HostFields
<1>2. /\ (h.st = "PACKET_HANDLE" \/ (h.st = "PACKET_READ_WAIT_REQ" /\ request = "data"))
      /\ h'.st = "SET_REGS" /\ h'.next = "IDLE" /\ h'.count = 3 /\ h'.pkt = 0
      /\ h'.status \subseteq HostBits /\ "DRQ" \notin h'.status /\ "END" \notin h'.status
      /\ h'.plba \in Nat /\ h'.rem \in Nat /\ h'.sense \in {0, 5} /\ bus'.op = "none"
      /\ bus'.n = bus.n
  BY DEF FinishMove, NoPulse, Pulse, Bus
<1>s. /\ kind = "cd" /\ (Active => g.task.cmd = "PACKET")
  BY <1>0, <1>2, TickKeeps, Requests DEF ControlInv, PlaceInv, PacketStates, Is, Place, SetDone
<1>3. /\ ~Setting /\ Setting' /\ Place = h.st /\ Place' = "SET_REGS" /\ ~Pending'
      /\ (Busy <=> h.st \notin Waits \cup Ends) /\ Busy'
  BY <1>0, <1>1, <1>2, <1>s, TickKeeps, HostNumbers DEF Setting, SetDone, Place, Busy, Sets, Sends, Recvs,
     Waits, Ends
<1>4. /\ h'.st \in States /\ h'.next \in Waits \cup Ends /\ h'.status \subseteq HostBits
      /\ h'.pkt \in 0 .. BufWords /\ h'.sense \in {0, 5} /\ h'.count \in Nat /\ h'.plba \in Nat
      /\ h'.rem \in Nat /\ h'.wait \in Nat
  BY <1>0, <1>1, <1>2, <1>s, HostNumbers, ConstantTypes DEF Sets, Sends, Recvs, Waits, Ends, States, HostBits
<1>t. /\ ((Counting => h.count # 0) => (Counting' => h'.count # 0))
      /\ ((InPacket => h.limit # 0) => (InPacket' => h'.limit # 0))
  BY <1>0, <1>1, <1>2, <1>s, HostNumbers, ConstantTypes DEF Counting, InPacket, PacketStates, Sets, Sends,
     Recvs, Waits, Ends
<1>5. RtlType' /\ GuestType' /\ DataType'
  BY <1>0, <1>2, <1>s, HostNumbers, TickTypes DEF ControlInv, RtlType
<1>6. HostType'
  BY <1>0, <1>4, <1>t, HostTypeKept
<1>7. BusInv'
  BY <1>0, <1>1, <1>2, <1>3, <1>s, TickKeeps, Requests, HostNumbers, ConstantTypes DEF ControlInv, BusInv,
     Sets, Sends, Recvs, Waits, Ends
<1>8. ServeInv'
  BY <1>0, <1>1, <1>2, <1>3, <1>s, TickKeeps, Requests DEF ControlInv, ServeInv, Sets, Sends, Recvs, Waits,
     Ends, ResetPlace
<1>9. MoveInv'
  BY <1>0, <1>1, <1>2, <1>3, <1>s, TickKeeps, Requests, HostNumbers, ConstantTypes DEF ControlInv, MoveInv,
     Sets, Sends, Recvs, Waits, Ends, Words, Written
<1>10. AskInv'
  BY <1>0, <1>1, <1>2, <1>3, <1>s, TickKeeps, Requests DEF ControlInv, AskInv, Sets, Sends, Recvs, Waits, Ends
<1>11. PlaceInv'
  BY <1>0, <1>1, <1>2, <1>3, <1>s, TickKeeps, Requests DEF ControlInv, PlaceInv, Sets, Sends, Recvs, Waits,
     Ends, Is, DiskStates, PacketStates
<1>12. CountInv'
  BY <1>0, <1>1, <1>2, <1>3, <1>s, TickKeeps, Requests, HostNumbers, ConstantTypes DEF ControlInv, CountInv,
     Sets, Sends, Recvs, Waits, Ends, Is
<1>13. SilentInv'
  BY <1>0, <1>1, <1>2, <1>3, <1>s, TickKeeps, Requests DEF ControlInv, SilentInv, Sets, Sends, Recvs, Waits,
     Ends, Is
<1> QED
  BY <1>5, <1>6, <1>7, <1>8, <1>9, <1>10, <1>11, <1>12, <1>13 DEF ControlInv
\* Every tick keeps the invariant.
LEMMA TickStep ==
  ASSUME ControlInv, Tick
  PROVE  ControlInv'
<1>1. TickMove
  BY TickMoves DEF ControlInv
<1>2. TickFrame
  BY <1>1 DEF TickMove, TickFrame
<1>3. CASE h.wait > 0
  BY <1>1, <1>2, <1>3, StayKeeps DEF TickMove
<1>4. CASE ~(h.wait > 0)
  <2>0. h.wait = 0
    BY <1>4, HostNumbers DEF ControlInv
  <2>1. CASE h.st = "WRITE_RECV" /\ StoreMove
    BY <1>2, <2>0, <2>1, RecvKeeps, WrittenKeeps DEF StoreMove
  <2>2. CASE UNCHANGED image /\ PlainMove
    <3>1. CASE \/ StayMove \/ InitialMove \/ CommandMove \/ ResetMove \/ DriveMove \/ RestMove
      BY <1>2, <2>0, <2>2, <3>1, StayKeeps, InitialKeeps, CommandKeeps, ResetKeeps, DriveKeeps, RestKeeps
    <3>2. CASE \/ StageMove \/ StagedMove \/ ShortMove \/ IdentifyMove \/ TransferMove \/ PacketMove
      BY <1>2, <2>0, <2>2, <3>2, StageKeeps, StagedKeeps, ShortKeeps, IdentifyKeeps, TransferKeeps,
         PacketKeeps
    <3>3. CASE \/ SendMove \/ SentMove \/ SetMove \/ RegMove \/ RegsMove
      BY <1>2, <2>0, <2>2, <3>3, SendKeeps, SentKeeps, SetKeeps, RegKeeps, RegsKeeps
    <3>4. CASE \/ ReadMove \/ ReadRegsMove \/ OverMove \/ ReadDataMove \/ WriteMove \/ WriteRegsMove
               \/ WriteDataMove
      BY <1>2, <2>0, <2>2, <3>4, ReadKeeps, ReadRegsKeeps, OverKeeps, ReadDataKeeps, WriteKeeps,
         WriteRegsKeeps, WriteDataKeeps
    <3>5. CASE \/ PacketDataMove \/ RecvMove \/ ReceivedMove \/ AnswerMove \/ FinishMove
      BY <1>2, <2>0, <2>2, <3>5, PacketDataKeeps, RecvKeeps, ReceivedKeeps, AnswerKeeps, FinishKeeps
    <3> QED
      BY <2>2, <3>1, <3>2, <3>3, <3>4, <3>5 DEF PlainMove
  <2> QED
    BY <1>1, <2>1, <2>2 DEF TickMove
<1> QED
  BY <1>3, <1>4
-----------------------------------------------------------------------------
(* An edge of the clock, register by register.                              *)

EdgeFrame == turn = "edge" /\ turn' = "tick" /\ bus' = bus /\ kind' = kind /\ image' = image
\* The pointer into the buffer, and what the host will read.
PointerStep ==
  /\ oldOp' = bus.op
  /\ mgmtCnt' = IF oldOp # "none" /\ bus.op # oldOp
                THEN IF bus.n = 15 THEN (mgmtCnt + 1) % (2 * BufWords) ELSE 0
                ELSE mgmtCnt
FetchStep ==
  /\ q' = <<buf[2 * (At15 \div 2)], buf[((2 * (At15 \div 2)) + 1) % BufWords]>>
  /\ rdata' = IF bus.n <= 5 THEN task ELSE q[1 + (mgmtCnt % 2)]
HostWord == buf' = IF bus.op = "wr" /\ bus.n = 15 THEN [buf EXCEPT ![At15] = bus.d] ELSE buf
\* What the host writes of the task file and of the block size.
HostRegs ==
  /\ task' = (IF MgmtWr(1) THEN [task EXCEPT !.count = h.count % CountBase, !.sec = h.sec % SecBase]
              ELSE IF MgmtWr(2) THEN [task EXCEPT !.cyl = h.cyl] ELSE task)
  /\ blk' = IF MgmtWr(0) THEN (IF kind = "cd" THEN BlkHi ELSE h.io * SectorWords)
            ELSE IF MgmtWr(4) /\ blk >= BlkHi THEN h.pkt ELSE blk
\* The guest does nothing, or reads the status, or sets SRST.
GuestIdles == (swReset' = FALSE /\ g' = g) \/ (swReset' = TRUE /\ SoftReset)

ColdEdge ==
  /\ EdgeFrame /\ FetchStep /\ HostWord /\ CutOff /\ h' = ColdHost(h)
  /\ status' = {"BSY"} /\ request' = "reset" /\ lastRead' = FALSE /\ irq' = FALSE /\ swReset' = FALSE
  /\ task' = PowerOnTask /\ blk' = 0 /\ oldStb' = FALSE /\ ioCnt' = 0 /\ oldOp' = "none"
  /\ mgmtCnt' = 0
HeldEdge ==
  /\ EdgeFrame /\ PointerStep /\ FetchStep /\ HostWord /\ h' = h /\ g' = g
  /\ swReset /\ swReset' \in BOOLEAN /\ (~swReset' => h.st = "RESET_SET")
  /\ status' = {"BSY"} /\ request' = "reset" /\ lastRead' = FALSE /\ irq' = FALSE
  /\ oldStb' = FALSE /\ ioCnt' = 0
  /\ IF MgmtWr(5) THEN /\ task' = [task EXCEPT !.lba = h.lba, !.drv = h.drv, !.head = h.head]
                       /\ blk' = blk
     ELSE HostRegs
\* The register that answers the request.
AnswerEdge ==
  /\ EdgeFrame /\ PointerStep /\ FetchStep /\ HostWord /\ h' = h /\ ~swReset /\ GuestIdles
  /\ bus.op = "wr" /\ bus.n = 5
  /\ status' = h.status \cap {"RDY", "DSC", "DRQ", "ERR"} /\ request' = "none"
  /\ lastRead' = ("END" \in h.status) /\ irq' \in BOOLEAN /\ (irq' => irq \/ "IRQ" \in h.status)
  /\ task' = [task EXCEPT !.lba = h.lba, !.drv = h.drv, !.head = h.head] /\ blk' = blk
  /\ oldStb' = FALSE /\ ioCnt' = 0
\* Another access of the host.
BusEdge ==
  /\ EdgeFrame /\ PointerStep /\ FetchStep /\ HostWord /\ h' = h /\ ~swReset /\ GuestIdles
  /\ bus.op # "none" /\ ~(bus.op = "wr" /\ bus.n = 5) /\ HostRegs
  /\ status' = status /\ request' = request /\ lastRead' = lastRead /\ irq' \in BOOLEAN
  /\ (irq' => irq) /\ oldStb' = FALSE /\ ioCnt' = ioCnt
\* No access; a strobe of the guest may end.
QuietEdge ==
  /\ EdgeFrame /\ PointerStep /\ FetchStep /\ buf' = buf /\ h' = h /\ ~swReset /\ GuestIdles
  /\ bus.op = "none" /\ ~(Drq /\ IoDone)
  /\ status' = status /\ request' = request /\ lastRead' = lastRead /\ irq' \in BOOLEAN
  /\ (irq' => irq) /\ oldStb' = FALSE /\ ioCnt' = ioCnt + Stb /\ task' = task /\ blk' = blk
\* The block has been moved.
DoneEdge ==
  /\ EdgeFrame /\ PointerStep /\ FetchStep /\ buf' = buf /\ h' = h /\ ~swReset /\ swReset' = FALSE
  /\ g' = g /\ bus.op = "none" /\ Drq /\ IoDone
  /\ status' = (IF lastRead THEN {"RDY"} ELSE {"BSY"})
  /\ request' = (IF lastRead THEN "none" ELSE "data") /\ lastRead' = FALSE /\ irq' = irq
  /\ oldStb' = FALSE /\ ioCnt' \in 0 .. (2 * BufWords) - 1 /\ (~oldStb => ioCnt' = ioCnt)
  /\ task' = task /\ blk' = blk
CommandEdge(t, p) ==
  /\ EdgeFrame /\ PointerStep /\ FetchStep /\ buf' = buf /\ h' = h /\ Command(t, p)
  /\ t \in Tasks[kind] /\ p \in (IF t.cmd = "PACKET" THEN Packets ELSE {NoPacket})
  /\ bus.op = "none" /\ swReset' = FALSE
  /\ status' = {"BSY"} /\ request' = "command" /\ lastRead' = lastRead /\ irq' = FALSE
  /\ task' = t /\ blk' = blk /\ oldStb' = FALSE /\ ioCnt' = ioCnt
\* A word of a block.
MovesWord ==
  /\ EdgeFrame /\ PointerStep /\ FetchStep /\ h' = h /\ bus.op = "none" /\ ~swReset /\ swReset' = FALSE
  /\ Drq /\ ~IoDone /\ ~oldStb
  /\ status' = status /\ request' = request /\ lastRead' = lastRead /\ irq' = irq
  /\ task' = task /\ blk' = blk /\ oldStb' = TRUE /\ ioCnt' = ioCnt
ReadEdge == MovesWord /\ ReadData /\ buf' = buf
WriteEdge == MovesWord /\ WriteData /\ buf' = [buf EXCEPT ![ioCnt % BufWords] = OutWord]

EdgeMove ==
  \/ ColdEdge \/ HeldEdge \/ AnswerEdge \/ BusEdge \/ QuietEdge \/ DoneEdge \/ ReadEdge \/ WriteEdge
  \/ \E t, p : CommandEdge(t, p)

\* What the invariant says of the guest's accesses.
LEMMA EdgeFacts ==
  ASSUME ControlInv, turn = "edge"
  PROVE  /\ bus.op # "none" => request # "none" /\ status = {"BSY"} /\ ~oldStb /\ ~Drq
         /\ oldStb => Drq /\ ~swReset
         /\ Drq => ioCnt + Stb <= blk /\ blk \in 0 .. BufWords
         /\ ioCnt \in 0 .. (2 * BufWords) - 1 /\ BufWords \in Nat \ {0} /\ mgmtCnt \in Nat /\ blk \in Nat
         /\ oldStb \in BOOLEAN /\ swReset \in BOOLEAN /\ irq \in BOOLEAN /\ lastRead \in BOOLEAN
         /\ swReset => ~Active
<1>1. bus.op # "none" => request # "none"
  BY DEF ControlInv, ServeInv, Busy, Pending
<1>2. request # "none" => status = {"BSY"} /\ ~Drq
  BY DEF ControlInv, RtlType, Drq
<1>3. (oldStb => Drq /\ ~swReset) /\ (swReset => ~Active)
  BY DEF ControlInv, ServeInv
<1>4. Drq => ioCnt + Stb <= blk /\ blk \in 0 .. BufWords
  BY DEF ControlInv, MoveInv
<1>5. /\ ioCnt \in 0 .. (2 * BufWords) - 1 /\ BufWords \in Nat \ {0} /\ mgmtCnt \in Nat /\ blk \in Nat
      /\ oldStb \in BOOLEAN /\ swReset \in BOOLEAN /\ irq \in BOOLEAN /\ lastRead \in BOOLEAN
  BY ConstantTypes DEF ControlInv, RtlType
<1> QED
  BY <1>1, <1>2, <1>3, <1>4, <1>5

\* The registers no guest access touches.
LEMMA EdgeCommon ==
  ASSUME NEW e, Rtl(e), e.op # "cold"
  PROVE  EdgeFrame /\ PointerStep /\ FetchStep /\ h' = h /\ (e.op # "write" => HostWord)
BY DEF Rtl, EdgeFrame, PointerStep, FetchStep, HostWord, MgmtCounter, Buffer

\* The strobe is off unless the guest moves a word.
LEMMA StrobeOff ==
  ASSUME NEW e, Rtl(e), e.op \notin {"read", "write"}
  PROVE  oldStb' = FALSE
<1>1. (e.op \in {"read", "write"}) = FALSE
  OBVIOUS
<1>2. oldStb' = (e.op \in {"read", "write"})
  BY DEF Rtl, IoCounter
<1> HIDE DEF Rtl
<1> QED
  BY <1>1, <1>2, Zenon

\* Every edge is one of the moves.
LEMMA EdgeMoves ==
  ASSUME ControlInv, Edge \/ MoveEdge \/ ReleaseEdge
  PROVE  EdgeMove
<1> DEFINE none == [op |-> "none"]
<1>0. turn = "edge"
  BY DEF Edge, MoveEdge, ReleaseEdge, Rtl
<1>a. /\ bus.op # "none" => request # "none" /\ status = {"BSY"} /\ ~oldStb /\ ~Drq
      /\ oldStb => Drq /\ ~swReset
      /\ Drq => ioCnt + Stb <= blk /\ blk \in 0 .. BufWords
      /\ ioCnt \in 0 .. (2 * BufWords) - 1 /\ BufWords \in Nat \ {0} /\ mgmtCnt \in Nat /\ blk \in Nat
      /\ oldStb \in BOOLEAN /\ swReset \in BOOLEAN /\ irq \in BOOLEAN /\ lastRead \in BOOLEAN
  BY <1>0, EdgeFacts
<1>b. (ioCnt + 1) % (2 * BufWords) \in 0 .. (2 * BufWords) - 1
  BY <1>a
<1>c. ASSUME Drq, oldStb, ~IoDone PROVE (ioCnt + 1) % (2 * BufWords) = ioCnt + Stb
  <2>1. ioCnt + 1 \in 0 .. (2 * BufWords) - 1 /\ Stb = 1
    BY <1>a, <1>c DEF Stb
  <2> QED
    BY <1>a, <2>1
<1>1. CASE CutOff /\ Rtl([op |-> "cold"])
  <2> DEFINE e == [op |-> "cold"]
  <2>1. Rtl(e) /\ e.op = "cold" /\ CutOff
    BY <1>1
  <2> HIDE DEF e
  <2>2. /\ EdgeFrame /\ FetchStep /\ HostWord /\ h' = ColdHost(h)
    BY <2>1 DEF Rtl, EdgeFrame, FetchStep, HostWord, Buffer
  <2>3. /\ status' = {"BSY"} /\ request' = "reset" /\ lastRead' = FALSE /\ irq' = FALSE
        /\ swReset' = FALSE
    BY <2>1 DEF Rtl, StatusReg, RequestReg, LastReadReg, IrqReg, SwResetReg, Reset
  <2>4. /\ task' = PowerOnTask /\ blk' = 0 /\ oldStb' = FALSE /\ ioCnt' = 0 /\ oldOp' = "none"
        /\ mgmtCnt' = 0
    BY <2>1, StrobeOff DEF Rtl, TaskRegs, BlkSizeReg, IoCounter, MgmtCounter, Reset
  <2> QED
    BY <2>1, <2>2, <2>3, <2>4 DEF EdgeMove, ColdEdge
<1>2. ASSUME NEW e, Rtl(e), e.op \in {"none", "status", "release"}, swReset, g' = g,
             e.op = "release" => h.st = "RESET_SET"
      PROVE  HeldEdge
  <2>1. EdgeFrame /\ PointerStep /\ FetchStep /\ HostWord /\ h' = h
    BY <1>2, EdgeCommon
  <2>2. /\ status' = {"BSY"} /\ request' = "reset" /\ lastRead' = FALSE /\ irq' = FALSE
        /\ swReset' = (e.op # "release")
    BY <1>2 DEF Rtl, StatusReg, RequestReg, LastReadReg, IrqReg, SwResetReg, Reset
  <2>3. oldStb' = FALSE /\ ioCnt' = 0
    BY <1>2, StrobeOff DEF Rtl, IoCounter, Reset
  <2>4. IF MgmtWr(5) THEN /\ task' = [task EXCEPT !.lba = h.lba, !.drv = h.drv, !.head = h.head]
                          /\ blk' = blk
        ELSE HostRegs
    BY <1>2 DEF Rtl, TaskRegs, BlkSizeReg, MgmtWr, HostRegs
  <2> QED
    BY <1>2, <2>1, <2>2, <2>3, <2>4 DEF HeldEdge
<1>3. ASSUME NEW e, Rtl(e), ~swReset,
             \/ e.op \in {"none", "status"} /\ g' = g
             \/ e.op = "srst" /\ SoftReset,
             e.op # "none" => Spaced
      PROVE  AnswerEdge \/ BusEdge \/ QuietEdge \/ DoneEdge
  <2>1. EdgeFrame /\ PointerStep /\ FetchStep /\ HostWord /\ h' = h
    BY <1>3, EdgeCommon
  <2>2. swReset' = (e.op = "srst") /\ GuestIdles /\ ~Reset(e) /\ e.op \notin {"cold", "command", "read", "write"}
    BY <1>3 DEF Rtl, SwResetReg, GuestIdles, Reset
  <2>3. /\ irq' \in BOOLEAN /\ (irq' => irq \/ (MgmtWr(5) /\ "IRQ" \in h.status))
        /\ (e.op = "none" /\ ~MgmtWr(5) => irq' = irq)
    BY <1>a, <1>3, <2>2 DEF Rtl, IrqReg
  <2>4. oldStb' = FALSE
    BY <1>3, <2>2, StrobeOff
  <2>5. CASE MgmtWr(5)
    <3>1. /\ status' = h.status \cap {"RDY", "DSC", "DRQ", "ERR"} /\ request' = "none"
          /\ lastRead' = ("END" \in h.status)
      BY <1>3, <2>2, <2>5 DEF Rtl, StatusReg, RequestReg, LastReadReg
    <3>2. ioCnt' = 0
      BY <1>3, <2>5 DEF Rtl, IoCounter
    <3>3. task' = [task EXCEPT !.lba = h.lba, !.drv = h.drv, !.head = h.head] /\ blk' = blk
      BY <1>3, <2>2, <2>5 DEF Rtl, TaskRegs, BlkSizeReg, MgmtWr
    <3> QED
      BY <1>3, <2>1, <2>2, <2>3, <2>4, <2>5, <3>1, <3>2, <3>3 DEF AnswerEdge, MgmtWr
  <2>6. CASE ~MgmtWr(5) /\ bus.op # "none"
    <3>1. ~oldStb /\ ~Drq
      BY <1>a, <2>6
    <3>2. status' = status /\ request' = request /\ lastRead' = lastRead
      BY <1>a, <1>3, <2>2, <2>6, <3>1 DEF Rtl, StatusReg, RequestReg, LastReadReg
    <3>3. ioCnt' = ioCnt
      BY <1>3, <2>2, <2>6, <3>1 DEF Rtl, IoCounter
    <3>4. HostRegs
      BY <1>3, <2>2, <2>6 DEF Rtl, TaskRegs, BlkSizeReg, MgmtWr, HostRegs
    <3> QED
      BY <1>3, <2>1, <2>2, <2>3, <2>4, <2>6, <3>2, <3>3, <3>4 DEF BusEdge, MgmtWr
  <2>7. CASE bus.op = "none"
    <3>0. ~MgmtWr(5) /\ ~MgmtWr(0) /\ ~MgmtWr(1) /\ ~MgmtWr(2) /\ ~MgmtWr(4) /\ buf' = buf
      BY <2>1, <2>7 DEF MgmtWr, HostWord
    <3>1. task' = task /\ blk' = blk
      BY <1>3, <2>2, <3>0 DEF Rtl, TaskRegs, BlkSizeReg
    <3>2. ioCnt' = IF oldStb THEN (ioCnt + 1) % (2 * BufWords) ELSE ioCnt
      BY <1>3, <2>2, <2>4, <3>0 DEF Rtl, IoCounter
    <3>3. CASE Drq /\ IoDone
      <4>0. e.op = "none"
        BY <1>3, <3>3 DEF Spaced
      <4>1. /\ status' = (IF lastRead THEN {"RDY"} ELSE {"BSY"})
            /\ request' = (IF lastRead THEN "none" ELSE "data") /\ lastRead' = FALSE
        <5>1. request = "none"
          BY <3>3 DEF ControlInv, RtlType, Drq
        <5> QED
          BY <1>3, <2>2, <3>0, <3>3, <5>1 DEF Rtl, StatusReg, RequestReg, LastReadReg
      <4> QED
        BY <1>a, <1>b, <1>3, <2>1, <2>2, <2>3, <2>4, <2>7, <3>0, <3>1, <3>2, <3>3, <4>0, <4>1 DEF DoneEdge
    <3>4. CASE ~(Drq /\ IoDone)
      <4>1. status' = status /\ request' = request /\ lastRead' = lastRead
        BY <1>a, <1>3, <2>2, <3>0, <3>4 DEF Rtl, StatusReg, RequestReg, LastReadReg
      <4>2. ioCnt' = ioCnt + Stb
        BY <1>a, <1>c, <3>2, <3>4 DEF Stb
      <4> QED
        BY <1>3, <2>1, <2>2, <2>3, <2>4, <2>7, <3>0, <3>1, <3>4, <4>1, <4>2 DEF QuietEdge
    <3> QED
      BY <3>3, <3>4
  <2> QED
    BY <2>5, <2>6, <2>7
<1>4. ASSUME NEW t \in Tasks[kind], NEW p \in (IF t.cmd = "PACKET" THEN Packets ELSE {NoPacket}),
             Command(t, p), Rtl([op |-> "command", t |-> t])
      PROVE  CommandEdge(t, p)
  <2> DEFINE e == [op |-> "command", t |-> t]
  <2>1. Rtl(e) /\ e.op = "command" /\ e.t = t
    BY <1>4
  <2> HIDE DEF e
  <2>2. Free /\ Spaced /\ ~swReset /\ ~oldStb /\ ~Drq /\ bus.op = "none"
    BY <1>a, <1>4 DEF Command, Free, Spaced, Drq
  <2>3. EdgeFrame /\ PointerStep /\ FetchStep /\ HostWord /\ h' = h
    BY <2>1, EdgeCommon
  <2>4. ~MgmtWr(5) /\ ~MgmtWr(0) /\ ~MgmtWr(1) /\ ~MgmtWr(2) /\ ~MgmtWr(4) /\ buf' = buf /\ ~Reset(e)
    BY <2>1, <2>2, <2>3 DEF MgmtWr, HostWord, Reset
  <2>5. status' = {"BSY"} /\ request' = "command" /\ lastRead' = lastRead /\ irq' = FALSE /\ swReset' = FALSE
    BY <1>a, <2>1, <2>2, <2>4 DEF Rtl, StatusReg, RequestReg, LastReadReg, IrqReg, SwResetReg
  <2>6. task' = t /\ blk' = blk /\ oldStb' = FALSE /\ ioCnt' = ioCnt
    BY <2>1, <2>2, <2>4, StrobeOff DEF Rtl, TaskRegs, BlkSizeReg, IoCounter
  <2> QED
    BY <1>4, <2>2, <2>3, <2>4, <2>5, <2>6 DEF CommandEdge
<1>5. ASSUME NEW e, Rtl(e), e.op \in {"read", "write"}, Spaced, ~swReset, Drq
      PROVE  MovesWord
  <2>1. ~oldStb /\ ~IoDone /\ bus.op = "none"
    BY <1>a, <1>5 DEF Spaced
  <2>2. EdgeFrame /\ PointerStep /\ FetchStep /\ h' = h
    BY <1>5, EdgeCommon
  <2>3. ~MgmtWr(5) /\ ~MgmtWr(0) /\ ~MgmtWr(1) /\ ~MgmtWr(2) /\ ~MgmtWr(4) /\ ~Reset(e)
    BY <1>5, <2>1 DEF MgmtWr, Reset
  <2>4. status' = status /\ request' = request /\ lastRead' = lastRead /\ irq' = irq /\ swReset' = FALSE
    BY <1>a, <1>5, <2>1, <2>3 DEF Rtl, StatusReg, RequestReg, LastReadReg, IrqReg, SwResetReg
  <2>5. task' = task /\ blk' = blk /\ oldStb' = TRUE /\ ioCnt' = ioCnt
    BY <1>5, <2>1, <2>3 DEF Rtl, TaskRegs, BlkSizeReg, IoCounter
  <2> QED
    BY <1>5, <2>1, <2>2, <2>4, <2>5 DEF MovesWord
<1>6. CASE ReadData /\ Rtl([op |-> "read"])
  <2> DEFINE e == [op |-> "read"]
  <2>1. Rtl(e) /\ e.op = "read" /\ ReadData
    BY <1>6
  <2> HIDE DEF e
  <2>2. MovesWord
    BY <1>5, <2>1 DEF ReadData, AtDataPort
  <2>3. buf' = buf
    BY <2>1, <2>2, EdgeCommon DEF HostWord, MovesWord
  <2> QED
    BY <2>1, <2>2, <2>3 DEF EdgeMove, ReadEdge
<1>7. CASE WriteData /\ Rtl([op |-> "write", d |-> OutWord])
  <2> DEFINE e == [op |-> "write", d |-> OutWord]
  <2>1. Rtl(e) /\ e.op = "write" /\ e.d = OutWord /\ WriteData
    BY <1>7
  <2> HIDE DEF e
  <2>2. MovesWord
    BY <1>5, <2>1 DEF WriteData, AtDataPort
  <2>3. buf' = [buf EXCEPT ![ioCnt % BufWords] = OutWord]
    BY <2>1, <2>2 DEF Rtl, Buffer, MovesWord
  <2> QED
    BY <2>1, <2>2, <2>3 DEF EdgeMove, WriteEdge
<1>8. CASE UNCHANGED g /\ Rtl([op |-> "none"])
  <2> DEFINE e == [op |-> "none"]
  <2>1. Rtl(e) /\ e.op = "none" /\ g' = g
    BY <1>8
  <2> HIDE DEF e
  <2> QED
    BY <1>a, <1>2, <1>3, <2>1 DEF EdgeMove
<1>9. CASE ReadStatus /\ Rtl([op |-> "status"])
  <2> DEFINE e == [op |-> "status"]
  <2>1. Rtl(e) /\ e.op = "status" /\ g' = g /\ Spaced
    BY <1>9 DEF ReadStatus
  <2> HIDE DEF e
  <2> QED
    BY <1>a, <1>2, <1>3, <2>1 DEF EdgeMove
<1>10. CASE SoftReset /\ Rtl([op |-> "srst"])
  <2> DEFINE e == [op |-> "srst"]
  <2>1. Rtl(e) /\ e.op = "srst" /\ SoftReset /\ Spaced /\ ~swReset
    BY <1>10 DEF SoftReset
  <2> HIDE DEF e
  <2> QED
    BY <1>3, <2>1 DEF EdgeMove
<1>11. CASE Release /\ Rtl([op |-> "release"])
  <2> DEFINE e == [op |-> "release"]
  <2>1. Rtl(e) /\ e.op = "release" /\ g' = g /\ swReset /\ h.st = "RESET_SET"
    BY <1>11 DEF Release
  <2> HIDE DEF e
  <2> QED
    BY <1>2, <2>1 DEF EdgeMove
<1>12. CASE \E t \in Tasks[kind] : \E p \in IF t.cmd = "PACKET" THEN Packets ELSE {NoPacket} :
             Command(t, p) /\ Rtl([op |-> "command", t |-> t])
  BY <1>4, <1>12 DEF EdgeMove
<1> QED
  BY <1>1, <1>6, <1>7, <1>8, <1>9, <1>10, <1>11, <1>12 DEF Edge, MoveEdge, ReleaseEdge

-----------------------------------------------------------------------------
(* An edge keeps the invariant, move by move.                               *)

\* What an edge that is not a power-on leaves of the host.
LEMMA EdgeKeeps ==
  ASSUME EdgeFrame, h' = h
  PROVE  /\ turn = "edge" /\ turn' = "tick" /\ bus' = bus /\ kind' = kind /\ image' = image
         /\ ~Pending' /\ (Pending <=> bus.op # "none")
         /\ (SetDone' <=> h.st = "SET_REGS_SEND" /\ h.cnt = 6)
         /\ (SetDone <=> h.st = "SET_REGS_SEND" /\ h.cnt = 6 /\ ~Pending)
         /\ (Setting' => Setting) /\ Words' = Words /\ Written' = h.cnt
         /\ SectorSize' = SectorSize /\ (ResetPlace' <=> ResetPlace)
BY DEF EdgeFrame, Pending, SetDone, Setting, Words, Written, SectorSize, ResetPlace

\* Without an access, the host stands where it stood.
LEMMA EdgeStands ==
  ASSUME EdgeFrame, h' = h, bus.op = "none"
  PROVE  /\ ~Pending /\ (Setting' <=> Setting) /\ Place' = Place /\ (Busy' <=> Busy)
         /\ Written = h.cnt
BY EdgeKeeps DEF Setting, Place, Busy, Written, SetDone

\* The pointer stays in the buffer's space.
LEMMA PointerType ==
  ASSUME RtlType, PointerStep
  PROVE  mgmtCnt' \in 0 .. (2 * BufWords) - 1 /\ oldOp' \in {"none", "rd", "wr"}
<1>1. mgmtCnt \in 0 .. (2 * BufWords) - 1 /\ bus.op \in {"none", "rd", "wr"} /\ BufWords \in Nat \ {0}
  BY ConstantTypes DEF RtlType
<1>2. (mgmtCnt + 1) % (2 * BufWords) \in 0 .. (2 * BufWords) - 1 /\ 0 \in 0 .. (2 * BufWords) - 1
  BY <1>1
<1> QED
  BY <1>1, <1>2 DEF PointerStep

\* The task registers stay a task file, whatever the host writes.
LEMMA RegsType ==
  ASSUME RtlType, HostType,
         HostRegs \/ task' = [task EXCEPT !.lba = h.lba, !.drv = h.drv, !.head = h.head]
  PROVE  task' \in TaskFile
<1>1. h.count \in Nat /\ h.sec \in Nat /\ CountBase \in Nat \ {0} /\ SecBase \in Nat \ {0}
  BY ConstantTypes DEF HostType
<1>2. h.count % CountBase \in Nat /\ h.sec % SecBase \in Nat
  BY <1>1
<1>3. h.cyl \in Nat /\ h.lba \in BOOLEAN /\ h.drv \in {0, 1} /\ h.head \in Nat
  BY DEF HostType
<1>4. task \in TaskFile
  BY DEF RtlType
<1> DEFINE c == h.count % CountBase
           s == h.sec % SecBase
<1> HIDE DEF c, s
<1>5. c \in Nat /\ s \in Nat
  BY <1>2 DEF c, s
<1>6. \/ task' = [task EXCEPT !.count = c, !.sec = s] \/ task' = [task EXCEPT !.cyl = h.cyl]
      \/ task' = task \/ task' = [task EXCEPT !.lba = h.lba, !.drv = h.drv, !.head = h.head]
  BY DEF HostRegs, c, s
<1> QED
  BY <1>3, <1>4, <1>5, <1>6 DEF TaskFile

\* ... and the block size a number.
LEMMA BlkType ==
  ASSUME RtlType, HostType, HostRegs
  PROVE  blk' \in Nat
<1>1. h.io \in {0, 1} /\ h.pkt \in 0 .. BufWords /\ blk \in Nat
  BY DEF HostType, RtlType
<1>2. h.io * SectorWords \in Nat /\ h.pkt \in Nat /\ BlkHi \in Nat
  BY <1>1, ConstantTypes DEF BlkHi
<1> QED
  BY <1>1, <1>2 DEF HostRegs

\* The buffer keeps its size.
LEMMA WordType ==
  ASSUME DataType, EdgeFrame, HostWord \/ buf' = buf \/ \E k, w : buf' = [buf EXCEPT ![k] = w]
  PROVE  DataType'
<1>1. DOMAIN buf' = 0 .. BufWords - 1
  BY DEF DataType, HostWord
<1>2. IsImage(image')
  BY DEF DataType, EdgeFrame
<1>3. SectorSize' = SectorSize
  BY DEF SectorSize, EdgeFrame
<1> QED
  BY <1>1, <1>2, <1>3 DEF DataType, IsImage

\* The host's types do not speak of the registers.
LEMMA HostEdge ==
  ASSUME HostType, h' = h
  PROVE  HostType'
BY SMTT(30) DEF HostType, Counting, InPacket

\* A guest that is cut off.
LEMMA CutType ==
  ASSUME GuestType, DataType, EdgeFrame, g' = g \/ CutOff
  PROVE  GuestType' /\ (CutOff => g'.task = NoTask /\ g'.blocks = 0 /\ g'.pos = 0 /\ g'.off = 0)
<1>1. SectorSize' = SectorSize /\ image' = image
  BY DEF SectorSize, EdgeFrame
<1>2. CASE g' = g
  <2>1. GuestType'
    BY <1>1, <1>2 DEF GuestType, IsImage
  <2>2. CutOff => g'.task = NoTask /\ g'.blocks = 0 /\ g'.pos = 0 /\ g'.off = 0
    BY DEF CutOff, GuestType, GuestFields
  <2> QED
    BY <2>1, <2>2
<1>3. CASE CutOff
  <2> DEFINE s == IF Free THEN SenseNow ELSE {0, 5}
             m == g.geometry /\ (Free \/ g.task.cmd # "GEOMETRY")
             u == IF g.task.cmd = "WRITE" /\ g.blocks > 0 /\ ~Free
                  THEN g.unsure \cup ({GuestLba + g.blocks - 1} \cap DOMAIN image) ELSE g.unsure
  <2>0. u \subseteq 0 .. Sectors - 1
    BY DEF GuestType, DataType, IsImage
  <2>1. s \subseteq {0, 5} /\ m \in BOOLEAN
    BY DEF GuestType, SenseNow
  <2>2. g' = [g EXCEPT !.task = NoTask, !.resets = g.resets + 1, !.blocks = 0, !.pos = 0, !.off = 0,
                       !.sense = s, !.geometry = m, !.unsure = u]
    BY <1>3 DEF CutOff, GuestType, GuestFields
  <2> HIDE DEF s, m, u
  <2>3. /\ DOMAIN g' = GuestFields /\ g'.task = NoTask /\ g'.blocks = 0 /\ g'.pos = 0 /\ g'.off = 0
        /\ g'.packet = g.packet /\ g'.unsure = u /\ g'.sense = s /\ g'.heads = g.heads
        /\ g'.spt = g.spt /\ g'.geometry = m /\ g'.disk = g.disk
    BY <2>2 DEF GuestType, GuestFields
  <2>4. IsImage(g.disk)'
    BY <1>1, <2>3 DEF GuestType, IsImage
  <2> QED
    BY <2>0, <2>1, <2>3, <2>4 DEF GuestType
<1> QED
  BY <1>2, <1>3

\* The bus, after an edge.
LEMMA EdgeBus ==
  ASSUME ControlInv, EdgeFrame, PointerStep, FetchStep, h' = h,
         h.st \in {"GET_CMD", "GET_RESET_DRIVE"} => task' = task
  PROVE  BusInv'
<1>1. bus.n <= 5 => rdata' = task
  BY DEF FetchStep
<1>2. oldOp' = bus.op
  BY DEF PointerStep
<1>3. h.st \in {"GET_CMD", "GET_RESET_DRIVE"} => bus.n \in 0 .. 5
  BY DEF ControlInv, BusInv
<1>4. h.st \in {"GET_CMD", "GET_RESET_DRIVE"} => rdata' = task'
  BY <1>1, <1>3
<1> QED
  BY <1>2, <1>4, EdgeKeeps DEF ControlInv, BusInv

\* What the block size is, as far as the host has come with its registers.
LEMMA EdgeBlk ==
  ASSUME ControlInv, EdgeFrame, h' = h, IF MgmtWr(5) THEN blk' = blk ELSE HostRegs
  PROVE  /\ h.st = "SET_REGS_SEND" /\ kind = "hdd" /\ Written' >= 1 => blk' = Words
         /\ h.st = "SET_REGS_SEND" /\ kind = "cd" /\ Written' \in 1 .. 4 => blk' = BlkHi
         /\ h.st = "SET_REGS_SEND" /\ kind = "cd" /\ Written' > 4 => blk' = Words
<1>1. /\ h.st = "SET_REGS_SEND" /\ kind = "hdd" /\ Written >= 1 => blk = Words
      /\ h.st = "SET_REGS_SEND" /\ kind = "cd" /\ Written \in 1 .. 4 => blk = BlkHi
      /\ h.st = "SET_REGS_SEND" /\ kind = "cd" /\ Written > 4 => blk = Words
  BY DEF ControlInv, MoveInv
<1>2. /\ h.st = "SET_REGS_SEND" => h.cnt \in 0 .. 6 /\ (h.cnt > 0 => bus.n = h.cnt - 1)
      /\ h.st = "SET_REGS_SEND" /\ Pending => bus.op = "wr" /\ h.cnt > 0
  BY DEF ControlInv, BusInv, Sends, Recvs
<1>3. /\ Written = (IF Pending THEN h.cnt - 1 ELSE h.cnt) /\ Written' = h.cnt
      /\ (Pending <=> bus.op # "none")
  BY EdgeKeeps DEF Written
<1>4. /\ (kind = "cd" => Words = h.pkt) /\ (kind # "cd" => Words = h.io * SectorWords)
  BY DEF Words
<1>5. kind # "cd" => Words \in Nat /\ Words < BlkHi
  <2>1. h.io \in {0, 1}
    BY DEF ControlInv, HostType
  <2> QED
    BY <1>4, <2>1, ConstantTypes, BlkHiAssumption DEF BlkHi
<1>6. CASE ~Pending
  <2>1. blk' = blk
    BY <1>3, <1>6 DEF HostRegs, MgmtWr
  <2> QED
    BY <1>1, <1>3, <1>6, <2>1
<1>7. CASE Pending /\ h.st = "SET_REGS_SEND"
  <2>1. bus.op = "wr" /\ h.cnt \in 1 .. 6 /\ bus.n = h.cnt - 1 /\ Written = h.cnt - 1
    BY <1>2, <1>3, <1>7
  <2>2. CASE h.cnt = 1
    BY <1>3, <1>4, <2>1, <2>2 DEF HostRegs, MgmtWr
  <2>3. CASE h.cnt = 5
    <3>1. blk' = IF blk >= BlkHi THEN h.pkt ELSE blk
      BY <2>1, <2>3 DEF HostRegs, MgmtWr
    <3> QED
      BY <1>1, <1>3, <1>4, <1>5, <1>7, <2>1, <2>3, <3>1 DEF BlkHi
  <2>4. CASE h.cnt \notin {1, 5}
    <3>1. blk' = blk
      BY <2>1, <2>4 DEF HostRegs, MgmtWr
    <3> QED
      BY <1>1, <1>3, <1>7, <2>1, <2>4, <3>1
  <2> QED
    BY <2>2, <2>3, <2>4
<1> QED
  BY <1>6, <1>7

\* What holds of a guest that runs no command.
LEMMA IdleGuest ==
  ASSUME ~Active
  PROVE  g.task = NoTask /\ g.task.cmd = "none" /\ \A k, c : c # "none" => ~Is(k, c)
BY DEF Active, Is, NoTask

\* A power-on.
LEMMA ColdKeeps ==
  ASSUME ControlInv, ColdEdge
  PROVE  ControlInv'
<1> DEFINE x == FreshRegs(h)
<1>0. EdgeFrame /\ FetchStep /\ HostWord /\ CutOff /\ h' = ColdHost(h) /\ HostType
  BY DEF ColdEdge, ControlInv
<1>1. /\ DOMAIN x = HostFields /\ x.count = 1 /\ x.sec = 1 /\ x.cyl = 0 /\ x.head = 0
      /\ x.lba = FALSE /\ x.io = 0 /\ x.pkt = 0
      /\ \A f \in HostFields \ {"count", "sec", "cyl", "head", "lba", "io", "pkt"} : x[f] = h[f]
  BY <1>0, FreshFields DEF HostType
<1>2. h' = [x EXCEPT !.st = "INITIAL", !.next = "IDLE", !.drv = 0,
                     !.status = IF kind = "cd" THEN {} ELSE {"RDY"}, !.wait = 0]
  BY <1>0 DEF ColdHost
<1> HIDE DEF x
<1>3. /\ h'.st = "INITIAL" /\ h'.next = "IDLE" /\ h'.drv = 0 /\ h'.status \subseteq {"RDY"} /\ h'.wait = 0
      /\ h'.count = 1 /\ h'.sec = 1 /\ h'.cyl = 0 /\ h'.head = 0 /\ h'.lba = FALSE /\ h'.io = 0 /\ h'.pkt = 0
      /\ DOMAIN h' = HostFields
      /\ \A f \in HostFields \ {"count", "sec", "cyl", "head", "lba", "io", "pkt", "st", "next", "drv",
                                "status", "wait"} : h'[f] = h[f]
  BY <1>1, <1>2 DEF HostFields
<1>4. Keeps({"count", "sec", "cyl", "head", "lba", "io", "pkt", "st", "next", "drv", "status", "wait"})
  BY <1>3 DEF Keeps
<1>5. ~Active' /\ ~Pending' /\ ~Setting' /\ Place' = "INITIAL" /\ ~Drq' /\ Busy'
  BY <1>0, <1>3, CutType
     DEF ControlInv, Active, Pending, EdgeFrame, Setting, SetDone, Place, Drq, ColdEdge, Sets, Busy, Waits, Ends
<1>6. /\ status' = {"BSY"} /\ request' = "reset" /\ lastRead' = FALSE /\ irq' = FALSE /\ swReset' = FALSE
      /\ task' = PowerOnTask /\ blk' = 0 /\ oldStb' = FALSE /\ ioCnt' = 0 /\ oldOp' = "none" /\ mgmtCnt' = 0
      /\ turn' = "tick" /\ bus' = bus /\ kind' = kind
  BY <1>0 DEF ColdEdge, EdgeFrame
<1>7. RtlType'
  <2>1. PowerOnTask \in TaskFile
    BY DEF PowerOnTask, TaskFile, Absent
  <2>2. 0 \in 0 .. (2 * BufWords) - 1
    BY ConstantTypes
  <2>3. kind \in Kinds /\ DOMAIN bus = {"op", "n", "d"} /\ bus.op \in {"none", "rd", "wr"} /\ bus.n \in 0 .. 15
    BY DEF ControlInv, RtlType
  <2> QED
    BY <1>6, <2>1, <2>2, <2>3 DEF RtlType, Bits
<1>8. HostType'
  <2>1. ~Counting' /\ ~InPacket'
    BY <1>3 DEF Counting, InPacket, PacketStates, Sets
  <2>2. /\ h'.st \in States /\ h'.next \in Waits \cup Ends /\ h'.status \subseteq HostBits
    BY <1>3 DEF States, Ends, HostBits
  <2>3. /\ h'.pkt \in 0 .. BufWords /\ h'.count \in Nat /\ h'.sec \in Nat /\ h'.cyl \in Nat
        /\ h'.head \in Nat /\ h'.io \in {0, 1} /\ h'.drv \in {0, 1} /\ h'.wait \in Nat
    BY <1>3, ConstantTypes
  <2>4. h'.lba \in BOOLEAN
    BY <1>3
  <2> QED
    BY <1>0, <1>4, <2>1, <2>2, <2>3, <2>4, HostTypeKept, Zenon
<1>9. GuestType' /\ DataType'
  BY <1>0, CutType, WordType DEF ControlInv
<1>10. BusInv'
  BY <1>3, <1>5, <1>6, ConstantTypes DEF BusInv, Sends, Recvs
<1>11. ServeInv'
  BY <1>3, <1>5, <1>6 DEF ServeInv, Waits, Ends, ResetPlace
<1>12. MoveInv'
  BY <1>3, <1>5, <1>6 DEF MoveInv, Sends
<1>13. AskInv'
  BY <1>5, <1>6 DEF AskInv
<1>14. PlaceInv'
  BY <1>3, <1>5 DEF PlaceInv, DiskStates, PacketStates
<1>15. CountInv'
  BY <1>5 DEF CountInv
<1>16. SilentInv'
  BY <1>5 DEF SilentInv, Active, Is, NoTask
<1> QED
  BY <1>7, <1>8, <1>9, <1>10, <1>11, <1>12, <1>13, <1>14, <1>15, <1>16 DEF ControlInv

\* A cycle of SRST.
LEMMA HeldKeeps ==
  ASSUME ControlInv, HeldEdge
  PROVE  ControlInv'
<1>0. EdgeFrame /\ PointerStep /\ FetchStep /\ HostWord /\ h' = h /\ g' = g /\ swReset /\ HostType /\ RtlType
  BY DEF HeldEdge, ControlInv
<1>1. /\ status' = {"BSY"} /\ request' = "reset" /\ lastRead' = FALSE /\ irq' = FALSE /\ oldStb' = FALSE
      /\ ioCnt' = 0 /\ swReset' \in BOOLEAN /\ (~swReset' => h.st = "RESET_SET")
  BY DEF HeldEdge
<1>2. ~Active' /\ ~Drq' /\ ~Active
  BY <1>0, <1>1 DEF ControlInv, ServeInv, Active, Drq
<1>3. (h.st \in {"GET_CMD", "GET_RESET_DRIVE"} => task' = task) /\ task' \in TaskFile /\ blk' \in Nat
  <2>1. CASE MgmtWr(5)
    <3>1. task' = [task EXCEPT !.lba = h.lba, !.drv = h.drv, !.head = h.head] /\ blk' = blk
      BY <2>1 DEF HeldEdge
    <3>2. h.st \notin {"GET_CMD", "GET_RESET_DRIVE"}
      BY <1>0, <2>1, EdgeKeeps DEF ControlInv, BusInv, MgmtWr, Sends, Recvs
    <3> QED
      BY <1>0, <3>1, <3>2, RegsType DEF RtlType
  <2>2. CASE ~MgmtWr(5)
    <3>1. HostRegs
      BY <2>2 DEF HeldEdge
    <3>2. h.st \in {"GET_CMD", "GET_RESET_DRIVE"} => bus.op # "wr"
      BY <1>0, EdgeKeeps DEF ControlInv, BusInv, Sends, Recvs
    <3>3. h.st \in {"GET_CMD", "GET_RESET_DRIVE"} => task' = task
      BY <3>1, <3>2 DEF HostRegs, MgmtWr
    <3> QED
      BY <1>0, <3>1, <3>3, RegsType, BlkType
  <2> QED
    BY <2>1, <2>2
<1>4. RtlType'
  <2>1. 0 \in 0 .. (2 * BufWords) - 1
    BY ConstantTypes
  <2> QED
    BY <1>0, <1>1, <1>3, <2>1, PointerType, EdgeKeeps DEF RtlType, Bits
<1>5. HostType' /\ GuestType' /\ DataType'
  BY <1>0, HostEdge, CutType, WordType DEF ControlInv
<1>6. BusInv'
  BY <1>0, <1>3, EdgeBus
<1>7. ServeInv'
  BY <1>0, <1>1, <1>2, EdgeKeeps DEF ControlInv, ServeInv, ResetPlace, Ends
<1>8. MoveInv'
  <2>1. IF MgmtWr(5) THEN blk' = blk ELSE HostRegs
    BY DEF HeldEdge
  <2> QED
    BY <1>0, <1>1, <1>2, <2>1, EdgeKeeps, EdgeBlk DEF ControlInv, MoveInv
<1>9. AskInv' /\ CountInv'
  BY <1>1, <1>2 DEF AskInv, CountInv
<1>10. PlaceInv'
  BY <1>0, <1>2, EdgeKeeps DEF ControlInv, PlaceInv
<1>11. SilentInv'
  BY <1>2 DEF SilentInv, Active, Is, NoTask
<1> QED
  BY <1>4, <1>5, <1>6, <1>7, <1>8, <1>9, <1>10, <1>11 DEF ControlInv

\* A reset leaves no command to speak of.
LEMMA CutParts ==
  ASSUME ControlInv, EdgeFrame, h' = h, CutOff, request' = "command" => ~irq'
  PROVE  ~Active' /\ AskInv' /\ PlaceInv' /\ CountInv' /\ SilentInv'
<1>1. ~Active' /\ g'.task = NoTask
  BY CutType DEF ControlInv, Active
<1>2. AskInv' /\ CountInv'
  BY <1>1 DEF AskInv, CountInv
<1>3. PlaceInv'
  BY <1>1, EdgeKeeps DEF ControlInv, PlaceInv
<1>4. SilentInv'
  BY <1>1 DEF SilentInv, Is, NoTask
<1> QED
  BY <1>1, <1>2, <1>3, <1>4

\* The registers of an edge that writes the task file at most.
LEMMA EdgeTypes ==
  ASSUME ControlInv, EdgeFrame, PointerStep, h' = h,
         HostWord \/ buf' = buf \/ (\E k, w : buf' = [buf EXCEPT ![k] = w]),
         task' \in TaskFile, blk' \in Nat, status' \subseteq Bits,
         request' \in {"none", "command", "data", "reset"},
         (request' = "none" /\ "BSY" \notin status') \/ (request' # "none" /\ status' = {"BSY"}),
         irq' \in BOOLEAN, lastRead' \in BOOLEAN, swReset' \in BOOLEAN, oldStb' \in BOOLEAN,
         ioCnt' \in 0 .. (2 * BufWords) - 1
  PROVE  RtlType' /\ HostType' /\ DataType'
<1>1. RtlType /\ HostType /\ DataType
  BY DEF ControlInv
<1>2. mgmtCnt' \in 0 .. (2 * BufWords) - 1 /\ oldOp' \in {"none", "rd", "wr"}
  BY <1>1, PointerType
<1>3. RtlType'
  BY <1>1, <1>2, EdgeKeeps DEF RtlType
<1> QED
  BY <1>1, <1>3, HostEdge, WordType

\* The six registers are written.
LEMMA AnswerEdgeKeeps ==
  ASSUME ControlInv, AnswerEdge
  PROVE  ControlInv'
<1>0. /\ EdgeFrame /\ PointerStep /\ FetchStep /\ HostWord /\ h' = h /\ ~swReset /\ GuestIdles
      /\ bus.op = "wr" /\ bus.n = 5 /\ HostType /\ RtlType
  BY DEF AnswerEdge, ControlInv
<1>1. /\ status' = h.status \cap {"RDY", "DSC", "DRQ", "ERR"} /\ request' = "none"
      /\ (lastRead' <=> "END" \in h.status) /\ irq' \in BOOLEAN /\ (irq' => irq \/ "IRQ" \in h.status)
      /\ task' = [task EXCEPT !.lba = h.lba, !.drv = h.drv, !.head = h.head] /\ blk' = blk
      /\ oldStb' = FALSE /\ ioCnt' = 0 /\ lastRead' \in BOOLEAN
  <2>1. lastRead' = ("END" \in h.status)
    BY DEF AnswerEdge
  <2>2. (lastRead' <=> "END" \in h.status) /\ lastRead' \in BOOLEAN
    <3> DEFINE b == "END" \in h.status
    <3>1. b \in BOOLEAN
      OBVIOUS
    <3>2. lastRead' = b
      BY <2>1
    <3> QED
      BY <3>1, <3>2
  <2> QED
    BY <2>2 DEF AnswerEdge
<1>2. h.st = "SET_REGS_SEND" /\ h.cnt = 6
  <2>1. Pending
    BY <1>0, EdgeKeeps
  <2>2. h.st = "SET_REGS_SEND" /\ h.cnt > 0
    BY <1>0, <2>1 DEF ControlInv, BusInv, Sends, Recvs
  <2>3. bus.n = h.cnt - 1 /\ h.cnt \in 0 .. 6
    BY <2>2 DEF ControlInv, BusInv
  <2> QED
    BY <1>0, <2>2, <2>3
<1>3. /\ Setting /\ ~Setting' /\ Place' = h.next /\ ~Busy' /\ ~Pending' /\ Place = "SET_REGS_SEND"
      /\ request # "none" /\ ~Drq /\ (Drq' <=> "DRQ" \in h.status) /\ ~BlockMoved'
  <2>1. Setting /\ ~Setting' /\ Place' = h.next /\ ~Busy' /\ ~Pending' /\ Busy /\ Place = "SET_REGS_SEND"
    BY <1>0, <1>2, EdgeKeeps DEF Setting, SetDone, Place, Busy, Sets
  <2>2. request # "none" /\ ~Drq /\ (Drq' <=> "DRQ" \in h.status)
    BY <1>1, <2>1 DEF ControlInv, ServeInv, RtlType, Drq
  <2>3. Drq' => Words \in 0 .. BufWords
    BY <2>1, <2>2 DEF ControlInv, MoveInv
  <2>4. h.cnt >= 1 /\ h.cnt > 4 /\ kind \in {"hdd", "cd"}
    BY <1>0, <1>2, ConstantTypes DEF RtlType
  <2>5. blk' = Words
    BY <1>0, <1>1, <1>2, <2>4, EdgeBlk, EdgeKeeps DEF MgmtWr
  <2>6. ~(blk' # 0 /\ 0 + 0 = blk')
    OBVIOUS
  <2>7. Stb' = 0
    BY <1>1 DEF Stb
  <2> QED
    BY <1>1, <2>1, <2>2, <2>6, <2>7 DEF BlockMoved
<1>4. RtlType' /\ HostType' /\ DataType'
  <2>1. task' \in TaskFile
    BY <1>0, <1>1, RegsType
  <2>2. blk' \in Nat /\ 0 \in 0 .. (2 * BufWords) - 1
    BY <1>0, <1>1, ConstantTypes DEF RtlType
  <2>3. status' \subseteq Bits /\ "BSY" \notin status'
    BY <1>1 DEF Bits
  <2>4. swReset' \in BOOLEAN
    BY <1>0 DEF GuestIdles
  <2> QED
    BY <1>0, <1>1, <2>1, <2>2, <2>3, <2>4, EdgeTypes
<1>5. BusInv'
  BY <1>0, <1>2, EdgeBus
<1>6. /\ blk' = Words /\ Words' = Words /\ Stb' = 0
      /\ (Drq' => Words \in 0 .. BufWords /\ (kind # "cd" => Words # 0))
      /\ (h.st = "SET_REGS_SEND" /\ kind = "hdd" /\ Written' >= 1 => blk' = Words)
      /\ (h.st = "SET_REGS_SEND" /\ kind = "cd" /\ Written' \in 1 .. 4 => blk' = BlkHi)
      /\ (h.st = "SET_REGS_SEND" /\ kind = "cd" /\ Written' > 4 => blk' = Words)
  <2>1. h.cnt >= 1 /\ h.cnt > 4 /\ kind \in {"hdd", "cd"}
    BY <1>0, <1>2, ConstantTypes DEF RtlType
  <2>2. Drq' => Words \in 0 .. BufWords /\ (kind # "cd" => Words # 0)
    BY <1>3 DEF ControlInv, MoveInv
  <2> QED
    BY <1>0, <1>1, <1>2, <2>1, <2>2, EdgeBlk, EdgeKeeps DEF MgmtWr, Stb
<1>7. CASE swReset' = FALSE /\ g' = g
  <2>1. (Active' <=> Active) /\ Hand' = g.blocks /\ Total' = Total
    BY <1>3, <1>7 DEF Active, Hand, Total
  <2>2. GuestType'
    BY <1>0, <1>7, CutType DEF ControlInv
  <2>3. ServeInv'
    <3>1. /\ Drq' => (lastRead' <=> h.next \in Ends)
          /\ h.next \in Waits => Drq'
      BY <1>0, <1>1, <1>3, HostNumbers DEF ControlInv, ServeInv, Waits, Ends
    <3>2. ~Active /\ ~swReset => ResetPlace /\ "DRQ" \notin h.status
      BY <1>2 DEF ControlInv, ServeInv, ResetPlace, Sets, Ends
    <3> QED
      BY <1>0, <1>1, <1>2, <1>3, <1>7, <2>1, <3>1, <3>2, EdgeKeeps DEF ServeInv, Waits, Ends, Sends
  <2>4. MoveInv'
    <3>1. Active => g.pos = 0
      BY <1>3 DEF ControlInv, MoveInv
    <3>2. Drq' => blk' \in 0 .. BufWords /\ (kind # "cd" => blk' # 0) /\ 0 + 0 <= blk'
      BY <1>6, ConstantTypes
    <3> QED
      BY <1>0, <1>1, <1>2, <1>3, <1>6, <1>7, <2>1, <3>1, <3>2, EdgeKeeps DEF MoveInv, Sends
  <2>5. AskInv'
    BY <1>0, <1>1, <1>2, <1>7 DEF AskInv
  <2>6. PlaceInv'
    <3>1. PlaceInv /\ (Is("hdd", "READ")' <=> Is("hdd", "READ")) /\ (Is("hdd", "WRITE")' <=> Is("hdd", "WRITE"))
          /\ (Is("cd", "PACKET")' <=> Is("cd", "PACKET")) /\ (Is("hdd", "IDENTIFY")' <=> Is("hdd", "IDENTIFY"))
          /\ (Is("cd", "IDPKT")' <=> Is("cd", "IDPKT"))
      BY <1>0, <1>7, EdgeKeeps DEF Is, ControlInv
    <3> QED
      BY <1>0, <1>2, <1>3, <1>7, <2>1, <3>1, EdgeKeeps DEF PlaceInv, Ends, Waits
  <2>7. CountInv'
    <3>1. "ERR" \in h.status => "ERR" \in status'
      BY <1>1
    <3> QED
      BY <1>0, <1>2, <1>3, <1>7, <2>1, <3>1, EdgeKeeps DEF ControlInv, CountInv, Ends, Waits
  <2>8. SilentInv'
    <3>1. ASSUME Is("hdd", "WRITE"), g.blocks = 0, h.next \notin Ends
          PROVE  ~irq /\ "IRQ" \notin h.status
      <4>1. h.next \in Waits /\ Active
        BY <1>0, <3>1, HostNumbers DEF Is, Active, NoTask
      <4>2. h.next = "WRITE_WAIT_REQ"
        BY <1>3, <3>1, <4>1 DEF ControlInv, PlaceInv, Is, Waits
      <4> QED
        BY <1>3, <3>1, <4>2 DEF ControlInv, SilentInv, Ends
    <3>2. Is("hdd", "WRITE")' <=> Is("hdd", "WRITE")
      BY <1>0, <1>7, EdgeKeeps DEF Is
    <3> QED
      BY <1>0, <1>1, <1>2, <1>3, <1>7, <3>1, <3>2 DEF SilentInv
  <2> QED
    BY <1>4, <1>5, <2>2, <2>3, <2>4, <2>5, <2>6, <2>7, <2>8 DEF ControlInv
<1>8. CASE swReset' = TRUE /\ SoftReset
  <2>1. CutOff
    BY <1>8 DEF SoftReset
  <2>2. ~Active' /\ AskInv' /\ PlaceInv' /\ CountInv' /\ SilentInv'
    BY <1>0, <1>1, <2>1, CutParts
  <2>3. GuestType'
    BY <1>0, <2>1, CutType DEF ControlInv
  <2>4. ServeInv'
    <3>1. /\ Drq' => (lastRead' <=> h.next \in Ends)
          /\ h.next \in Waits => Drq'
      BY <1>0, <1>1, <1>3, HostNumbers DEF ControlInv, ServeInv, Waits, Ends
    <3> QED
      BY <1>0, <1>1, <1>2, <1>3, <1>8, <2>2, <3>1, EdgeKeeps DEF ServeInv, Waits, Ends, Sends
  <2>5. MoveInv'
    <3>2. Drq' => blk' \in 0 .. BufWords /\ (kind # "cd" => blk' # 0) /\ 0 + 0 <= blk'
      BY <1>6, ConstantTypes
    <3> QED
      BY <1>0, <1>1, <1>2, <1>3, <1>6, <2>2, <3>2, EdgeKeeps DEF MoveInv, Sends
  <2> QED
    BY <1>4, <1>5, <2>2, <2>3, <2>4, <2>5 DEF ControlInv
<1> QED
  BY <1>0, <1>7, <1>8 DEF GuestIdles

\* Another access of the host.
LEMMA BusEdgeKeeps ==
  ASSUME ControlInv, BusEdge
  PROVE  ControlInv'
<1>0. /\ EdgeFrame /\ PointerStep /\ FetchStep /\ HostWord /\ h' = h /\ ~swReset /\ GuestIdles
      /\ bus.op # "none" /\ ~(bus.op = "wr" /\ bus.n = 5) /\ HostType /\ RtlType /\ HostRegs
  BY DEF BusEdge, ControlInv
<1>1. /\ status' = status /\ request' = request /\ lastRead' = lastRead /\ irq' \in BOOLEAN
      /\ (irq' => irq) /\ oldStb' = FALSE /\ ioCnt' = ioCnt
  BY DEF BusEdge
<1>2. /\ Pending /\ Busy /\ request # "none" /\ ~Drq /\ ~Drq' /\ ~Pending' /\ ~SetDone' /\ ~SetDone
  <2>1. Pending /\ Busy /\ ~Pending' /\ ~SetDone
    BY <1>0, EdgeKeeps DEF Busy, SetDone
  <2>2. request # "none" /\ ~Drq /\ ~Drq'
    BY <1>1, <2>1 DEF ControlInv, ServeInv, RtlType, Drq
  <2>3. h.st = "SET_REGS_SEND" => bus.op = "wr" /\ bus.n = h.cnt - 1
    BY <1>0, <2>1 DEF ControlInv, BusInv, Sends, Recvs
  <2>4. ~SetDone'
    BY <1>0, <2>3, EdgeKeeps
  <2> QED
    BY <2>1, <2>2, <2>4
<1>3. /\ (Setting' <=> Setting) /\ Place' = Place /\ Place = h.st
      /\ (BlockMoved' <=> BlockMoved) /\ (BlockMoved <=> request = "data")
  BY <1>0, <1>1, <1>2 DEF Setting, Place, BlockMoved
<1>4. /\ (h.st # "SET_REGS_SEND" => task' = task) /\ task' \in TaskFile /\ blk' \in Nat
  <2>1. h.st # "SET_REGS_SEND" => ~MgmtWr(1) /\ ~MgmtWr(2)
    BY <1>2 DEF ControlInv, BusInv, MgmtWr, Sends, Recvs
  <2>2. h.st # "SET_REGS_SEND" => task' = task
    BY <1>0, <2>1 DEF HostRegs
  <2> QED
    BY <1>0, <2>2, RegsType, BlkType
<1>5. RtlType' /\ HostType' /\ DataType'
  <2>1. swReset' \in BOOLEAN
    BY <1>0 DEF GuestIdles
  <2> QED
    BY <1>0, <1>1, <1>4, <2>1, EdgeTypes DEF RtlType
<1>6. BusInv'
  BY <1>0, <1>4, EdgeBus
<1>7. /\ (h.st = "SET_REGS_SEND" /\ kind = "hdd" /\ Written' >= 1 => blk' = Words)
      /\ (h.st = "SET_REGS_SEND" /\ kind = "cd" /\ Written' \in 1 .. 4 => blk' = BlkHi)
      /\ (h.st = "SET_REGS_SEND" /\ kind = "cd" /\ Written' > 4 => blk' = Words)
  BY <1>0, EdgeBlk DEF MgmtWr
<1>8. CASE swReset' = FALSE /\ g' = g
  <2>1. (Active' <=> Active) /\ Hand' = Hand /\ Total' = Total
    BY <1>3, <1>8 DEF Active, Hand, Total
  <2>2. GuestType'
    BY <1>0, <1>8, CutType DEF ControlInv
  <2>3. ServeInv'
    BY <1>0, <1>1, <1>2, <1>3, <1>8, <2>1, EdgeKeeps DEF ControlInv, ServeInv
  <2>4. MoveInv'
    BY <1>0, <1>1, <1>2, <1>3, <1>7, <1>8, <2>1, EdgeKeeps DEF ControlInv, MoveInv
  <2>5. AskInv'
    BY <1>0, <1>1, <1>2, <1>3, <1>4, <1>8, <2>1, EdgeKeeps DEF ControlInv, AskInv, Ends
  <2>6. PlaceInv'
    BY <1>0, <1>2, <1>3, <1>8, <2>1, EdgeKeeps DEF ControlInv, PlaceInv, Is
  <2>7. CountInv'
    BY <1>0, <1>1, <1>2, <1>3, <1>8, <2>1, EdgeKeeps DEF ControlInv, CountInv
  <2>8. SilentInv'
    BY <1>0, <1>1, <1>3, <1>8, EdgeKeeps DEF ControlInv, SilentInv, Is
  <2> QED
    BY <1>5, <1>6, <2>2, <2>3, <2>4, <2>5, <2>6, <2>7, <2>8 DEF ControlInv
<1>9. CASE swReset' = TRUE /\ SoftReset
  <2>1. CutOff
    BY <1>9 DEF SoftReset
  <2>2. ~Active' /\ AskInv' /\ PlaceInv' /\ CountInv' /\ SilentInv'
    <3>1. request = "command" => ~irq
      BY DEF ControlInv, AskInv
    <3> QED
      BY <1>0, <1>1, <2>1, <3>1, CutParts
  <2>3. GuestType' /\ g'.blocks = 0 /\ g'.off = 0
    BY <1>0, <2>1, CutType DEF ControlInv
  <2>4. ServeInv'
    BY <1>0, <1>1, <1>2, <1>3, <1>9, <2>2, EdgeKeeps DEF ControlInv, ServeInv
  <2>5. MoveInv'
    BY <1>0, <1>1, <1>2, <1>3, <1>7, <2>2, <2>3, EdgeKeeps DEF ControlInv, MoveInv
  <2> QED
    BY <1>5, <1>6, <2>2, <2>3, <2>4, <2>5 DEF ControlInv
<1> QED
  BY <1>0, <1>8, <1>9 DEF GuestIdles

\* A cycle without an access.
LEMMA QuietEdgeKeeps ==
  ASSUME ControlInv, QuietEdge
  PROVE  ControlInv'
<1>0. /\ EdgeFrame /\ PointerStep /\ FetchStep /\ buf' = buf /\ h' = h /\ ~swReset /\ GuestIdles
      /\ bus.op = "none" /\ HostType /\ RtlType
  BY DEF QuietEdge, ControlInv
<1>1. /\ status' = status /\ request' = request /\ lastRead' = lastRead /\ irq' \in BOOLEAN
      /\ (irq' => irq) /\ oldStb' = FALSE /\ ioCnt' = ioCnt + Stb /\ task' = task /\ blk' = blk
  BY DEF QuietEdge
<1>2. /\ ~Pending /\ (Setting' <=> Setting) /\ Place' = Place /\ (Busy' <=> Busy) /\ Written = h.cnt
      /\ Written' = h.cnt /\ Words' = Words /\ ~Pending'
  BY <1>0, EdgeStands, EdgeKeeps
<1>3. /\ (Drq' <=> Drq) /\ ioCnt' + Stb' = ioCnt + Stb /\ (BlockMoved' <=> BlockMoved) /\ ioCnt' \in Nat
      /\ (Drq => ioCnt + Stb <= blk /\ blk \in 0 .. BufWords) /\ ioCnt' \in 0 .. (2 * BufWords) - 1
  <2>1. ioCnt \in 0 .. (2 * BufWords) - 1 /\ BufWords \in Nat \ {0}
    BY <1>0, ConstantTypes DEF RtlType
  <2>2. Stb \in {0, 1} /\ Stb' = 0 /\ (Stb = 1 => oldStb)
    BY <1>1 DEF Stb
  <2>3. (Drq => ioCnt + Stb <= blk /\ blk \in 0 .. BufWords) /\ (oldStb => Drq)
    BY DEF ControlInv, MoveInv, ServeInv
  <2>4. ioCnt' \in 0 .. (2 * BufWords) - 1 /\ ioCnt' \in Nat /\ ioCnt' + Stb' = ioCnt + Stb
    BY <1>1, <2>1, <2>2, <2>3
  <2>5. (Drq' <=> Drq)
    BY <1>1 DEF Drq
  <2> QED
    BY <1>1, <2>3, <2>4, <2>5 DEF BlockMoved
<1>5. RtlType' /\ HostType' /\ DataType'
  <2>1. swReset' \in BOOLEAN
    BY <1>0 DEF GuestIdles
  <2> QED
    BY <1>0, <1>1, <1>3, <2>1, EdgeTypes DEF RtlType
<1>6. BusInv'
  BY <1>0, <1>1, EdgeBus
<1>8. CASE swReset' = FALSE /\ g' = g
  <2>1. (Active' <=> Active) /\ Hand' = Hand /\ Total' = Total
    BY <1>3, <1>8 DEF Active, Hand, Total
  <2>2. GuestType'
    BY <1>0, <1>8, CutType DEF ControlInv
  <2>3. ServeInv'
    BY <1>0, <1>1, <1>2, <1>3, <1>8, <2>1, EdgeKeeps DEF ControlInv, ServeInv
  <2>4. MoveInv'
    BY <1>0, <1>1, <1>2, <1>3, <1>8, <2>1, EdgeKeeps DEF ControlInv, MoveInv
  <2>5. AskInv'
    BY <1>0, <1>1, <1>2, <1>3, <1>8, <2>1, EdgeKeeps DEF ControlInv, AskInv
  <2>6. PlaceInv'
    BY <1>0, <1>2, <1>3, <1>8, <2>1, EdgeKeeps DEF ControlInv, PlaceInv, Is
  <2>7. CountInv'
    BY <1>0, <1>1, <1>2, <1>3, <1>8, <2>1, EdgeKeeps DEF ControlInv, CountInv
  <2>8. SilentInv'
    BY <1>0, <1>1, <1>2, <1>3, <1>8, EdgeKeeps DEF ControlInv, SilentInv, Is
  <2> QED
    BY <1>5, <1>6, <2>2, <2>3, <2>4, <2>5, <2>6, <2>7, <2>8 DEF ControlInv
<1>9. CASE swReset' = TRUE /\ SoftReset
  <2>1. CutOff
    BY <1>9 DEF SoftReset
  <2>2. ~Active' /\ AskInv' /\ PlaceInv' /\ CountInv' /\ SilentInv'
    <3>1. request = "command" => ~irq
      BY DEF ControlInv, AskInv
    <3> QED
      BY <1>0, <1>1, <2>1, <3>1, CutParts
  <2>3. GuestType' /\ g'.blocks = 0 /\ g'.off = 0
    BY <1>0, <2>1, CutType DEF ControlInv
  <2>4. ServeInv'
    BY <1>0, <1>1, <1>2, <1>3, <1>9, <2>2, EdgeKeeps DEF ControlInv, ServeInv
  <2>5. MoveInv'
    BY <1>0, <1>1, <1>2, <1>3, <2>2, <2>3, EdgeKeeps DEF ControlInv, MoveInv
  <2> QED
    BY <1>5, <1>6, <2>2, <2>3, <2>4, <2>5 DEF ControlInv
<1> QED
  BY <1>0, <1>8, <1>9 DEF GuestIdles

\* Where the host stands while no request does: it waits for the guest to move the block in hand, or
\* it is done.
LEMMA HostWaits ==
  ASSUME ControlInv, request = "none"
  PROVE  /\ ~Busy /\ ~Setting /\ Place \in Waits \cup Ends /\ (~Drq => Place \in Ends)
         /\ h.st \in Waits \cup Ends \cup Sets
<1>1. ~Busy
  BY DEF ControlInv, ServeInv
<1>2. ~Setting /\ h.st \in Waits \cup Ends \cup Sets
  BY <1>1 DEF Busy
<1>3. h.next \in Waits \cup Ends
  BY DEF ControlInv, HostType
<1>4. Place \in Waits \cup Ends
  BY <1>2, <1>3 DEF Place, Setting, SetDone, Sets
<1>5. ~Drq => Place \in Ends
  BY <1>4 DEF ControlInv, ServeInv
<1> QED
  BY <1>1, <1>2, <1>4, <1>5

\* The block has been moved.
LEMMA DoneEdgeKeeps ==
  ASSUME ControlInv, DoneEdge
  PROVE  ControlInv'
<1>0. /\ EdgeFrame /\ PointerStep /\ FetchStep /\ buf' = buf /\ h' = h /\ ~swReset /\ swReset' = FALSE
      /\ g' = g /\ bus.op = "none" /\ Drq /\ IoDone /\ HostType /\ RtlType
  BY DEF DoneEdge, ControlInv
<1>1. /\ status' = (IF lastRead THEN {"RDY"} ELSE {"BSY"})
      /\ request' = (IF lastRead THEN "none" ELSE "data") /\ lastRead' = FALSE /\ irq' = irq
      /\ oldStb' = FALSE /\ ioCnt' \in 0 .. (2 * BufWords) - 1
      /\ task' = task /\ blk' = blk
  BY DEF DoneEdge
<1>2. /\ ~Pending /\ (Setting' <=> Setting) /\ Place' = Place /\ (Busy' <=> Busy) /\ Written = h.cnt
      /\ Written' = h.cnt /\ Words' = Words /\ ~Pending'
  BY <1>0, EdgeStands, EdgeKeeps
<1>3. request = "none" /\ ~Busy /\ ~Setting /\ Place \in Waits \cup Ends /\ h.st \in Waits \cup Ends \cup Sets
  <2>1. request = "none"
    BY <1>0 DEF RtlType, Drq
  <2> QED
    BY <2>1, HostWaits
<1>4. BlockMoved
  <2>1. ioCnt + Stb <= blk /\ blk \in 0 .. BufWords /\ ioCnt \in Nat /\ Stb \in {0, 1}
    BY <1>0, ConstantTypes DEF ControlInv, MoveInv, RtlType, Stb
  <2>2. ioCnt >= blk /\ blk # 0
    BY <1>0 DEF IoDone
  <2>3. ioCnt + Stb = blk
    BY <2>1, <2>2, ConstantTypes
  <2> QED
    BY <1>0, <2>2, <2>3 DEF BlockMoved
<1>5. /\ ~Drq' /\ (lastRead <=> Place \in Ends) /\ Active /\ Active' /\ Total' = Total
      /\ (BlockMoved' <=> ~lastRead) /\ Hand = g.blocks - 1 /\ (~lastRead => Hand' = Hand)
  <2>1. (lastRead <=> Place \in Ends) /\ Active
    BY <1>0 DEF ControlInv, ServeInv
  <2>2. ~Drq'
    BY <1>1 DEF Drq
  <2>3. BlockMoved' <=> ~lastRead
    BY <1>1, <2>2 DEF BlockMoved
  <2> QED
    BY <1>0, <1>4, <2>1, <2>2, <2>3 DEF Active, Total, Hand
<1>6. g.blocks > 0 /\ g.pos = 0 /\ g.blocks \in Nat
  BY <1>0, <1>4, <1>5 DEF ControlInv, MoveInv, GuestType
<1>7. RtlType' /\ HostType' /\ DataType'
  <2>1. status' \subseteq Bits /\ request' \in {"none", "command", "data", "reset"}
        /\ ((request' = "none" /\ "BSY" \notin status') \/ (request' # "none" /\ status' = {"BSY"}))
    BY <1>1 DEF Bits
  <2> QED
    BY <1>0, <1>1, <2>1, EdgeTypes DEF RtlType
<1>8. GuestType'
  BY <1>0, CutType DEF ControlInv
<1>9. BusInv'
  BY <1>0, <1>1, EdgeBus
<1>10. ServeInv'
  BY <1>0, <1>1, <1>2, <1>3, <1>5, EdgeKeeps DEF ControlInv, ServeInv, Waits, Ends, Sets, Sends
<1>11. MoveInv'
  BY <1>0, <1>1, <1>2, <1>3, <1>5, <1>6, EdgeKeeps DEF ControlInv, MoveInv, Waits, Ends, Sets, Sends
<1>12. AskInv'
  BY <1>0, <1>1, <1>2, <1>3, EdgeKeeps DEF AskInv, Waits, Ends, Sets
<1>13. PlaceInv'
  BY <1>0, <1>2, <1>3, <1>5, EdgeKeeps DEF ControlInv, PlaceInv, Is
<1>14. CountInv'
  <2>1. lastRead /\ g.task.cmd \in {"READ", "WRITE"} => g.blocks = Total
    <3>1. lastRead /\ g.task.cmd \in {"READ", "WRITE"} => Hand + 1 = Total
      BY <1>0, <1>3, <1>5 DEF ControlInv, CountInv
    <3> QED
      BY <1>5, <1>6, <3>1
  <2>2. lastRead \in BOOLEAN
    BY <1>0 DEF RtlType
  <2> QED
    BY <1>0, <1>1, <1>2, <1>3, <1>5, <2>1, <2>2, EdgeKeeps DEF ControlInv, CountInv, Waits, Ends, Sets
<1>15. SilentInv'
  BY <1>0, <1>6 DEF SilentInv
<1> QED
  BY <1>7, <1>8, <1>9, <1>10, <1>11, <1>12, <1>13, <1>14, <1>15 DEF ControlInv

\* What a command leaves of the guest.
LEMMA CommandGuest ==
  ASSUME GuestType, RtlType, EdgeFrame, NEW t, NEW p, Command(t, p), t \in Tasks[kind],
         p \in (IF t.cmd = "PACKET" THEN Packets ELSE {NoPacket})
  PROVE  /\ GuestType' /\ g'.task = t /\ g'.packet = p /\ g'.blocks = 0 /\ g'.pos = 0 /\ g'.off = 0
         /\ g'.sense = SenseNow /\ t \in TaskFile /\ t.cmd \in Commands /\ t # NoTask
<1> DEFINE hd == IF SetsGeometry(t) THEN t.head + 1 ELSE g.heads
           sp == IF ~SetsGeometry(t) THEN g.spt ELSE IF t.count = 0 THEN Spt ELSE t.count
           ge == g.geometry \/ SetsGeometry(t)
<1>1. t \in TaskFile /\ t.cmd \in Commands
  BY TasksAssumption DEF RtlType
<1>2. t # NoTask
  BY <1>1 DEF NoTask, Commands
<1>3. hd \in Nat \ {0} /\ sp \in Nat \ {0}
  <2>1. t.head \in Nat /\ t.count \in Nat /\ g.heads \in Nat \ {0} /\ g.spt \in Nat \ {0} /\ Spt \in Nat \ {0}
    BY <1>1, ConstantTypes DEF TaskFile, GuestType
  <2> QED
    BY <2>1
<1>4. SenseNow \subseteq {0, 5} /\ p \in Packets \cup {NoPacket}
  BY DEF SenseNow, GuestType
<1>5. ge \in BOOLEAN
  BY DEF GuestType, SetsGeometry
<1>6. g' = [g EXCEPT !.commands = g.commands + 1, !.task = t, !.packet = p, !.blocks = 0, !.pos = 0,
                     !.off = 0, !.sense = SenseNow, !.heads = hd, !.spt = sp, !.geometry = ge]
  BY DEF Command, GuestType, GuestFields
<1> HIDE DEF hd, sp, ge
<1>7. /\ DOMAIN g' = GuestFields /\ g'.task = t /\ g'.packet = p /\ g'.blocks = 0 /\ g'.pos = 0
      /\ g'.off = 0 /\ g'.sense = SenseNow /\ g'.heads = hd /\ g'.spt = sp /\ g'.geometry = ge
      /\ g'.disk = g.disk /\ g'.unsure = g.unsure
  BY <1>6 DEF GuestType, GuestFields
<1>8. IsImage(g.disk)'
  BY <1>7 DEF GuestType, IsImage, SectorSize, EdgeFrame
<1>9. GuestType'
  BY <1>1, <1>3, <1>4, <1>5, <1>7, <1>8 DEF GuestType
<1> QED
  BY <1>1, <1>2, <1>7, <1>9

\* A command of the guest.
LEMMA CommandEdgeKeeps ==
  ASSUME ControlInv, NEW t, NEW p, CommandEdge(t, p)
  PROVE  ControlInv'
<1>0. /\ EdgeFrame /\ PointerStep /\ FetchStep /\ buf' = buf /\ h' = h /\ Command(t, p)
      /\ bus.op = "none" /\ swReset' = FALSE /\ HostType /\ RtlType /\ GuestType
  BY DEF CommandEdge, ControlInv
<1>1. /\ status' = {"BSY"} /\ request' = "command" /\ lastRead' = lastRead /\ irq' = FALSE
      /\ task' = t /\ blk' = blk /\ oldStb' = FALSE /\ ioCnt' = ioCnt
  BY DEF CommandEdge
<1>2. /\ ~Pending /\ (Setting' <=> Setting) /\ Place' = Place /\ (Busy' <=> Busy) /\ Written = h.cnt
      /\ Written' = h.cnt /\ Words' = Words /\ ~Pending'
  BY <1>0, EdgeStands, EdgeKeeps
<1>3. /\ GuestType' /\ g'.task = t /\ g'.packet = p /\ g'.blocks = 0 /\ g'.pos = 0 /\ g'.off = 0
      /\ t \in TaskFile /\ t.cmd \in Commands /\ t # NoTask
  BY <1>0, CommandGuest DEF CommandEdge
<1>4. ~swReset /\ ~Drq /\ request = "none" /\ ~Drq' /\ Active'
  BY <1>0, <1>1, <1>3 DEF Command, Free, Drq, RtlType, Active
<1>5. ~Busy /\ ~Setting /\ Place \in Ends /\ h.st \in Waits \cup Ends \cup Sets
  BY <1>4, HostWaits
<1>6. h.st \notin {"INITIAL", "GET_RESET_DRIVE"} \cup Waits /\ (h.st \in Sets => h.next \in Ends)
  BY <1>5 DEF Place, SetDone, Setting, Waits, Ends, Sets
<1>7. RtlType' /\ HostType' /\ DataType'
  <2>1. {"BSY"} \subseteq Bits
    BY DEF Bits
  <2> QED
    BY <1>0, <1>1, <1>3, <2>1, EdgeTypes DEF RtlType
<1>8. BusInv'
  <2>1. h.st \notin {"GET_CMD", "GET_RESET_DRIVE"}
    BY <1>5 DEF Waits, Ends, Sets
  <2> QED
    BY <1>0, <2>1, EdgeBus
<1>9. ServeInv'
  BY <1>0, <1>1, <1>2, <1>4, <1>5, EdgeKeeps DEF ControlInv, ServeInv, Waits, Ends, Sets, Sends
<1>10. MoveInv'
  BY <1>0, <1>1, <1>2, <1>3, <1>4, <1>5, EdgeKeeps DEF ControlInv, MoveInv, Waits, Ends, Sets, Sends,
     BlockMoved
<1>11. AskInv'
  BY <1>0, <1>1, <1>3, <1>5 DEF AskInv, Waits, Ends, Sets
<1>12. PlaceInv'
  BY <1>0, <1>2, <1>4, <1>5, EdgeKeeps DEF ControlInv, PlaceInv, Waits, Ends, Sets
<1>13. CountInv'
  BY <1>0, <1>1, <1>2, <1>5 DEF CountInv, Waits, Ends, Sets
<1>14. SilentInv'
  BY <1>0, <1>1, <1>2, <1>5 DEF SilentInv, Waits, Ends, Sets
<1> QED
  BY <1>3, <1>7, <1>8, <1>9, <1>10, <1>11, <1>12, <1>13, <1>14 DEF ControlInv

\* What a word leaves of the guest.
MovesGuest ==
  /\ g'.task = g.task /\ g'.packet = g.packet /\ g'.sense = g.sense
  /\ g'.pos = (IF g.pos + 1 = blk THEN 0 ELSE g.pos + 1)
  /\ g'.blocks = (IF g.pos + 1 = blk THEN g.blocks + 1 ELSE g.blocks)
  /\ g'.off = (IF BlockOut THEN g.off ELSE g.off + 1)
\* A read or a write of the data register does so.
LEMMA MovedGuest ==
  ASSUME GuestType, DataType, EdgeFrame, ReadData \/ WriteData
  PROVE  GuestType' /\ MovesGuest
<1> DEFINE of == IF BlockOut THEN g.off ELSE g.off + 1
           ps == IF g.pos + 1 = blk THEN 0 ELSE g.pos + 1
           bl == IF g.pos + 1 = blk THEN g.blocks + 1 ELSE g.blocks
           m == [g EXCEPT !.off = of, !.pos = ps, !.blocks = bl]
           s == GuestLba + g.blocks
           n == NewSector(s)
           d == [g.disk EXCEPT ![s] = n]
           u == g.unsure \ {s}
<1>1. Moved = m
  BY DEF Moved, GuestType, GuestFields
<1>2. of \in Nat /\ ps \in Nat /\ bl \in Nat
  <2>1. g.off \in Nat /\ g.pos \in Nat /\ g.blocks \in Nat
    BY DEF GuestType
  <2> QED
    BY <2>1
<1>3. s \in DOMAIN image =>
        DOMAIN d = 0 .. Sectors - 1 /\ \A i \in 0 .. Sectors - 1 : d[i] = [k \in 0 .. SectorSize - 1 |-> d[i][k]]
  <2>1. n = [k \in 0 .. SectorSize - 1 |-> n[k]]
    BY DEF NewSector
  <2> HIDE DEF n, s
  <2> QED
    BY <2>1 DEF GuestType, IsImage
<1>4. u \subseteq 0 .. Sectors - 1
  BY DEF GuestType
<1>5. g' = m \/ (s \in DOMAIN image /\ g' = [m EXCEPT !.disk = d, !.unsure = u])
  <2>1. CASE ReadData
    BY <1>1, <2>1 DEF ReadData, AtDataPort
  <2>2. CASE WriteData
    <3>1. g' = Moved \/ (s \in DOMAIN image /\ g' = [Moved EXCEPT !.disk[s] = NewSector(s), !.unsure = @ \ {s}])
      BY <2>2 DEF WriteData, AtDataPort
    <3>2. Moved.disk = g.disk /\ Moved.unsure = g.unsure
      BY <1>1 DEF GuestType, GuestFields
    <3> HIDE DEF s, m
    <3>3. [Moved EXCEPT !.disk[s] = NewSector(s), !.unsure = @ \ {s}] = [m EXCEPT !.disk = d, !.unsure = u]
      BY <1>1, <3>2
    <3> QED
      BY <1>1, <3>1, <3>3
  <2> QED
    BY <2>1, <2>2
<1>6. /\ DOMAIN m = GuestFields /\ m.off = of /\ m.pos = ps /\ m.blocks = bl
      /\ \A f \in GuestFields \ {"off", "pos", "blocks"} : m[f] = g[f]
  <2> HIDE DEF of, ps, bl
  <2> QED
    BY DEF GuestType, GuestFields
<1> HIDE DEF of, ps, bl, m, d, u, s
<1>7. /\ DOMAIN g' = GuestFields /\ g'.off = of /\ g'.pos = ps /\ g'.blocks = bl
      /\ g'.task = g.task /\ g'.packet = g.packet /\ g'.sense = g.sense /\ g'.heads = g.heads
      /\ g'.spt = g.spt /\ g'.geometry = g.geometry
      /\ \/ g'.disk = g.disk /\ g'.unsure = g.unsure
         \/ s \in DOMAIN image /\ g'.disk = d /\ g'.unsure = u
  BY <1>5, <1>6 DEF GuestFields
<1>8. IsImage(g.disk)'
  <2>1. SectorSize' = SectorSize
    BY DEF SectorSize, EdgeFrame
  <2> QED
    BY <1>3, <1>7, <2>1 DEF GuestType, IsImage
<1>9. GuestType'
  BY <1>2, <1>4, <1>7, <1>8 DEF GuestType
<1> QED
  BY <1>7, <1>9 DEF MovesGuest, of, ps, bl

\* A word of a block.
LEMMA WordEdgeKeeps ==
  ASSUME ControlInv, ReadEdge \/ WriteEdge
  PROVE  ControlInv'
<1>0. /\ EdgeFrame /\ PointerStep /\ FetchStep /\ h' = h /\ bus.op = "none" /\ ~swReset /\ swReset' = FALSE
      /\ Drq /\ ~IoDone /\ ~oldStb /\ HostType /\ RtlType /\ GuestType /\ DataType
      /\ (ReadData \/ WriteData) /\ g.task # NoTask /\ blk # 0
  BY DEF ReadEdge, WriteEdge, MovesWord, ControlInv, ReadData, WriteData, AtDataPort
<1>1. /\ status' = status /\ request' = request /\ lastRead' = lastRead /\ irq' = irq
      /\ task' = task /\ blk' = blk /\ oldStb' = TRUE /\ ioCnt' = ioCnt
  BY DEF ReadEdge, WriteEdge, MovesWord
<1>2. /\ ~Pending /\ (Setting' <=> Setting) /\ Place' = Place /\ (Busy' <=> Busy) /\ Written = h.cnt
      /\ Written' = h.cnt /\ Words' = Words /\ ~Pending'
  BY <1>0, EdgeStands, EdgeKeeps
<1>3. GuestType' /\ MovesGuest
  BY <1>0, MovedGuest
<1>4. Active /\ Active' /\ Drq' /\ Total' = Total /\ request = "none"
  BY <1>0, <1>1, <1>3 DEF Active, Drq, Total, RtlType, MovesGuest
<1>5. ~Busy /\ ~Setting /\ Place \in Waits \cup Ends /\ h.st \in Waits \cup Ends \cup Sets
  BY <1>4, HostWaits
<1>6. /\ Stb = 0 /\ Stb' = 1 /\ ioCnt \in Nat /\ blk \in 0 .. BufWords /\ ioCnt < blk /\ blk \in Nat
      /\ blk = Words
  <2>1. blk \in 0 .. BufWords /\ blk = Words
    BY <1>0 DEF ControlInv, MoveInv
  <2>2. Stb = 0 /\ Stb' = 1
    BY <1>0, <1>1 DEF Stb
  <2> QED
    BY <1>0, <2>1, <2>2, ConstantTypes DEF IoDone, RtlType
<1>7. ~BlockMoved /\ (BlockMoved' <=> ioCnt + 1 = blk) /\ g.pos = ioCnt
  <2>1. ~BlockMoved
    BY <1>4, <1>6 DEF BlockMoved
  <2>2. g.pos = ioCnt + Stb
    BY <1>0, <1>4, <2>1 DEF ControlInv, MoveInv
  <2> QED
    BY <1>1, <1>4, <1>6, <2>1, <2>2 DEF BlockMoved
<1>8. /\ Hand = g.blocks /\ Hand' = g.blocks /\ g.blocks \in Nat
      /\ (g'.blocks = 0 => g.blocks = 0) /\ g'.pos = (IF BlockMoved' THEN 0 ELSE ioCnt + 1)
      /\ (BlockMoved' => g'.blocks > 0)
  <2>1. g.blocks \in Nat
    BY <1>0 DEF GuestType
  <2> QED
    BY <1>3, <1>7, <2>1 DEF MovesGuest, Hand
<1>9. RtlType' /\ HostType' /\ DataType'
  <2>1. buf' = buf \/ \E k, w : buf' = [buf EXCEPT ![k] = w]
    BY DEF ReadEdge, WriteEdge
  <2> QED
    BY <1>0, <1>1, <2>1, EdgeTypes DEF RtlType
<1>10. BusInv'
  BY <1>0, <1>1, EdgeBus
<1>11. ServeInv'
  BY <1>0, <1>1, <1>2, <1>4, <1>5, EdgeKeeps DEF ControlInv, ServeInv, Waits, Ends, Sets, Sends
<1>12. MoveInv'
  <2>1. ioCnt + 1 <= blk
    BY <1>6
  <2> QED
    BY <1>0, <1>1, <1>2, <1>4, <1>5, <1>6, <1>8, <2>1, EdgeKeeps DEF ControlInv, MoveInv, Waits, Ends, Sets,
       Sends
<1>13. AskInv'
  BY <1>0, <1>1, <1>4, <1>5 DEF AskInv, Waits, Ends, Sets
<1>14. PlaceInv'
  BY <1>0, <1>2, <1>3, <1>4, <1>5, EdgeKeeps DEF ControlInv, PlaceInv, Waits, Ends, Sets, Is, MovesGuest
<1>15. CountInv'
  BY <1>0, <1>1, <1>2, <1>3, <1>4, <1>5, <1>8, EdgeKeeps DEF ControlInv, CountInv, Waits, Ends, Sets,
     MovesGuest
<1>16. SilentInv'
  BY <1>0, <1>1, <1>2, <1>3, <1>5, <1>8, EdgeKeeps DEF ControlInv, SilentInv, Waits, Ends, Sets, Is,
     MovesGuest
<1> QED
  BY <1>3, <1>9, <1>10, <1>11, <1>12, <1>13, <1>14, <1>15, <1>16 DEF ControlInv

\* Every edge keeps the invariant.
LEMMA EdgeStep ==
  ASSUME ControlInv, Edge \/ MoveEdge \/ ReleaseEdge
  PROVE  ControlInv'
<1>1. EdgeMove
  BY EdgeMoves
<1> QED
  BY <1>1, ColdKeeps, HeldKeeps, AnswerEdgeKeeps, BusEdgeKeeps, QuietEdgeKeeps, DoneEdgeKeeps,
     WordEdgeKeeps, CommandEdgeKeeps DEF EdgeMove

\* The invariant does not depend on what is not a variable of the system.
LEMMA ControlStutter ==
  ASSUME ControlInv, UNCHANGED vars
  PROVE  ControlInv'
<1>1. /\ status' = status /\ request' = request /\ irq' = irq /\ lastRead' = lastRead
      /\ swReset' = swReset /\ task' = task /\ blk' = blk /\ ioCnt' = ioCnt /\ oldStb' = oldStb
      /\ mgmtCnt' = mgmtCnt /\ oldOp' = oldOp /\ buf' = buf /\ q' = q /\ rdata' = rdata
      /\ turn' = turn /\ bus' = bus /\ kind' = kind /\ h' = h /\ image' = image /\ g' = g
  BY DEF vars, rtl
<1>2. /\ (Pending' <=> Pending) /\ (SetDone' <=> SetDone) /\ (Setting' <=> Setting) /\ Place' = Place
      /\ (Active' <=> Active) /\ (Busy' <=> Busy) /\ (ResetPlace' <=> ResetPlace) /\ Stb' = Stb
      /\ (Drq' <=> Drq) /\ (BlockMoved' <=> BlockMoved) /\ Hand' = Hand /\ Written' = Written
      /\ Words' = Words /\ Total' = Total /\ SectorSize' = SectorSize
  BY <1>1 DEF Pending, SetDone, Setting, Place, Active, Busy, ResetPlace, Stb, Drq, BlockMoved, Hand,
              Written, Words, Total, SectorSize
<1>3. RtlType' /\ GuestType' /\ DataType'
  BY <1>1, <1>2 DEF ControlInv, RtlType, GuestType, DataType, IsImage
<1>4. HostType' /\ BusInv'
  BY <1>1, <1>2, HostEdge DEF ControlInv, BusInv
<1>5. ServeInv' /\ MoveInv' /\ AskInv'
  BY <1>1, <1>2 DEF ControlInv, ServeInv, MoveInv, AskInv
<1>6. PlaceInv' /\ CountInv' /\ SilentInv'
  BY <1>1, <1>2 DEF ControlInv, PlaceInv, CountInv, SilentInv, Is
<1> QED
  BY <1>3, <1>4, <1>5, <1>6 DEF ControlInv

\* The machine starts within it.
LEMMA ControlInit ==
  ASSUME Init
  PROVE  ControlInv
<1> DEFINE x == [st |-> "INITIAL", next |-> "IDLE", cnt |-> 0, cmd |-> "none", dma |-> FALSE,
          count |-> 1, sec |-> 1, cyl |-> 0, head |-> 0, drv |-> 0, lba |-> FALSE,
          io |-> 0, pkt |-> 0, status |-> {"RDY"}, sector |-> -1, irqPending |-> {},
          heads |-> Heads, spt |-> Spt, packet |-> [k \in 1 .. PacketWords |-> Zero],
          data |-> <<>>, plba |-> 0, rem |-> 0, limit |-> 0, sense |-> 0,
          wait |-> 0]
          y == [task |-> NoTask, packet |-> NoPacket, blocks |-> 0, pos |-> 0, off |-> 0,
          disk |-> image, unsure |-> {}, sense |-> {0}, heads |-> Heads, spt |-> Spt,
          geometry |-> TRUE, resets |-> 0, commands |-> 0]
<1>1. /\ kind \in Kinds /\ turn = "tick" /\ status = {"BSY"} /\ request = "reset" /\ irq = FALSE
      /\ lastRead = FALSE /\ swReset = FALSE /\ task = PowerOnTask /\ blk = 0
      /\ ioCnt = 0 /\ oldStb = FALSE /\ mgmtCnt = 0 /\ oldOp = "none"
      /\ buf = [k \in 0 .. BufWords - 1 |-> Zero] /\ bus = [op |-> "none", n |-> 0, d |-> Zero]
      /\ h = x /\ g = y /\ image = [s \in 0 .. Sectors - 1 |-> OldSector(s)]
  BY DEF Init
<1>2. /\ DOMAIN h = HostFields /\ h.st = "INITIAL" /\ h.next = "IDLE" /\ h.cnt = 0 /\ h.dma = FALSE
      /\ h.count = 1 /\ h.sec = 1 /\ h.cyl = 0 /\ h.head = 0 /\ h.drv = 0 /\ h.lba = FALSE /\ h.io = 0
      /\ h.pkt = 0 /\ h.status = {"RDY"} /\ h.sector = -1 /\ h.irqPending = {} /\ h.heads = Heads
      /\ h.spt = Spt /\ DOMAIN h.packet = 1 .. PacketWords /\ h.plba = 0 /\ h.rem = 0 /\ h.limit = 0
      /\ h.sense = 0 /\ h.wait = 0
  BY <1>1 DEF HostFields
<1>3. /\ DOMAIN g = GuestFields /\ g.task = NoTask /\ g.packet = NoPacket /\ g.blocks = 0 /\ g.pos = 0
      /\ g.off = 0 /\ g.disk = image /\ g.unsure = {} /\ g.sense = {0} /\ g.heads = Heads /\ g.spt = Spt
      /\ g.geometry = TRUE
  BY <1>1 DEF GuestFields
<1>4. DOMAIN bus = {"op", "n", "d"} /\ bus.op = "none" /\ bus.n = 0
  BY <1>1
<1> HIDE DEF x, y
<1>5. ~Pending /\ ~Setting /\ Place = "INITIAL" /\ ~Active /\ ~Drq /\ Busy
  BY <1>1, <1>2, <1>3, <1>4 DEF Pending, Setting, SetDone, Place, Active, Drq, Busy, Sets, Waits, Ends
<1>6. RtlType
  <2>1. PowerOnTask \in TaskFile
    BY DEF PowerOnTask, TaskFile, Absent
  <2>2. 0 \in 0 .. (2 * BufWords) - 1
    BY ConstantTypes
  <2>3. irq \in BOOLEAN /\ lastRead \in BOOLEAN /\ swReset \in BOOLEAN /\ oldStb \in BOOLEAN
    BY <1>1, Zenon
  <2>4. /\ status \subseteq Bits /\ request \in {"none", "command", "data", "reset"}
        /\ request # "none" /\ status = {"BSY"}
    BY <1>1 DEF Bits
  <2>5. /\ task \in TaskFile /\ blk \in Nat /\ ioCnt \in 0 .. (2 * BufWords) - 1
        /\ mgmtCnt \in 0 .. (2 * BufWords) - 1
    BY <1>1, <2>1, <2>2
  <2>6. /\ oldOp \in {"none", "rd", "wr"} /\ turn \in {"tick", "edge"} /\ kind \in Kinds
        /\ bus.op \in {"none", "rd", "wr"} /\ bus.n \in 0 .. 15
    BY <1>1, <1>4
  <2> QED
    BY <1>4, <2>3, <2>4, <2>5, <2>6 DEF RtlType
<1>7. HostType
  <2>1. ~Counting /\ ~InPacket
    BY <1>2 DEF Counting, InPacket, PacketStates, Sets
  <2>2. h.st \in States /\ h.next \in Waits \cup Ends /\ h.status \subseteq HostBits
    BY <1>2 DEF States, Ends, HostBits
  <2>3. /\ h.pkt \in 0 .. BufWords /\ h.sector \in -1 .. Sectors - 1 /\ h.heads \in Nat \ {0}
        /\ h.spt \in Nat \ {0}
    BY <1>2, ConstantTypes
  <2>4. h.lba \in BOOLEAN /\ h.dma \in BOOLEAN
    BY <1>2, Zenon
  <2>5. /\ h.cnt \in Nat /\ h.count \in Nat /\ h.sec \in Nat /\ h.cyl \in Nat /\ h.head \in Nat
        /\ h.drv \in {0, 1} /\ h.io \in {0, 1} /\ h.irqPending \subseteq {"IRQ"} /\ h.plba \in Nat
        /\ h.rem \in Nat /\ h.limit \in Nat /\ h.sense \in {0, 5} /\ h.wait \in Nat
    BY <1>2
  <2> QED
    BY <1>2, <2>1, <2>2, <2>3, <2>4, <2>5 DEF HostType
<1>8. IsImage(image)
  <2>1. ASSUME NEW s \in 0 .. Sectors - 1 PROVE image[s] = [k \in 0 .. SectorSize - 1 |-> image[s][k]]
    <3>1. image[s] = OldSector(s)
      BY <1>1
    <3> QED
      BY <3>1 DEF OldSector
  <2> QED
    BY <1>1, <2>1 DEF IsImage
<1>9. GuestType /\ DataType
  <2>1. g.geometry \in BOOLEAN
    BY <1>3, Zenon
  <2>2. g.heads \in Nat \ {0} /\ g.spt \in Nat \ {0} /\ g.blocks \in Nat /\ g.pos \in Nat /\ g.off \in Nat
    BY <1>3, ConstantTypes
  <2>3. DOMAIN buf = 0 .. BufWords - 1
    BY <1>1
  <2>4. /\ g.task \in TaskFile \cup {NoTask} /\ g.packet \in Packets \cup {NoPacket}
        /\ g.unsure \subseteq 0 .. Sectors - 1 /\ g.sense \subseteq {0, 5} /\ IsImage(g.disk)
    BY <1>3, <1>8
  <2> QED
    BY <1>3, <1>8, <2>1, <2>2, <2>3, <2>4 DEF GuestType, DataType
<1>10. BusInv
  BY <1>1, <1>2, <1>4, <1>5 DEF BusInv, Sends, Recvs
<1>11. ServeInv
  BY <1>1, <1>2, <1>5 DEF ServeInv, Waits, Ends, ResetPlace
<1>12. MoveInv
  BY <1>1, <1>2, <1>5 DEF MoveInv, Sends
<1>13. AskInv /\ CountInv
  BY <1>1, <1>5 DEF AskInv, CountInv
<1>14. PlaceInv
  BY <1>2, <1>5 DEF PlaceInv, DiskStates, PacketStates
<1>15. SilentInv
  BY <1>3 DEF SilentInv, Is, NoTask
<1> QED
  BY <1>6, <1>7, <1>9, <1>10, <1>11, <1>12, <1>13, <1>14, <1>15 DEF ControlInv

\* The control invariant holds in every state of every behaviour.
THEOREM ControlCorrect == Spec => []ControlInv
<1>1. Init => ControlInv
  BY ControlInit
<1>2. ControlInv /\ [Next]_vars => ControlInv'
  BY TickStep, EdgeStep, ControlStutter DEF Next
<1> QED
  BY <1>1, <1>2, PTL DEF Spec

\* TypeOK: the registers of ide.v and the members of HpsIde stay in their ranges; no block is larger
\* than the buffer and no sector the host has in hand is outside the image.
THEOREM TypeCorrect == Spec => []TypeOK
<1>1. ControlInv => TypeOK
  <2> SUFFICES ASSUME ControlInv PROVE TypeOK
    OBVIOUS
  <2>1. /\ status \subseteq Bits /\ request \in {"none", "command", "data", "reset"}
        /\ {irq, lastRead, swReset, oldStb} \subseteq BOOLEAN
        /\ turn \in {"tick", "edge"} /\ bus.op \in {"none", "rd", "wr"} /\ bus.n \in 0 .. 15
    BY DEF ControlInv, RtlType
  <2>2. /\ h.status \subseteq {"RDY", "DSC", "DRQ", "IRQ", "END", "ERR"}
        /\ h.cnt \in Nat /\ h.count \in Nat /\ h.sector \in -1 .. Sectors - 1 /\ h.rem \in Nat
        /\ h.pkt \in 0 .. BufWords
    BY DEF ControlInv, HostType, HostBits
  <2>3. h.pkt <= BufWords
    BY <2>2, ConstantTypes
  <2>4. DOMAIN image = 0 .. Sectors - 1
    BY DEF ControlInv, DataType, IsImage
  <2> QED
    BY <2>1, <2>2, <2>3, <2>4 DEF TypeOK
<1> QED
  BY <1>1, ControlCorrect, PTL

\* What the invariant says of a channel the guest may look at.
LEMMA SettledFacts ==
  ASSUME ControlInv, Settled
  PROVE  /\ request = "none" /\ ~swReset /\ ~Busy /\ ~Setting /\ Place \in Waits \cup Ends
         /\ (~Drq => Place \in Ends) /\ ~oldStb
<1>1. "BSY" \notin status /\ ~swReset /\ ~oldStb
  BY DEF Settled, Spaced
<1>2. request = "none"
  BY <1>1 DEF ControlInv, RtlType
<1> QED
  BY <1>1, <1>2, HostWaits

\* TransferComplete: a read or a write that ends without error has moved as many blocks as the sector
\* count it was given says (CountBase for a zero), for every image, geometry and buffer size, with
\* --jitter and through resets: the host's count and the blocks the guest has moved always add up.
THEOREM TransfersComplete == Spec => []TransferComplete
<1>1. ControlInv => TransferComplete
  <2> SUFFICES ASSUME ControlInv, Settled, ~Drq, g.task.cmd \in {"READ", "WRITE"}, "ERR" \notin status
               PROVE  g.blocks = IF g.task.count = 0 THEN CountBase ELSE g.task.count
    BY DEF TransferComplete
  <2>1. request = "none" /\ Place \in Ends
    BY SettledFacts
  <2>2. Active
    BY DEF Active, NoTask
  <2>3. g.blocks = Total
    BY <2>1, <2>2 DEF ControlInv, CountInv
  <2> QED
    BY <2>3 DEF Total
<1> QED
  BY <1>1, ControlCorrect, PTL

\* FirstWriteBlockSilent: the host asks for the first block of a write without an interrupt, whatever
\* interrupt an earlier write, cut off by a reset, has left owed.
THEOREM FirstBlockSilent == Spec => []FirstWriteBlockSilent
<1>1. ControlInv => FirstWriteBlockSilent
  <2> SUFFICES ASSUME ControlInv, Settled, Drq, g.task.cmd = "WRITE", g.blocks = 0
               PROVE  ~irq
    BY DEF FirstWriteBlockSilent
  <2>1. request = "none" /\ Place \in Waits \cup Ends /\ ~Setting
    BY SettledFacts
  <2>2. Active
    BY DEF Active, NoTask
  <2>3. Place \notin Ends
    BY <2>2 DEF ControlInv, PlaceInv, Is
  <2>4. Is("hdd", "WRITE")
    BY <2>1, <2>2, <2>3 DEF ControlInv, PlaceInv, Is, Waits
  <2> QED
    BY <2>3, <2>4 DEF ControlInv, SilentInv
<1> QED
  BY <1>1, ControlCorrect, PTL
==============================================================================
