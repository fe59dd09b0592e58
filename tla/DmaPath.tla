------------------------------- MODULE DmaPath -------------------------------
(***************************************************************************)
(* A DMA transfer from the device to the SDRAM: the two 8237s and the      *)
(* grant logic of dma.v, its registered memory port, the hold register of  *)
(* system.sv, the arbiter of sdram.v, the devices' request logic and the   *)
(* software that programs a channel (external).                            *)
(*                                                                         *)
(* A step is one edge of clk_sys.  A memory item is a byte of an 8-bit     *)
(* channel or a word of a 16-bit one; a register has two digits of base    *)
(* Digit in place of two bytes.                                            *)
(***************************************************************************)
EXTENDS Naturals, Sequences

CONSTANTS
  Order,      \* the channels in use, in the order of their priority
  Chip,       \* the 8237 a channel belongs to: "sla" or "mas"
  Floppy,     \* channels with the request logic of floppy.v
  Digit,      \* values of half a register (256)
  Pages,      \* page register values
  Blocks,     \* the blocks software programs, a subset of AllBlocks
  MaxBlocks,  \* bound on the blocks programmed
  MaxItems    \* bound on the items a device moves

Channels == {Order[i] : i \in 1 .. Len(Order)}
Chips    == {"sla", "mas"}
Span     == Digit * Digit
Numbers  == 0 .. Span - 1
Cells    == Pages \X Numbers
AllBlocks == [ch : Channels, page : Pages, base : Numbers, count : Numbers,
              dec : BOOLEAN, auto : BOOLEAN, transfer : {"write", "read", "verify"}]

ASSUME DmaPathAssumption ==
  /\ Order \in Seq({"sb", "floppy", "gus"}) /\ Order # <<>>
  /\ Chip \in [Channels -> Chips]
  /\ Floppy \subseteq Channels /\ Pages \subseteq Nat /\ 0 \in Pages
  /\ Digit \in Nat \ {0}
  /\ Blocks \subseteq AllBlocks /\ MaxBlocks \in Nat /\ MaxItems \in Nat

NoChannel == "none"
NoItem == <<"none", 0>>
NoBlock == [ch |-> NoChannel]
NoWrite == [reg |-> "none", ch |-> NoChannel]

VARIABLES
  prog,     \* per channel: base_*, current_*, dec, auto, transfer
  page,     \* sla_page, mas_page
  ff,       \* flip_flop of each chip
  mask,     \* mask of both chips; "cascade" is channel 0 of the master
  pending,  \* pending of both chips
  tc,       \* ch*_tc
  eng,      \* the transfer engine of each chip
  port,     \* mem_read, mem_write, mem_address, mem_writedata of dma.v
  held,     \* the hold register of system.sv
  dmaWr,    \* dma_mem_wr
  sd,       \* sdram.v
  mem,      \* the contents of the SDRAM
  dev,      \* the devices
  todo,     \* register writes the software still has to make
  blk, moved, expect, ended, made   \* bookkeeping: see Account


vars == <<prog, page, ff, mask, pending, tc, eng, port, held, dmaWr, sd, mem, dev, todo,
          blk, moved, expect, ended, made>>

-----------------------------------------------------------------------------
(* i8237 and the grant                                                     *)

Active(x) == eng[x].active
Busy == {x \in Chips : eng[x].s # 0}
Ack(c) == eng[Chip[c]].ack /\ Active(Chip[c]) = c

\* system.sv: dma_waitrequest, dma_readdatavalid
\* A slip: nobody waits for the hold register.
WaitNone == FALSE
Wait == held.valid /\ sd.ready # "dma"
DataValid == sd.resp = "dma" /\ ~dmaWr

\* The request lines as the devices drive them.
Request(c) == dev[c].want /\ (c \in Floppy => ~dev[c].term /\ ~Ack(c))

\* ch_req: one channel, and only while no channel is busy.
Mute(c) == Chip[c] = "sla" /\ "cascade" \in mask
Wanting == {i \in 1 .. Len(Order) : Order[i] \in pending \ mask /\ ~Mute(Order[i])}
Grant == IF Busy # {} \/ Wanting = {} THEN NoChannel
         ELSE Order[CHOOSE i \in Wanting : \A j \in Wanting : i <= j]

Update(x) == eng[x].s = 4
\* A slip: the terminal count comes one item early.
TcEarly(c) == Update(Chip[c]) /\ Active(Chip[c]) = c /\ prog[c].cnt <= 1
Tc(c) == Update(Chip[c]) /\ Active(Chip[c]) = c /\ prog[c].cnt = 0

EngineState(x) ==
  LET e == eng[x]  t == prog[e.active].transfer IN
  CASE e.s = 0 -> IF Grant # NoChannel /\ Chip[Grant] = x THEN 1 ELSE 0
    [] e.s = 1 -> CASE t = "read" -> 2 [] t = "write" -> 6 [] OTHER -> 7
    [] e.s = 2 -> IF Wait THEN 2 ELSE 3
    [] e.s = 3 -> IF DataValid THEN 4 ELSE 3
    [] e.s = 4 -> 5
    [] e.s = 5 -> 0
    [] e.s = 6 -> IF Wait THEN 6 ELSE 4
    [] OTHER   -> 4

Item(c) == <<c, dev[c].n>>          \* ch*_writedata

Engine(x, w) ==
  LET e == eng[x]  t == prog[e.active].transfer IN
  [ s      |-> IF w.reg = "clear" /\ Chip[w.ch] = x THEN 0 ELSE EngineState(x),
    active |-> IF e.s = 0 /\ EngineState(x) = 1 THEN Grant ELSE e.active,
    ack    |-> \/ e.s = 3 /\ DataValid
               \/ e.s = 6 /\ ~Wait
               \/ e.s = 7,
    data   |-> IF e.s = 3 /\ DataValid THEN sd.dout ELSE e.data,
    addr   |-> IF e.s = 0 THEN 0 ELSE IF e.s = 1 THEN prog[e.active].cur ELSE e.addr,
    rd     |-> e.s # 0 /\ (IF e.s = 1 /\ t = "read" THEN TRUE
                           ELSE e.rd /\ ~(e.s = 2 /\ ~Wait)),
    wr     |-> e.s # 0 /\ (IF e.s = 1 /\ t = "write" THEN TRUE
                           ELSE e.wr /\ ~(e.s = 6 /\ ~Wait)),
    out    |-> IF e.s = 0 THEN NoItem
               ELSE IF e.s = 1 /\ t = "write" THEN Item(e.active) ELSE e.out ]

\* Half of a register is written, the half flip_flop points at.
SetDigit(n, high, v) == IF high THEN (Digit * v) + (n % Digit)
                                ELSE Digit * (n \div Digit) + v

\* A slip: addresses run past the end of the page.
AddressNextNoWrap(p) == IF p.dec THEN (p.cur + Span - 1) % Span ELSE p.cur + 1
\* A slip: a decrementing channel counts up.
AddressNextUp(p) == (p.cur + 1) % Span
AddressNext(p) == IF p.dec THEN (p.cur + Span - 1) % Span ELSE (p.cur + 1) % Span

Program(c, w) ==
  LET p == prog[c]
      mine(r) == w.reg = r /\ w.ch = c
      high == ff[Chip[c]]
      update == Update(Chip[c]) /\ Active(Chip[c]) = c
  IN [ base  |-> IF mine("addr") THEN SetDigit(p.base, high, w.v) ELSE p.base,
       cur   |-> IF mine("addr") THEN SetDigit(p.cur, high, w.v)
                 ELSE IF Tc(c) /\ p.auto THEN p.base
                 ELSE IF update THEN AddressNext(p) ELSE p.cur,
       bcnt  |-> IF mine("count") THEN SetDigit(p.bcnt, high, w.v) ELSE p.bcnt,
       cnt   |-> IF mine("count") THEN SetDigit(p.cnt, high, w.v)
                 ELSE IF Tc(c) /\ p.auto THEN p.bcnt
                 ELSE IF update THEN (p.cnt + Span - 1) % Span ELSE p.cnt,
       dec   |-> IF mine("mode") THEN w.v.dec ELSE p.dec,
       auto  |-> IF mine("mode") THEN w.v.auto ELSE p.auto,
       transfer |-> IF mine("mode") THEN w.v.transfer ELSE p.transfer ]

FlipFlop(x, w) ==
  CASE w.ch \in Channels /\ Chip[w.ch] = x /\ w.reg \in {"clear", "clearff"} -> FALSE
    [] w.ch \in Channels /\ Chip[w.ch] = x /\ w.reg \in {"addr", "count"} -> ~ff[x]
    [] OTHER -> ff[x]

ChipOf(c) == IF c = "cascade" THEN "mas" ELSE Chip[c]
OfChip(c) == {d \in Channels \cup {"cascade"} : ChipOf(d) = ChipOf(c)}
Ending == {c \in Channels : Tc(c)}
\* A slip: the channel stays open after the last item.
MaskOpen(w) ==
  CASE w.reg = "clear" -> mask \cup OfChip(w.ch)
    [] w.reg = "mask" -> mask \cup {w.ch}
    [] w.reg = "unmask" -> mask \ {w.ch}
    [] OTHER -> mask
Mask(w) ==
  LET ends == {c \in Ending : ~prog[c].auto} IN
  CASE w.reg = "clear" -> mask \cup OfChip(w.ch) \cup ends
    [] w.reg = "mask" -> mask \cup {w.ch} \cup (ends \ OfChip(w.ch))
    [] w.reg = "unmask" -> (mask \ {w.ch}) \cup (ends \ OfChip(w.ch))
    [] OTHER -> mask \cup ends

Pending(w) == {c \in Channels : Request(c)} \ (IF w.reg = "clear" THEN OfChip(w.ch) ELSE {})

\* dma.v: the memory port follows the chip that is busy.
Port ==
  IF Busy = {} THEN [port EXCEPT !.rd = FALSE, !.wr = FALSE]
  ELSE LET x == IF "mas" \in Busy THEN "mas" ELSE "sla"  e == eng[x] IN
       [rd |-> e.rd, wr |-> e.wr, cell |-> <<page[e.active], e.addr>>, data |-> e.out]

Dma(w) ==
  /\ prog' = [c \in Channels |-> Program(c, w)]
  /\ page' = IF w.reg = "page" THEN [page EXCEPT ![w.ch] = w.v] ELSE page
  /\ ff' = [x \in Chips |-> FlipFlop(x, w)]
  /\ mask' = Mask(w) /\ pending' = Pending(w) /\ tc' = Ending
  /\ eng' = [x \in Chips |-> Engine(x, w)]
  /\ port' = Port

-----------------------------------------------------------------------------
(* system.sv: the hold register and dma_mem_wr                             *)

Held ==
  IF held.valid /\ sd.ready = "dma" THEN [held EXCEPT !.valid = FALSE]
  ELSE IF (port.rd \/ port.wr) /\ ~held.valid
  THEN [valid |-> TRUE, wr |-> port.wr, cell |-> port.cell, data |-> port.data]
  ELSE held

\* A slip: once a write has been accepted the flag stays.
DmaWrSticks == IF sd.ready = "dma" THEN dmaWr \/ held.wr ELSE dmaWr
DmaWr == IF sd.ready = "dma" THEN held.wr ELSE dmaWr

-----------------------------------------------------------------------------
(* sdram.v.  Refresh and the CPU's requests come at any time; an access    *)
(* takes any number of cycles.                                             *)

SdQuiet ==
  /\ sd.st = "IDLE" /\ ~held.valid /\ UNCHANGED mem
  /\ sd' = [sd EXCEPT !.ready = "none", !.resp = "none"]

SdRefresh ==
  /\ sd.st = "IDLE" /\ UNCHANGED mem
  /\ sd' = [sd EXCEPT !.st = "REFRESH", !.ready = "none", !.resp = "none"]

\* The DMA's request goes first.
SdTakesCpu ==
  /\ sd.st = "IDLE" /\ ~held.valid /\ UNCHANGED mem
  /\ sd' = [sd EXCEPT !.st = "BUSY", !.id = "cpu", !.ready = "cpu", !.resp = "none"]

SdTakesDma ==
  /\ sd.st = "IDLE" /\ held.valid
  /\ sd' = [sd EXCEPT !.st = IF held.wr THEN "WRITE" ELSE "READ", !.id = "dma",
                      !.cell = held.cell, !.ready = "dma", !.resp = "none"]
  /\ mem' = IF held.wr THEN [mem EXCEPT ![held.cell] = held.data] ELSE mem

SdWorks ==
  /\ sd.st # "IDLE" /\ UNCHANGED mem
  /\ sd' = [sd EXCEPT !.ready = "none", !.resp = "none"]

SdEnds ==
  /\ sd.st # "IDLE" /\ UNCHANGED mem
  /\ sd' = [sd EXCEPT !.st = "IDLE", !.ready = "none",
                      !.resp = IF sd.st = "READ" THEN sd.id ELSE "none",
                      !.dout = IF sd.st = "READ" THEN mem[sd.cell] ELSE @]

-----------------------------------------------------------------------------
(* The devices.  want: there is an item to move; n counts the items.       *)

Programming(c) == \E i \in 1 .. Len(todo) : todo[i].ch = c

Devices ==
  \E more \in SUBSET Channels :
    /\ \A c \in more : /\ dev[c].n + (IF Ack(c) THEN 1 ELSE 0) < MaxItems
                       /\ dev[c].want \/ (blk[c] # NoBlock /\ ~Programming(c))
    /\ \A c \in Channels \ more : ~dev[c].want \/ Ack(c)
    /\ dev' = [c \in Channels |->
                [want |-> c \in more,
                 n    |-> dev[c].n + (IF Ack(c) THEN 1 ELSE 0),
                 term |-> dev[c].term \/ (c \in Floppy /\ c \in tc)]]

-----------------------------------------------------------------------------
(* The software, external.  A channel is programmed while it is masked, or *)
(* its device is quiet; a driver makes the writes one after the other.     *)

Sequence(b) ==
  LET w(r, v) == [reg |-> r, ch |-> b.ch, v |-> v] IN
  << w("mask", 0), w("clearff", 0),
     w("mode", [dec |-> b.dec, auto |-> b.auto, transfer |-> b.transfer]),
     w("addr", b.base % Digit), w("addr", b.base \div Digit), w("page", b.page),
     w("count", b.count % Digit), w("count", b.count \div Digit), w("unmask", 0) >>

Quiet(c) == /\ eng[Chip[c]].s = 0 \/ Active(Chip[c]) # c
            /\ c \in mask \/ (~dev[c].want /\ c \notin pending)

StartBlock ==
  /\ todo = <<>> /\ made < MaxBlocks
  /\ \E b \in Blocks :
       /\ Quiet(b.ch) /\ Dma(NoWrite)
       /\ todo' = Sequence(b)
       /\ blk' = [blk EXCEPT ![b.ch] = b] /\ moved' = [moved EXCEPT ![b.ch] = 0]
       /\ dev' = [dev EXCEPT ![b.ch].term = FALSE]
       /\ \A c \in Channels : ~Ack(c) /\ c \notin tc
  /\ made' = made + 1 /\ ended' = {} /\ UNCHANGED expect

\* Bookkeeping: the item of an acknowledged channel goes to (or comes from)
\* the next cell of its block.
Expected(c) ==
  LET b == blk[c]  k == moved[c] % (b.count + 1) IN
  <<b.page, (IF b.dec THEN b.base + Span - k ELSE b.base + k) % Span>>

Account ==
  LET acked == {c \in Channels : Ack(c)} IN
  /\ moved' = [c \in Channels |-> IF c \in acked THEN moved[c] + 1 ELSE moved[c]]
  /\ expect' = [x \in Cells |->
       IF \E c \in acked : blk[c].transfer = "write" /\ Expected(c) = x
       THEN Item(CHOOSE c \in acked : TRUE) ELSE expect[x]]
  /\ ended' = {c \in acked : (moved[c] + 1) % (blk[c].count + 1) = 0}
  /\ UNCHANGED <<blk, made>>

NoAccess == Dma(NoWrite) /\ Devices /\ Account /\ UNCHANGED todo
RegisterWrite ==
  /\ todo # <<>> /\ Dma(Head(todo)) /\ todo' = Tail(todo)
  /\ Devices /\ Account

\* The boot ROM clears both chips and opens the cascade.
Init ==
  /\ prog = [c \in Channels |-> [base |-> 0, cur |-> 0, bcnt |-> 0, cnt |-> 0,
                                 dec |-> FALSE, auto |-> FALSE, transfer |-> "verify"]]
  /\ page = [c \in Channels |-> 0] /\ ff = [x \in Chips |-> FALSE]
  /\ mask = Channels \cup {"cascade"} /\ pending = {} /\ tc = {}
  /\ eng = [x \in Chips |-> [s |-> 0, active |-> Order[1], ack |-> FALSE, data |-> NoItem,
                             addr |-> 0, rd |-> FALSE, wr |-> FALSE, out |-> NoItem]]
  /\ port = [rd |-> FALSE, wr |-> FALSE, cell |-> <<0, 0>>, data |-> NoItem]
  /\ held = [valid |-> FALSE, wr |-> FALSE, cell |-> <<0, 0>>, data |-> NoItem]
  /\ dmaWr = FALSE
  /\ sd = [st |-> "IDLE", id |-> "cpu", ready |-> "none", resp |-> "none",
           cell |-> <<0, 0>>, dout |-> NoItem]
  /\ mem = [x \in Cells |-> <<"old", (x[1] * Span) + x[2]>>] /\ expect = mem
  /\ dev = [c \in Channels |-> [want |-> FALSE, n |-> 0, term |-> FALSE]]
  /\ todo = <<[reg |-> "clear", ch |-> Order[1]], [reg |-> "clear", ch |-> Order[Len(Order)]],
              [reg |-> "unmask", ch |-> "cascade"]>>
  /\ blk = [c \in Channels |-> NoBlock] /\ moved = [c \in Channels |-> 0]
  /\ ended = {} /\ made = 0

Rest == held' = Held /\ dmaWr' = DmaWr

Clock == (NoAccess \/ RegisterWrite \/ StartBlock) /\ Rest
Next ==
  \/ SdQuiet /\ Clock
  \/ SdRefresh /\ Clock
  \/ SdTakesCpu /\ Clock
  \/ SdTakesDma /\ Clock
  \/ SdWorks /\ Clock
  \/ SdEnds /\ Clock

Spec == Init /\ [][Next]_vars

\* The clock ticks; an access or a refresh of the SDRAM comes to its end; and
\* a refresh is due every REFRESH_CYCLES only, so that they do not follow one
\* another for ever.
FairSpec ==
  Spec /\ WF_vars(Next) /\ WF_sd(SdEnds) /\ SF_sd(SdTakesDma)

-----------------------------------------------------------------------------
(* Properties                                                              *)

\* Registers hold values of their width, in particular address and count after
\* they wrap, and the engines are in one of their eight states.
TypeOK ==
  /\ \A c \in Channels : /\ {prog[c].base, prog[c].cur, prog[c].bcnt, prog[c].cnt} \subseteq Numbers
                         /\ page[c] \in Pages
  /\ mask \subseteq Channels \cup {"cascade"} /\ pending \cup tc \subseteq Channels
  /\ \A x \in Chips : eng[x].s \in 0 .. 7 /\ eng[x].active \in Channels
  /\ held.cell \in Cells /\ DOMAIN mem = Cells

\* Every item a device has handed over is in the memory cell its block names,
\* or in the hold register on its way there; no other cell has changed.  The
\* engine acknowledges a write before the SDRAM has seen it.
MemoryExact ==
  expect = IF held.valid /\ held.wr THEN [mem EXCEPT ![held.cell] = held.data] ELSE mem

\* The item a device is given is that of the cell its block names, writes of
\* the other channels acknowledged before included.
ReadExact ==
  \A c \in Channels :
    Ack(c) /\ blk[c].transfer = "read" => eng[Chip[c]].data = expect[Expected(c)]

\* A device is acknowledged only when it asks, and a block without
\* autoinitialisation moves no more items than its count says.
AckWanted ==
  \A c \in Channels : Ack(c) =>
    /\ dev[c].want /\ ~dev[c].term
    /\ blk[c].auto \/ moved[c] <= blk[c].count

\* The terminal count is signalled with the last item of the block and no
\* other.
TcOnLast == tc = ended

\* A transfer that was granted ends: waiting for the hold register and for the
\* SDRAM comes to an end.
TransferEnds == \A x \in Chips : eng[x].s # 0 ~> eng[x].s = 0
==============================================================================
