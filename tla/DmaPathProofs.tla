---------------------------- MODULE DmaPathProofs ----------------------------
(***************************************************************************)
(* Proofs about DmaPath, for any channels, chips, blocks, pages and base   *)
(* of the digits: the types (TypeInv), the channels (PathInv: how far each *)
(* is programmed or how far its block has come, and one busy engine at     *)
(* most) and the data path between engine and SDRAM (DataInv).             *)
(***************************************************************************)
EXTENDS DmaPath, WellFoundedInduction, TLAPS

-----------------------------------------------------------------------------
(* Arithmetic of the registers.                                             *)

\* The constants as the proofs use them.
LEMMA ConstantTypes ==
  /\ Digit \in Nat \ {0} /\ Span \in Nat \ {0} /\ Digit * Digit = Span
  /\ Pages \subseteq Nat /\ 0 \in Pages /\ 0 \in Numbers
  /\ Order # <<>> /\ Order[1] \in Channels /\ Order[Len(Order)] \in Channels
  /\ Len(Order) \in Nat /\ \A i \in 1 .. Len(Order) : Order[i] \in Channels
  /\ Channels \subseteq {"sb", "floppy", "gus"}
<1>1. Digit \in Nat \ {0} /\ Pages \subseteq Nat /\ 0 \in Pages /\ Order # <<>>
  BY DmaPathAssumption
<1>2. Order \in Seq({"sb", "floppy", "gus"})
  BY DmaPathAssumption
<1>3. Len(Order) \in Nat /\ Len(Order) >= 1 /\ \A i \in 1 .. Len(Order) : Order[i] \in {"sb", "floppy", "gus"}
  BY <1>1, <1>2
<1>4. \A i \in 1 .. Len(Order) : Order[i] \in Channels
  BY <1>3 DEF Channels
<1>5. Order[1] \in Channels /\ Order[Len(Order)] \in Channels
  BY <1>3, <1>4
<1>6. Channels \subseteq {"sb", "floppy", "gus"}
  BY <1>3 DEF Channels
<1>7. Span \in Nat \ {0}
  BY <1>1 DEF Span
<1>8. 0 \in Numbers
  BY <1>7 DEF Numbers
<1> QED
  BY <1>1, <1>3, <1>4, <1>5, <1>6, <1>7, <1>8 DEF Span

\* Quotient and remainder of a number by the base of the digits.
LEMMA Divides ==
  ASSUME NEW n \in Nat, NEW d \in Nat \ {0}
  PROVE  /\ n \div d \in Nat /\ n % d \in 0 .. d - 1
         /\ n = d * (n \div d) + (n % d)
  OBVIOUS

\* The remainder of a number written with quotient and remainder.
LEMMA DivideOnly ==
  ASSUME NEW d \in Nat \ {0}, NEW q \in Nat, NEW r \in 0 .. d - 1
  PROVE  ((d * q) + r) % d = r
  OBVIOUS

\* Two digits make a number below the square of the base.
LEMMA DigitBelow ==
  ASSUME NEW d \in Nat \ {0}, NEW v \in 0 .. d - 1, NEW r \in 0 .. d - 1
  PROVE  (d * v) + r \in 0 .. (d * d) - 1
  OBVIOUS

\* The high half of such a number is a digit.
LEMMA QuotientBelow ==
  ASSUME NEW d \in Nat \ {0}, NEW n \in 0 .. (d * d) - 1
  PROVE  n \div d \in 0 .. d - 1
  OBVIOUS
\* A register keeps its width when half of it is written.
LEMMA SetDigitType ==
  ASSUME NEW n \in Numbers, NEW high \in BOOLEAN, NEW v \in 0 .. Digit - 1
  PROVE  SetDigit(n, high, v) \in Numbers
<1>1. Digit \in Nat \ {0} /\ n \in 0 .. (Digit * Digit) - 1
  BY ConstantTypes DEF Numbers
<1>2. n % Digit \in 0 .. Digit - 1 /\ n \div Digit \in 0 .. Digit - 1
  <2>1. n \in Nat
    BY <1>1
  <2>2. n % Digit \in 0 .. Digit - 1
    BY <1>1, <2>1
  <2> QED
    BY <1>1, <2>2, QuotientBelow
<1>3. (Digit * v) + (n % Digit) \in 0 .. (Digit * Digit) - 1
  BY <1>1, <1>2, DigitBelow
<1>4. (Digit * (n \div Digit)) + v \in 0 .. (Digit * Digit) - 1
  BY <1>1, <1>2, DigitBelow
<1> QED
  BY <1>3, <1>4, ConstantTypes DEF SetDigit, Numbers

\* The low half is what was written, and then both halves make the number.
LEMMA LowDigit ==
  ASSUME NEW n \in Numbers, NEW v \in 0 .. Digit - 1
  PROVE  SetDigit(n, FALSE, v) % Digit = v
<1>1. n \in Nat /\ Digit \in Nat \ {0}
  BY ConstantTypes DEF Numbers
<1>2. n \div Digit \in Nat
  BY <1>1, Divides
<1> QED
  BY <1>1, <1>2, DivideOnly DEF SetDigit

\* After the high half is written the register holds the number.
LEMMA BothDigits ==
  ASSUME NEW n \in Numbers, NEW m \in Numbers, n % Digit = m % Digit
  PROVE  SetDigit(n, TRUE, m \div Digit) = m
<1>1. m \in Nat /\ Digit \in Nat \ {0}
  BY ConstantTypes DEF Numbers
<1>2. m = Digit * (m \div Digit) + (m % Digit)
  BY <1>1, Divides
<1> QED
  BY <1>2 DEF SetDigit

\* Both halves of a number are digits.
LEMMA Halves ==
  ASSUME NEW m \in Numbers
  PROVE  m % Digit \in 0 .. Digit - 1 /\ m \div Digit \in 0 .. Digit - 1
<1>1. Digit \in Nat \ {0} /\ m \in 0 .. (Digit * Digit) - 1
  BY ConstantTypes DEF Numbers
<1>2. m \in Nat
  BY <1>1
<1>3. m % Digit \in 0 .. Digit - 1
  BY <1>1, <1>2
<1> QED
  BY <1>1, <1>3, QuotientBelow

\* What remains of m + 1.
LEMMA NextRemainder ==
  ASSUME NEW m \in Nat, NEW k \in Nat \ {0}
  PROVE  (m + 1) % k = IF m % k = k - 1 THEN 0 ELSE (m % k) + 1
<1>1. /\ m \div k \in Nat /\ m % k \in 0 .. k - 1
      /\ m = k * (m \div k) + (m % k)
  BY Divides
<1>2. CASE m % k = k - 1
  <2>1. m + 1 = k * ((m \div k) + 1) + 0
    BY <1>1, <1>2
  <2>2. (k * ((m \div k) + 1) + 0) % k = 0
    BY <1>1, DivideOnly
  <2> QED
    BY <1>2, <2>1, <2>2
<1>3. CASE m % k # k - 1
  <2>1. m + 1 = k * (m \div k) + ((m % k) + 1) /\ (m % k) + 1 \in 0 .. k - 1
    BY <1>1, <1>3
  <2>2. (k * (m \div k) + ((m % k) + 1)) % k = (m % k) + 1
    BY <1>1, <2>1, DivideOnly
  <2> QED
    BY <1>3, <2>1, <2>2
<1> QED
  BY <1>2, <1>3

\* Numbers of the width of a register, and one turn beyond.
LEMMA OneTurn ==
  ASSUME NEW s \in Nat \ {0}, NEW n \in 0 .. (s + s) - 1
  PROVE  n % s = IF n < s THEN n ELSE n - s
<1>1. CASE n < s
  BY <1>1
<1>2. CASE n >= s
  <2>1. (s * 1 + (n - s)) % s = n - s
    BY <1>2, DivideOnly
  <2> QED
    BY <1>2, <2>1
<1> QED
  BY <1>1, <1>2

\* One item up and one item down, round the end of the page.
LEMMA StepUp ==
  ASSUME NEW s \in Nat \ {0}, NEW base \in 0 .. s - 1, NEW k \in Nat, k + 1 <= s - 1
  PROVE  (((base + k) % s) + 1) % s = (base + (k + 1)) % s
<1>1. PICK n \in 0 .. (s + s) - 1 : n = base + k
  OBVIOUS
<1>2. n + 1 \in 0 .. (s + s) - 1 /\ base + (k + 1) = n + 1
  BY <1>1
<1>3. n % s = (IF n < s THEN n ELSE n - s) /\ (n + 1) % s = (IF n + 1 < s THEN n + 1 ELSE (n + 1) - s)
  BY <1>2, OneTurn
<1>4. PICK m \in 0 .. s - 1 : m = n % s
  BY <1>3
<1>5. m + 1 \in 0 .. (s + s) - 1
  BY <1>4
<1>6. (m + 1) % s = IF m + 1 < s THEN m + 1 ELSE (m + 1) - s
  BY <1>5, OneTurn
<1>7. (m + 1) % s = (n + 1) % s
  BY <1>2, <1>3, <1>4, <1>6
<1> QED
  BY <1>1, <1>2, <1>4, <1>7

\* The same downwards.
LEMMA StepDown ==
  ASSUME NEW s \in Nat \ {0}, NEW base \in 0 .. s - 1, NEW k \in Nat, k + 1 <= s - 1
  PROVE  (((base + s - k) % s) + s - 1) % s = (base + s - (k + 1)) % s
<1>1. PICK n \in 0 .. (s + s) - 1 : n = base + s - k
  OBVIOUS
<1>2. n - 1 \in 0 .. (s + s) - 1 /\ base + s - (k + 1) = n - 1
  BY <1>1
<1>3. n % s = (IF n < s THEN n ELSE n - s) /\ (n - 1) % s = (IF n - 1 < s THEN n - 1 ELSE (n - 1) - s)
  BY <1>2, OneTurn
<1>4. PICK m \in 0 .. s - 1 : m = n % s
  BY <1>3
<1>5. (m + s) - 1 \in 0 .. (s + s) - 1
  BY <1>4
<1>6. ((m + s) - 1) % s = IF (m + s) - 1 < s THEN (m + s) - 1 ELSE ((m + s) - 1) - s
  BY <1>5, OneTurn
<1>7. ((m + s) - 1) % s = (n - 1) % s
  BY <1>1, <1>2, <1>3, <1>4, <1>6
<1> QED
  BY <1>1, <1>2, <1>4, <1>7

\* A count above 0 goes down by one.
LEMMA CountDown ==
  ASSUME NEW s \in Nat \ {0}, NEW k \in 1 .. s - 1
  PROVE  (k + s - 1) % s = k - 1
<1>1. PICK n \in 0 .. (s + s) - 1 : n = k + s - 1
  OBVIOUS
<1>2. n % s = IF n < s THEN n ELSE n - s
  BY OneTurn
<1> QED
  BY <1>1, <1>2

\* The address k items on from the base of block b.
Along(b, k) == (IF b.dec THEN b.base + Span - k ELSE b.base + k) % Span

\* The engine steps an address the way the block says, the end of the page included.
LEMMA AddressSteps ==
  ASSUME NEW b \in AllBlocks, NEW p, p.dec = b.dec, NEW k \in Nat, k + 1 <= Span - 1,
         p.cur = Along(b, k)
  PROVE  AddressNext(p) = Along(b, k + 1)
<1>1. b.dec \in BOOLEAN /\ b.base \in 0 .. Span - 1
  BY DEF AllBlocks, Numbers
<1>2. Span \in Nat \ {0}
  BY ConstantTypes
<1>3. CASE b.dec
  <2>1. (((b.base + Span - k) % Span) + Span - 1) % Span = (b.base + Span - (k + 1)) % Span
    BY <1>1, <1>2, StepDown
  <2> QED
    BY <1>3, <2>1 DEF AddressNext, Along
<1>4. CASE ~b.dec
  <2>1. (((b.base + k) % Span) + 1) % Span = (b.base + (k + 1)) % Span
    BY <1>1, <1>2, StepUp
  <2> QED
    BY <1>4, <2>1 DEF AddressNext, Along
<1> QED
  BY <1>1, <1>3, <1>4

\* The first item is at the base.
LEMMA AlongStart ==
  ASSUME NEW b \in AllBlocks
  PROVE  Along(b, 0) = b.base
<1>1. b.dec \in BOOLEAN /\ b.base \in 0 .. Span - 1
  BY DEF AllBlocks, Numbers
<1>2. Span \in Nat \ {0}
  BY ConstantTypes
<1>3. PICK n \in 0 .. Span - 1 : n = b.base
  BY <1>1
<1>4. (n + Span - 0) \in 0 .. (Span + Span) - 1 /\ n + 0 \in 0 .. (Span + Span) - 1
  BY <1>2
<1>5. (n + Span - 0) % Span = n /\ (n + 0) % Span = n
  BY <1>2, <1>4, OneTurn
<1> QED
  BY <1>1, <1>3, <1>5 DEF Along

-----------------------------------------------------------------------------
(* The types of the variables.                                              *)

Transfers == {"write", "read", "verify"}
Items == (Channels \cup {"none", "old"}) \X Nat
Modes == [dec : BOOLEAN, auto : BOOLEAN, transfer : Transfers]
Progs == [base : Numbers, cur : Numbers, bcnt : Numbers, cnt : Numbers,
          dec : BOOLEAN, auto : BOOLEAN, transfer : Transfers]
Engines == [s : 0 .. 7, active : Channels, ack : BOOLEAN, data : Items, addr : Numbers,
            rd : BOOLEAN, wr : BOOLEAN, out : Items]
Writes == [reg : {"clear"}, ch : Channels] \cup [reg : {"unmask"}, ch : {"cascade"}]
          \cup [reg : {"mask", "unmask", "clearff"}, ch : Channels, v : {0}]
          \cup [reg : {"mode"}, ch : Channels, v : Modes]
          \cup [reg : {"addr", "count"}, ch : Channels, v : 0 .. Digit - 1]
          \cup [reg : {"page"}, ch : Channels, v : Pages]

ProgType == prog \in [Channels -> Progs]
PageType == page \in [Channels -> Pages]
FfType == ff \in [Chips -> BOOLEAN]
SetTypes == mask \subseteq Channels \cup {"cascade"} /\ pending \subseteq Channels /\ tc \subseteq Channels
EngType == eng \in [Chips -> Engines]
PortType == port \in [rd : BOOLEAN, wr : BOOLEAN, cell : Cells, data : Items]
HeldType == held \in [valid : BOOLEAN, wr : BOOLEAN, cell : Cells, data : Items] /\ dmaWr \in BOOLEAN
SdType == sd \in [st : {"IDLE", "REFRESH", "BUSY", "READ", "WRITE"}, id : {"cpu", "dma"},
                  ready : {"none", "cpu", "dma"}, resp : {"none", "cpu", "dma"},
                  cell : Cells, dout : Items]
MemType == mem \in [Cells -> Items] /\ expect \in [Cells -> Items]
DevType == dev \in [Channels -> [want : BOOLEAN, n : Nat, term : BOOLEAN]]
TodoType == todo \in Seq(Writes)
BookType == /\ blk \in [Channels -> Blocks \cup {NoBlock}] /\ moved \in [Channels -> Nat]
            /\ ended \subseteq Channels /\ made \in Nat

TypeInv == /\ ProgType /\ PageType /\ FfType /\ SetTypes /\ EngType /\ PortType /\ HeldType
           /\ SdType /\ MemType /\ DevType /\ TodoType /\ BookType

\* What may be written to a chip in a clock, NoWrite included.
Suits(w) ==
  /\ w.reg \in {"none", "clear", "mask", "unmask", "clearff", "mode", "addr", "count", "page"}
  /\ w.reg \in {"clear", "mask", "clearff", "mode", "addr", "count", "page"} => w.ch \in Channels
  /\ w.reg = "unmask" => w.ch \in Channels \cup {"cascade"}
  /\ w.reg = "mode" => w.v \in Modes
  /\ w.reg \in {"addr", "count"} => w.v \in 0 .. Digit - 1
  /\ w.reg = "page" => w.v \in Pages

\* The writes of todo are such.
LEMMA WriteSuits == ASSUME NEW w \in Writes PROVE Suits(w)
BY DEF Writes, Suits

\* So is a clock without one.
LEMMA NoWriteSuits == Suits(NoWrite)
BY DEF NoWrite, Suits

\* Every channel has a chip.
LEMMA ChipType == \A c \in Channels : Chip[c] \in Chips
BY DmaPathAssumption

\* The fields of a block.
LEMMA BlockType ==
  ASSUME NEW b \in Blocks
  PROVE  /\ b \in AllBlocks /\ b.ch \in Channels /\ b.page \in Pages /\ b.base \in Numbers
         /\ b.count \in Numbers /\ b.dec \in BOOLEAN /\ b.auto \in BOOLEAN /\ b.transfer \in Transfers
BY DmaPathAssumption DEF AllBlocks, Transfers

\* Every non-empty set of natural numbers has a least element.
LEMMA LeastOfNat ==
  ASSUME NEW S, S \subseteq Nat, S # {}
  PROVE  \E x \in S : \A y \in S : x <= y
<1>1. PICK x \in S : \A y \in S : ~(<<y, x>> \in OpToRel(<, Nat))
  BY NatLessThanWellFounded, WFMin, Zenon
<1>2. \A y \in S : <<y, x>> \in Nat \X Nat /\ <<y, x>>[1] = y /\ <<y, x>>[2] = x
  BY <1>1
<1>3. \A y \in S : ~(y < x)
  BY <1>1, <1>2 DEF OpToRel
<1> QED
  BY <1>3

\* The channel granted is pending and open, and the engines are idle.
LEMMA GrantType ==
  ASSUME Grant # NoChannel
  PROVE  Grant \in Channels /\ Grant \in pending /\ Grant \notin mask /\ Busy = {}
<1>1. Busy = {} /\ Wanting # {} /\ Grant = Order[CHOOSE i \in Wanting : \A j \in Wanting : i <= j]
  BY DEF Grant
<1>2. Wanting \subseteq Nat
  BY ConstantTypes DEF Wanting
<1>3. \E i \in Wanting : \A j \in Wanting : i <= j
  BY <1>1, <1>2, LeastOfNat
<1>4. PICK i \in Wanting : Grant = Order[i]
  BY <1>1, <1>3, Zenon
<1> QED
  BY <1>1, <1>4, ConstantTypes DEF Wanting

\* The registers after a clock.
LEMMA ProgTypeStep ==
  ASSUME ProgType, FfType, EngType, NEW w, Suits(w), NEW c \in Channels
  PROVE  Program(c, w) \in Progs
<1> DEFINE p == prog[c]
           high == ff[Chip[c]]
<1>1. /\ p.base \in Numbers /\ p.cur \in Numbers /\ p.bcnt \in Numbers /\ p.cnt \in Numbers
      /\ p.dec \in BOOLEAN /\ p.auto \in BOOLEAN /\ p.transfer \in Transfers
  BY DEF ProgType, Progs
<1>2. high \in BOOLEAN
  BY ChipType DEF FfType
<1>3. AddressNext(p) \in Numbers /\ (p.cnt + Span - 1) % Span \in Numbers
  <2>1. Span \in Nat \ {0} /\ \A n \in Nat : n % Span \in 0 .. Span - 1
    BY ConstantTypes
  <2>2. p.cur + Span - 1 \in Nat /\ p.cur + 1 \in Nat /\ p.cnt + Span - 1 \in Nat
    BY <1>1, <2>1 DEF Numbers
  <2>3. (p.cur + Span - 1) % Span \in Numbers /\ (p.cur + 1) % Span \in Numbers /\ (p.cnt + Span - 1) % Span \in Numbers
    BY <2>1, <2>2 DEF Numbers
  <2> QED
    BY <2>3 DEF AddressNext
<1> HIDE DEF p, high
<1>4. w.reg \in {"addr", "count"} =>
        /\ SetDigit(p.base, high, w.v) \in Numbers /\ SetDigit(p.cur, high, w.v) \in Numbers
        /\ SetDigit(p.bcnt, high, w.v) \in Numbers /\ SetDigit(p.cnt, high, w.v) \in Numbers
  BY <1>1, <1>2, SetDigitType DEF Suits
<1>5. w.reg = "mode" => w.v.dec \in BOOLEAN /\ w.v.auto \in BOOLEAN /\ w.v.transfer \in Transfers
  BY DEF Suits, Modes
<1> QED
  BY <1>1, <1>3, <1>4, <1>5 DEF Program, Progs, p, high

\* An engine after a clock.
LEMMA EngineTypeStep ==
  ASSUME ProgType, EngType, DevType, SdType, NEW w, NEW x \in Chips
  PROVE  Engine(x, w) \in Engines
<1> DEFINE e == eng[x]
<1>1. /\ e.s \in 0 .. 7 /\ e.active \in Channels /\ e.ack \in BOOLEAN /\ e.data \in Items
      /\ e.addr \in Numbers /\ e.rd \in BOOLEAN /\ e.wr \in BOOLEAN /\ e.out \in Items
  BY DEF EngType, Engines
<1>2. sd.dout \in Items /\ prog[e.active].cur \in Numbers
  BY <1>1 DEF SdType, ProgType, Progs
<1>3. Item(e.active) \in Items /\ NoItem \in Items
  BY <1>1 DEF Item, Items, DevType, NoItem
<1>4. EngineState(x) \in 0 .. 7
  BY <1>1 DEF EngineState
<1>5. e.s = 0 /\ EngineState(x) = 1 => Grant \in Channels
  BY GrantType DEF EngineState
<1> QED
  BY <1>1, <1>2, <1>3, <1>4, <1>5, ConstantTypes DEF Engine, Engines

\* A clock of dma.v keeps the types.
LEMMA DmaTypeStep ==
  ASSUME TypeInv, NEW w, Suits(w), Dma(w)
  PROVE  ProgType' /\ PageType' /\ FfType' /\ SetTypes' /\ EngType' /\ PortType'
<1> USE DEF TypeInv
<1>1. ProgType'
  BY ProgTypeStep DEF Dma, ProgType
<1>2. PageType'
  BY DEF Dma, PageType, Suits
<1>3. FfType'
  BY DEF Dma, FfType, FlipFlop
<1>4. SetTypes'
  <2>1. Ending \subseteq Channels /\ pending' \subseteq Channels
    BY DEF Dma, Ending, Pending
  <2>2. mask' \subseteq Channels \cup {"cascade"}
    BY <2>1 DEF Dma, Mask, OfChip, SetTypes, Suits
  <2> QED
    BY <2>1, <2>2 DEF Dma, SetTypes
<1>5. EngType'
  BY EngineTypeStep DEF Dma, EngType
<1>6. PortType'
  <2>1. \A x \in Chips : <<page[eng[x].active], eng[x].addr>> \in Cells /\ eng[x].rd \in BOOLEAN
                          /\ eng[x].wr \in BOOLEAN /\ eng[x].out \in Items
    BY DEF EngType, Engines, PageType, Cells
  <2>2. Port \in [rd : BOOLEAN, wr : BOOLEAN, cell : Cells, data : Items]
    BY <2>1 DEF Port, PortType, Busy, Chips
  <2> QED
    BY <2>2 DEF Dma, PortType
<1> QED
  BY <1>1, <1>2, <1>3, <1>4, <1>5, <1>6

\* So do the hold register and the SDRAM, whatever it does.
SdStep == SdQuiet \/ SdRefresh \/ SdTakesCpu \/ SdTakesDma \/ SdWorks \/ SdEnds

\* The hold register keeps its type.
LEMMA RestTypeStep ==
  ASSUME TypeInv, Rest
  PROVE  HeldType'
BY DEF TypeInv, Rest, Held, DmaWr, HeldType, PortType

\* So do the SDRAM and its controller.
LEMMA SdTypeStep ==
  ASSUME TypeInv, SdStep
  PROVE  SdType' /\ mem' \in [Cells -> Items]
<1> USE DEF TypeInv
<1>1. CASE SdQuiet
  BY <1>1 DEF SdQuiet, SdType, MemType
<1>2. CASE SdRefresh
  BY <1>2 DEF SdRefresh, SdType, MemType
<1>3. CASE SdTakesCpu
  BY <1>3 DEF SdTakesCpu, SdType, MemType
<1>4. CASE SdTakesDma
  BY <1>4 DEF SdTakesDma, SdType, MemType, HeldType
<1>5. CASE SdWorks
  BY <1>5 DEF SdWorks, SdType, MemType
<1>6. CASE SdEnds
  BY <1>6 DEF SdEnds, SdType, MemType
<1> QED
  BY <1>1, <1>2, <1>3, <1>4, <1>5, <1>6 DEF SdStep

\* And the devices with the bookkeeping.
LEMMA DevicesTypeStep ==
  ASSUME TypeInv, Devices
  PROVE  DevType'
<1>1. \A c \in Channels : dev[c].n \in Nat /\ dev[c].term \in BOOLEAN
  BY DEF TypeInv, DevType
<1> QED
  BY <1>1 DEF Devices, DevType

\* The bookkeeping keeps its types.
LEMMA AccountTypeStep ==
  ASSUME TypeInv, Account
  PROVE  expect' \in [Cells -> Items] /\ BookType'
<1> DEFINE acked == {c \in Channels : Ack(c)}
<1>1. moved' \in [Channels -> Nat] /\ ended' \subseteq Channels /\ UNCHANGED <<blk, made>>
  BY DEF TypeInv, BookType, Account
<1>2. acked # {} => Item(CHOOSE c \in acked : TRUE) \in Items
  <2>1. acked # {} => (CHOOSE c \in acked : TRUE) \in Channels
    OBVIOUS
  <2> QED
    BY <2>1 DEF TypeInv, DevType, Item, Items
<1>3. \A y \in Cells : expect[y] \in Items
  BY DEF TypeInv, MemType
<1>4. expect' = [y \in Cells |-> IF \E c \in acked : blk[c].transfer = "write" /\ Expected(c) = y
                                 THEN Item(CHOOSE c \in acked : TRUE) ELSE expect[y]]
  BY DEF Account
<1> HIDE DEF acked
<1> QED
  BY <1>1, <1>2, <1>3, <1>4 DEF TypeInv, BookType

\* The driver's writes are register writes.
LEMMA SequenceType ==
  ASSUME NEW b \in Blocks
  PROVE  Sequence(b) \in Seq(Writes) /\ Len(Sequence(b)) = 9
<1>1. b.base % Digit \in 0 .. Digit - 1 /\ b.base \div Digit \in 0 .. Digit - 1
  BY BlockType, Halves
<1>2. b.count % Digit \in 0 .. Digit - 1 /\ b.count \div Digit \in 0 .. Digit - 1
  BY BlockType, Halves
<1> DEFINE w(r, v) == [reg |-> r, ch |-> b.ch, v |-> v]
<1>3. w("mask", 0) \in Writes /\ w("clearff", 0) \in Writes /\ w("unmask", 0) \in Writes
  BY BlockType DEF Writes
<1>4. w("mode", [dec |-> b.dec, auto |-> b.auto, transfer |-> b.transfer]) \in Writes
  BY BlockType DEF Writes, Modes
<1>5. \A v \in 0 .. Digit - 1 : w("addr", v) \in Writes /\ w("count", v) \in Writes
  BY BlockType DEF Writes
<1>6. w("page", b.page) \in Writes
  BY BlockType DEF Writes
<1>7. /\ w("addr", b.base % Digit) \in Writes /\ w("addr", b.base \div Digit) \in Writes
      /\ w("count", b.count % Digit) \in Writes /\ w("count", b.count \div Digit) \in Writes
  BY <1>1, <1>2, <1>5
<1>8. Sequence(b) = << w("mask", 0), w("clearff", 0),
     w("mode", [dec |-> b.dec, auto |-> b.auto, transfer |-> b.transfer]),
     w("addr", b.base % Digit), w("addr", b.base \div Digit), w("page", b.page),
     w("count", b.count % Digit), w("count", b.count \div Digit), w("unmask", 0) >>
  BY DEF Sequence
<1> HIDE DEF w
<1> QED
  BY <1>3, <1>4, <1>6, <1>7, <1>8

\* A new block keeps the types.
LEMMA StartTypeStep ==
  ASSUME TypeInv, StartBlock
  PROVE  DevType' /\ TodoType' /\ BookType' /\ expect' = expect
<1>1. PICK b \in Blocks : /\ todo' = Sequence(b)
                          /\ blk' = [blk EXCEPT ![b.ch] = b] /\ moved' = [moved EXCEPT ![b.ch] = 0]
                          /\ dev' = [dev EXCEPT ![b.ch].term = FALSE]
  BY DEF StartBlock
<1>2. made' = made + 1 /\ ended' = {} /\ expect' = expect
  BY DEF StartBlock
<1>3. DevType'
  BY <1>1 DEF TypeInv, DevType
<1> QED
  BY <1>1, <1>2, <1>3, BlockType, SequenceType DEF TypeInv, TodoType, BookType

\* What is written to the chips in a clock.
LEMMA WriteInClock ==
  ASSUME TypeInv, Clock
  PROVE  \E w : /\ Suits(w) /\ Dma(w) /\ Rest
                /\ \/ w = NoWrite /\ StartBlock
                   \/ w = NoWrite /\ Devices /\ Account /\ todo' = todo
                   \/ todo # <<>> /\ w = Head(todo) /\ w \in Writes /\ Devices /\ Account /\ todo' = Tail(todo)
<1>1. todo \in Seq(Writes)
  BY DEF TypeInv, TodoType
<1>2. CASE NoAccess /\ Rest
  BY <1>2, NoWriteSuits DEF NoAccess
<1>3. CASE RegisterWrite /\ Rest
  <2>1. Head(todo) \in Writes
    BY <1>1, <1>3 DEF RegisterWrite
  <2>2. Suits(Head(todo))
    BY <2>1, WriteSuits
  <2> QED
    BY <1>3, <2>1, <2>2 DEF RegisterWrite
<1>4. CASE StartBlock /\ Rest
  <2>1. Dma(NoWrite)
    BY <1>4 DEF StartBlock
  <2> QED
    BY <1>4, <2>1, NoWriteSuits
<1> QED
  BY <1>2, <1>3, <1>4 DEF Clock

\* Every clock keeps the types.
LEMMA TypeStep ==
  ASSUME TypeInv, SdStep, Clock
  PROVE  TypeInv'
<1>1. PICK w : /\ Suits(w) /\ Dma(w) /\ Rest
               /\ \/ w = NoWrite /\ StartBlock
                  \/ w = NoWrite /\ Devices /\ Account /\ todo' = todo
                  \/ todo # <<>> /\ w = Head(todo) /\ w \in Writes /\ Devices /\ Account /\ todo' = Tail(todo)
  BY WriteInClock
<1>2. ProgType' /\ PageType' /\ FfType' /\ SetTypes' /\ EngType' /\ PortType'
  BY <1>1, DmaTypeStep
<1>3. HeldType' /\ SdType' /\ mem' \in [Cells -> Items]
  BY <1>1, RestTypeStep, SdTypeStep
<1>4. DevType' /\ BookType' /\ expect' \in [Cells -> Items]
  BY <1>1, DevicesTypeStep, AccountTypeStep, StartTypeStep DEF TypeInv, MemType
<1>5. TodoType'
  <2>1. todo # <<>> => Tail(todo) \in Seq(Writes)
    BY DEF TypeInv, TodoType
  <2> QED
    BY <1>1, <2>1, StartTypeStep DEF TypeInv, TodoType
<1> QED
  BY <1>2, <1>3, <1>4, <1>5 DEF TypeInv, MemType

\* The initial item of a cell is an item.
LEMMA CellNumber ==
  ASSUME NEW x \in Cells
  PROVE  (x[1] * Span) + x[2] \in Nat
<1>1. x[1] \in Pages /\ x[2] \in Numbers /\ Span \in Nat
  BY ConstantTypes DEF Cells
<1>2. Pages \subseteq Nat /\ Numbers \subseteq Nat
  BY ConstantTypes DEF Numbers
<1>3. \A i, j, k \in Nat : (i * k) + j \in Nat
  OBVIOUS
<1> QED
  BY <1>1, <1>2, <1>3

\* The types hold at first.
LEMMA TypeInit == Init => TypeInv
<1> SUFFICES ASSUME Init PROVE TypeInv
  OBVIOUS
<1> USE ConstantTypes DEF Init
<1>1. ProgType /\ PageType /\ FfType /\ SetTypes
  BY DEF ProgType, Progs, Transfers, PageType, FfType, SetTypes
<1>2. NoItem \in Items /\ <<0, 0>> \in Cells
  BY DEF NoItem, Items, Cells
<1>3. EngType
  BY <1>2 DEF EngType, Engines
<1>4. PortType /\ HeldType /\ SdType
  BY <1>2 DEF PortType, HeldType, SdType
<1>5. MemType
  <2>2. \A x \in Cells : (x[1] * Span) + x[2] \in Nat
    BY CellNumber
  <2> QED
    BY <2>2 DEF MemType, Items
<1>6. DevType
  BY DEF DevType
<1>7. TodoType
  <2>1. /\ [reg |-> "clear", ch |-> Order[1]] \in Writes /\ [reg |-> "clear", ch |-> Order[Len(Order)]] \in Writes
        /\ [reg |-> "unmask", ch |-> "cascade"] \in Writes
    BY DEF Writes
  <2> QED
    BY <2>1 DEF TodoType
<1>8. BookType
  BY DmaPathAssumption DEF BookType
<1> QED
  BY <1>1, <1>3, <1>4, <1>5, <1>6, <1>7, <1>8 DEF TypeInv

\* A step is a clock of the SDRAM and of the rest.
LEMMA NextIsClock == Next => SdStep /\ Clock
BY DEF Next, SdStep

\* The types hold always.
LEMMA TypeAlways == Spec => []TypeInv
<1>1. TypeInv /\ [Next]_vars => TypeInv'
  <2> SUFFICES ASSUME TypeInv, [Next]_vars PROVE TypeInv'
    OBVIOUS
  <2>1. CASE Next
    BY <2>1, NextIsClock, TypeStep
  <2>2. CASE UNCHANGED vars
    BY <2>2 DEF vars, TypeInv, ProgType, PageType, FfType, SetTypes, EngType, PortType, HeldType,
                SdType, MemType, DevType, TodoType, BookType
  <2> QED
    BY <2>1, <2>2
<1> QED
  BY <1>1, TypeInit, PTL DEF Spec

\* The registers of dma.v keep their width and the engines their states, for any base of
\* the digits, any channels and any blocks (the always blocks of dma.v).
THEOREM DmaTypes == Spec => []TypeOK
<1>1. TypeInv => TypeOK
  BY DEF TypeInv, TypeOK, ProgType, Progs, PageType, SetTypes, EngType, Engines, HeldType, MemType
<1> QED
  BY <1>1, TypeAlways, PTL

-----------------------------------------------------------------------------
(* The inductive invariant, in parts.                                       *)

\* A mask write w of one channel in the clock of another's last item drops the mask that one
\* would get, if they are on one chip (dma.v:570).  The step in which this does not happen:
Spares(c, w) == w.reg \in {"mask", "unmask"} /\ c \in OfChip(w.ch) /\ Tc(c) => prog[c].auto
Unhurried == todo # <<>> /\ todo' = Tail(todo) => \A c \in Channels : Spares(c, Head(todo))

\* The engine of c's chip works for c.
Runs(c) == eng[Chip[c]].s # 0 /\ eng[Chip[c]].active = c

\* One engine is busy at most, with a channel of its own; the acknowledge is state 4.
EngineInv ==
  /\ \A x, y \in Chips : eng[x].s # 0 /\ eng[y].s # 0 => x = y
  /\ \A x \in Chips : eng[x].s # 0 => Chip[eng[x].active] = x
  /\ \A x \in Chips : eng[x].ack = TRUE <=> eng[x].s = 4

\* The driver of block b has the last writes of its sequence to make.
Driver(b) ==
  Len(todo) <= 9 /\ \A i \in 1 .. Len(todo) : todo[i] = Sequence(b)[(9 - Len(todo)) + i]
Booting ==
  /\ \A c \in Channels : blk[c] = NoBlock
  /\ \A i \in 1 .. Len(todo) : todo[i].reg = "clear" \/ (todo[i].reg = "unmask" /\ todo[i].ch = "cascade")
DriverInv == Booting \/ \E c \in Channels : blk[c] \in Blocks /\ blk[c].ch = c /\ Driver(blk[c])

\* A channel no block was programmed on.
Fresh(c) == /\ ~Runs(c) /\ c \in mask /\ c \notin pending /\ c \notin tc
            /\ dev[c].want = FALSE /\ dev[c].term = FALSE /\ moved[c] = 0

\* The registers agree with block b, and how far they do with n writes left.
ModeSet(p, b) == p.dec = b.dec /\ p.auto = b.auto /\ p.transfer = b.transfer
Stage(c, b, n) ==
  LET p == prog[c] IN
  /\ n <= 8 => c \in mask
  /\ n \in {7, 6, 4, 3, 1} => ff[Chip[c]] = FALSE
  /\ n \in {5, 2} => ff[Chip[c]] = TRUE
  /\ n <= 6 => ModeSet(p, b)
  /\ n = 5 => p.base % Digit = b.base % Digit /\ p.cur % Digit = b.base % Digit
  /\ n <= 4 => p.base = b.base /\ p.cur = b.base
  /\ n <= 3 => page[c] = b.page
  /\ n = 2 => p.bcnt % Digit = b.count % Digit /\ p.cnt % Digit = b.count % Digit
  /\ n <= 1 => p.bcnt = b.count /\ p.cnt = b.count

\* A channel that is being programmed.
Closed(c) == /\ ~Runs(c) /\ c \notin tc /\ dev[c].term = FALSE /\ moved[c] = 0
             /\ c \in mask \/ (dev[c].want = FALSE /\ c \notin pending)
             /\ Stage(c, blk[c], Len(todo))

\* A programmed channel: its registers are those of the block, moved items on; or the block
\* is over and the channel masked.
Into(c) == moved[c] % (blk[c].count + 1)
Within(c) == /\ prog[c].cnt = blk[c].count - Into(c) /\ prog[c].cur = Along(blk[c], Into(c))
             /\ blk[c].auto = TRUE \/ moved[c] <= blk[c].count
Over(c) == /\ blk[c].auto = FALSE /\ moved[c] = blk[c].count + 1 /\ c \in mask
           /\ Runs(c) => eng[Chip[c]].s = 5
Ready(c) == /\ ModeSet(prog[c], blk[c]) /\ prog[c].base = blk[c].base /\ prog[c].bcnt = blk[c].count
            /\ page[c] = blk[c].page /\ (Within(c) \/ Over(c))

\* The device of a channel that is granted wants it, and goes on wanting it.
Wanted(c) ==
  /\ Runs(c) /\ eng[Chip[c]].s # 5 => dev[c].want = TRUE
  /\ c \in pending /\ ~(Runs(c) /\ eng[Chip[c]].s = 5) => dev[c].want = TRUE
  /\ c \in tc => Runs(c) /\ eng[Chip[c]].s = 5

\* The engine's state is one of the transfer's, and its address that of the channel.
Course(c) ==
  LET e == eng[Chip[c]]  t == prog[c].transfer IN
  Runs(c) => /\ e.s \in {2, 3} => t = "read"
             /\ e.s = 6 => t = "write"
             /\ e.s = 7 => t = "verify"
             /\ e.s \in {2, 3, 4, 6, 7} => e.addr = prog[c].cur

ChannelInv(c) ==
  /\ IF blk[c] = NoBlock THEN Fresh(c)
     ELSE /\ blk[c] \in Blocks /\ blk[c].ch = c
          /\ IF Programming(c) THEN Closed(c) ELSE Ready(c)
  /\ Wanted(c) /\ Course(c)
ChannelsInv == \A c \in Channels : ChannelInv(c)

-----------------------------------------------------------------------------
(* One clock of an engine.                                                  *)

\* What a clock without a master clear makes of the engine of chip x.
EngineMoves(x) ==
  LET e == eng[x]  f == eng'[x]  t == prog[e.active].transfer IN
  /\ f.s = EngineState(x)
  /\ f.active = (IF e.s = 0 /\ EngineState(x) = 1 THEN Grant ELSE e.active)
  /\ f.ack = TRUE <=> (e.s = 3 /\ DataValid) \/ (e.s = 6 /\ ~Wait) \/ e.s = 7
  /\ f.data = (IF e.s = 3 /\ DataValid THEN sd.dout ELSE e.data)
  /\ f.addr = (IF e.s = 0 THEN 0 ELSE IF e.s = 1 THEN prog[e.active].cur ELSE e.addr)
  /\ f.rd = TRUE <=> \/ e.s = 1 /\ t = "read"
                     \/ e.s # 0 /\ ~(e.s = 1 /\ t = "read") /\ e.rd = TRUE /\ ~(e.s = 2 /\ ~Wait)
  /\ f.wr = TRUE <=> \/ e.s = 1 /\ t = "write"
                     \/ e.s # 0 /\ ~(e.s = 1 /\ t = "write") /\ e.wr = TRUE /\ ~(e.s = 6 /\ ~Wait)
  /\ f.out = (IF e.s = 0 THEN NoItem ELSE IF e.s = 1 /\ t = "write" THEN Item(e.active) ELSE e.out)

\* Every engine moves so unless its chip is cleared.
LEMMA EngineClock ==
  ASSUME EngType, NEW w, w.reg # "clear", Dma(w), NEW x \in Chips
  PROVE  EngineMoves(x)
<1>1. eng'[x] = Engine(x, w)
  BY DEF Dma
<1>2. eng[x].rd \in BOOLEAN /\ eng[x].wr \in BOOLEAN
  BY DEF EngType, Engines
<1> DEFINE e == eng[x]
           t == prog[e.active].transfer
           ackd == \/ e.s = 3 /\ DataValid
                   \/ e.s = 6 /\ ~Wait
                   \/ e.s = 7
           rdd == e.s # 0 /\ (IF e.s = 1 /\ t = "read" THEN TRUE ELSE e.rd /\ ~(e.s = 2 /\ ~Wait))
           wrd == e.s # 0 /\ (IF e.s = 1 /\ t = "write" THEN TRUE ELSE e.wr /\ ~(e.s = 6 /\ ~Wait))
<1>3. /\ eng'[x].s = EngineState(x)
      /\ eng'[x].active = (IF e.s = 0 /\ EngineState(x) = 1 THEN Grant ELSE e.active)
      /\ eng'[x].data = (IF e.s = 3 /\ DataValid THEN sd.dout ELSE e.data)
      /\ eng'[x].addr = (IF e.s = 0 THEN 0 ELSE IF e.s = 1 THEN prog[e.active].cur ELSE e.addr)
      /\ eng'[x].out = (IF e.s = 0 THEN NoItem ELSE IF e.s = 1 /\ t = "write" THEN Item(e.active) ELSE e.out)
  BY <1>1 DEF Engine
<1>4. eng'[x].ack = ackd /\ eng'[x].rd = rdd /\ eng'[x].wr = wrd
  BY <1>1 DEF Engine
<1>5. ackd = TRUE <=> (e.s = 3 /\ DataValid) \/ (e.s = 6 /\ ~Wait) \/ e.s = 7
  BY Zenon
<1>6. rdd = TRUE <=> \/ e.s = 1 /\ t = "read"
                     \/ e.s # 0 /\ ~(e.s = 1 /\ t = "read") /\ e.rd = TRUE /\ ~(e.s = 2 /\ ~Wait)
  BY <1>2
<1>7. wrd = TRUE <=> \/ e.s = 1 /\ t = "write"
                     \/ e.s # 0 /\ ~(e.s = 1 /\ t = "write") /\ e.wr = TRUE /\ ~(e.s = 6 /\ ~Wait)
  BY <1>2
<1> HIDE DEF ackd, rdd, wrd
<1> QED
  BY <1>3, <1>4, <1>5, <1>6, <1>7 DEF EngineMoves

\* The next state, spelled out.
LEMMA StateMoves ==
  ASSUME EngType, NEW x \in Chips
  PROVE  LET s == eng[x].s  t == prog[eng[x].active].transfer  n == EngineState(x) IN
         /\ s = 0 => IF Grant # NoChannel /\ Chip[Grant] = x THEN n = 1 ELSE n = 0
         /\ s = 1 => n = (IF t = "read" THEN 2 ELSE IF t = "write" THEN 6 ELSE 7)
         /\ s = 2 => n = (IF Wait THEN 2 ELSE 3)
         /\ s = 3 => n = (IF DataValid THEN 4 ELSE 3)
         /\ s = 4 => n = 5
         /\ s = 5 => n = 0
         /\ s = 6 => n = (IF Wait THEN 6 ELSE 4)
         /\ s = 7 => n = 4
         /\ s \in 0 .. 7 /\ n \in 0 .. 7
<1>1. eng[x].s \in 0 .. 7
  BY DEF EngType, Engines
<1> QED
  BY <1>1 DEF EngineState

\* At most one engine stays busy: a grant is given only while none is.
LEMMA EngineInvStep ==
  ASSUME EngType, EngineInv, NEW w, w.reg # "clear", Dma(w)
  PROVE  EngineInv'
<1>1. \A x \in Chips : EngineMoves(x)
  BY EngineClock
<1>2. \A x \in Chips :
        eng[x].s = 0 /\ eng'[x].s # 0 =>
          Grant # NoChannel /\ Chip[Grant] = x /\ eng'[x].active = Grant /\ eng'[x].s = 1
  BY <1>1, StateMoves DEF EngineMoves
<1>3. Grant # NoChannel => \A x \in Chips : eng[x].s = 0
  BY GrantType DEF Busy
<1>4. \A x \in Chips : eng[x].s # 0 => eng'[x].active = eng[x].active
  BY <1>1 DEF EngineMoves
<1>5. \A x, y \in Chips : eng'[x].s # 0 /\ eng'[y].s # 0 => x = y
  BY <1>2, <1>3 DEF EngineInv
<1>6. \A x \in Chips : eng'[x].s # 0 => Chip[eng'[x].active] = x
  BY <1>2, <1>4 DEF EngineInv
<1>7. \A x \in Chips : eng'[x].ack = TRUE <=> eng'[x].s = 4
  BY <1>1, StateMoves DEF EngineMoves
<1> QED
  BY <1>5, <1>6, <1>7 DEF EngineInv

\* When a channel starts and when it ends.
RunMoves(c) ==
  LET e == eng[Chip[c]]  f == eng'[Chip[c]] IN
  /\ Runs(c) => f.active = c /\ f.s = EngineState(Chip[c]) /\ (e.s # 5 <=> Runs(c)')
  /\ ~Runs(c) /\ Runs(c)' => Grant = c /\ f.s = 1

\* Every channel starts and ends so.
LEMMA RunClock ==
  ASSUME EngType, EngineInv, NEW w, w.reg # "clear", Dma(w), NEW c \in Channels
  PROVE  RunMoves(c)
<1> DEFINE x == Chip[c]
<1>1. x \in Chips /\ EngineMoves(x) /\ eng[x].active \in Channels
  BY ChipType, EngineClock DEF EngType, Engines
<1>2. ~Runs(c) /\ Runs(c)' => eng[x].s = 0
  BY <1>1 DEF Runs, EngineMoves
<1>3. ~Runs(c) /\ Runs(c)' => Grant = c /\ eng'[x].s = 1
  BY <1>1, <1>2, StateMoves DEF Runs, EngineMoves
<1>4. Runs(c) => eng'[x].active = c /\ eng'[x].s = EngineState(x) /\ (eng[x].s # 5 <=> Runs(c)')
  BY <1>1, StateMoves DEF Runs, EngineMoves
<1> QED
  BY <1>3, <1>4 DEF RunMoves

\* A channel is acknowledged and its registers move on in state 4.
LEMMA AckIs ==
  ASSUME EngType, EngineInv, NEW c \in Channels
  PROVE  /\ Ack(c) <=> Runs(c) /\ eng[Chip[c]].s = 4
         /\ Update(Chip[c]) /\ Active(Chip[c]) = c <=> Runs(c) /\ eng[Chip[c]].s = 4
<1>1. Chip[c] \in Chips /\ eng[Chip[c]].ack \in BOOLEAN /\ eng[Chip[c]].s \in 0 .. 7
  BY ChipType DEF EngType, Engines
<1> QED
  BY <1>1 DEF EngineInv, Ack, Update, Active, Runs

-----------------------------------------------------------------------------
(* One clock of a channel whose registers nobody writes.                    *)

Acked(c) == Runs(c) /\ eng[Chip[c]].s = 4

RegistersMove(c) ==
  LET p == prog[c]  q == prog'[c] IN
  /\ q.base = p.base /\ q.bcnt = p.bcnt /\ q.dec = p.dec /\ q.auto = p.auto /\ q.transfer = p.transfer
  /\ ~Acked(c) => q.cur = p.cur /\ q.cnt = p.cnt
  /\ Acked(c) /\ p.cnt = 0 /\ p.auto = TRUE => q.cur = p.base /\ q.cnt = p.bcnt
  /\ Acked(c) /\ ~(p.cnt = 0 /\ p.auto = TRUE) => q.cur = AddressNext(p) /\ q.cnt = (p.cnt + Span - 1) % Span
  /\ page'[c] = page[c]

MaskMoves(c) ==
  /\ c \in mask' <=> c \in mask \/ (Acked(c) /\ prog[c].cnt = 0 /\ prog[c].auto = FALSE)
  /\ c \in tc' <=> Acked(c) /\ prog[c].cnt = 0
  /\ c \in pending' => dev[c].want = TRUE

\* Registers nobody writes move with the channel's own items only.
LEMMA RegistersClock ==
  ASSUME TypeInv, EngineInv, NEW w, Dma(w), NEW c \in Channels, w.ch # c
  PROVE  RegistersMove(c)
<1>1. prog'[c] = Program(c, w) /\ prog[c].auto \in BOOLEAN
  BY DEF Dma, TypeInv, ProgType, Progs
<1>2. Update(Chip[c]) /\ Active(Chip[c]) = c <=> Acked(c)
  BY AckIs DEF TypeInv, Acked
<1>3. Tc(c) <=> Acked(c) /\ prog[c].cnt = 0
  BY <1>2 DEF Tc
<1>4. page'[c] = page[c]
  BY DEF Dma, TypeInv, PageType
<1> DEFINE p == prog[c]
           q == prog'[c]
<1>5. q.base = p.base /\ q.bcnt = p.bcnt /\ q.dec = p.dec /\ q.auto = p.auto /\ q.transfer = p.transfer
  BY <1>1 DEF Program
<1>6. /\ q.cur = IF Tc(c) /\ p.auto THEN p.base
                 ELSE IF Update(Chip[c]) /\ Active(Chip[c]) = c THEN AddressNext(p) ELSE p.cur
      /\ q.cnt = IF Tc(c) /\ p.auto THEN p.bcnt
                 ELSE IF Update(Chip[c]) /\ Active(Chip[c]) = c THEN (p.cnt + Span - 1) % Span ELSE p.cnt
  BY <1>1 DEF Program
<1> QED
  BY <1>1, <1>2, <1>3, <1>4, <1>5, <1>6 DEF RegistersMove

\* A mask nobody writes is set by the channel's own last item only.
LEMMA MaskClock ==
  ASSUME TypeInv, EngineInv, NEW w, Dma(w), NEW c \in Channels, w.ch # c, w.reg # "clear", Spares(c, w)
  PROVE  MaskMoves(c)
<1>1. prog[c].auto \in BOOLEAN /\ dev[c].want \in BOOLEAN /\ c # "cascade"
  BY ConstantTypes DEF TypeInv, ProgType, Progs, DevType
<1>2. Tc(c) <=> Acked(c) /\ prog[c].cnt = 0
  BY AckIs DEF TypeInv, Acked, Tc
<1>3. c \in tc' <=> Acked(c) /\ prog[c].cnt = 0
  BY <1>2 DEF Dma, Ending
<1>4. c \in pending' => dev[c].want = TRUE
  BY <1>1 DEF Dma, Pending, Request
<1>5. w.reg \in {"mask", "unmask"} /\ c \in OfChip(w.ch) => c \notin {d \in Ending : ~prog[d].auto}
  BY <1>1 DEF Spares, Ending
<1>6. c \in {d \in Ending : ~prog[d].auto} <=> Acked(c) /\ prog[c].cnt = 0 /\ prog[c].auto = FALSE
  BY <1>1, <1>2 DEF Ending
<1>7. c \in mask' <=> c \in mask \/ c \in {d \in Ending : ~prog[d].auto}
  BY <1>5 DEF Dma, Mask
<1> QED
  BY <1>3, <1>4, <1>6, <1>7 DEF MaskMoves

\* The device of c and the count of its items.
DeviceMoves(c) ==
  /\ dev'[c].want \in BOOLEAN /\ dev'[c].term \in BOOLEAN
  /\ dev'[c].want = TRUE => dev[c].want = TRUE \/ (blk[c] # NoBlock /\ ~Programming(c))
  /\ dev[c].want = TRUE /\ ~Acked(c) => dev'[c].want = TRUE
  /\ dev'[c].n = (IF Acked(c) THEN dev[c].n + 1 ELSE dev[c].n)
  /\ dev'[c].term = TRUE <=> dev[c].term = TRUE \/ (c \in Floppy /\ c \in tc)
  /\ moved'[c] = (IF Acked(c) THEN moved[c] + 1 ELSE moved[c])
  /\ blk'[c] = blk[c]

\* Every device moves so in a clock with Devices.
LEMMA DeviceClock ==
  ASSUME TypeInv, EngineInv, Devices, Account, NEW c \in Channels
  PROVE  DeviceMoves(c)
<1>1. Ack(c) <=> Acked(c)
  BY AckIs DEF TypeInv, Acked
<1>2. dev[c].want \in BOOLEAN /\ dev[c].term \in BOOLEAN /\ dev[c].n \in Nat
  BY DEF TypeInv, DevType
<1>3. moved'[c] = (IF Acked(c) THEN moved[c] + 1 ELSE moved[c]) /\ blk'[c] = blk[c]
  BY <1>1 DEF Account
<1>4. PICK more \in SUBSET Channels :
        /\ c \in more => dev[c].want \/ (blk[c] # NoBlock /\ ~Programming(c))
        /\ c \notin more => ~dev[c].want \/ Ack(c)
        /\ dev'[c] = [want |-> c \in more, n |-> dev[c].n + (IF Ack(c) THEN 1 ELSE 0),
                      term |-> dev[c].term \/ (c \in Floppy /\ c \in tc)]
  BY DEF Devices
<1>5. dev'[c].want = (c \in more) /\ dev'[c].n = dev[c].n + (IF Ack(c) THEN 1 ELSE 0)
  BY <1>4
<1>6. dev'[c].term = (dev[c].term \/ (c \in Floppy /\ c \in tc))
  BY <1>4
<1>7. dev'[c].want \in BOOLEAN /\ dev'[c].term \in BOOLEAN
  BY <1>5, <1>6
<1>8. dev'[c].term = TRUE <=> dev[c].term = TRUE \/ (c \in Floppy /\ c \in tc)
  BY <1>2, <1>6
<1>9. /\ dev'[c].want = TRUE => dev[c].want = TRUE \/ (blk[c] # NoBlock /\ ~Programming(c))
      /\ dev[c].want = TRUE /\ ~Acked(c) => dev'[c].want = TRUE
  BY <1>1, <1>2, <1>4, <1>5
<1>10. dev'[c].n = (IF Acked(c) THEN dev[c].n + 1 ELSE dev[c].n)
  BY <1>1, <1>2, <1>5
<1> QED
  BY <1>3, <1>7, <1>8, <1>9, <1>10 DEF DeviceMoves

\* A granted channel is open and its device has asked.
LEMMA GrantOpen ==
  ASSUME NEW c \in Channels, Grant = c
  PROVE  c \in pending /\ c \notin mask
BY GrantType, ConstantTypes DEF NoChannel

\* The device of a granted channel keeps asking.
LEMMA WantedStep ==
  ASSUME TypeInv, EngineInv, NEW c \in Channels, Wanted(c), RunMoves(c), MaskMoves(c), DeviceMoves(c)
  PROVE  Wanted(c)'
<1> DEFINE e == eng[Chip[c]]
           f == eng'[Chip[c]]
<1>1. Chip[c] \in Chips /\ e.s \in 0 .. 7 /\ dev[c].want \in BOOLEAN
  BY ChipType DEF TypeInv, EngType, Engines, DevType
<1>2. Acked(c) => Runs(c)' /\ f.s = 5
  BY <1>1, StateMoves DEF RunMoves, Acked, TypeInv
<1>3. Runs(c) /\ f.s # 5 /\ Runs(c)' => e.s # 5 /\ e.s # 4
  BY <1>1, StateMoves DEF RunMoves, TypeInv
<1>4. ASSUME Runs(c)', f.s # 5 PROVE dev'[c].want = TRUE
  <2>1. CASE Runs(c)
    BY <1>3, <1>4, <2>1 DEF Wanted, DeviceMoves, Acked
  <2>2. CASE ~Runs(c)
    <3>1. c \in pending
      BY <1>4, <2>2, GrantOpen DEF RunMoves
    <3> QED
      BY <2>2, <3>1 DEF Wanted, DeviceMoves, Acked
  <2> QED
    BY <2>1, <2>2
<1>5. ASSUME c \in pending', ~(Runs(c)' /\ f.s = 5) PROVE dev'[c].want = TRUE
  BY <1>2, <1>5 DEF MaskMoves, DeviceMoves
<1>6. c \in tc' => Runs(c)' /\ f.s = 5
  BY <1>2 DEF MaskMoves
<1> QED
  BY <1>4, <1>5, <1>6 DEF Wanted

\* The engine keeps to the transfer of its channel.
LEMMA CourseStep ==
  ASSUME TypeInv, EngineInv, NEW c \in Channels, Course(c), RunMoves(c), RegistersMove(c), EngineMoves(Chip[c])
  PROVE  Course(c)'
<1> DEFINE e == eng[Chip[c]]
           f == eng'[Chip[c]]
<1> SUFFICES ASSUME Runs(c)'
             PROVE  /\ f.s \in {2, 3} => prog'[c].transfer = "read"
                    /\ f.s = 6 => prog'[c].transfer = "write"
                    /\ f.s = 7 => prog'[c].transfer = "verify"
                    /\ f.s \in {2, 3, 4, 6, 7} => f.addr = prog'[c].cur
  BY DEF Course
<1>1. Chip[c] \in Chips /\ e.s \in 0 .. 7 /\ prog[c].transfer \in {"read", "write", "verify"}
  BY ChipType DEF TypeInv, EngType, Engines, ProgType, Progs, Transfers
<1>2. prog'[c].transfer = prog[c].transfer
  BY DEF RegistersMove
<1>3. CASE ~Runs(c)
  BY <1>3 DEF RunMoves
<1>4. CASE Runs(c)
  <2>1. e.active = c /\ f.s = EngineState(Chip[c]) /\ e.s # 0
    BY <1>4 DEF RunMoves, Runs
  <2>2. /\ f.s \in {2, 3} => prog[c].transfer = "read"
        /\ f.s = 6 => prog[c].transfer = "write"
        /\ f.s = 7 => prog[c].transfer = "verify"
    BY <1>1, <1>4, <2>1, StateMoves DEF Course, TypeInv
  <2>3. f.s \in {2, 3, 4, 6, 7} => e.s \in {1, 2, 3, 6, 7}
    BY <1>1, <2>1, StateMoves DEF TypeInv
  <2>4. e.s \in {1, 2, 3, 6, 7} => prog'[c].cur = prog[c].cur
    BY DEF RegistersMove, Acked
  <2>5. e.s \in {1, 2, 3, 6, 7} => f.addr = prog[c].cur
    BY <1>4, <2>1 DEF EngineMoves, Course
  <2> QED
    BY <1>2, <2>2, <2>3, <2>4, <2>5
<1> QED
  BY <1>3, <1>4

\* The count register of an acknowledged channel says how far its block is.
LEMMA LastItem ==
  ASSUME TypeInv, NEW c \in Channels, blk[c] \in Blocks, Ready(c), Acked(c)
  PROVE  /\ Within(c) /\ Into(c) \in 0 .. blk[c].count /\ prog[c].cnt \in Numbers
         /\ prog[c].cnt = 0 <=> Into(c) = blk[c].count
         /\ (moved[c] + 1) % (blk[c].count + 1) = IF prog[c].cnt = 0 THEN 0 ELSE Into(c) + 1
         /\ moved[c] <= blk[c].count => Into(c) = moved[c]
<1>1. blk[c].count \in Nat /\ moved[c] \in Nat /\ blk[c].count + 1 \in Nat \ {0}
  BY BlockType DEF Numbers, TypeInv, BookType
<1>2. Within(c)
  BY DEF Ready, Over, Acked
<1>3. Into(c) \in 0 .. (blk[c].count + 1) - 1
  BY <1>1, Divides DEF Into
<1>4. (moved[c] + 1) % (blk[c].count + 1) = IF Into(c) = (blk[c].count + 1) - 1 THEN 0 ELSE Into(c) + 1
  BY <1>1, NextRemainder DEF Into
<1>5. prog[c].cnt = 0 <=> Into(c) = blk[c].count
  BY <1>1, <1>2, <1>3 DEF Within
<1>6. moved[c] <= blk[c].count => Into(c) = moved[c]
  BY <1>1 DEF Into
<1>7. prog[c].cnt \in Numbers
  BY DEF TypeInv, ProgType, Progs
<1> QED
  BY <1>1, <1>2, <1>3, <1>4, <1>5, <1>6, <1>7

\* A programmed channel stays in step with its block.
LEMMA ReadyStep ==
  ASSUME TypeInv, NEW c \in Channels, blk[c] \in Blocks, Ready(c),
         RunMoves(c), RegistersMove(c), MaskMoves(c), DeviceMoves(c)
  PROVE  Ready(c)'
<1> DEFINE b == blk[c]
<1>1. /\ b.count \in 0 .. Span - 1 /\ Span \in Nat \ {0} /\ moved[c] \in Nat /\ b \in AllBlocks
      /\ b.auto \in BOOLEAN /\ b.base \in Numbers
  BY BlockType, ConstantTypes DEF Numbers, TypeInv, BookType
<1>2. blk'[c] = b /\ moved'[c] = (IF Acked(c) THEN moved[c] + 1 ELSE moved[c])
  BY DEF DeviceMoves
<1>3. /\ ModeSet(prog'[c], b) /\ prog'[c].base = b.base /\ prog'[c].bcnt = b.count /\ page'[c] = b.page
  BY DEF Ready, ModeSet, RegistersMove
<1>4. CASE ~Acked(c)
  <2>1. prog'[c].cur = prog[c].cur /\ prog'[c].cnt = prog[c].cnt /\ moved'[c] = moved[c]
    BY <1>2, <1>4 DEF RegistersMove
  <2>2. Within(c) => Within(c)'
    BY <1>2, <2>1 DEF Within, Into
  <2>3. Over(c) => Over(c)'
    BY <1>2, <2>1, GrantOpen DEF Over, MaskMoves, RunMoves
  <2> QED
    BY <1>2, <1>3, <2>2, <2>3 DEF Ready
<1>5. CASE Acked(c)
  <2>1. /\ Within(c) /\ Into(c) \in 0 .. b.count /\ prog[c].cnt \in Numbers
        /\ prog[c].cnt = 0 <=> Into(c) = b.count
        /\ (moved[c] + 1) % (b.count + 1) = IF prog[c].cnt = 0 THEN 0 ELSE Into(c) + 1
        /\ moved[c] <= b.count => Into(c) = moved[c]
    BY <1>5, LastItem
  <2>2. moved'[c] = moved[c] + 1 /\ Into(c)' = IF prog[c].cnt = 0 THEN 0 ELSE Into(c) + 1
    BY <1>2, <1>5, <2>1 DEF Into
  <2>3. prog[c].auto = b.auto /\ prog[c].base = b.base /\ prog[c].bcnt = b.count /\ prog[c].dec = b.dec
    BY DEF Ready, ModeSet
  <2>4. CASE prog[c].cnt = 0 /\ b.auto = TRUE
    <3>1. prog'[c].cur = b.base /\ prog'[c].cnt = b.count
      BY <1>5, <2>3, <2>4 DEF RegistersMove
    <3>2. Within(c)'
      BY <1>1, <1>2, <2>2, <2>4, <3>1, AlongStart DEF Within
    <3> QED
      BY <1>2, <1>3, <3>2 DEF Ready
  <2>5. CASE prog[c].cnt = 0 /\ b.auto = FALSE
    <3>1. moved[c] = b.count
      BY <1>1, <2>1, <2>5 DEF Within
    <3>2. c \in mask'
      BY <1>5, <2>3, <2>5 DEF MaskMoves
    <3>3. Runs(c)' => eng'[Chip[c]].s = 5
      BY <1>5, ChipType, StateMoves DEF RunMoves, Acked, TypeInv
    <3>4. Over(c)'
      BY <1>2, <2>2, <2>5, <3>1, <3>2, <3>3 DEF Over
    <3> QED
      BY <1>2, <1>3, <3>4 DEF Ready
  <2>6. CASE prog[c].cnt # 0
    <3>1. Into(c) + 1 <= b.count /\ Into(c) \in Nat /\ prog[c].cnt = b.count - Into(c)
      BY <1>1, <2>1, <2>6 DEF Within
    <3>2. prog'[c].cur = AddressNext(prog[c]) /\ prog'[c].cnt = (prog[c].cnt + Span - 1) % Span
      BY <1>5, <2>6 DEF RegistersMove
    <3>3. AddressNext(prog[c]) = Along(b, Into(c) + 1)
      BY <1>1, <2>1, <2>3, <3>1, AddressSteps DEF Within
    <3>4. PICK k \in 1 .. Span - 1 : k = prog[c].cnt
      BY <2>1, <2>6 DEF Numbers
    <3>6. (k + Span - 1) % Span = k - 1
      BY <1>1, CountDown
    <3>7. prog'[c].cnt = b.count - (Into(c) + 1)
      BY <1>1, <3>1, <3>2, <3>4, <3>6
    <3>8. b.auto = TRUE \/ moved[c] + 1 <= b.count
      BY <1>1, <2>1, <3>1 DEF Within
    <3>9. Within(c)'
      BY <1>2, <2>2, <2>6, <3>2, <3>3, <3>7, <3>8 DEF Within
    <3> QED
      BY <1>2, <1>3, <3>9 DEF Ready
  <2> QED
    BY <1>1, <2>4, <2>5, <2>6
<1> QED
  BY <1>4, <1>5

\* A channel without a block stays as it is.
LEMMA FreshStep ==
  ASSUME TypeInv, NEW c \in Channels, blk[c] = NoBlock, Fresh(c),
         RunMoves(c), MaskMoves(c), DeviceMoves(c)
  PROVE  Fresh(c)'
<1>1. ~Runs(c)'
  BY GrantOpen DEF Fresh, RunMoves
<1>2. ~Acked(c)
  BY DEF Fresh, Acked
<1> QED
  BY <1>1, <1>2 DEF Fresh, MaskMoves, DeviceMoves

\* A channel that is being programmed, while the driver pauses.
LEMMA ClosedStep ==
  ASSUME TypeInv, NEW c \in Channels, Programming(c), Closed(c),
         RunMoves(c), RegistersMove(c), MaskMoves(c), DeviceMoves(c), todo' = todo, ff' = ff
  PROVE  Closed(c)'
<1>1. ~Runs(c)'
  BY GrantOpen DEF Closed, RunMoves
<1>2. ~Acked(c)
  BY DEF Closed, Acked
<1>3. c \notin tc' /\ moved'[c] = 0 /\ dev'[c].term = FALSE /\ (c \in mask' <=> c \in mask) /\ blk'[c] = blk[c]
  BY <1>2 DEF Closed, MaskMoves, DeviceMoves
<1>4. c \in mask' \/ (dev'[c].want = FALSE /\ c \notin pending')
  BY <1>3 DEF Closed, DeviceMoves, MaskMoves
<1>5. Stage(c, blk[c], Len(todo))'
  <2>1. /\ prog'[c].base = prog[c].base /\ prog'[c].cur = prog[c].cur /\ prog'[c].bcnt = prog[c].bcnt
        /\ prog'[c].cnt = prog[c].cnt /\ page'[c] = page[c]
        /\ (ModeSet(prog[c], blk[c]) => ModeSet(prog'[c], blk[c]))
    BY <1>2 DEF RegistersMove, ModeSet
  <2>2. Stage(c, blk[c], Len(todo))
    BY DEF Closed
  <2> QED
    BY <1>3, <2>1, <2>2 DEF Stage
<1> QED
  BY <1>1, <1>3, <1>4, <1>5 DEF Closed

-----------------------------------------------------------------------------
(* One clock of the channel the driver writes to.                           *)

OwnMoves(c, w) ==
  LET p == prog[c]  q == prog'[c]  high == ff[Chip[c]] IN
  /\ q.base = (IF w.reg = "addr" THEN SetDigit(p.base, high, w.v) ELSE p.base)
  /\ q.cur = (IF w.reg = "addr" THEN SetDigit(p.cur, high, w.v) ELSE p.cur)
  /\ q.bcnt = (IF w.reg = "count" THEN SetDigit(p.bcnt, high, w.v) ELSE p.bcnt)
  /\ q.cnt = (IF w.reg = "count" THEN SetDigit(p.cnt, high, w.v) ELSE p.cnt)
  /\ IF w.reg = "mode" THEN q.dec = w.v.dec /\ q.auto = w.v.auto /\ q.transfer = w.v.transfer
     ELSE q.dec = p.dec /\ q.auto = p.auto /\ q.transfer = p.transfer
  /\ page'[c] = (IF w.reg = "page" THEN w.v ELSE page[c])
  /\ c \in mask' <=> w.reg = "mask" \/ (w.reg # "unmask" /\ c \in mask)
  /\ c \notin tc' /\ (c \in pending' => dev[c].want = TRUE)
  /\ w.reg = "clearff" => ff'[Chip[c]] = FALSE
  /\ w.reg \in {"addr", "count"} => (ff'[Chip[c]] = TRUE <=> ff[Chip[c]] = FALSE)
  /\ w.reg \in {"mask", "unmask", "mode", "page"} => ff'[Chip[c]] = ff[Chip[c]]

\* The registers of the channel the driver writes to.
LEMMA OwnClock ==
  ASSUME TypeInv, EngineInv, NEW w, Suits(w), Dma(w), NEW c \in Channels, w.ch = c,
         w.reg \notin {"clear", "none"}, ~Acked(c)
  PROVE  OwnMoves(c, w)
<1>1. prog'[c] = Program(c, w) /\ prog[c].auto \in BOOLEAN /\ dev[c].want \in BOOLEAN /\ Chip[c] \in Chips
  BY ChipType DEF Dma, TypeInv, ProgType, Progs, DevType
<1>2. ~(Update(Chip[c]) /\ Active(Chip[c]) = c) /\ ~Tc(c)
  BY AckIs DEF TypeInv, Acked, Tc
<1> DEFINE p == prog[c]
           q == prog'[c]
<1>3. /\ q.base = (IF w.reg = "addr" THEN SetDigit(p.base, ff[Chip[c]], w.v) ELSE p.base)
      /\ q.cur = (IF w.reg = "addr" THEN SetDigit(p.cur, ff[Chip[c]], w.v) ELSE p.cur)
      /\ q.bcnt = (IF w.reg = "count" THEN SetDigit(p.bcnt, ff[Chip[c]], w.v) ELSE p.bcnt)
      /\ q.cnt = (IF w.reg = "count" THEN SetDigit(p.cnt, ff[Chip[c]], w.v) ELSE p.cnt)
  BY <1>1, <1>2 DEF Program
<1>4. IF w.reg = "mode" THEN q.dec = w.v.dec /\ q.auto = w.v.auto /\ q.transfer = w.v.transfer
      ELSE q.dec = p.dec /\ q.auto = p.auto /\ q.transfer = p.transfer
  BY <1>1 DEF Program
<1>5. page'[c] = (IF w.reg = "page" THEN w.v ELSE page[c])
  BY DEF Dma, TypeInv, PageType
<1>6. c \notin tc' /\ c \notin Ending
  BY <1>2 DEF Dma, Ending
<1>7. c \in pending' => dev[c].want = TRUE
  BY <1>1 DEF Dma, Pending, Request
<1>8. c \in mask' <=> w.reg = "mask" \/ (w.reg # "unmask" /\ c \in mask)
  BY <1>6 DEF Dma, Mask, Suits
<1>9. ff[Chip[c]] \in BOOLEAN /\ ff'[Chip[c]] = FlipFlop(Chip[c], w)
  BY <1>1 DEF Dma, TypeInv, FfType
<1>10. /\ w.reg = "clearff" => ff'[Chip[c]] = FALSE
       /\ w.reg \in {"addr", "count"} => (ff'[Chip[c]] = TRUE <=> ff[Chip[c]] = FALSE)
       /\ w.reg \in {"mask", "unmask", "mode", "page"} => ff'[Chip[c]] = ff[Chip[c]]
  BY <1>9 DEF FlipFlop
<1> QED
  BY <1>3, <1>4, <1>5, <1>6, <1>7, <1>8, <1>10 DEF OwnMoves

\* The writes of the driver, one by one, with n left.
WriteOf(b, n, w) ==
  /\ w.ch = b.ch
  /\ n = 9 => w.reg = "mask"
  /\ n = 8 => w.reg = "clearff"
  /\ n = 7 => w.reg = "mode" /\ w.v.dec = b.dec /\ w.v.auto = b.auto /\ w.v.transfer = b.transfer
  /\ n = 6 => w.reg = "addr" /\ w.v = b.base % Digit
  /\ n = 5 => w.reg = "addr" /\ w.v = b.base \div Digit
  /\ n = 4 => w.reg = "page" /\ w.v = b.page
  /\ n = 3 => w.reg = "count" /\ w.v = b.count % Digit
  /\ n = 2 => w.reg = "count" /\ w.v = b.count \div Digit
  /\ n = 1 => w.reg = "unmask"
  /\ w.reg \notin {"clear", "none"}

\* The sequence of a driver is made of these writes.
LEMMA SequenceWrites ==
  ASSUME NEW b, NEW n \in 1 .. 9
  PROVE  WriteOf(b, n, Sequence(b)[10 - n])
<1> DEFINE w(r, v) == [reg |-> r, ch |-> b.ch, v |-> v]
           m == [dec |-> b.dec, auto |-> b.auto, transfer |-> b.transfer]
<1>1. Sequence(b) = << w("mask", 0), w("clearff", 0), w("mode", m),
     w("addr", b.base % Digit), w("addr", b.base \div Digit), w("page", b.page),
     w("count", b.count % Digit), w("count", b.count \div Digit), w("unmask", 0) >>
  BY DEF Sequence
<1>2. m.dec = b.dec /\ m.auto = b.auto /\ m.transfer = b.transfer
  OBVIOUS
<1>3. \A r, v : w(r, v).reg = r /\ w(r, v).ch = b.ch /\ w(r, v).v = v
  OBVIOUS
<1> HIDE DEF w, m
<1>4. n \in {1, 2, 3, 4, 5, 6, 7, 8, 9}
  OBVIOUS
<1>5. CASE n = 1
  BY <1>1, <1>3, <1>5 DEF WriteOf
<1>6. CASE n = 2
  BY <1>1, <1>3, <1>6 DEF WriteOf
<1>7. CASE n = 3
  BY <1>1, <1>3, <1>7 DEF WriteOf
<1>8. CASE n = 4
  BY <1>1, <1>3, <1>8 DEF WriteOf
<1>9. CASE n = 5
  BY <1>1, <1>3, <1>9 DEF WriteOf
<1>10. CASE n = 6
  BY <1>1, <1>3, <1>10 DEF WriteOf
<1>11. CASE n = 7
  BY <1>1, <1>2, <1>3, <1>11 DEF WriteOf
<1>12. CASE n = 8
  BY <1>1, <1>3, <1>12 DEF WriteOf
<1>13. CASE n = 9
  BY <1>1, <1>3, <1>13 DEF WriteOf
<1> QED
  BY <1>4, <1>5, <1>6, <1>7, <1>8, <1>9, <1>10, <1>11, <1>12, <1>13

\* Each write brings the registers one stage on.
LEMMA StageStep ==
  ASSUME TypeInv, FfType', NEW c \in Channels, NEW b \in Blocks, NEW n \in 2 .. 9, NEW w,
         Stage(c, b, n), WriteOf(b, n, w), OwnMoves(c, w)
  PROVE  Stage(c, b, n - 1)'
<1> DEFINE p == prog[c]
           q == prog'[c]
           high == ff[Chip[c]]
<1>1. /\ p.base \in Numbers /\ p.cur \in Numbers /\ p.bcnt \in Numbers /\ p.cnt \in Numbers
      /\ b.base \in Numbers /\ b.count \in Numbers /\ high \in BOOLEAN /\ ff'[Chip[c]] \in BOOLEAN
  BY BlockType, ChipType DEF TypeInv, ProgType, Progs, FfType
<1>2. n \in {2, 3, 4, 5, 6, 7, 8, 9}
  OBVIOUS
<1>3. CASE n = 9
  BY <1>3 DEF Stage, WriteOf, OwnMoves
<1>4. CASE n = 8
  BY <1>4 DEF Stage, WriteOf, OwnMoves
<1>5. CASE n = 7
  BY <1>5 DEF Stage, WriteOf, OwnMoves, ModeSet
<1>6. CASE n = 6
  <2>1. w.reg = "addr" /\ w.v = b.base % Digit /\ high = FALSE
    BY <1>6 DEF Stage, WriteOf
  <2>2. q.base % Digit = b.base % Digit /\ q.cur % Digit = b.base % Digit
    <3>1. q.base = SetDigit(p.base, FALSE, b.base % Digit) /\ q.cur = SetDigit(p.cur, FALSE, b.base % Digit)
      BY <2>1 DEF OwnMoves
    <3> QED
      BY <1>1, <3>1, LowDigit, Halves
  <2>3. ff'[Chip[c]] = TRUE /\ c \in mask' /\ ModeSet(q, b)
    BY <1>6, <2>1 DEF Stage, OwnMoves, ModeSet
  <2> QED
    BY <1>6, <2>2, <2>3 DEF Stage
<1>7. CASE n = 5
  <2>1. w.reg = "addr" /\ w.v = b.base \div Digit /\ high = TRUE
    BY <1>7 DEF Stage, WriteOf
  <2>2. q.base = b.base /\ q.cur = b.base
    <3>1. q.base = SetDigit(p.base, TRUE, b.base \div Digit) /\ q.cur = SetDigit(p.cur, TRUE, b.base \div Digit)
      BY <2>1 DEF OwnMoves
    <3>2. p.base % Digit = b.base % Digit /\ p.cur % Digit = b.base % Digit
      BY <1>7 DEF Stage
    <3> QED
      BY <1>1, <3>1, <3>2, BothDigits
  <2>3. ff'[Chip[c]] = FALSE /\ c \in mask' /\ ModeSet(q, b)
    BY <1>1, <1>7, <2>1 DEF Stage, OwnMoves, ModeSet
  <2> QED
    BY <1>7, <2>2, <2>3 DEF Stage
<1>8. CASE n = 4
  BY <1>8 DEF Stage, WriteOf, OwnMoves, ModeSet
<1>9. CASE n = 3
  <2>1. w.reg = "count" /\ w.v = b.count % Digit /\ high = FALSE
    BY <1>9 DEF Stage, WriteOf
  <2>2. q.bcnt % Digit = b.count % Digit /\ q.cnt % Digit = b.count % Digit
    <3>1. q.bcnt = SetDigit(p.bcnt, FALSE, b.count % Digit) /\ q.cnt = SetDigit(p.cnt, FALSE, b.count % Digit)
      BY <2>1 DEF OwnMoves
    <3> QED
      BY <1>1, <3>1, LowDigit, Halves
  <2>3. /\ ff'[Chip[c]] = TRUE /\ c \in mask' /\ ModeSet(q, b) /\ q.base = b.base /\ q.cur = b.base /\ page'[c] = b.page
    BY <1>9, <2>1 DEF Stage, OwnMoves, ModeSet
  <2> QED
    BY <1>9, <2>2, <2>3 DEF Stage
<1>10. CASE n = 2
  <2>1. w.reg = "count" /\ w.v = b.count \div Digit /\ high = TRUE
    BY <1>10 DEF Stage, WriteOf
  <2>2. q.bcnt = b.count /\ q.cnt = b.count
    <3>1. q.bcnt = SetDigit(p.bcnt, TRUE, b.count \div Digit) /\ q.cnt = SetDigit(p.cnt, TRUE, b.count \div Digit)
      BY <2>1 DEF OwnMoves
    <3>2. p.bcnt % Digit = b.count % Digit /\ p.cnt % Digit = b.count % Digit
      BY <1>10 DEF Stage
    <3> QED
      BY <1>1, <3>1, <3>2, BothDigits
  <2>3. /\ ff'[Chip[c]] = FALSE /\ c \in mask' /\ ModeSet(q, b)
        /\ q.base = b.base /\ q.cur = b.base /\ page'[c] = b.page
    BY <1>1, <1>10, <2>1 DEF Stage, OwnMoves, ModeSet
  <2> QED
    BY <1>10, <2>2, <2>3 DEF Stage
<1> QED
  BY <1>2, <1>3, <1>4, <1>5, <1>6, <1>7, <1>8, <1>9, <1>10

\* The last write opens the channel, programmed as its block says.
LEMMA OpenStep ==
  ASSUME TypeInv, NEW c \in Channels, blk[c] \in Blocks, NEW w, Closed(c), Len(todo) = 1,
         WriteOf(blk[c], 1, w), OwnMoves(c, w), DeviceMoves(c), ~Acked(c)
  PROVE  Ready(c)'
<1> DEFINE b == blk[c]
<1>1. Stage(c, b, 1) /\ moved[c] = 0
  BY DEF Closed
<1>2. w.reg = "unmask"
  BY DEF WriteOf
<1>3. /\ ModeSet(prog'[c], b) /\ prog'[c].base = b.base /\ prog'[c].bcnt = b.count /\ page'[c] = b.page
      /\ prog'[c].cnt = b.count /\ prog'[c].cur = b.base
  BY <1>1, <1>2 DEF OwnMoves, Stage, ModeSet
<1>4. blk'[c] = b /\ moved'[c] = 0
  BY <1>1 DEF DeviceMoves
<1>5. b.count \in Nat /\ b \in AllBlocks
  BY BlockType DEF Numbers
<1>6. Into(c)' = 0
  BY <1>4, <1>5 DEF Into
<1>7. Along(b, 0) = b.base
  BY <1>5, AlongStart
<1>8. Within(c)'
  BY <1>3, <1>4, <1>5, <1>6, <1>7 DEF Within
<1> QED
  BY <1>3, <1>4, <1>8 DEF Ready

\* The channel the driver writes to.
LEMMA OwnStep ==
  ASSUME TypeInv, FfType', EngineInv, NEW c \in Channels, blk[c] \in Blocks, NEW w, Closed(c),
         NEW n \in 1 .. 9, Len(todo) = n, Len(todo)' = n - 1,
         WriteOf(blk[c], n, w), OwnMoves(c, w), RunMoves(c), DeviceMoves(c), Programming(c)
  PROVE  /\ n > 1 => Closed(c)'
         /\ n = 1 => Ready(c)'
         /\ Wanted(c)' /\ Course(c)'
<1>1. ~Runs(c)' /\ ~Acked(c)
  BY GrantOpen DEF Closed, RunMoves, Acked
<1>2. c \notin tc' /\ (c \in pending' => dev[c].want = TRUE)
  BY DEF OwnMoves
<1>3. /\ moved'[c] = 0 /\ blk'[c] = blk[c] /\ dev'[c].term = FALSE
      /\ dev[c].want = TRUE => dev'[c].want = TRUE
  BY <1>1 DEF Closed, DeviceMoves
<1>4. n = 1 => Ready(c)'
  BY <1>1, OpenStep
<1>5. ASSUME n > 1 PROVE Closed(c)'
  <2>0. PICK b \in Blocks : b = blk[c]
    OBVIOUS
  <2>1. n \in 2 .. 9 /\ Stage(c, b, n) /\ WriteOf(b, n, w)
    BY <1>5, <2>0 DEF Closed
  <2>2. Stage(c, b, n - 1)'
    BY <2>1, StageStep
  <2>3. c \in mask'
    BY <2>1, <2>2, <1>5 DEF Stage
  <2>4. blk'[c] = b /\ Len(todo') = n - 1
    BY <1>3, <2>0
  <2>5. Stage(c, blk[c], Len(todo))'
    BY <2>2, <2>4
  <2> QED
    BY <1>1, <1>2, <1>3, <2>3, <2>5 DEF Closed
<1> QED
  BY <1>1, <1>2, <1>3, <1>4, <1>5 DEF Wanted, Course

-----------------------------------------------------------------------------
(* The clock of the whole path.                                             *)

\* NoBlock is no block.
LEMMA NoBlockIsNone == NoBlock \notin Blocks
<1>1. NoBlock.ch = "none" /\ "none" \notin Channels
  BY ConstantTypes DEF NoBlock, NoChannel
<1> QED
  BY <1>1, BlockType

\* A channel nobody writes to keeps its invariant.
LEMMA UnwrittenStep ==
  ASSUME TypeInv, EngineInv, NEW c \in Channels, ChannelInv(c), NEW w, Dma(w),
         w.ch # c, w.reg # "clear", Spares(c, w),
         DeviceMoves(c), Programming(c)' <=> Programming(c),
         Programming(c) => todo' = todo /\ ff' = ff
  PROVE  ChannelInv(c)'
<1>1. RunMoves(c) /\ RegistersMove(c) /\ MaskMoves(c) /\ EngineMoves(Chip[c])
  BY RunClock, RegistersClock, MaskClock, EngineClock, ChipType DEF TypeInv
<1>2. Wanted(c)' /\ Course(c)'
  BY <1>1, WantedStep, CourseStep DEF ChannelInv
<1>3. blk'[c] = blk[c]
  BY DEF DeviceMoves
<1>4. CASE blk[c] = NoBlock
  <2>1. Fresh(c)'
    BY <1>1, <1>4, FreshStep DEF ChannelInv
  <2> QED
    BY <1>2, <1>3, <1>4, <2>1 DEF ChannelInv
<1>5. CASE blk[c] # NoBlock /\ Programming(c)
  <2>1. Closed(c)'
    BY <1>1, <1>5, ClosedStep DEF ChannelInv
  <2> QED
    BY <1>2, <1>3, <1>5, <2>1 DEF ChannelInv
<1>6. CASE blk[c] # NoBlock /\ ~Programming(c)
  <2>1. Ready(c)'
    BY <1>1, <1>6, ReadyStep DEF ChannelInv
  <2> QED
    BY <1>2, <1>3, <1>6, <2>1 DEF ChannelInv
<1> QED
  BY <1>4, <1>5, <1>6

\* What the driver has left to write is for its channel.
LEMMA DriverWrites ==
  ASSUME TodoType, NEW b \in Blocks, Driver(b)
  PROVE  /\ \A d : Programming(d) <=> todo # <<>> /\ d = b.ch
         /\ todo # <<>> => /\ Len(todo) \in 1 .. 9 /\ Len(Tail(todo)) = Len(todo) - 1
                           /\ WriteOf(b, Len(todo), Head(todo))
                           /\ \A i \in 1 .. Len(Tail(todo)) :
                                Tail(todo)[i] = Sequence(b)[(9 - Len(Tail(todo))) + i]
<1>1. todo \in Seq(Writes) /\ Len(todo) \in 0 .. 9
  <2>1. todo \in Seq(Writes) /\ Len(todo) <= 9
    BY DEF TodoType, Driver
  <2>2. PICK l \in Nat : l = Len(todo)
    BY <2>1
  <2>3. l <= 9
    BY <2>1, <2>2
  <2>4. l \in 0 .. 9
    BY <2>3
  <2> QED
    BY <2>1, <2>2, <2>4
<1>2. \A i \in 1 .. Len(todo) : todo[i].ch = b.ch
  <2> SUFFICES ASSUME NEW i \in 1 .. Len(todo) PROVE todo[i].ch = b.ch
    OBVIOUS
  <2>0. PICK l \in 0 .. 9 : l = Len(todo)
    BY <1>1
  <2>1. PICK n \in 1 .. 9 : 10 - n = (9 - l) + i
    <3>0. i \in 1 .. l
      BY <2>0
    <3>1. (l + 1) - i \in 1 .. 9 /\ 10 - ((l + 1) - i) = (9 - l) + i
      BY <3>0
    <3> QED
      BY <3>1
  <2>2. WriteOf(b, n, Sequence(b)[10 - n])
    BY SequenceWrites
  <2>3. todo[i] = Sequence(b)[10 - n]
    BY <2>0, <2>1 DEF Driver
  <2> QED
    BY <2>2, <2>3 DEF WriteOf
<1>3. todo # <<>> => Len(todo) >= 1
  BY <1>1
<1>4. \A d : Programming(d) <=> todo # <<>> /\ d = b.ch
  BY <1>1, <1>2, <1>3 DEF Programming
<1>5. ASSUME todo # <<>>
      PROVE  /\ Len(todo) \in 1 .. 9 /\ Len(Tail(todo)) = Len(todo) - 1
             /\ WriteOf(b, Len(todo), Head(todo))
             /\ \A i \in 1 .. Len(Tail(todo)) : Tail(todo)[i] = Sequence(b)[(9 - Len(Tail(todo))) + i]
  <2>1. Len(todo) \in 1 .. 9 /\ Len(Tail(todo)) = Len(todo) - 1 /\ Head(todo) = todo[1]
    BY <1>1, <1>3, <1>5
  <2>2. PICK n \in 1 .. 9 : n = Len(todo)
    BY <2>1
  <2>3. Head(todo) = Sequence(b)[10 - n]
    <3>1. todo[1] = Sequence(b)[(9 - n) + 1] /\ (9 - n) + 1 = 10 - n
      BY <2>1, <2>2 DEF Driver
    <3> QED
      BY <2>1, <3>1
  <2>4. WriteOf(b, n, Head(todo))
    BY <2>3, SequenceWrites
  <2>5. ASSUME NEW i \in 1 .. Len(Tail(todo))
        PROVE  Tail(todo)[i] = Sequence(b)[(9 - Len(Tail(todo))) + i]
    <3>1. Tail(todo)[i] = todo[i + 1] /\ i + 1 \in 1 .. n
      BY <1>1, <1>5, <2>1, <2>2
    <3>2. todo[i + 1] = Sequence(b)[(9 - n) + (i + 1)]
      BY <2>2, <3>1 DEF Driver
    <3>3. (9 - n) + (i + 1) = (9 - Len(Tail(todo))) + i
      <4>1. Len(Tail(todo)) = n - 1 /\ i \in 1 .. n - 1
        BY <2>1, <2>2
      <4>2. (9 - n) + (i + 1) = (9 - (n - 1)) + i
        BY <4>1
      <4> QED
        BY <4>1, <4>2
    <3> QED
      BY <3>1, <3>2, <3>3
  <2> QED
    BY <2>1, <2>2, <2>4, <2>5
<1> QED
  BY <1>4, <1>5

\* The boot ROM's writes find every channel closed and leave it so.
LEMMA BootStep ==
  ASSUME TypeInv, EngineInv, Booting, ChannelsInv, NEW w, Suits(w), Dma(w),
         w.reg = "clear" \/ (w.reg = "unmask" /\ w.ch = "cascade"), Devices, Account
  PROVE  EngineInv' /\ ChannelsInv'
<1>1. \A c \in Channels : Fresh(c) /\ blk[c] = NoBlock
  BY DEF Booting, ChannelsInv, ChannelInv
<1>2. \A x \in Chips : eng[x].s = 0 /\ eng[x].active \in Channels
  <2> SUFFICES ASSUME NEW x \in Chips, eng[x].s # 0 PROVE FALSE
    BY DEF TypeInv, EngType, Engines
  <2>1. eng[x].active \in Channels /\ Chip[eng[x].active] = x
    BY DEF TypeInv, EngType, Engines, EngineInv
  <2>2. Runs(eng[x].active)
    BY <2>1 DEF Runs
  <2> QED
    BY <1>1, <2>1, <2>2 DEF Fresh
<1>3. Grant = NoChannel
  BY <1>1, GrantType DEF Fresh
<1>4. \A x \in Chips : eng'[x].s = 0 /\ eng'[x].ack = FALSE
  <2> SUFFICES ASSUME NEW x \in Chips PROVE eng'[x].s = 0 /\ eng'[x].ack = FALSE
    OBVIOUS
  <2>1. eng'[x] = Engine(x, w)
    BY DEF Dma
  <2>2. EngineState(x) = 0
    BY <1>2, <1>3 DEF EngineState
  <2> QED
    BY <1>2, <2>1, <2>2 DEF Engine
<1>5. EngineInv'
  BY <1>4 DEF EngineInv
<1>6. ASSUME NEW c \in Channels PROVE ChannelInv(c)'
  <2>1. ~Runs(c)' /\ ~Acked(c) /\ ~Ack(c)
    BY <1>1, <1>4, AckIs, ChipType DEF Runs, Acked, Fresh, TypeInv
  <2>2. DeviceMoves(c)
    BY DeviceClock
  <2>3. c \notin tc' /\ c # "cascade"
    BY <1>2, ChipType, ConstantTypes DEF Dma, Ending, Tc, Update
  <2>4. c \in mask'
    BY <1>1, <2>3 DEF Fresh, Dma, Mask
  <2>5. c \notin pending'
    BY <1>1 DEF Fresh, Dma, Pending, Request
  <2>6. Fresh(c)'
    BY <1>1, <2>1, <2>2, <2>3, <2>4, <2>5 DEF Fresh, DeviceMoves
  <2>7. Wanted(c)' /\ Course(c)'
    BY <2>1, <2>3, <2>5 DEF Wanted, Course
  <2> QED
    BY <1>1, <2>2, <2>6, <2>7 DEF ChannelInv, DeviceMoves
<1> QED
  BY <1>5, <1>6 DEF ChannelsInv

\* A clock without a register write.
LEMMA PauseStep ==
  ASSUME TypeInv, EngineInv, DriverInv, ChannelsInv, Dma(NoWrite), Devices, Account, todo' = todo
  PROVE  EngineInv' /\ DriverInv' /\ ChannelsInv'
<1>1. NoWrite.reg = "none" /\ NoWrite.ch = "none" /\ "none" \notin Channels
  BY ConstantTypes DEF NoWrite, NoChannel
<1>2. ff' = ff
  <2>1. \A x \in Chips : FlipFlop(x, NoWrite) = ff[x]
    BY <1>1 DEF FlipFlop
  <2> QED
    BY <2>1 DEF Dma, TypeInv, FfType
<1>3. ASSUME NEW c \in Channels PROVE ChannelInv(c)'
  <2>1. DeviceMoves(c) /\ NoWrite.ch # c /\ Spares(c, NoWrite)
    BY <1>1, DeviceClock DEF Spares
  <2>2. Programming(c)' <=> Programming(c)
    BY DEF Programming
  <2> QED
    BY <1>1, <1>2, <2>1, <2>2, UnwrittenStep DEF ChannelsInv
<1>4. EngineInv'
  BY <1>1, EngineInvStep DEF TypeInv
<1>5. DriverInv'
  BY DEF Account, DriverInv, Booting, Driver
<1> QED
  BY <1>3, <1>4, <1>5 DEF ChannelsInv

\* With no write left no channel is being programmed.
LEMMA NoneLeft == ASSUME NEW c, Len(todo') = 0 PROVE ~Programming(c)'
BY DEF Programming

\* A register write of the driver of channel d.
LEMMA WriteStep ==
  ASSUME TypeInv, FfType', EngineInv, ChannelsInv, NEW d \in Channels, blk[d] \in Blocks, blk[d].ch = d,
         Driver(blk[d]), todo # <<>>, NEW w, w = Head(todo), Suits(w), Dma(w), Devices, Account, todo' = Tail(todo),
         \A c \in Channels : Spares(c, w)
  PROVE  EngineInv' /\ DriverInv' /\ ChannelsInv'
<1>0. PICK b \in Blocks : b = blk[d]
  OBVIOUS
<1>1. /\ \A c : Programming(c) <=> c = d
      /\ Len(todo) \in 1 .. 9 /\ Len(Tail(todo)) = Len(todo) - 1
      /\ WriteOf(b, Len(todo), w)
      /\ \A i \in 1 .. Len(Tail(todo)) : Tail(todo)[i] = Sequence(b)[(9 - Len(Tail(todo))) + i]
  BY <1>0, DriverWrites DEF TypeInv
<1>2. w.ch = d /\ w.reg \notin {"clear", "none"}
  BY <1>0, <1>1 DEF WriteOf
<1>3. EngineInv'
  BY <1>2, EngineInvStep DEF TypeInv
<1>4. blk' = blk /\ \A c \in Channels : DeviceMoves(c)
  BY DeviceClock DEF Account
<1>5. DriverInv'
  <2>1. Driver(b)'
    <3>1. Len(todo') <= 9
      BY <1>1
    <3> QED
      BY <1>1, <3>1 DEF Driver
  <2>2. blk'[d] = b
    BY <1>0, <1>4
  <2>3. Driver(blk[d])'
    BY <2>1, <2>2
  <2> QED
    BY <1>0, <2>2, <2>3 DEF DriverInv
<1>6. \A c \in Channels : c # d => ~Programming(c)'
  <2> SUFFICES ASSUME NEW c \in Channels, Programming(c)' PROVE c = d
    OBVIOUS
  <2>1. PICK i \in 1 .. Len(todo') : todo'[i].ch = c
    BY DEF Programming
  <2>2. todo \in Seq(Writes)
    BY DEF TypeInv, TodoType
  <2>3. todo'[i] = todo[i + 1] /\ i + 1 \in 1 .. Len(todo)
    BY <1>1, <2>1, <2>2
  <2>4. Programming(c)
    BY <2>1, <2>3 DEF Programming
  <2> QED
    BY <1>1, <2>4
<1>7. ASSUME NEW c \in Channels, c # d PROVE ChannelInv(c)'
  BY <1>1, <1>2, <1>4, <1>6, <1>7, UnwrittenStep DEF ChannelsInv
<1>8. ChannelInv(d)'
  <2>1. Closed(d) /\ Programming(d)
    BY <1>0, <1>1, NoBlockIsNone DEF ChannelsInv, ChannelInv
  <2>2. ~Acked(d) /\ RunMoves(d)
    BY <1>2, <2>1, RunClock DEF Closed, Acked, TypeInv
  <2>3. OwnMoves(d, w)
    BY <1>2, <2>2, OwnClock
  <2>4. PICK n \in 1 .. 9 : n = Len(todo)
    BY <1>1
  <2>5. WriteOf(blk[d], n, w) /\ Len(todo)' = n - 1
    BY <1>0, <1>1, <2>4
  <2>6. (n > 1 => Closed(d)') /\ (n = 1 => Ready(d)') /\ Wanted(d)' /\ Course(d)'
    BY <1>4, <2>1, <2>2, <2>3, <2>4, <2>5, OwnStep
  <2>7. Programming(d)' <=> n > 1
    <3>1. CASE n = 1
      <4>1. Len(todo') = 0
        BY <2>5, <3>1
      <4>4. ~Programming(d)'
        BY <4>1, NoneLeft
      <4> QED
        BY <3>1, <4>4
    <3>2. CASE n > 1
      <4>1. todo \in Seq(Writes) /\ 1 \in 1 .. Len(todo') /\ todo'[1] = todo[2] /\ 2 \in 1 .. Len(todo)
        BY <2>4, <2>5, <3>2 DEF TypeInv, TodoType
      <4>2. todo[2].ch = d
        <5>1. PICK m \in 1 .. 9 : m = n - 1 /\ 10 - m = (9 - n) + 2
          <6>1. n - 1 \in 1 .. 9 /\ 10 - (n - 1) = (9 - n) + 2
            BY <3>2
          <6> QED
            BY <6>1
        <5>2. WriteOf(b, m, Sequence(b)[10 - m])
          BY SequenceWrites
        <5>3. todo[2] = Sequence(b)[10 - m]
          BY <1>0, <2>4, <4>1, <5>1 DEF Driver
        <5> QED
          BY <1>0, <5>2, <5>3 DEF WriteOf
      <4> QED
        BY <3>2, <4>1, <4>2 DEF Programming
    <3> QED
      BY <3>1, <3>2
  <2>8. blk'[d] = b /\ b.ch = d /\ b # NoBlock
    BY <1>0, <1>4, NoBlockIsNone
  <2> QED
    BY <2>6, <2>7, <2>8 DEF ChannelInv
<1> QED
  BY <1>3, <1>5, <1>7, <1>8 DEF ChannelsInv

\* A device that is left alone.
LEMMA DeviceStays ==
  ASSUME NEW c \in Channels, dev'[c] = dev[c], moved'[c] = moved[c], blk'[c] = blk[c],
         dev[c].want \in BOOLEAN, dev[c].term \in BOOLEAN, ~Acked(c), c \notin tc
  PROVE  DeviceMoves(c)
BY DEF DeviceMoves

\* The driver begins with block b.
LEMMA StartStep ==
  ASSUME TypeInv, EngineInv, ChannelsInv, NEW b \in Blocks, Quiet(b.ch), Dma(NoWrite), todo = <<>>,
         todo' = Sequence(b), blk' = [blk EXCEPT ![b.ch] = b], moved' = [moved EXCEPT ![b.ch] = 0],
         dev' = [dev EXCEPT ![b.ch].term = FALSE], \A c \in Channels : ~Ack(c) /\ c \notin tc
  PROVE  EngineInv' /\ DriverInv' /\ ChannelsInv'
<1>1. NoWrite.reg = "none" /\ NoWrite.ch = "none" /\ "none" \notin Channels /\ b.ch \in Channels
  BY ConstantTypes, BlockType DEF NoWrite, NoChannel
<1>2. EngineInv'
  BY <1>1, EngineInvStep DEF TypeInv
<1>3. blk'[b.ch] = b /\ Len(todo') = 9 /\ b # NoBlock
  BY <1>1, SequenceType, NoBlockIsNone DEF TypeInv, BookType
<1>4. Driver(b)'
  BY <1>3 DEF Driver
<1>5. DriverInv'
  <2>1. Driver(blk[b.ch])'
    BY <1>3, <1>4
  <2> QED
    BY <1>1, <1>3, <2>1 DEF DriverInv
<1>6. \A i \in 1 .. 9 : Sequence(b)[i].ch = b.ch
  <2> SUFFICES ASSUME NEW i \in 1 .. 9 PROVE Sequence(b)[i].ch = b.ch
    OBVIOUS
  <2>1. PICK n \in 1 .. 9 : i = 10 - n
    <3>1. 10 - i \in 1 .. 9 /\ i = 10 - (10 - i)
      OBVIOUS
    <3> QED
      BY <3>1
  <2> QED
    BY <2>1, SequenceWrites DEF WriteOf
<1>7. \A c : Programming(c)' <=> c = b.ch
  BY <1>3, <1>6 DEF Programming
<1>8. \A c : ~Programming(c)
  BY DEF Programming
<1>9. \A c \in Channels : ~Acked(c) /\ MaskMoves(c) /\ RunMoves(c)
  BY <1>1, AckIs, MaskClock, RunClock DEF Acked, TypeInv, Spares
<1>10. ASSUME NEW c \in Channels, c # b.ch PROVE ChannelInv(c)'
  <2>1. dev'[c] = dev[c] /\ moved'[c] = moved[c] /\ blk'[c] = blk[c]
    BY <1>10 DEF TypeInv, DevType, BookType
  <2>2. dev[c].want \in BOOLEAN /\ dev[c].term \in BOOLEAN
    BY DEF TypeInv, DevType
  <2>3. DeviceMoves(c)
    <3>1. ~Acked(c) /\ c \notin tc
      BY <1>9
    <3> QED
      BY <2>1, <2>2, <3>1, DeviceStays
  <2> QED
    BY <1>1, <1>7, <1>8, <1>10, <2>3, UnwrittenStep DEF ChannelsInv, Spares
<1>11. ChannelInv(b.ch)'
  <2> DEFINE d == b.ch
  <2>1. ~Runs(d) /\ (d \in mask \/ (dev[d].want = FALSE /\ d \notin pending))
    BY <1>1 DEF Quiet, Runs, Active, TypeInv, DevType
  <2>2. ~Runs(d)'
    BY <1>1, <1>9, <2>1, GrantOpen DEF RunMoves
  <2>3. d \notin tc' /\ (d \in mask => d \in mask') /\ (d \in pending' => dev[d].want = TRUE)
    BY <1>1, <1>9 DEF MaskMoves
  <2>4. dev'[d].want = dev[d].want /\ dev'[d].term = FALSE /\ moved'[d] = 0
    BY <1>1 DEF TypeInv, DevType, BookType
  <2>5. Stage(d, b, 9)'
    BY DEF Stage
  <2>6. Stage(d, blk[d], Len(todo))'
    BY <1>3, <2>5
  <2>7. Closed(d)'
    BY <2>1, <2>2, <2>3, <2>4, <2>6 DEF Closed
  <2>8. Wanted(d)' /\ Course(d)'
    BY <2>2, <2>3, <2>4 DEF Wanted, Course
  <2> QED
    BY <1>3, <1>7, <2>7, <2>8 DEF ChannelInv
<1> QED
  BY <1>2, <1>5, <1>10, <1>11 DEF ChannelsInv

\* Every clock without the race keeps the invariant.
LEMMA PathStep ==
  ASSUME Unhurried, TypeInv, TypeInv', EngineInv, DriverInv, ChannelsInv, Clock
  PROVE  EngineInv' /\ DriverInv' /\ ChannelsInv'
<1>1. PICK w : /\ Suits(w) /\ Dma(w) /\ Rest
               /\ \/ w = NoWrite /\ StartBlock
                  \/ w = NoWrite /\ Devices /\ Account /\ todo' = todo
                  \/ todo # <<>> /\ w = Head(todo) /\ w \in Writes /\ Devices /\ Account /\ todo' = Tail(todo)
  BY WriteInClock
<1>2. CASE w = NoWrite /\ StartBlock
  <2>1. PICK b \in Blocks : /\ Quiet(b.ch) /\ Dma(NoWrite) /\ todo' = Sequence(b)
                            /\ blk' = [blk EXCEPT ![b.ch] = b] /\ moved' = [moved EXCEPT ![b.ch] = 0]
                            /\ dev' = [dev EXCEPT ![b.ch].term = FALSE]
                            /\ \A c \in Channels : ~Ack(c) /\ c \notin tc
    BY <1>2 DEF StartBlock
  <2>2. todo = <<>>
    BY <1>2 DEF StartBlock
  <2> QED
    BY <2>1, <2>2, StartStep
<1>3. CASE w = NoWrite /\ Devices /\ Account /\ todo' = todo
  BY <1>1, <1>3, PauseStep
<1>4. CASE todo # <<>> /\ w = Head(todo) /\ Devices /\ Account /\ todo' = Tail(todo)
  <2>1. CASE Booting
    <3>1. todo \in Seq(Writes) /\ w = todo[1] /\ 1 \in 1 .. Len(todo)
      BY <1>4 DEF TypeInv, TodoType
    <3>2. w.reg = "clear" \/ (w.reg = "unmask" /\ w.ch = "cascade")
      BY <2>1, <3>1 DEF Booting
    <3>3. EngineInv' /\ ChannelsInv'
      BY <1>1, <1>4, <2>1, <3>2, BootStep
    <3>4. \A i \in 1 .. Len(todo') : todo'[i] = todo[i + 1] /\ i + 1 \in 1 .. Len(todo)
      BY <1>4, <3>1
    <3>5. Booting'
      BY <1>4, <2>1, <3>4 DEF Booting, Account
    <3> QED
      BY <3>3, <3>5 DEF DriverInv
  <2>2. CASE ~Booting
    <3>1. PICK d \in Channels : blk[d] \in Blocks /\ blk[d].ch = d /\ Driver(blk[d])
      BY <2>2 DEF DriverInv
    <3>2. FfType'
      BY DEF TypeInv
    <3>3. \A c \in Channels : Spares(c, w)
      BY <1>4 DEF Unhurried
    <3> QED
      BY <1>1, <1>4, <3>1, <3>2, <3>3, WriteStep
  <2> QED
    BY <2>1, <2>2
<1> QED
  BY <1>1, <1>2, <1>3, <1>4

\* The invariant holds at first.
LEMMA PathInit ==
  ASSUME Init
  PROVE  EngineInv /\ DriverInv /\ ChannelsInv
<1> USE DEF Init
<1>1. \A x \in Chips : eng[x].s = 0 /\ eng[x].ack = FALSE
  OBVIOUS
<1>2. EngineInv
  BY <1>1 DEF EngineInv
<1>3. Booting
  <2>1. /\ Len(todo) = 3 /\ todo[1].reg = "clear" /\ todo[2].reg = "clear"
        /\ todo[3].reg = "unmask" /\ todo[3].ch = "cascade"
    OBVIOUS
  <2>2. \A i \in 1 .. Len(todo) : i = 1 \/ i = 2 \/ i = 3
    BY <2>1
  <2> QED
    BY <2>1, <2>2 DEF Booting
<1>4. ASSUME NEW c \in Channels PROVE ChannelInv(c)
  <2>1. ~Runs(c)
    BY <1>1, ChipType DEF Runs
  <2>2. Fresh(c)
    BY <2>1 DEF Fresh
  <2> QED
    BY <2>1, <2>2 DEF ChannelInv, Wanted, Course, Fresh
<1> QED
  BY <1>2, <1>3, <1>4 DEF DriverInv, ChannelsInv

PathInv == TypeInv /\ EngineInv /\ DriverInv /\ ChannelsInv

\* The invariant through a step without the race.
LEMMA PathInvStep == PathInv /\ [Next]_vars /\ [Unhurried]_vars => PathInv'
<1> SUFFICES ASSUME PathInv, [Next]_vars, [Unhurried]_vars PROVE PathInv'
  OBVIOUS
<1>1. CASE Next /\ Unhurried
  BY <1>1, NextIsClock, TypeStep, PathStep DEF PathInv
<1>2. CASE UNCHANGED vars
  <2>1. TypeInv'
    BY <1>2 DEF PathInv, vars, TypeInv, ProgType, PageType, FfType, SetTypes, EngType, PortType, HeldType,
                SdType, MemType, DevType, TodoType, BookType
  <2>2. EngineInv' /\ DriverInv'
    BY <1>2 DEF PathInv, vars, EngineInv, DriverInv, Booting, Driver
  <2>3. ASSUME NEW c \in Channels PROVE ChannelInv(c)'
    <3>1. ChannelInv(c)
      BY DEF PathInv, ChannelsInv
    <3>2. (Runs(c)' <=> Runs(c)) /\ (Programming(c)' <=> Programming(c))
      BY <1>2 DEF vars, Runs, Programming
    <3>3. (Fresh(c) => Fresh(c)') /\ (Closed(c) => Closed(c)') /\ (Ready(c) => Ready(c)')
      BY <1>2, <3>2 DEF vars, Fresh, Closed, Stage, Ready, Within, Over, Into
    <3>4. (Wanted(c) => Wanted(c)') /\ (Course(c) => Course(c)')
      BY <1>2, <3>2 DEF vars, Wanted, Course
    <3> QED
      BY <1>2, <3>1, <3>2, <3>3, <3>4 DEF vars, ChannelInv
  <2> QED
    BY <2>1, <2>2, <2>3 DEF PathInv, ChannelsInv
<1> QED
  BY <1>1, <1>2

\* The invariant holds always.
LEMMA PathAlways == Spec /\ [][Unhurried]_vars => []PathInv
<1>1. Init => PathInv
  BY PathInit, TypeInit DEF PathInv
<1> QED
  BY <1>1, PathInvStep, PTL DEF Spec

\* A channel that runs is programmed.
LEMMA RunsReady ==
  ASSUME PathInv, NEW c \in Channels, Runs(c)
  PROVE  /\ blk[c] # NoBlock /\ ~Programming(c) /\ blk[c] \in Blocks /\ blk[c].ch = c
         /\ Ready(c) /\ Wanted(c) /\ Course(c)
BY DEF PathInv, ChannelsInv, ChannelInv, Fresh, Closed

\* The clock of a programmed channel.
LEMMA ChannelClock ==
  ASSUME Unhurried, PathInv, Clock, NEW c \in Channels, blk[c] # NoBlock, ~Programming(c), ~Programming(c)'
  PROVE  /\ DeviceMoves(c) /\ RunMoves(c) /\ RegistersMove(c) /\ MaskMoves(c) /\ EngineMoves(Chip[c])
         /\ \A x \in Chips : EngineMoves(x)
<1> USE DEF PathInv
<1>1. PICK w : /\ Suits(w) /\ Dma(w) /\ Rest
               /\ \/ w = NoWrite /\ StartBlock
                  \/ w = NoWrite /\ Devices /\ Account /\ todo' = todo
                  \/ todo # <<>> /\ w = Head(todo) /\ w \in Writes /\ Devices /\ Account /\ todo' = Tail(todo)
  BY WriteInClock
<1>2. NoWrite.reg = "none" /\ NoWrite.ch = "none" /\ "none" \notin Channels
  BY ConstantTypes DEF NoWrite, NoChannel
<1>3. w.ch # c /\ w.reg # "clear" /\ Spares(c, w) /\ DeviceMoves(c)
  <2>1. CASE w = NoWrite /\ Devices /\ Account
    BY <1>2, <2>1, DeviceClock DEF Spares
  <2>2. CASE w = NoWrite /\ StartBlock
    <3>1. PICK b \in Blocks : /\ todo' = Sequence(b)
                              /\ blk' = [blk EXCEPT ![b.ch] = b] /\ moved' = [moved EXCEPT ![b.ch] = 0]
                              /\ dev' = [dev EXCEPT ![b.ch].term = FALSE]
                              /\ \A d \in Channels : ~Ack(d) /\ d \notin tc
      BY <2>2 DEF StartBlock
    <3>2. Sequence(b)[1].ch = b.ch /\ Len(Sequence(b)) = 9
      <4>1. WriteOf(b, 9, Sequence(b)[10 - 9]) /\ 10 - 9 = 1
        BY SequenceWrites
      <4> QED
        BY <4>1, SequenceType DEF WriteOf
    <3>3. b.ch # c
      BY <3>1, <3>2 DEF Programming
    <3>4. dev'[c] = dev[c] /\ moved'[c] = moved[c] /\ blk'[c] = blk[c]
      BY <3>1, <3>3 DEF TypeInv, DevType, BookType
    <3>5. dev[c].want \in BOOLEAN /\ dev[c].term \in BOOLEAN /\ ~Acked(c) /\ c \notin tc
      BY <3>1, AckIs DEF TypeInv, DevType, Acked
    <3>6. DeviceMoves(c)
      BY <3>4, <3>5, DeviceStays
    <3> QED
      BY <1>2, <2>2, <3>6 DEF Spares
  <2>3. CASE todo # <<>> /\ w = Head(todo) /\ Devices /\ Account /\ todo' = Tail(todo)
    <3>1. PICK d \in Channels : blk[d] \in Blocks /\ blk[d].ch = d /\ Driver(blk[d])
      BY DEF DriverInv, Booting
    <3>2. PICK b \in Blocks : b = blk[d]
      BY <3>1
    <3>3. Programming(d) /\ WriteOf(b, Len(todo), w)
      BY <2>3, <3>1, <3>2, DriverWrites DEF TypeInv
    <3>4. Spares(c, w)
      BY <1>1, <2>3, <3>3 DEF Unhurried
    <3> QED
      BY <2>3, <3>1, <3>2, <3>3, <3>4, DeviceClock DEF WriteOf
  <2> QED
    BY <1>1, <2>1, <2>2, <2>3
<1>4. RunMoves(c) /\ RegistersMove(c) /\ MaskMoves(c)
  BY <1>1, <1>3, RunClock, RegistersClock, MaskClock DEF TypeInv
<1>5. \A x \in Chips : EngineMoves(x)
  BY <1>1, <1>3, EngineClock DEF TypeInv
<1> QED
  BY <1>3, <1>4, <1>5, ChipType

\* The channels that end in this clock are those that move the last item of their block.
LEMMA LastItemStep ==
  ASSUME PathInv, Clock
  PROVE  tc' = ended'
<1> USE DEF PathInv
<1>1. PICK w : Dma(w) /\ (StartBlock \/ Account)
  BY WriteInClock
<1>2. tc' = {c \in Channels : Tc(c)}
  BY <1>1 DEF Dma, Ending
<1>3. \A c \in Channels : (Ack(c) <=> Acked(c)) /\ (Tc(c) <=> Acked(c) /\ prog[c].cnt = 0)
  BY AckIs DEF TypeInv, Acked, Tc
<1>4. CASE StartBlock
  <2>1. ended' = {} /\ \A c \in Channels : ~Ack(c)
    BY <1>4 DEF StartBlock
  <2> QED
    BY <1>2, <1>3, <2>1
<1>5. CASE Account
  <2>1. ended' = {c \in Channels : Ack(c) /\ (moved[c] + 1) % (blk[c].count + 1) = 0}
    BY <1>5 DEF Account
  <2>2. ASSUME NEW c \in Channels, Acked(c)
        PROVE  (moved[c] + 1) % (blk[c].count + 1) = 0 <=> prog[c].cnt = 0
    <3>1. Runs(c) /\ Ready(c) /\ blk[c] \in Blocks
      BY <2>2, RunsReady DEF Acked
    <3>2. /\ Into(c) \in 0 .. blk[c].count /\ blk[c].count \in Nat
          /\ (moved[c] + 1) % (blk[c].count + 1) = IF prog[c].cnt = 0 THEN 0 ELSE Into(c) + 1
      BY <2>2, <3>1, LastItem, BlockType DEF Numbers
    <3>3. Into(c) + 1 # 0
      BY <3>2
    <3> QED
      BY <3>2, <3>3
  <2> QED
    BY <1>2, <1>3, <2>1, <2>2
<1> QED
  BY <1>1, <1>4, <1>5

\* The terminal count is signalled with the last item of the block and no other (dma.v's *_tc),
\* for blocks of any length in any direction, repeated or not, unless a mask write races with it.
THEOREM TcSafe == Spec /\ [][Unhurried]_vars => []TcOnLast
<1>1. Init => TcOnLast
  BY DEF Init, TcOnLast
<1>2. PathInv /\ TcOnLast /\ [Next]_vars => TcOnLast'
  <2> SUFFICES ASSUME PathInv, TcOnLast, [Next]_vars PROVE TcOnLast'
    OBVIOUS
  <2>1. CASE Next
    BY <2>1, NextIsClock, LastItemStep DEF TcOnLast
  <2>2. CASE UNCHANGED vars
    BY <2>2 DEF vars, TcOnLast
  <2> QED
    BY <2>1, <2>2
<1> QED
  BY <1>1, <1>2, PathAlways, PTL DEF Spec

-----------------------------------------------------------------------------
(* A device is acknowledged only when it asks.                              *)

\* The floppy's blocks are not repeated.  Its request is registered in pending before it has
\* seen the terminal count, so that a channel left open would be granted once more.
FloppySingle == \A b \in Blocks : b.ch \in Floppy => b.auto = FALSE

\* A device that has ended its command is behind a mask.
Ended(c) == /\ dev[c].term = TRUE => c \in mask /\ ~Runs(c)
            /\ c \in tc /\ c \in Floppy => c \in mask
EndedInv == \A c \in Channels : Ended(c)

\* A device that ended stays behind its mask.
LEMMA EndedStep ==
  ASSUME Unhurried, FloppySingle, PathInv, PathInv', EndedInv, Clock
  PROVE  EndedInv'
<1> SUFFICES ASSUME NEW c \in Channels PROVE Ended(c)'
  BY DEF EndedInv
<1>1. ChannelInv(c) /\ ChannelInv(c)' /\ Ended(c)
  BY DEF PathInv, ChannelsInv, EndedInv
<1>2. CASE (blk[c] = NoBlock)' \/ Programming(c)'
  <2>1. Fresh(c)' \/ Closed(c)'
    BY <1>1, <1>2 DEF ChannelInv
  <2> QED
    BY <2>1 DEF Fresh, Closed, Ended
<1>3. CASE (blk[c] # NoBlock)' /\ ~Programming(c)'
  <2>1. PICK w : /\ Dma(w)
                 /\ \/ StartBlock
                    \/ Devices /\ Account
    BY WriteInClock DEF PathInv
  <2>2. blk[c] # NoBlock
    <3>1. CASE Account
      BY <1>3, <3>1 DEF Account
    <3>2. CASE StartBlock
      <4>1. PICK b \in Blocks : todo' = Sequence(b) /\ blk' = [blk EXCEPT ![b.ch] = b]
        BY <3>2 DEF StartBlock
      <4>2. Sequence(b)[1].ch = b.ch /\ Len(Sequence(b)) = 9
        <5>1. WriteOf(b, 9, Sequence(b)[10 - 9]) /\ 10 - 9 = 1
          BY SequenceWrites
        <5> QED
          BY <5>1, SequenceType DEF WriteOf
      <4>3. b.ch # c
        BY <1>3, <4>1, <4>2 DEF Programming
      <4> QED
        BY <1>3, <4>1, <4>3 DEF PathInv, TypeInv, BookType
    <3> QED
      BY <2>1, <3>1, <3>2
  <2>3. CASE Programming(c)
    <3>1. Closed(c) /\ todo # <<>>
      BY <1>1, <2>2, <2>3 DEF ChannelInv, Programming
    <3>2. Devices /\ Account
      BY <2>1, <3>1 DEF StartBlock
    <3>3. DeviceMoves(c)
      BY <3>2, DeviceClock DEF PathInv
    <3>4. dev'[c].term = FALSE
      BY <3>1, <3>3 DEF DeviceMoves, Closed
    <3>5. c \notin tc'
      <4>1. ~Acked(c)
        BY <3>1 DEF Closed, Acked
      <4> QED
        BY <2>1, <4>1, AckIs DEF PathInv, TypeInv, Dma, Ending, Tc, Acked
    <3> QED
      BY <3>4, <3>5 DEF Ended
  <2>4. CASE ~Programming(c)
    <3>1. DeviceMoves(c) /\ RunMoves(c) /\ MaskMoves(c)
      BY <1>3, <2>2, <2>4, ChannelClock
    <3>2. c \in mask => c \in mask'
      BY <3>1 DEF MaskMoves
    <3>3. ASSUME dev'[c].term = TRUE PROVE c \in mask' /\ ~Runs(c)'
      <4>1. CASE dev[c].term = TRUE
        BY <1>1, <3>1, <3>2, <4>1, GrantOpen DEF Ended, RunMoves
      <4>2. CASE c \in Floppy /\ c \in tc
        BY <1>1, <3>1, <3>2, <4>2 DEF Ended, RunMoves, ChannelInv, Wanted
      <4> QED
        BY <3>1, <3>3, <4>1, <4>2 DEF DeviceMoves
    <3>4. ASSUME c \in tc', c \in Floppy PROVE c \in mask'
      <4>1. Acked(c) /\ prog[c].cnt = 0
        BY <3>1, <3>4 DEF MaskMoves
      <4>2. blk[c] \in Blocks /\ blk[c].ch = c /\ prog[c].auto = blk[c].auto
        BY <1>1, <2>2, <2>4 DEF ChannelInv, Ready, ModeSet
      <4>3. prog[c].auto = FALSE
        BY <3>4, <4>2 DEF FloppySingle
      <4> QED
        BY <3>1, <4>1, <4>3 DEF MaskMoves
    <3> QED
      BY <3>3, <3>4 DEF Ended
  <2> QED
    BY <2>3, <2>4
<1> QED
  BY <1>2, <1>3

\* A device is acknowledged only while it asks, and a block that is not repeated moves no more
\* items than its count says (pending, the grant and the masks of dma.v).
THEOREM AckSafe ==
  ASSUME FloppySingle
  PROVE  Spec /\ [][Unhurried]_vars => []AckWanted
<1>1. Init => EndedInv
  BY DEF Init, EndedInv, Ended
<1>2. PathInv /\ PathInv' /\ EndedInv /\ [Next]_vars /\ [Unhurried]_vars => EndedInv'
  <2> SUFFICES ASSUME PathInv, PathInv', EndedInv, [Next]_vars, [Unhurried]_vars PROVE EndedInv'
    OBVIOUS
  <2>1. CASE Next /\ Unhurried
    BY <2>1, NextIsClock, EndedStep
  <2>2. CASE UNCHANGED vars
    BY <2>2 DEF vars, EndedInv, Ended, Runs
  <2> QED
    BY <2>1, <2>2
<1>3. PathInv /\ EndedInv => AckWanted
  <2> SUFFICES ASSUME PathInv, EndedInv, NEW c \in Channels, Ack(c)
               PROVE  dev[c].want /\ ~dev[c].term /\ (blk[c].auto \/ moved[c] <= blk[c].count)
    BY DEF AckWanted
  <2>1. Acked(c) /\ Runs(c)
    BY AckIs DEF PathInv, TypeInv, Acked
  <2>2. Ready(c) /\ Wanted(c) /\ blk[c] \in Blocks
    BY <2>1, RunsReady
  <2>3. dev[c].want = TRUE
    BY <2>1, <2>2 DEF Wanted, Acked
  <2>4. dev[c].term # TRUE /\ dev[c].term \in BOOLEAN
    BY <2>1 DEF EndedInv, Ended, PathInv, TypeInv, DevType
  <2>5. blk[c].auto = TRUE \/ moved[c] <= blk[c].count
    BY <2>1, <2>2 DEF Ready, Within, Over, Acked
  <2> QED
    BY <2>3, <2>4, <2>5
<1> QED
  BY <1>1, <1>2, <1>3, PathAlways, PTL DEF Spec

-----------------------------------------------------------------------------
(* The data path: engine, port, hold register, SDRAM.                       *)

\* An engine raises its request lines in the states that wait for the hold register.
Lines(x) == (eng[x].rd = TRUE <=> eng[x].s = 2) /\ (eng[x].wr = TRUE <=> eng[x].s = 6)

\* What the SDRAM has taken is what the hold register still holds.
Taken == /\ held.valid = TRUE /\ sd.cell = held.cell
         /\ sd.st = (IF held.wr = TRUE THEN "WRITE" ELSE "READ")
         /\ held.wr = TRUE => mem[held.cell] = held.data
StoreInv == (sd.st = "READ" => sd.id = "dma") /\ (sd.ready = "dma" => Taken)

\* The port asks for nothing; no read is in the hold register or the SDRAM.
Still == port.rd = FALSE /\ port.wr = FALSE
Calm == sd.st # "READ" /\ sd.resp # "dma" /\ (held.valid = TRUE => held.wr = TRUE)

\* Where the read of cell k is: at the port, in the hold register, in the SDRAM, answered.
AtPort(k) == port.rd = TRUE /\ port.cell = k /\ held.valid = FALSE /\ Calm
AtHold(k) == /\ port.rd = FALSE /\ held.valid = TRUE /\ held.wr = FALSE /\ held.cell = k
             /\ sd.resp # "dma" /\ (sd.st = "READ" => sd.ready = "dma")
AtStore(k) == /\ port.rd = FALSE /\ held.valid = FALSE /\ sd.st = "READ" /\ sd.cell = k
              /\ sd.resp # "dma" /\ dmaWr = FALSE
AtReply(k) == /\ port.rd = FALSE /\ held.valid = FALSE /\ sd.st = "IDLE" /\ sd.resp = "dma"
              /\ sd.dout = mem[k] /\ dmaWr = FALSE
Reading(k) == AtPort(k) \/ AtHold(k) \/ AtStore(k) \/ AtReply(k)

\* The cell a channel is at, and the data path in each state of the engine that works for it.
Place(c) == <<page[c], prog[c].cur>>
Flow(x) ==
  LET e == eng[x]  c == e.active  t == prog[c].transfer IN
  /\ e.s # 3 => Calm
  /\ e.s \in {1, 5, 7} => Still
  /\ e.s = 2 => port.wr = FALSE /\ (port.rd = TRUE => held.valid = TRUE)
  /\ e.s = 3 => port.wr = FALSE /\ Reading(Place(c))
  /\ e.s = 6 => port.rd = FALSE /\ (port.wr = TRUE => held.valid = TRUE) /\ e.out = Item(c)
  /\ e.s = 4 /\ t = "write" => /\ port.wr = TRUE /\ port.rd = FALSE /\ held.valid = FALSE
                               /\ port.cell = Place(c) /\ port.data = Item(c)
  /\ e.s = 4 /\ t = "read" => Still /\ held.valid = FALSE /\ e.data = mem[Place(c)]
  /\ e.s = 4 /\ t = "verify" => Still
FlowInv == /\ (\A x \in Chips : eng[x].s = 0) => Still /\ Calm
           /\ \A x \in Chips : eng[x].s # 0 => Flow(x)

DataInv == (\A x \in Chips : Lines(x)) /\ StoreInv /\ FlowInv /\ MemoryExact

\* The SDRAM takes the request of the hold register, works on, answers a read, or does
\* something else.
Takes == /\ sd.st = "IDLE" /\ held.valid = TRUE /\ sd'.ready = "dma" /\ sd'.resp # "dma"
         /\ sd'.st = (IF held.wr = TRUE THEN "WRITE" ELSE "READ") /\ sd'.cell = held.cell
         /\ mem' = (IF held.wr = TRUE THEN [mem EXCEPT ![held.cell] = held.data] ELSE mem)
Works == /\ mem' = mem /\ sd'.ready # "dma" /\ sd'.resp # "dma"
         /\ sd'.st = sd.st /\ sd'.cell = sd.cell
Answers == /\ mem' = mem /\ sd'.ready # "dma" /\ sd.st = "READ" /\ sd'.st = "IDLE"
           /\ sd'.resp = "dma" /\ sd'.dout = mem[sd.cell]
Elsewhere == /\ mem' = mem /\ sd'.ready # "dma" /\ sd'.resp # "dma"
             /\ sd.st # "READ" /\ sd'.st # "READ"

\* Every step of the SDRAM is one of these.
LEMMA SdMoves ==
  ASSUME SdType, HeldType, StoreInv, SdStep
  PROVE  /\ Takes \/ Works \/ Answers \/ Elsewhere
         /\ sd'.st = "READ" => sd'.id = "dma"
<1>1. held.valid \in BOOLEAN /\ held.wr \in BOOLEAN
  BY DEF HeldType
<1>2. CASE SdQuiet
  BY <1>2 DEF SdQuiet, SdType, Elsewhere
<1>3. CASE SdRefresh
  BY <1>3 DEF SdRefresh, SdType, Elsewhere
<1>4. CASE SdTakesCpu
  BY <1>4 DEF SdTakesCpu, SdType, Elsewhere
<1>5. CASE SdTakesDma
  BY <1>1, <1>5 DEF SdTakesDma, SdType, Takes
<1>6. CASE SdWorks
  BY <1>6 DEF SdWorks, SdType, Works, StoreInv
<1>7. CASE SdEnds
  BY <1>7 DEF SdEnds, SdType, Answers, Elsewhere, StoreInv
<1> QED
  BY <1>2, <1>3, <1>4, <1>5, <1>6, <1>7 DEF SdStep

\* The hold register is released, loaded or left.
Released == held.valid = TRUE /\ sd.ready = "dma" /\ held'.valid = FALSE
Loaded == /\ held.valid = FALSE /\ (port.rd = TRUE \/ port.wr = TRUE)
          /\ held' = [valid |-> TRUE, wr |-> port.wr, cell |-> port.cell, data |-> port.data]
Left == /\ held' = held /\ (held.valid = TRUE => sd.ready # "dma")
        /\ held.valid = FALSE => port.rd = FALSE /\ port.wr = FALSE

\* Every clock of the hold register is one of these.
LEMMA HeldMoves ==
  ASSUME HeldType, PortType, Rest
  PROVE  /\ Released \/ Loaded \/ Left
         /\ dmaWr' = (IF sd.ready = "dma" THEN held.wr ELSE dmaWr)
<1>1. held.valid \in BOOLEAN /\ port.rd \in BOOLEAN /\ port.wr \in BOOLEAN
  BY DEF HeldType, PortType
<1>2. held' = Held /\ dmaWr' = (IF sd.ready = "dma" THEN held.wr ELSE dmaWr)
  BY DEF Rest, DmaWr
<1>3. CASE held.valid = TRUE /\ sd.ready = "dma"
  BY <1>2, <1>3 DEF Held, HeldType, Released
<1>4. CASE held.valid = FALSE /\ (port.rd = TRUE \/ port.wr = TRUE)
  BY <1>2, <1>4 DEF Held, Loaded
<1>5. CASE ~(held.valid = TRUE /\ sd.ready = "dma") /\ ~(held.valid = FALSE /\ (port.rd = TRUE \/ port.wr = TRUE))
  BY <1>1, <1>2, <1>5 DEF Held, Left
<1> QED
  BY <1>2, <1>3, <1>4, <1>5

\* A step of the SDRAM and the hold register, as the following lemmas use it.
Beat == /\ Takes \/ Works \/ Answers \/ Elsewhere
        /\ sd'.st = "READ" => sd'.id = "dma"
        /\ Released \/ Loaded \/ Left
        /\ dmaWr' = (IF sd.ready = "dma" THEN held.wr ELSE dmaWr)
        /\ HeldType /\ MemType

\* The SDRAM and the hold register stay in step.
LEMMA StoreStep ==
  ASSUME StoreInv, Beat
  PROVE  StoreInv'
<1>1. sd'.st = "READ" => sd'.id = "dma"
  BY DEF Beat
<1>2. ASSUME Takes PROVE Taken'
  <2>1. sd.ready # "dma" /\ held.valid = TRUE
    BY <1>2 DEF Takes, StoreInv, Taken
  <2>2. held' = held
    BY <2>1 DEF Beat, Released, Loaded, Left
  <2>3. held.wr = TRUE => mem'[held.cell] = held.data
    BY <1>2 DEF Takes, Beat, HeldType, MemType
  <2> QED
    BY <1>2, <2>1, <2>2, <2>3 DEF Takes, Taken
<1>3. Takes \/ sd'.ready # "dma"
  BY DEF Beat, Works, Answers, Elsewhere
<1> QED
  BY <1>1, <1>2, <1>3 DEF StoreInv

\* Without a read at the port none gets into the hold register or the SDRAM.
LEMMA CalmStep ==
  ASSUME StoreInv, Beat, Calm, port.rd = FALSE \/ held.valid = TRUE
  PROVE  Calm'
<1>1. held'.valid = TRUE => held'.wr = TRUE
  BY DEF Beat, Released, Loaded, Left, Calm
<1>2. sd'.st # "READ" /\ sd'.resp # "dma"
  BY DEF Beat, Takes, Works, Answers, Elsewhere, Calm
<1> QED
  BY <1>1, <1>2 DEF Calm

\* A read goes on from place to place.
LEMMA ReadOn ==
  ASSUME StoreInv, Beat, NEW k, Reading(k), ~AtReply(k), port.wr = FALSE, port'.rd = FALSE
  PROVE  Reading(k)'
<1>1. CASE AtPort(k)
  <2>1. Loaded /\ ~Takes /\ ~Answers
    BY <1>1 DEF AtPort, Calm, Beat, Released, Left, Takes, Answers
  <2>2. held'.valid = TRUE /\ held'.wr = FALSE /\ held'.cell = k
    BY <1>1, <2>1 DEF AtPort, Loaded
  <2>3. sd'.resp # "dma" /\ sd'.st # "READ"
    BY <1>1, <2>1 DEF AtPort, Calm, Beat, Works, Elsewhere
  <2> QED
    BY <2>2, <2>3 DEF AtHold, Reading
<1>2. CASE AtHold(k) /\ sd.ready = "dma"
  <2>1. sd.st = "READ" /\ sd.cell = k /\ Released /\ dmaWr' = FALSE
    BY <1>2 DEF AtHold, StoreInv, Taken, Beat, Loaded, Left
  <2>2. CASE Works
    BY <2>1, <2>2 DEF Works, Released, Reading, AtStore
  <2>3. CASE Answers
    BY <2>1, <2>3 DEF Answers, Released, Reading, AtReply
  <2> QED
    BY <2>1, <2>2, <2>3 DEF Beat, Takes, Elsewhere
<1>3. CASE AtHold(k) /\ sd.ready # "dma"
  <2>1. sd.st # "READ" /\ held' = held
    BY <1>3 DEF AtHold, Beat, Released, Loaded, Left
  <2>2. sd'.resp # "dma" /\ (sd'.st = "READ" => sd'.ready = "dma")
    BY <2>1 DEF Beat, Takes, Works, Answers, Elsewhere
  <2> QED
    BY <1>3, <2>1, <2>2 DEF AtHold, Reading
<1>4. CASE AtStore(k)
  <2>1. sd.ready # "dma" /\ dmaWr' = FALSE /\ held'.valid = FALSE
    BY <1>4 DEF AtStore, StoreInv, Taken, Beat, Released, Loaded, Left
  <2>2. CASE Works
    BY <1>4, <2>1, <2>2 DEF Works, AtStore, Reading
  <2>3. CASE Answers
    BY <1>4, <2>1, <2>3 DEF Answers, AtStore, AtReply, Reading
  <2> QED
    BY <1>4, <2>2, <2>3 DEF AtStore, Beat, Takes, Elsewhere
<1> QED
  BY <1>1, <1>2, <1>3, <1>4 DEF Reading

\* Only an answer to the DMA's read is taken for one.
LEMMA AnswerIs ==
  ASSUME NEW k, Reading(k)
  PROVE  DataValid <=> AtReply(k)
BY DEF Reading, AtPort, AtHold, AtStore, AtReply, Calm, DataValid

\* An answered read leaves the path empty.
LEMMA ReadDone ==
  ASSUME StoreInv, Beat, NEW k, AtReply(k), port.wr = FALSE
  PROVE  held'.valid = FALSE /\ mem' = mem /\ Calm'
<1>1. held'.valid = FALSE
  BY DEF AtReply, Beat, Released, Loaded, Left
<1>2. ~Takes /\ ~Answers
  BY DEF AtReply, Takes, Answers
<1> QED
  BY <1>1, <1>2 DEF AtReply, Beat, Works, Elsewhere, Calm

\* The contents of the memory, what the hold register will write included.
Contents == IF held.valid /\ held.wr THEN [mem EXCEPT ![held.cell] = held.data] ELSE mem

\* Without a write at the port the contents stay, whether the SDRAM takes the held write or not.
LEMMA ContentsStay ==
  ASSUME StoreInv, Beat, held.valid = TRUE \/ port.wr = FALSE
  PROVE  Contents' = Contents
<1>0. held.valid \in BOOLEAN /\ held.wr \in BOOLEAN /\ held.cell \in Cells /\ mem \in [Cells -> Items]
  BY DEF Beat, HeldType, MemType
<1>1. CASE held.valid = FALSE
  <2>1. mem' = mem
    BY <1>1 DEF Beat, Takes, Works, Answers, Elsewhere
  <2>2. held'.valid = FALSE \/ held'.wr = FALSE
    BY <1>1 DEF Beat, Released, Loaded, Left
  <2> QED
    BY <1>1, <2>1, <2>2 DEF Contents
<1>2. CASE held.valid = TRUE /\ sd.ready = "dma"
  <2>1. Released /\ Taken
    BY <1>2 DEF Beat, Loaded, Left, StoreInv
  <2>2. mem' = mem
    BY <2>1 DEF Beat, Takes, Works, Answers, Elsewhere, Taken
  <2>3. held.wr = TRUE => [mem EXCEPT ![held.cell] = held.data] = mem
    BY <1>0, <2>1 DEF Taken
  <2> QED
    BY <1>0, <1>2, <2>1, <2>2, <2>3 DEF Contents, Released
<1>3. CASE held.valid = TRUE /\ sd.ready # "dma"
  <2>1. held' = held
    BY <1>3 DEF Beat, Released, Loaded, Left
  <2>2. CASE mem' = mem
    BY <2>1, <2>2 DEF Contents
  <2>3. CASE Takes
    BY <1>0, <2>1, <2>3 DEF Contents, Takes
  <2> QED
    BY <2>2, <2>3 DEF Beat, Works, Answers, Elsewhere
<1> QED
  BY <1>0, <1>1, <1>2, <1>3

-----------------------------------------------------------------------------
(* One clock of the engines and the port.                                   *)

\* The SDRAM, the hold register and the port in one clock.
LEMMA BeatClock ==
  ASSUME TypeInv, StoreInv, SdStep, Clock
  PROVE  Beat /\ port' = Port
<1>1. PICK w : Dma(w) /\ Rest
  BY WriteInClock
<1>2. HeldType /\ MemType /\ SdType /\ PortType
  BY DEF TypeInv
<1>3. port' = Port
  BY <1>1 DEF Dma
<1> QED
  BY <1>1, <1>2, <1>3, SdMoves, HeldMoves DEF Beat

\* An engine that is idle stays so or starts, whatever is written.
LEMMA IdleClock ==
  ASSUME TypeInv, Clock, NEW x \in Chips, eng[x].s = 0
  PROVE  eng'[x].s \in {0, 1} /\ eng'[x].rd = FALSE /\ eng'[x].wr = FALSE
<1>1. PICK w : Dma(w)
  BY WriteInClock
<1>2. eng'[x] = Engine(x, w)
  BY <1>1 DEF Dma
<1>3. EngineState(x) \in {0, 1}
  BY DEF EngineState
<1> DEFINE e == eng[x]
           t == prog[e.active].transfer
           rdd == e.s # 0 /\ (IF e.s = 1 /\ t = "read" THEN TRUE ELSE e.rd /\ ~(e.s = 2 /\ ~Wait))
           wrd == e.s # 0 /\ (IF e.s = 1 /\ t = "write" THEN TRUE ELSE e.wr /\ ~(e.s = 6 /\ ~Wait))
<1>4. eng'[x].rd = rdd /\ eng'[x].wr = wrd
  BY <1>2 DEF Engine
<1>5. rdd = FALSE /\ wrd = FALSE
  BY Zenon
<1>6. eng'[x].s \in {0, 1}
  BY <1>2, <1>3 DEF Engine
<1> QED
  BY <1>4, <1>5, <1>6

\* Nobody programs a channel that runs.
LEMMA RunsUnwritten ==
  ASSUME PathInv, Clock, NEW c \in Channels, Runs(c)
  PROVE  ~Programming(c)'
<1>1. ~Programming(c) /\ todo \in Seq(Writes)
  BY RunsReady DEF PathInv, TypeInv, TodoType
<1>2. CASE NoAccess
  BY <1>1, <1>2 DEF NoAccess, Programming
<1>3. CASE RegisterWrite
  <2>1. todo # <<>> /\ todo' = Tail(todo)
    BY <1>3 DEF RegisterWrite
  <2>2. ASSUME NEW i \in 1 .. Len(todo') PROVE todo'[i].ch # c
    <3>1. Len(todo') = Len(todo) - 1 /\ Len(todo) \in Nat /\ todo'[i] = todo[i + 1]
      BY <1>1, <2>1
    <3>2. i + 1 \in 1 .. Len(todo)
      BY <2>2, <3>1
    <3> QED
      BY <1>1, <3>1, <3>2 DEF Programming
  <2> QED
    BY <2>2 DEF Programming
<1>4. CASE StartBlock
  <2>1. PICK b \in Blocks : Quiet(b.ch) /\ todo' = Sequence(b)
    BY <1>4 DEF StartBlock
  <2>2. b.ch # c
    BY <2>1 DEF Quiet, Runs, Active
  <2>3. ASSUME NEW i \in 1 .. 9 PROVE Sequence(b)[i].ch = b.ch
    <3>1. PICK n \in 1 .. 9 : 10 - n = i
      <4>1. 10 - i \in 1 .. 9 /\ 10 - (10 - i) = i
        OBVIOUS
      <4> QED
        BY <4>1
    <3> QED
      BY <3>1, SequenceWrites DEF WriteOf
  <2>4. Len(Sequence(b)) = 9
    BY SequenceType
  <2> QED
    BY <2>1, <2>2, <2>3, <2>4 DEF Programming
<1> QED
  BY <1>2, <1>3, <1>4 DEF Clock

\* The clock of the channel that runs.
LEMMA BusyClock ==
  ASSUME Unhurried, PathInv, Clock, NEW x \in Chips, eng[x].s # 0, NEW c, c = eng[x].active
  PROVE  /\ c \in Channels /\ Chip[c] = x /\ Runs(c) /\ Ready(c) /\ Course(c) /\ blk[c] \in Blocks
         /\ EngineMoves(x) /\ RegistersMove(c) /\ DeviceMoves(c)
<1>1. c \in Channels /\ Chip[c] = x /\ Runs(c)
  BY DEF PathInv, TypeInv, EngType, Engines, EngineInv, Runs
<1>2. blk[c] # NoBlock /\ ~Programming(c) /\ blk[c] \in Blocks /\ Ready(c) /\ Course(c) /\ ~Programming(c)'
  BY <1>1, RunsReady, RunsUnwritten
<1> QED
  BY <1>1, <1>2, ChannelClock

\* The port carries the lines of the engine that is busy.
LEMMA PortIs ==
  ASSUME EngType, EngineInv, NEW x \in Chips, eng[x].s # 0
  PROVE  Port = [rd |-> eng[x].rd, wr |-> eng[x].wr, cell |-> <<page[eng[x].active], eng[x].addr>>,
                 data |-> eng[x].out]
<1>1. Busy = {x}
  BY DEF Busy, EngineInv
<1>2. (IF "mas" \in Busy THEN "mas" ELSE "sla") = x
  BY <1>1 DEF Chips
<1> QED
  BY <1>1, <1>2 DEF Port

\* The request lines follow the engine's state.
LEMMA LinesStep ==
  ASSUME Unhurried, PathInv, Clock, NEW x \in Chips, Lines(x)
  PROVE  Lines(x)'
<1>1. CASE eng[x].s = 0
  <2>1. TypeInv
    BY DEF PathInv
  <2>2. eng'[x].s \in {0, 1} /\ eng'[x].rd = FALSE /\ eng'[x].wr = FALSE
    BY <1>1, <2>1, IdleClock
  <2> QED
    BY <2>2 DEF Lines
<1>2. CASE eng[x].s # 0
  <2>1. PICK c : c = eng[x].active
    OBVIOUS
  <2>2. EngineMoves(x)
    BY <1>2, <2>1, BusyClock
  <2> QED
    BY <1>2, <2>2, StateMoves DEF EngineMoves, Lines, PathInv, TypeInv
<1> QED
  BY <1>1, <1>2

\* An engine before its request and after its transfer leaves the path alone.
LEMMA FlowRest ==
  ASSUME NEW x \in Chips, eng'[x].s \in {1, 5, 7}, Still', Calm'
  PROVE  Flow(x)'
BY DEF Flow

\* The data path through one clock of the engine that is busy.
LEMMA FlowStep ==
  ASSUME Unhurried, PathInv, Clock, StoreInv, Beat, port' = Port,
         NEW x \in Chips, eng[x].s # 0, Lines(x), Flow(x)
  PROVE  IF eng[x].s = 5 THEN eng'[x].s = 0 /\ Still' /\ Calm' ELSE eng'[x].s # 0 /\ Flow(x)'
<1> DEFINE e == eng[x]
           f == eng'[x]
<1>1. PICK c : c = eng[x].active
  OBVIOUS
<1>2. /\ c \in Channels /\ Chip[c] = x /\ Runs(c) /\ Course(c)
      /\ EngineMoves(x) /\ RegistersMove(c) /\ DeviceMoves(c)
  BY <1>1, BusyClock
<1>3. EngType /\ EngineInv
  BY DEF PathInv, TypeInv
<1>4. PICK t : t = prog[c].transfer
  OBVIOUS
<1>5. t \in {"write", "read", "verify"} /\ prog'[c].transfer = t
  BY <1>2, <1>4 DEF PathInv, TypeInv, ProgType, Progs, Transfers, RegistersMove
<1>6. /\ port'.rd = e.rd /\ port'.wr = e.wr /\ port'.cell = <<page[c], e.addr>> /\ port'.data = e.out
      /\ e.rd \in BOOLEAN /\ e.wr \in BOOLEAN /\ e.s \in 0 .. 7
  BY <1>1, <1>3, PortIs DEF EngType, Engines
<1>7. f.active = c /\ f.s = EngineState(x)
  BY <1>1, <1>2 DEF EngineMoves
<1>8. e.s # 4 => ~Acked(c)
  BY <1>2 DEF Acked
<1>9. PICK k : k = Place(c)
  OBVIOUS
<1>10. PICK d : d = Item(c)
  OBVIOUS
<1>11. e.s # 4 => <<page'[c], prog'[c].cur>> = k /\ <<c, dev'[c].n>> = d
  BY <1>2, <1>8, <1>9, <1>10 DEF RegistersMove, DeviceMoves, Place, Item
<1>12. e.s # 3 => Calm
  BY DEF Flow
<1>13. /\ e.s = 1 => f.s = (IF t = "read" THEN 2 ELSE IF t = "write" THEN 6 ELSE 7)
       /\ e.s = 2 => f.s = (IF Wait THEN 2 ELSE 3)
       /\ e.s = 3 => f.s = (IF DataValid THEN 4 ELSE 3)
       /\ e.s = 4 => f.s = 5
       /\ e.s = 5 => f.s = 0
       /\ e.s = 6 => f.s = (IF Wait THEN 6 ELSE 4)
       /\ e.s = 7 => f.s = 4
  BY <1>1, <1>3, <1>4, <1>7, StateMoves
<1>14. e.s \notin {2, 6} => Still'
  BY <1>6 DEF Still, Lines
<1>15. CASE e.s = 5
  <2>1. Still /\ Calm
    BY <1>12, <1>15 DEF Flow
  <2>2. Calm'
    BY <2>1, CalmStep, Zenon DEF Still
  <2> QED
    BY <1>13, <1>14, <1>15, <2>2
<1>16. CASE e.s = 4
  <2>1. port.rd = FALSE /\ Calm
    BY <1>1, <1>4, <1>5, <1>16 DEF Flow, Still
  <2>2. Calm'
    BY <2>1, CalmStep, Zenon
  <2> QED
    BY <1>13, <1>14, <1>16, <2>2, FlowRest
<1>17. CASE e.s = 1
  <2>1. Still /\ Calm
    BY <1>12, <1>17 DEF Flow
  <2>2. Calm'
    BY <2>1, CalmStep, Zenon DEF Still
  <2>3. Still'
    BY <1>14, <1>17
  <2>4. t = "write" => f.out = d
    BY <1>1, <1>2, <1>4, <1>10, <1>17 DEF EngineMoves
  <2> QED
    BY <1>5, <1>7, <1>11, <1>13, <1>17, <2>2, <2>3, <2>4 DEF Flow, Still, Item
<1>18. CASE e.s = 7
  <2>1. Still /\ Calm /\ t = "verify"
    BY <1>2, <1>4, <1>12, <1>18 DEF Flow, Course
  <2>2. Calm'
    BY <2>1, CalmStep, Zenon DEF Still
  <2>3. Still'
    BY <1>14, <1>18
  <2> QED
    BY <1>5, <1>7, <1>13, <1>18, <2>1, <2>2, <2>3 DEF Flow
<1>19. CASE e.s = 2
  <2>1. port.wr = FALSE /\ (port.rd = TRUE => held.valid = TRUE) /\ t = "read" /\ e.addr = prog[c].cur
    BY <1>2, <1>4, <1>19 DEF Flow, Course
  <2>2. port'.rd = TRUE /\ port'.wr = FALSE /\ port'.cell = k
    BY <1>6, <1>9, <1>19, <2>1 DEF Lines, Place
  <2>3. port.rd \in BOOLEAN /\ held.valid \in BOOLEAN
    BY DEF PathInv, TypeInv, PortType, HeldType
  <2>4. Calm'
    <3>1. Calm /\ (port.rd = FALSE \/ held.valid = TRUE)
      BY <1>12, <1>19, <2>1, <2>3
    <3> QED
      BY <3>1, CalmStep, Zenon
  <2>5. CASE Wait
    <3>1. held'.valid = TRUE
      BY <2>3, <2>5 DEF Wait, Beat, Released, Loaded, Left
    <3> QED
      BY <1>13, <1>19, <2>2, <2>4, <2>5, <3>1 DEF Flow
  <2>6. CASE ~Wait
    <3>1. held'.valid = FALSE
      BY <2>1, <2>3, <2>6 DEF Wait, Beat, Released, Loaded, Left
    <3>2. f.s = 3
      BY <1>13, <1>19, <2>6
    <3> QED
      BY <1>7, <1>11, <1>19, <2>2, <2>4, <3>1, <3>2 DEF Flow, Reading, AtPort, Place
  <2> QED
    BY <2>5, <2>6
<1>20. CASE e.s = 6
  <2>1. port.rd = FALSE /\ (port.wr = TRUE => held.valid = TRUE) /\ e.out = d /\ t = "write" /\ e.addr = prog[c].cur
    BY <1>1, <1>2, <1>4, <1>10, <1>20 DEF Flow, Course
  <2>2. port'.rd = FALSE /\ port'.wr = TRUE /\ port'.cell = k /\ port'.data = d
    BY <1>6, <1>9, <1>20, <2>1 DEF Lines, Place
  <2>3. port.wr \in BOOLEAN /\ held.valid \in BOOLEAN
    BY DEF PathInv, TypeInv, PortType, HeldType
  <2>4. Calm'
    <3>1. Calm
      BY <1>12, <1>20
    <3> QED
      BY <2>1, <3>1, CalmStep, Zenon
  <2>5. CASE Wait
    <3>1. held'.valid = TRUE
      BY <2>3, <2>5 DEF Wait, Beat, Released, Loaded, Left
    <3>2. f.out = d
      BY <1>2, <1>20, <2>1 DEF EngineMoves
    <3>3. f.s = 6
      BY <1>13, <1>20, <2>5
    <3> QED
      BY <1>7, <1>11, <1>20, <2>2, <2>4, <3>1, <3>2, <3>3 DEF Flow, Item
  <2>6. CASE ~Wait
    <3>1. held'.valid = FALSE
      BY <2>1, <2>3, <2>6 DEF Wait, Beat, Released, Loaded, Left
    <3>2. f.s = 4
      BY <1>13, <1>20, <2>6
    <3> QED
      BY <1>5, <1>7, <1>11, <1>20, <2>1, <2>2, <2>4, <3>1, <3>2 DEF Flow, Item, Place
  <2> QED
    BY <2>5, <2>6
<1>21. CASE e.s = 3
  <2>1. port.wr = FALSE /\ Reading(k)
    BY <1>1, <1>9, <1>21 DEF Flow
  <2>2. Still' /\ t = "read"
    BY <1>2, <1>4, <1>14, <1>21 DEF Course
  <2>3. CASE AtReply(k)
    <3>1. held'.valid = FALSE /\ mem' = mem /\ Calm'
      BY <2>1, <2>3, ReadDone
    <3>2. f.s = 4 /\ DataValid
      BY <1>13, <1>21, <2>1, <2>3, AnswerIs
    <3>3. f.data = mem[k]
      BY <1>2, <1>21, <2>3, <3>2 DEF EngineMoves, AtReply
    <3> QED
      BY <1>5, <1>7, <1>11, <1>21, <2>2, <3>1, <3>2, <3>3 DEF Flow, Place
  <2>4. CASE ~AtReply(k)
    <3>1. Reading(k)'
      BY <2>1, <2>2, <2>4, ReadOn DEF Still
    <3>2. f.s = 3
      BY <1>13, <1>21, <2>1, <2>4, AnswerIs
    <3> QED
      BY <1>7, <1>11, <1>21, <2>2, <3>1, <3>2 DEF Flow, Still, Place, Reading, AtPort, AtHold, AtStore, AtReply
  <2> QED
    BY <2>3, <2>4
<1> QED
  BY <1>6, <1>15, <1>16, <1>17, <1>18, <1>19, <1>20, <1>21

\* The data path in every clock.
LEMMA FlowInvStep ==
  ASSUME Unhurried, PathInv, PathInv', Clock, Beat, port' = Port, DataInv
  PROVE  FlowInv'
<1>1. TypeInv /\ EngineInv /\ EngineInv' /\ StoreInv /\ FlowInv
  BY DEF PathInv, DataInv
<1>2. CASE \A x \in Chips : eng[x].s = 0
  <2>1. Still /\ Calm
    BY <1>1, <1>2 DEF FlowInv
  <2>2. Calm'
    BY <1>1, <2>1, CalmStep, Zenon DEF Still
  <2>3. Still'
    <3>1. Busy = {}
      BY <1>2 DEF Busy
    <3>2. port \in [rd : BOOLEAN, wr : BOOLEAN, cell : Cells, data : Items]
      BY <1>1 DEF TypeInv, PortType
    <3> QED
      BY <3>1, <3>2 DEF Port, Still
  <2>4. \A x \in Chips : eng'[x].s \in {0, 1}
    BY <1>1, <1>2, IdleClock
  <2>5. \A x \in Chips : eng'[x].s # 0 => Flow(x)'
    BY <2>2, <2>3, <2>4, FlowRest
  <2> QED
    BY <2>2, <2>3, <2>5 DEF FlowInv
<1>3. ASSUME NEW x \in Chips, eng[x].s # 0 PROVE FlowInv'
  <2>1. Lines(x) /\ Flow(x)
    BY <1>1, <1>3 DEF DataInv, FlowInv
  <2>2. IF eng[x].s = 5 THEN eng'[x].s = 0 /\ Still' /\ Calm' ELSE eng'[x].s # 0 /\ Flow(x)'
    BY <1>1, <1>3, <2>1, FlowStep
  <2>3. CASE eng[x].s = 5
    <3>1. \A y \in Chips : y # x => eng'[y].s \in {0, 1}
      <4>1. \A y \in Chips : y # x => eng[y].s = 0
        BY <1>1, <1>3 DEF EngineInv
      <4> QED
        BY <1>1, <4>1, IdleClock
    <3>2. \A y \in Chips : eng'[y].s # 0 => Flow(y)'
      BY <2>2, <2>3, <3>1, FlowRest
    <3> QED
      BY <2>2, <2>3, <3>2 DEF FlowInv
  <2>4. CASE eng[x].s # 5
    <3>1. \A y \in Chips : eng'[y].s # 0 => y = x
      BY <1>1, <2>2, <2>4 DEF EngineInv
    <3> QED
      BY <2>2, <2>4, <3>1 DEF FlowInv
  <2> QED
    BY <2>3, <2>4
<1> QED
  BY <1>2, <1>3

\* The cell a block expects its next item in is the one its channel is at.
LEMMA ExpectedIs ==
  ASSUME PathInv, NEW c \in Channels, Acked(c)
  PROVE  Expected(c) = Place(c) /\ blk[c].transfer = prog[c].transfer
<1>1. Ready(c)
  BY RunsReady DEF Acked
<1>2. Within(c)
  BY <1>1 DEF Ready, Over, Acked
<1> QED
  BY <1>1, <1>2 DEF Ready, ModeSet, Within, Into, Along, Expected, Place

\* One channel is acknowledged at a time.
LEMMA AckedOne ==
  ASSUME TypeInv, EngineInv, NEW c \in Channels, NEW d \in Channels, Acked(c), Acked(d)
  PROVE  c = d
BY ChipType DEF Acked, Runs, EngineInv

\* Memory and hold register together hold what the devices have handed over.
LEMMA MemoryStep ==
  ASSUME Unhurried, PathInv, Clock, Beat, DataInv
  PROVE  MemoryExact'
<1>1. TypeInv /\ EngineInv /\ StoreInv /\ FlowInv /\ expect = Contents
  BY DEF PathInv, DataInv, MemoryExact, Contents
<1>2. SUFFICES expect' = Contents'
  BY DEF MemoryExact, Contents
<1>3. \A c \in Channels : Ack(c) <=> Acked(c)
  BY <1>1, AckIs DEF TypeInv, Acked
<1>4. \/ Account
      \/ expect' = expect /\ \A c \in Channels : ~Acked(c)
  <2>1. PICK w : Account \/ StartBlock
    BY <1>1, WriteInClock
  <2> QED
    BY <1>3, <2>1 DEF StartBlock
<1>5. expect \in [Cells -> Items] /\ mem \in [Cells -> Items]
  BY <1>1 DEF TypeInv, MemType
<1>6. CASE \E c \in Channels : Acked(c) /\ prog[c].transfer = "write"
  <2>1. PICK c \in Channels : Acked(c) /\ prog[c].transfer = "write"
    BY <1>6
  <2>2. PICK k : k = Place(c)
    OBVIOUS
  <2>3. PICK d : d = Item(c)
    OBVIOUS
  <2>4. /\ port.wr = TRUE /\ port.rd = FALSE /\ held.valid = FALSE /\ port.cell = k /\ port.data = d
    <3>1. PICK x \in Chips : x = Chip[c]
      BY ChipType
    <3>2. eng[x].s = 4 /\ eng[x].active = c
      BY <2>1, <3>1 DEF Acked, Runs
    <3>3. Flow(x)
      BY <1>1, <3>2 DEF FlowInv
    <3> QED
      BY <2>1, <2>2, <2>3, <3>2, <3>3 DEF Flow
  <2>5. k \in Cells
    BY <1>1, <2>4 DEF TypeInv, PortType
  <2>6. held'.valid = TRUE /\ held'.wr = TRUE /\ held'.cell = k /\ held'.data = d
    BY <2>4 DEF Beat, Released, Loaded, Left
  <2>7. mem' = mem
    BY <2>4 DEF Beat, Takes, Works, Answers, Elsewhere
  <2>8. Contents' = [mem EXCEPT ![k] = d]
    BY <2>6, <2>7 DEF Contents
  <2>9. expect = mem
    BY <1>1, <2>4 DEF Contents
  <2>10. {a \in Channels : Ack(a)} = {c}
    BY <1>1, <1>3, <2>1, AckedOne
  <2>11. Expected(c) = k /\ blk[c].transfer = "write"
    BY <2>1, <2>2, ExpectedIs
  <2>12. expect' = [z \in Cells |-> IF z = k THEN d ELSE mem[z]]
    <3>1. (CHOOSE a \in {c} : TRUE) = c
      OBVIOUS
    <3>2. expect' = [z \in Cells |->
            IF \E a \in {c} : blk[a].transfer = "write" /\ Expected(a) = z
            THEN Item(CHOOSE a \in {c} : TRUE) ELSE expect[z]]
      BY <1>4, <2>1, <2>10 DEF Account
    <3>3. \A z \in Cells : (\E a \in {c} : blk[a].transfer = "write" /\ Expected(a) = z) <=> z = k
      BY <2>11
    <3>4. Item(CHOOSE a \in {c} : TRUE) = d
      BY <2>3, <3>1
    <3> QED
      BY <2>9, <3>2, <3>3, <3>4
  <2> QED
    BY <1>5, <2>5, <2>8, <2>12
<1>7. CASE \A c \in Channels : Acked(c) => prog[c].transfer # "write"
  <2>1. expect' = expect
    <3>1. CASE Account
      <4>1. \A z \in Cells : ~\E a \in {e \in Channels : Ack(e)} : blk[a].transfer = "write" /\ Expected(a) = z
        BY <1>3, <1>7, ExpectedIs
      <4>2. expect' = [z \in Cells |-> expect[z]]
        BY <3>1, <4>1 DEF Account
      <4> QED
        BY <1>5, <4>2
    <3> QED
      BY <1>4, <3>1
  <2>2. held.valid = TRUE \/ port.wr = FALSE
    <3>1. held.valid \in BOOLEAN /\ port.wr \in BOOLEAN
      BY <1>1 DEF TypeInv, HeldType, PortType
    <3>2. CASE \A x \in Chips : eng[x].s = 0
      BY <1>1, <3>2 DEF FlowInv, Still
    <3>3. ASSUME NEW x \in Chips, eng[x].s # 0 PROVE held.valid = TRUE \/ port.wr = FALSE
      <4>1. Flow(x) /\ eng[x].s \in 0 .. 7
        BY <1>1, <3>3 DEF FlowInv, TypeInv, EngType, Engines
      <4>2. PICK c \in Channels : c = eng[x].active
        BY <1>1 DEF TypeInv, EngType, Engines
      <4>3. eng[x].s = 4 => prog[c].transfer \in {"read", "verify"}
        BY <1>1, <1>7, <3>3, <4>2 DEF Acked, Runs, EngineInv, TypeInv, ProgType, Progs, Transfers
      <4> QED
        BY <3>1, <3>3, <4>1, <4>2, <4>3 DEF Flow, Still
    <3> QED
      BY <3>2, <3>3
  <2> QED
    BY <1>1, <2>1, <2>2, ContentsStay
<1> QED
  BY <1>6, <1>7

\* The data path keeps its invariant.
LEMMA DataAlways == Spec /\ [][Unhurried]_vars => [](PathInv /\ DataInv)
<1>1. Init => DataInv
  BY DEF Init, DataInv, Lines, StoreInv, Taken, FlowInv, Still, Calm, MemoryExact
<1>2. PathInv /\ PathInv' /\ DataInv /\ [Next]_vars /\ [Unhurried]_vars => DataInv'
  <2> SUFFICES ASSUME PathInv, PathInv', DataInv, [Next]_vars, [Unhurried]_vars PROVE DataInv'
    OBVIOUS
  <2>1. CASE Next /\ Unhurried
    <3>1. Unhurried /\ SdStep /\ Clock /\ TypeInv /\ StoreInv
      BY <2>1, NextIsClock DEF PathInv, DataInv
    <3>2. Beat /\ port' = Port
      BY <3>1, BeatClock
    <3>3. \A x \in Chips : Lines(x)'
      BY <3>1, LinesStep DEF DataInv
    <3> QED
      BY <3>1, <3>2, <3>3, StoreStep, FlowInvStep, MemoryStep DEF DataInv
  <2>2. CASE UNCHANGED vars
    <3>1. (\A x \in Chips : Lines(x)') /\ StoreInv' /\ MemoryExact'
      BY <2>2 DEF vars, DataInv, Lines, StoreInv, Taken, MemoryExact
    <3>2. FlowInv'
      BY <2>2 DEF vars, DataInv, FlowInv, Flow, Still, Calm, Reading, AtPort, AtHold, AtStore, AtReply, Place, Item
    <3> QED
      BY <3>1, <3>2 DEF DataInv
  <2> QED
    BY <2>1, <2>2
<1> QED
  BY <1>1, <1>2, PathAlways, PTL DEF Spec

\* Every item a device handed over is in the cell its block names or in the hold register on its
\* way there, and no other cell changes (dma.v's port, system.sv's hold register, sdram.v), for
\* any blocks and any channels.
THEOREM MemorySafe == Spec /\ [][Unhurried]_vars => []MemoryExact
<1>1. PathInv /\ DataInv => MemoryExact
  BY DEF DataInv
<1> QED
  BY <1>1, DataAlways, PTL

\* A device is given the item of the cell its block names, as the writes acknowledged before left
\* it: no answer to the CPU or to an earlier read is taken for it (dma_readdatavalid).
THEOREM ReadSafe == Spec /\ [][Unhurried]_vars => []ReadExact
<1>1. PathInv /\ DataInv => ReadExact
  <2> SUFFICES ASSUME PathInv, DataInv, NEW c \in Channels, Ack(c), blk[c].transfer = "read"
               PROVE  eng[Chip[c]].data = expect[Expected(c)]
    BY DEF ReadExact
  <2>1. Acked(c)
    BY AckIs DEF PathInv, TypeInv, Acked
  <2>2. Expected(c) = Place(c) /\ prog[c].transfer = "read"
    BY <2>1, ExpectedIs
  <2>3. PICK x \in Chips : x = Chip[c]
    BY ChipType
  <2>4. eng[x].s = 4 /\ eng[x].active = c
    BY <2>1, <2>3 DEF Acked, Runs
  <2>5. Flow(x)
    BY <2>4 DEF DataInv, FlowInv
  <2>6. held.valid = FALSE /\ eng[x].data = mem[Place(c)]
    BY <2>2, <2>4, <2>5 DEF Flow
  <2>7. expect = mem
    BY <2>6 DEF DataInv, MemoryExact
  <2> QED
    BY <2>2, <2>3, <2>6, <2>7
<1> QED
  BY <1>1, DataAlways, PTL

-----------------------------------------------------------------------------
(* Channels on chips of their own.                                          *)

\* Each chip serves one of the channels in use: the 16-bit Sound Blaster beside the floppy.
Apart == \A c, d \in Channels : Chip[c] = Chip[d] => c = d

\* The driver writes to a channel that does not run, and there is no other on its chip.
LEMMA UnhurriedStep ==
  ASSUME Apart, PathInv, Clock
  PROVE  Unhurried
<1> SUFFICES ASSUME todo # <<>>, todo' = Tail(todo), NEW c \in Channels, c \in OfChip(Head(todo).ch), Tc(c)
             PROVE  FALSE
  BY DEF Unhurried, Spares
<1>1. TypeInv /\ EngineInv /\ DriverInv
  BY DEF PathInv
<1>2. Runs(c)
  BY <1>1, AckIs DEF TypeInv, Tc
<1>3. ~Programming(c) /\ blk[c] # NoBlock
  BY <1>2, RunsReady
<1>4. PICK d \in Channels : blk[d] \in Blocks /\ blk[d].ch = d /\ Driver(blk[d])
  BY <1>1, <1>3 DEF DriverInv, Booting
<1>5. PICK b \in Blocks : b = blk[d]
  BY <1>4
<1>6. Programming(d) /\ WriteOf(b, Len(todo), Head(todo))
  BY <1>1, <1>4, <1>5, DriverWrites DEF TypeInv
<1>7. Head(todo).ch = d
  BY <1>4, <1>5, <1>6 DEF WriteOf
<1>8. Chip[c] = Chip[d]
  BY <1>7, ConstantTypes DEF OfChip, ChipOf
<1> QED
  BY <1>3, <1>6, <1>8 DEF Apart

\* With each channel on a chip of its own no mask write meets the last item of another channel
\* (the mask registers of dma.v), so that what is shown above holds of every behaviour.
THEOREM ApartSafe ==
  ASSUME Apart
  PROVE  Spec => [][Unhurried]_vars
<1>1. Init => PathInv
  BY PathInit, TypeInit DEF PathInv
<1>2. PathInv /\ [Next]_vars => [Unhurried]_vars
  BY NextIsClock, UnhurriedStep
<1>3. PathInv /\ [Next]_vars /\ [Unhurried]_vars => PathInv'
  BY PathInvStep
<1> QED
  BY <1>1, <1>2, <1>3, PTL DEF Spec
=============================================================================
