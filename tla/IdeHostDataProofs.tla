-------------------------- MODULE IdeHostDataProofs --------------------------
(***************************************************************************)
(* What a disk channel reads and writes, proved for every image, geometry, *)
(* set of tasks and buffer size, through every reset.                      *)
(*                                                                         *)
(* On top of the control invariant of IdeHostProofs, the data invariant    *)
(* follows a sector through the system.  The host has the guest's geometry *)
(* or is about to (GeometryInv, CutInv), so that its address is the        *)
(* guest's, sector after sector (AddressInv); the pointer of the           *)
(* management side counts with the host (PointerInv), so that every word   *)
(* goes to, or comes from, its own place of the buffer (FetchInv,          *)
(* BlockInv); and a block the guest has moved is in the buffer, in the     *)
(* image, or on its way from one to the other (WriteInv, KeptInv).         *)
(*                                                                         *)
(* A packet of a CD channel is followed the same way: from the guest's     *)
(* words to the host's copy (CollectInv), and from the answer to the       *)
(* blocks, whatever their size (StreamInv); nothing of an earlier packet   *)
(* is left (RestInv), and one that ends without an error has been answered *)
(* in full (EndInv, SenseInv).                                             *)
(*                                                                         *)
(* The hypotheses: no --jitter (an idle tick before the host takes up what *)
(* it has read lets the buffer's output move on); for the sectors,         *)
(* AddressesFit; for the packets, PacketsFit, and that a CD channel is     *)
(* reset between commands only.                                            *)
(***************************************************************************)
EXTENDS IdeHostProofs

-----------------------------------------------------------------------------
(* Addresses.                                                               *)

\* The host is in the middle of a read or of a write.
Reading == \/ h.st \in {"READ_REGS", "READ_SEND", "READ_WAIT_REQ"}
           \/ h.st \in Sets /\ h.next = "READ_WAIT_REQ"
Writing == \/ h.st \in {"WRITE_REGS", "WRITE_WAIT_REQ", "WRITE_RECV"}
           \/ h.st \in Sets /\ h.next = "WRITE_WAIT_REQ"

\* The first sector the host has yet to begin, from what is left of its count.
Ahead == GuestLba + (Total - h.count)
SectorAt(n) == IF n \in 0 .. Sectors - 1 THEN n ELSE -1

\* The host has the guest's geometry, or is about to set it.
GeometryInv ==
  kind = "hdd" =>
    /\ g.geometry => \/ h.heads = g.heads /\ h.spt = g.spt
                     \/ request = "command" /\ SetsGeometry(g.task) /\ ~Setting
    /\ SetsGeometry(g.task) => /\ g.heads = g.task.head + 1
                               /\ g.spt = IF g.task.count = 0 THEN Spt ELSE g.task.count
    /\ <<g.heads, g.spt>> \in Geometries
    /\ Active => g.task \in Tasks["hdd"]
    /\ Active /\ g.task.cmd \in {"READ", "WRITE"} /\ ~g.task.lba => g.geometry

\* A command that a reset has cut off may yet set the geometry: then the guest does not rely on it.
CutInv ==
  kind = "hdd" /\ ~Active =>
    /\ (request = "command" /\ Place \in Ends) \/ h.st = "GET_CMD" =>
         task.cmd # "GEOMETRY" \/ ~g.geometry
    /\ h.st = "DO_CMD" => h.cmd # "GEOMETRY" \/ ~g.geometry

AddressInv ==
  Active =>
    /\ Reading \/ Writing => h.lba = g.task.lba /\ (h.count # 0 => GetLba(h) = Ahead)
    /\ g.task.cmd = "READ" /\ (h.st = "READ_SEND" \/ Drq \/ (Setting /\ "DRQ" \in h.status)) =>
         /\ h.sector = SectorAt(Ahead - 1)
         /\ ~Reading => h.count = 0
    /\ Writing /\ h.st # "WRITE_REGS" => h.sector = SectorAt(Ahead)

-----------------------------------------------------------------------------
(* The buffer, seen from the host.                                          *)

\* The pointer of the management side, once the access under way has ended.
Settling == Pending \/ oldOp # "none"
Pointer == IF ~Settling THEN mgmtCnt ELSE IF bus.n = 15 THEN mgmtCnt + 1 ELSE 0

PointerInv ==
  /\ h.st \in Sends \cup Recvs => Pointer = h.cnt
  /\ h.st \notin Sends \cup Recvs \cup {"SET_REGS", "WRITE_REGS"}
       /\ ~(h.st = "SET_REGS_SEND" /\ h.cnt = 0) => Pointer = 0

\* What a read brings, two clocks later.
FetchInv ==
  h.st \in Recvs /\ h.cnt > 0 =>
    /\ turn = "tick" => h.wait \in {0, 1}
    /\ turn = "edge" => h.wait = IF Pending THEN 1 ELSE 0
    /\ turn = "tick" /\ h.wait = 1 => oldOp = "rd"
    /\ turn = "edge" /\ ~Pending => oldOp = "rd"
    /\ oldOp = "rd" => q[1 + (mgmtCnt % 2)] = buf[mgmtCnt]
    /\ turn = "tick" /\ h.wait = 0 => rdata = buf[h.cnt - 1]

\* The words the host has put into the buffer.
Sent == IF Pending THEN h.cnt - 1 ELSE h.cnt
SourceWord(k) == IF g.task.cmd # "READ" THEN <<"id", 0, k>>
                 ELSE IF h.sector = -1 THEN Zero ELSE image[h.sector][k]
Filled(n) == \A k \in 0 .. n - 1 : buf[k] = SourceWord(k)
Fills == h.st \in {"SEND_ID", "READ_SEND"}
Offered == /\ g.task.cmd \in {"READ", "IDENTIFY", "IDPKT"}
           /\ Drq \/ (Setting /\ "DRQ" \in h.status)

BlockInv ==
  Active =>
    /\ Fills => Filled(Sent) /\ (Pending => bus.d = SourceWord(Sent)) /\ Words = SectorWords
    /\ Offered => Filled(SectorWords) /\ Words = SectorWords

-----------------------------------------------------------------------------
(* What is written.                                                         *)

NewWords(n) == \A k \in 0 .. n - 1 : buf[k] = <<"new", Ahead, k>>
\* A block of a write is moved and not yet in the image.
Moving == (Place = "WRITE_WAIT_REQ" /\ BlockMoved) \/ h.st = "WRITE_RECV"
Owed == Active /\ Moving
\* The words of it that are in the image.
Stored == \A k \in 0 .. h.cnt - 2 : image[h.sector][k] = <<"new", h.sector, k>>
Kept(s) == s \in g.unsure \/ image[s] = g.disk[s] \/ (Owed /\ s = h.sector)

WriteInv ==
  /\ Active /\ g.task.cmd = "WRITE" /\ (Drq \/ (Setting /\ "DRQ" \in h.status)) => Words = SectorWords
  /\ Active /\ g.task.cmd = "WRITE" /\ Drq => NewWords(ioCnt + Stb)
  /\ Owed => NewWords(SectorWords)
  /\ Owed /\ h.sector # -1 => g.disk[h.sector] = NewSector(h.sector)
  /\ Active /\ h.st = "WRITE_RECV" /\ h.sector # -1 => Stored
  /\ ~Active /\ (h.st = "WRITE_RECV" \/ (Place = "WRITE_WAIT_REQ" /\ request = "data")) =>
       h.sector \in g.unsure \cup {-1}
KeptInv == \A s \in 0 .. Sectors - 1 : Kept(s)

-----------------------------------------------------------------------------
(* Sector numbers, and the three registers that hold them.                  *)

\* Quotient and remainder.
LEMMA Divides ==
  ASSUME NEW n \in Nat, NEW d \in Nat \ {0}
  PROVE  /\ n \div d \in Nat /\ n % d \in 0 .. d - 1
         /\ n = d * (n \div d) + (n % d)
  OBVIOUS

\* Quotient and remainder are determined by the number.
LEMMA DivideOnly ==
  ASSUME NEW d \in Nat \ {0}, NEW a \in Nat, NEW r \in 0 .. d - 1
  PROVE  ((d * a) + r) % d = r /\ ((d * a) + r) \div d = a
  OBVIOUS

\* A digit of base s under a digit of base c is below their product.
LEMMA PairBelow ==
  ASSUME NEW s \in Nat \ {0}, NEW c \in Nat \ {0}, NEW k \in 0 .. c - 1, NEW r \in 0 .. s - 1
  PROVE  (s * k) + r \in 0 .. (s * c) - 1
<1>1. s * k \in Nat /\ s * c \in Nat
  OBVIOUS
<1>2. s * (c - 1 - k) \in Nat
  OBVIOUS
<1>3. s * (c - 1 - k) = s * c - s - s * k
  OBVIOUS
<1> QED
  BY <1>1, <1>2, <1>3

\* The quotient of a number below d * m is below m.
LEMMA QuotientBelow ==
  ASSUME NEW d \in Nat \ {0}, NEW m \in Nat \ {0}, NEW n \in Nat, n < d * m
  PROVE  n \div d \in 0 .. m - 1
<1>1. n \div d \in Nat /\ n % d \in 0 .. d - 1 /\ n = d * (n \div d) + (n % d)
  BY Divides
<1> DEFINE a == n \div d
<1> HIDE DEF a
<1>2. a \in Nat /\ d * a <= n
  BY <1>1 DEF a
<1>3. ASSUME a >= m PROVE FALSE
  <2>1. d * (a - m) \in Nat /\ d * (a - m) = d * a - d * m
    BY <1>2, <1>3
  <2> QED
    BY <1>2, <2>1
<1> QED
  BY <1>2, <1>3 DEF a

\* Three digits of an address make it up again.
LEMMA ThreeDigits ==
  ASSUME NEW s \in Nat \ {0}, NEW c \in Nat \ {0}, NEW m \in Nat \ {0}, NEW n \in Nat, n < s * c * m
  PROVE  (n % s) + s * (((n \div s) % c) + c * ((n \div (s * c)) % m)) = n
<1> DEFINE a == n \div s
           r == n % s
           b == a \div c
           k == a % c
<1>1. a \in Nat /\ r \in 0 .. s - 1 /\ n = s * a + r
  BY Divides
<1> HIDE DEF a, r
<1>2. b \in Nat /\ k \in 0 .. c - 1 /\ a = c * b + k
  BY <1>1, Divides
<1> HIDE DEF b, k
<1>3. n = (s * c) * b + (s * k + r)
  BY <1>1, <1>2
<1>4. s * k + r \in 0 .. (s * c) - 1 /\ s * c \in Nat \ {0}
  BY <1>1, <1>2, PairBelow
<1>5. n \div (s * c) = b
  <2> DEFINE d == s * c
             e == s * k + r
  <2> HIDE DEF d, e
  <2>1. d \in Nat \ {0} /\ e \in 0 .. d - 1 /\ n = d * b + e
    BY <1>3, <1>4 DEF d, e
  <2>2. (d * b + e) \div d = b
    BY <1>2, <2>1, DivideOnly
  <2> QED
    BY <2>1, <2>2 DEF d
<1>6. b \in 0 .. m - 1
  <2>1. n \div (s * c) \in 0 .. m - 1
    BY <1>4, QuotientBelow
  <2> QED
    BY <1>5, <2>1
<1>7. b % m = b
  BY <1>6
<1>8. (n \div s) % c = k /\ n % s = r
  BY DEF a, k, r
<1>9. r + s * (k + c * b) = n
  BY <1>1, <1>2
<1> QED
  BY <1>5, <1>7, <1>8, <1>9

\* Cylinder, head and sector make up the number again.
LEMMA CylinderHeadSector ==
  ASSUME NEW p \in Nat \ {0}, NEW s \in Nat \ {0}, NEW n \in Nat
  PROVE  ((n \div (p * s)) * p + ((n % (p * s)) \div s)) * s + ((n % s) + 1) - 1 = n
<1> DEFINE d == p * s
           c == n \div d
           m == n % d
           a == m \div s
           r == m % s
<1>0. d \in Nat \ {0} /\ d = p * s
  OBVIOUS
<1> HIDE DEF d
<1>1. c \in Nat /\ m \in 0 .. d - 1 /\ n = d * c + m
  BY <1>0, Divides
<1> HIDE DEF c, m
<1>2. m \in Nat
  BY <1>0, <1>1
<1>3. a \in Nat /\ r \in 0 .. s - 1 /\ m = s * a + r
  BY <1>2, Divides
<1> HIDE DEF a, r
<1>4. p * c \in Nat
  BY <1>1
<1>5. n = s * (p * c + a) + r /\ p * c + a \in Nat
  BY <1>0, <1>1, <1>3, <1>4
<1>6. n % s = r
  BY <1>3, <1>5, DivideOnly
<1>7. (c * p + a) * s + (r + 1) - 1 = n
  BY <1>1, <1>3, <1>5
<1> QED
  BY <1>6, <1>7 DEF d, c, m, a

\* What PutLba writes, GetLba reads back.
LEMMA GetPut ==
  ASSUME HostType, NEW n \in Nat, n < LbaSpace, h.lba => n < SecBase * CylBase * HeadBase,
         NEW x, x.lba = h.lba, x.heads = h.heads, x.spt = h.spt,
         x.sec = PutLba(h, n).sec, x.cyl = PutLba(h, n).cyl, x.head = PutLba(h, n).head
  PROVE  GetLba(x) = n
<1>0. /\ DOMAIN h = HostFields /\ h.heads \in Nat \ {0} /\ h.spt \in Nat \ {0} /\ h.lba \in BOOLEAN
      /\ n % LbaSpace = n
  <2>1. DOMAIN h = HostFields /\ h.heads \in Nat \ {0} /\ h.spt \in Nat \ {0} /\ h.lba \in BOOLEAN
    BY DEF HostType
  <2>2. n % LbaSpace = n
    BY ConstantTypes
  <2> QED
    BY <2>1, <2>2
<1>1. CASE h.lba
  <2> DEFINE a == n % SecBase
             b == (n \div SecBase) % CylBase
             c == (n \div (SecBase * CylBase)) % HeadBase
  <2>1. PutLba(h, n) = [h EXCEPT !.sec = a, !.cyl = b, !.head = c]
    BY <1>1 DEF PutLba
  <2>2. a + SecBase * (b + CylBase * c) = n
    BY <1>1, ThreeDigits, ConstantTypes
  <2> HIDE DEF a, b, c
  <2>3. x.sec = a /\ x.cyl = b /\ x.head = c
    BY <1>0, <2>1 DEF HostFields
  <2>4. GetLba(x) = (a + SecBase * (b + CylBase * c)) % LbaSpace
    BY <1>1, <2>3 DEF GetLba
  <2> QED
    BY <1>0, <2>2, <2>4
<1>2. CASE ~h.lba
  <2> DEFINE a == (n % h.spt) + 1
             b == n \div (h.heads * h.spt)
             c == (n % (h.heads * h.spt)) \div h.spt
  <2>1. PutLba(h, n) = [h EXCEPT !.cyl = b, !.head = c, !.sec = a]
    BY <1>2 DEF PutLba
  <2>2. (b * h.heads + c) * h.spt + a - 1 = n
    BY <1>0, CylinderHeadSector
  <2> HIDE DEF a, b, c
  <2>3. x.sec = a /\ x.cyl = b /\ x.head = c
    BY <1>0, <2>1 DEF HostFields
  <2>4. GetLba(x) = ((b * h.heads + c) * h.spt + a - 1) % LbaSpace
    BY <1>2, <2>3 DEF GetLba
  <2> QED
    BY <1>0, <2>2, <2>4
<1> QED
  BY <1>0, <1>1, <1>2

\* The registers after NextSector hold the next number.
LEMMA NextLba ==
  ASSUME HostType, NextSector, h'.lba = h.lba, h'.heads = h.heads, h'.spt = h.spt,
         GetLba(h) + 1 < LbaSpace, h.lba => GetLba(h) + 1 < SecBase * CylBase * HeadBase
  PROVE  GetLba(h)' = GetLba(h) + 1
<1> DEFINE n == GetLba(h) + 1
<1>1. n \in Nat /\ n < LbaSpace /\ n % LbaSpace = n
  BY LbaType, ConstantTypes
<1>2. h.lba => n < SecBase * CylBase * HeadBase
  OBVIOUS
<1>3. h'.sec = PutLba(h, n).sec /\ h'.cyl = PutLba(h, n).cyl /\ h'.head = PutLba(h, n).head
  BY <1>1 DEF NextSector
<1> HIDE DEF n
<1>4. GetLba(h') = n
  BY <1>1, <1>2, <1>3, GetPut
<1> QED
  BY <1>4 DEF n, GetLba

\* The address of a command is a number.
LEMMA GuestLbaType ==
  ASSUME GuestType, Active
  PROVE  GuestLba \in Int
<1> DEFINE t == g.task
<1>1. t \in TaskFile /\ g.heads \in Nat /\ g.spt \in Nat
  BY DEF GuestType, Active
<1>2. t.sec \in Nat /\ t.cyl \in Nat /\ t.head \in Nat
  BY <1>1 DEF TaskFile
<1> HIDE DEF t
<1>3. CylBase * t.head \in Nat /\ t.cyl * g.heads \in Nat
  BY <1>1, <1>2, ConstantTypes
<1>4. SecBase * (t.cyl + CylBase * t.head) \in Nat /\ (t.cyl * g.heads + t.head) * g.spt \in Nat
  BY <1>1, <1>2, <1>3, ConstantTypes
<1> DEFINE a == SecBase * (t.cyl + CylBase * t.head)
           b == (t.cyl * g.heads + t.head) * g.spt
<1> HIDE DEF a, b
<1>5. t.sec + a \in Int /\ b + t.sec - 1 \in Int
  BY <1>2, <1>4 DEF a, b
<1> QED
  BY <1>5 DEF GuestLba, t, a, b

\* The sectors of a read or a write are numbers the registers can hold.
LEMMA AheadFits ==
  ASSUME AddressesFit, GuestType, GeometryInv, Active, Is("hdd", g.task.cmd), g.task.cmd \in {"READ", "WRITE"}
  PROVE  /\ GuestLba \in Nat /\ Total \in Nat \ {0} /\ GuestLba + Total <= LbaSpace
         /\ g.task.lba => GuestLba + Total <= SecBase * CylBase * HeadBase
<1> DEFINE t == g.task
           m == <<g.heads, g.spt>>
<1>1. t \in Tasks["hdd"] /\ m \in Geometries
  BY DEF GeometryInv, Is
<1>2. m[1] = g.heads /\ m[2] = g.spt
  OBVIOUS
<1>3. Total \in Nat \ {0}
  BY TotalType
<1>4. 0 <= GuestLba /\ GuestLba + Total <= LbaSpace
      /\ (t.lba => GuestLba + Total <= SecBase * CylBase * HeadBase)
  BY <1>1, <1>2 DEF AddressesFit, GuestLba, Total
<1>5. GuestLba \in Int
  BY GuestLbaType
<1> QED
  BY <1>3, <1>4, <1>5

\* A transfer starts at the address of the command.
LEMMA FirstLba ==
  ASSUME GuestLba \in Nat, GuestLba < LbaSpace, h.lba = g.task.lba, h.sec = g.task.sec, h.cyl = g.task.cyl,
         h.head = g.task.head, ~h.lba => h.heads = g.heads /\ h.spt = g.spt
  PROVE  GetLba(h) = GuestLba
<1>1. GuestLba % LbaSpace = GuestLba
  BY ConstantTypes
<1>2. GetLba(h) = GuestLba % LbaSpace
  BY DEF GetLba, GuestLba
<1> QED
  BY <1>1, <1>2

-----------------------------------------------------------------------------
(* The geometry, across a tick.                                             *)

\* A tick that leaves the host's geometry alone, and does not answer the command that sets it.
LEMMA GeometryFrame ==
  ASSUME GeometryInv, TickFrame, h'.heads = h.heads, h'.spt = h.spt,
         Setting' /\ request = "command" /\ SetsGeometry(g.task) => Setting
  PROVE  GeometryInv'
BY TickKeeps DEF GeometryInv, SetsGeometry

\* The fields that hold the geometry.
LEMMA KeepsGeometry ==
  ASSUME NEW S, Keeps(S), "heads" \notin S, "spt" \notin S
  PROVE  h'.heads = h.heads /\ h'.spt = h.spt
BY DEF Keeps, HostFields

\* Only ShortMove sets it.
LEMMA GeometryKept ==
  ASSUME ControlInv, GeometryInv, TickFrame, PlainMove \/ StoreMove, ~ShortMove
  PROVE  GeometryInv'
<1>1. ASSUME Active, request = "command", g.task.cmd = "GEOMETRY"
      PROVE  /\ h.st \notin Sends \cup Recvs \cup {"GET_RESET_DRIVE", "WRITE_REGS", "PACKET_HANDLE"}
             /\ h.st = "DO_CMD" => h.cmd = "GEOMETRY"
  BY <1>1 DEF ControlInv, PlaceInv, ServeInv, AskInv, Is, Sends, Recvs
<1>2. SetsGeometry(g.task) => Active /\ g.task.cmd = "GEOMETRY"
  BY DEF SetsGeometry, Active, NoTask
<1>3. CASE \/ StayMove \/ InitialMove \/ CommandMove \/ ResetMove \/ RestMove \/ StageMove \/ StagedMove
  <2>1. h'.heads = h.heads /\ h'.spt = h.spt
    BY <1>3, KeepsGeometry DEF StayMove, InitialMove, CommandMove, ResetMove, RestMove, StageMove, StagedMove
  <2>2. CASE StayMove
    <3>1. h'.st = h.st /\ h'.cnt = h.cnt /\ ~Pending' /\ ~Pending
      BY <2>2, TickKeeps DEF StayMove, Keeps, HostFields, NoPulse, Bus
    <3> QED
      BY <2>1, <3>1, GeometryFrame DEF Setting, SetDone
  <2>3. CASE ~StayMove
    <3>1. h'.st \notin Sets
      BY <1>3, <2>3
         DEF InitialMove, CommandMove, ResetMove, RestMove, StageMove, StagedMove, Keeps, HostFields, Sets
    <3> QED
      BY <2>1, <3>1, GeometryFrame DEF Setting
  <2> QED
    BY <2>2, <2>3
<1>4. CASE \/ IdentifyMove \/ TransferMove \/ ReadMove \/ ReadRegsMove \/ OverMove \/ ReadDataMove
           \/ WriteMove \/ WriteDataMove \/ PacketDataMove \/ RecvMove \/ ReceivedMove \/ AnswerMove
  <2>1. h'.heads = h.heads /\ h'.spt = h.spt
    BY <1>4, KeepsGeometry
       DEF IdentifyMove, TransferMove, ReadMove, ReadRegsMove, OverMove, ReadDataMove, WriteMove,
           WriteDataMove, PacketDataMove, RecvMove, ReceivedMove, AnswerMove
  <2>2. h'.st \notin Sets
    BY <1>4
       DEF IdentifyMove, TransferMove, ReadMove, ReadRegsMove, OverMove, ReadDataMove, WriteMove,
           WriteDataMove, PacketDataMove, RecvMove, ReceivedMove, AnswerMove, Keeps, HostFields, Sets, Recvs
  <2> QED
    BY <2>1, <2>2, GeometryFrame DEF Setting
<1>5. CASE SetMove \/ RegMove \/ RegsMove
  <2>1. h'.heads = h.heads /\ h'.spt = h.spt
    BY <1>5, KeepsGeometry DEF SetMove, RegMove, RegsMove
  <2>2. Setting' => Setting
    <3>1. CASE SetMove
      BY <3>1 DEF SetMove, Setting, SetDone, Sets
    <3>2. CASE RegMove
      BY <3>2 DEF RegMove, Setting, SetDone, Sets
    <3>3. CASE RegsMove
      <4>1. h'.st \notin Sets
        BY <3>3, HostNumbers DEF RegsMove, ControlInv, Waits, Ends, Sets
      <4> QED
        BY <4>1 DEF Setting
    <3> QED
      BY <1>5, <3>1, <3>2, <3>3
  <2> QED
    BY <2>1, <2>2, GeometryFrame
<1>6. CASE DriveMove \/ PacketMove \/ SentMove \/ WriteRegsMove \/ WrittenMove
  <2>1. h'.heads = h.heads /\ h'.spt = h.spt
    BY <1>6, KeepsGeometry DEF DriveMove, PacketMove, SentMove, WriteRegsMove, WrittenMove
  <2>2. ~(request = "command" /\ SetsGeometry(g.task))
    BY <1>1, <1>2, <1>6 DEF DriveMove, PacketMove, SentMove, WriteRegsMove, WrittenMove, Recvs
  <2> QED
    BY <2>1, <2>2, GeometryFrame
<1>7. CASE SendMove \/ FinishMove
  <2>1. h'.heads = h.heads /\ h'.spt = h.spt
    BY <1>7, KeepsGeometry DEF SendMove, FinishMove
  <2>2. ~(request = "command" /\ SetsGeometry(g.task))
    BY <1>1, <1>2, <1>7 DEF SendMove, FinishMove
  <2> QED
    BY <2>1, <2>2, GeometryFrame
<1> QED
  BY <1>3, <1>4, <1>5, <1>6, <1>7 DEF PlainMove, StoreMove

\* The geometry the guest asks for becomes the host's.
LEMMA GeometrySet ==
  ASSUME ControlInv, GeometryInv, CutInv, TickFrame, ShortMove
  PROVE  GeometryInv'
<1>1. /\ h.st = "DO_CMD"
      /\ IF kind = "hdd" /\ h.cmd = "GEOMETRY" /\ h.drv = 0
         THEN h'.heads = h.head + 1 /\ h'.spt = IF h.count = 0 THEN Spt ELSE h.count
         ELSE h'.heads = h.heads /\ h'.spt = h.spt
  BY DEF ShortMove
<1>2. Active => h.cmd = g.task.cmd /\ h.drv = g.task.drv /\ h.head = g.task.head /\ h.count = g.task.count
  BY <1>1 DEF ControlInv, AskInv
<1>3. SetsGeometry(g.task) => Active
  BY DEF SetsGeometry, Active, NoTask
<1>4. kind = "hdd" /\ ~Active /\ h.cmd = "GEOMETRY" => ~g.geometry
  BY <1>1 DEF CutInv
<1>5. (SetsGeometry(g.task) <=> g.task.cmd = "GEOMETRY" /\ g.task.drv = 0)
  BY DEF SetsGeometry
<1>6. kind = "hdd" /\ g.geometry => h'.heads = g.heads /\ h'.spt = g.spt
  <2>1. CASE SetsGeometry(g.task)
    BY <1>1, <1>2, <1>3, <1>5, <2>1 DEF GeometryInv
  <2>2. CASE ~SetsGeometry(g.task)
    BY <1>1, <1>2, <1>4, <1>5, <2>2 DEF GeometryInv
  <2> QED
    BY <2>1, <2>2
<1> QED
  BY <1>6, TickKeeps DEF GeometryInv, SetsGeometry

\* What is known of a command that was cut off.
LEMMA CutKept ==
  ASSUME ControlInv, CutInv, TickFrame, PlainMove \/ StoreMove
  PROVE  CutInv'
<1>2. CASE StayMove
  <2>1. h'.st = h.st /\ h'.cnt = h.cnt /\ h'.next = h.next /\ h'.cmd = h.cmd /\ ~Pending' /\ ~Pending
    BY <1>2, TickKeeps DEF StayMove, Keeps, HostFields, NoPulse, Bus
  <2>2. Place' = Place
    BY <2>1 DEF Place, SetDone
  <2> QED
    BY <2>1, <2>2, TickKeeps DEF CutInv
<1>3. CASE CommandMove \/ StageMove
  <2>1. h'.st = "GET_CMD" /\ (h.st = "GET_CMD" \/ (h.st = "IDLE" /\ request = "command"))
    BY <1>3 DEF CommandMove, StageMove, Keeps, HostFields
  <2>2. Place' = "GET_CMD" /\ (h.st = "IDLE" => Place = "IDLE")
    BY <2>1 DEF Place, SetDone
  <2> QED
    BY <2>1, <2>2, TickKeeps DEF CutInv, Ends
<1>4. CASE StagedMove
  <2>1. h'.st = "DO_CMD" /\ h.st = "GET_CMD" /\ h'.cmd = task.cmd
    BY <1>4 DEF StagedMove
  <2>2. Place' = "DO_CMD"
    BY <2>1 DEF Place, SetDone
  <2> QED
    BY <2>1, <2>2, TickKeeps DEF CutInv, Ends
<1>5. CASE RestMove \/ RegsMove
  <2>1. ~Pending /\ (RegsMove => h.cnt = 6)
    BY TickKeeps DEF ControlInv, BusInv, RegsMove
  <2>2. (h'.st = Place /\ h'.st \in Waits \cup Ends) \/ (h'.st = "IDLE" /\ Place \in Ends)
    <3>1. CASE RestMove
      BY <3>1 DEF RestMove, Place, SetDone, Ends
    <3>2. CASE RegsMove
      BY <2>1, <3>2, HostNumbers DEF RegsMove, Place, SetDone, ControlInv
    <3> QED
      BY <1>5, <3>1, <3>2
  <2>3. Place' = h'.st /\ h'.st \notin {"GET_CMD", "DO_CMD"}
    BY <2>2 DEF Place, SetDone, Waits, Ends
  <2> QED
    BY <2>2, <2>3, TickKeeps DEF CutInv, Ends
<1>6. CASE InitialMove \/ OverMove
  <2>1. h'.st = "IDLE"
    BY <1>6 DEF InitialMove, OverMove
  <2>2. request # "command"
    <3>1. CASE InitialMove
      BY <3>1, Requests DEF InitialMove
    <3>2. CASE OverMove
      BY <3>2 DEF OverMove, ControlInv, ServeInv, Place, SetDone, Waits
    <3> QED
      BY <1>6, <3>1, <3>2
  <2> QED
    BY <2>1, <2>2, TickKeeps DEF CutInv
<1>7. CASE \/ ResetMove \/ DriveMove \/ ShortMove \/ IdentifyMove \/ TransferMove \/ PacketMove
           \/ SentMove \/ ReadMove \/ ReadRegsMove \/ ReadDataMove \/ WriteMove \/ WriteRegsMove
           \/ WriteDataMove \/ PacketDataMove \/ ReceivedMove \/ AnswerMove \/ FinishMove \/ WrittenMove
  <2>1. h'.st \notin Ends \cup {"GET_CMD", "DO_CMD", "SET_REGS_SEND"}
    BY <1>7
       DEF ResetMove, DriveMove, ShortMove, IdentifyMove, TransferMove, PacketMove, SentMove, ReadMove,
           ReadRegsMove, ReadDataMove, WriteMove, WriteRegsMove, WriteDataMove, PacketDataMove,
           ReceivedMove, AnswerMove, FinishMove, WrittenMove, Ends
  <2> QED
    BY <2>1, TickKeeps DEF CutInv, Place, SetDone
<1>8. CASE SendMove \/ RecvMove \/ SetMove \/ RegMove
  <2>1. h'.st \notin Ends \cup {"GET_CMD", "DO_CMD"} /\ (h'.st = "SET_REGS_SEND" => Pending' \/ h'.cnt = 0)
    BY <1>8, TickKeeps
       DEF SendMove, RecvMove, SetMove, RegMove, Keeps, HostFields, Sends, Recvs, Ends, Pulse, Bus
  <2> QED
    BY <2>1, TickKeeps DEF CutInv, Place, SetDone
<1> QED
  BY <1>2, <1>3, <1>4, <1>5, <1>6, <1>7, <1>8 DEF PlainMove, StoreMove

-----------------------------------------------------------------------------
(* The pointer of the management side, across a tick.                       *)

\* A tick without an access.
LEMMA QuietPointer ==
  ASSUME TickFrame, NoPulse
  PROVE  Pointer' = Pointer /\ ~Pending'
BY TickKeeps DEF NoPulse, Bus, Pointer, Settling

\* A tick with one.
LEMMA PulsePointer ==
  ASSUME ControlInv, TickFrame, h.wait = 0, NEW op \in {"rd", "wr"}, NEW n, Pulse(op, n)
  PROVE  /\ Pointer = mgmtCnt /\ Pending' /\ oldOp = "none" /\ oldOp' = "none"
         /\ Pointer' = IF n = 15 THEN Pointer + 1 ELSE 0
<1>1. oldOp = "none"
  BY TickKeeps DEF ControlInv, BusInv
<1>2. bus'.op = op /\ bus'.n = n
  BY DEF Pulse, Bus
<1> QED
  BY <1>1, <1>2, TickKeeps DEF Pointer, Settling

\* The pointer is where the host's counter is.
LEMMA TickPointer ==
  ASSUME ControlInv, PointerInv, TickFrame, PlainMove \/ StoreMove, h.wait = 0 \/ StayMove
  PROVE  PointerInv'
<1>1. CASE StayMove
  <2>1. h'.st = h.st /\ h'.cnt = h.cnt /\ NoPulse
    BY <1>1 DEF StayMove, Keeps, HostFields
  <2> QED
    BY <2>1, QuietPointer DEF PointerInv
<1>2. CASE ~StayMove /\ (InitialMove \/ CommandMove \/ ResetMove \/ StageMove \/ RegMove \/ ReceivedMove)
  <2>1. \E op \in {"rd", "wr"}, n \in 0 .. 7 : Pulse(op, n)
    <3>1. CASE InitialMove
      BY <3>1 DEF InitialMove
    <3>2. CASE CommandMove
      BY <3>2 DEF CommandMove
    <3>3. CASE ResetMove
      BY <3>3 DEF ResetMove
    <3>4. CASE StageMove
      <4>1. bus.n \in 0 .. 15 /\ bus.n < 5
        BY <3>4 DEF StageMove, ControlInv, RtlType
      <4> QED
        BY <3>4, <4>1 DEF StageMove
    <3>5. CASE RegMove
      <4>1. h.cnt \in Nat /\ h.cnt < 6
        BY <3>5, HostNumbers DEF RegMove, ControlInv
      <4> QED
        BY <3>5, <4>1 DEF RegMove
    <3>6. CASE ReceivedMove
      BY <3>6 DEF ReceivedMove
    <3> QED
      BY <1>2, <3>1, <3>2, <3>3, <3>4, <3>5, <3>6
  <2>2. Pointer' = 0
    BY <1>2, <2>1, PulsePointer
  <2>3. h'.st \notin Sends \cup Recvs
    BY <1>2
       DEF InitialMove, CommandMove, ResetMove, StageMove, RegMove, ReceivedMove, Keeps, HostFields,
           Sends, Recvs
  <2> QED
    BY <2>2, <2>3 DEF PointerInv
<1>3. CASE ~StayMove /\ (SendMove \/ RecvMove)
  <2>1. h.st \in Sends \cup Recvs /\ h'.st = h.st /\ h'.cnt = h.cnt + 1 /\ (Pulse("rd", 15) \/ Pulse("wr", 15))
    BY <1>3 DEF SendMove, RecvMove, Keeps, HostFields
  <2>2. Pointer' = Pointer + 1
    BY <1>3, <2>1, PulsePointer
  <2> QED
    BY <2>1, <2>2 DEF PointerInv
<1>4. CASE IdentifyMove \/ ReadRegsMove \/ WriteDataMove \/ PacketDataMove \/ AnswerMove
  <2>1. /\ h.st \in Waits \cup {"DO_CMD", "READ_REGS", "PACKET_HANDLE"} /\ NoPulse
        /\ h'.st \in Sends \cup Recvs /\ h'.cnt = 0
    BY <1>4 DEF IdentifyMove, ReadRegsMove, WriteDataMove, PacketDataMove, AnswerMove, Waits, Sends, Recvs
  <2>2. Pointer = 0
    BY <2>1 DEF PointerInv, Waits, Sends, Recvs
  <2> QED
    BY <2>1, <2>2, QuietPointer DEF PointerInv
<1>5. CASE \/ RestMove \/ StagedMove \/ TransferMove \/ ReadMove \/ OverMove \/ ReadDataMove \/ RegsMove
  <2>1. /\ h.st \in Waits \cup {"RESET_SET", "GET_CMD", "DO_CMD", "READ", "SET_REGS_SEND"} /\ NoPulse
        /\ (h.st = "SET_REGS_SEND" => h.cnt = 6)
    <3>1. RegsMove => h.cnt = 6
      BY DEF ControlInv, BusInv, RegsMove
    <3> QED
      BY <1>5, <3>1
         DEF RestMove, StagedMove, TransferMove, ReadMove, OverMove, ReadDataMove, RegsMove, Waits
  <2>2. h'.st \notin Sends \cup Recvs
    BY <1>5, HostNumbers
       DEF RestMove, StagedMove, TransferMove, ReadMove, OverMove, ReadDataMove, RegsMove, Waits, Ends,
           Sends, Recvs, ControlInv
  <2>3. Pointer = 0
    BY <2>1 DEF PointerInv, Waits, Sends, Recvs
  <2> QED
    BY <2>1, <2>2, <2>3, QuietPointer DEF PointerInv
<1>6. CASE \/ DriveMove \/ ShortMove \/ PacketMove \/ SentMove \/ FinishMove \/ WriteRegsMove \/ WriteMove
           \/ WrittenMove \/ SetMove
  <2>1. h'.st \in {"SET_REGS", "WRITE_REGS"} \/ (h'.st = "SET_REGS_SEND" /\ h'.cnt = 0)
    BY <1>6
       DEF DriveMove, ShortMove, PacketMove, SentMove, FinishMove, WriteRegsMove, WriteMove, WrittenMove,
           SetMove
  <2> QED
    BY <2>1 DEF PointerInv, Sends, Recvs
<1> QED
  BY <1>1, <1>2, <1>3, <1>4, <1>5, <1>6 DEF PlainMove, StoreMove

\* The words on their way from the buffer to the host.
LEMMA TickFetch ==
  ASSUME ControlInv, ~Jitter, FetchInv, TickFrame, PlainMove \/ StoreMove, h.wait = 0 \/ StayMove
  PROVE  FetchInv'
<1>0. turn' = "edge" /\ q' = q /\ mgmtCnt' = mgmtCnt /\ buf' = buf /\ oldOp' = oldOp /\ turn = "tick"
  BY TickKeeps
<1> SUFFICES ASSUME h'.st \in Recvs, h'.cnt > 0
             PROVE  /\ h'.wait = IF Pending' THEN 1 ELSE 0
                    /\ ~Pending' => oldOp = "rd"
                    /\ oldOp = "rd" => q[1 + (mgmtCnt % 2)] = buf[mgmtCnt]
  BY <1>0 DEF FetchInv
<1>1. CASE StayMove
  <2>1. h.st \in Recvs /\ h.cnt > 0 /\ h.wait > 0 /\ h'.wait = h.wait - 1 /\ ~Pending'
    BY <1>1, QuietPointer DEF StayMove, Keeps, HostFields, Waits, Recvs
  <2>2. h.wait = 1 /\ h'.wait = 0
    BY <1>0, <2>1 DEF FetchInv
  <2> QED
    BY <1>0, <2>1, <2>2 DEF FetchInv
<1>2. CASE ~StayMove /\ RecvMove
  BY <1>2, PulsePointer DEF RecvMove, Pulse
<1>3. CASE ~StayMove /\ ~RecvMove
  <2>1. WriteDataMove \/ PacketDataMove
    <3>1. CASE SendMove \/ StageMove \/ RegMove \/ RegsMove
      BY <3>1, HostNumbers DEF SendMove, StageMove, RegMove, RegsMove, Keeps, HostFields, Sends, Waits, Ends,
         Recvs, ControlInv
    <3>2. CASE ~(SendMove \/ StageMove \/ RegMove \/ RegsMove)
      BY <1>3, <3>2
         DEF PlainMove, StoreMove, InitialMove, CommandMove, ResetMove, DriveMove, RestMove, StagedMove,
             ShortMove, IdentifyMove, TransferMove, PacketMove, SentMove, SetMove, ReadMove, ReadRegsMove,
             OverMove, ReadDataMove, WriteMove, WriteRegsMove, ReceivedMove, AnswerMove,
             FinishMove, WrittenMove, Recvs
    <3> QED
      BY <3>1, <3>2
  <2> QED
    BY <2>1 DEF WriteDataMove, PacketDataMove
<1> QED
  BY <1>1, <1>2, <1>3

-----------------------------------------------------------------------------
(* Ticks that have nothing to do with the sectors of a disk.                *)

\* Both before and after, no sector is on its way.
Off ==
  /\ image' = image /\ h'.sector = h.sector
  /\ Active => /\ ~Reading' /\ ~Writing' /\ ~Fills' /\ ~Moving' /\ ~Moving
               /\ Setting' /\ "DRQ" \in h'.status => g.task.cmd = "PACKET"
               /\ Drq => h'.count = h.count /\ Words' = Words /\ ~Reading
  /\ h'.st # "WRITE_RECV" /\ ~(Place' = "WRITE_WAIT_REQ" /\ request = "data")

\* What the words depend on, across a tick that keeps the sector in hand.
LEMMA WordsKept ==
  ASSUME TickFrame, image' = image, h'.sector = h.sector
  PROVE  /\ \A n : Filled(n)' <=> Filled(n)
         /\ \A k : SourceWord(k)' = SourceWord(k)
         /\ h'.count = h.count => Ahead' = Ahead /\ \A n : NewWords(n)' <=> NewWords(n)
         /\ GuestLba' = GuestLba /\ (SectorSize' = SectorSize) /\ (NewSector(h.sector)' = NewSector(h.sector))
<1>1. buf' = buf /\ g' = g /\ kind' = kind /\ Total' = Total
  BY TickKeeps
<1>2. \A k : SourceWord(k)' = SourceWord(k)
  BY <1>1 DEF SourceWord
<1>3. \A n : Filled(n)' <=> Filled(n)
  BY <1>1, <1>2 DEF Filled
<1>4. GuestLba' = GuestLba /\ SectorSize' = SectorSize
  BY <1>1 DEF GuestLba, SectorSize
<1>5. h'.count = h.count => Ahead' = Ahead
  BY <1>1, <1>4 DEF Ahead
<1>6. h'.count = h.count => \A n : NewWords(n)' <=> NewWords(n)
  BY <1>1, <1>5 DEF NewWords
<1>7. NewSector(h.sector)' = NewSector(h.sector)
  BY <1>4 DEF NewSector
<1> QED
  BY <1>2, <1>3, <1>4, <1>5, <1>6, <1>7

\* Such a tick keeps what is known of sectors.
LEMMA OffKeeps ==
  ASSUME TickFrame, Off, AddressInv, BlockInv, WriteInv, KeptInv
  PROVE  AddressInv' /\ BlockInv' /\ WriteInv' /\ KeptInv'
<1>0. image' = image /\ h'.sector = h.sector
  BY DEF Off
<1>1. AddressInv'
  <2> SUFFICES ASSUME Active PROVE AddressInv'
    BY TickKeeps DEF AddressInv
  <2>1. ~Reading' /\ ~Writing' /\ h'.st # "READ_SEND"
    BY DEF Off, Fills
  <2>2. g'.task.cmd = "READ" /\ (Drq' \/ (Setting' /\ "DRQ" \in h'.status)) => Drq /\ g.task.cmd = "READ"
    BY TickKeeps DEF Off
  <2>3. Drq => h'.count = h.count /\ Ahead' = Ahead /\ ~Reading
    BY <1>0, WordsKept DEF Off
  <2> QED
    BY <1>0, <2>1, <2>2, <2>3 DEF AddressInv, SectorAt
<1>2. BlockInv'
  <2> SUFFICES ASSUME Active PROVE BlockInv'
    BY TickKeeps DEF BlockInv
  <2>1. ~Fills' /\ (Offered' => Offered /\ Words' = Words)
    BY TickKeeps DEF Off, Offered
  <2> QED
    BY <1>0, <2>1, WordsKept DEF BlockInv
<1>3. WriteInv'
  <2>1. ~Owed'
    BY TickKeeps DEF Off, Owed
  <2>2. Active /\ g.task.cmd = "WRITE" /\ Drq => Words' = Words /\ (NewWords(ioCnt + Stb)' <=> NewWords(ioCnt + Stb))
    BY <1>0, WordsKept, TickKeeps DEF Off
  <2>3. ~(Active /\ g.task.cmd = "WRITE" /\ Setting' /\ "DRQ" \in h'.status)
    BY DEF Off
  <2>4. h'.st # "WRITE_RECV" /\ ~(Place' = "WRITE_WAIT_REQ" /\ request' = "data")
    BY TickKeeps DEF Off
  <2>5. g' = g /\ ioCnt' = ioCnt /\ Stb' = Stb /\ (Active' <=> Active) /\ (Drq' <=> Drq)
    BY TickKeeps
  <2> QED
    BY <2>1, <2>2, <2>3, <2>4, <2>5 DEF WriteInv
<1>4. KeptInv'
  <2>1. ~Owed' /\ ~Owed /\ g' = g
    BY TickKeeps DEF Off, Owed
  <2> QED
    BY <1>0, <2>1 DEF KeptInv, Kept
<1> QED
  BY <1>1, <1>2, <1>3, <1>4

\* The states of a disk transfer.
LEMMA OffState ==
  ASSUME h'.st \notin Sets \cup {"READ_REGS", "READ_SEND", "READ_WAIT_REQ", "WRITE_REGS", "WRITE_WAIT_REQ",
                                 "WRITE_RECV", "SEND_ID"}
  PROVE  /\ ~Reading' /\ ~Writing' /\ ~Fills' /\ ~Moving' /\ ~Setting' /\ Place' = h'.st
         /\ h'.st # "WRITE_RECV" /\ Place' # "WRITE_WAIT_REQ"
BY DEF Reading, Writing, Fills, Moving, Setting, SetDone, Place, Sets

\* A response without data, or of a packet.
LEMMA OffResponse ==
  ASSUME h'.st = "SET_REGS", h'.next \in Ends \cup PacketStates
  PROVE  /\ ~Reading' /\ ~Writing' /\ ~Fills' /\ ~Moving' /\ Setting' /\ Place' = h'.st
         /\ h'.st # "WRITE_RECV" /\ Place' # "WRITE_WAIT_REQ"
BY DEF Reading, Writing, Fills, Moving, Setting, SetDone, Place, Sets, Ends, PacketStates

\* A host that is not at a disk transfer.
LEMMA OffNow ==
  ASSUME ControlInv, turn = "tick", h.st \notin Sets \cup Waits \cup Ends \cup {"WRITE_RECV"}
  PROVE  ~Moving /\ ~Drq
<1>1. Busy
  BY DEF Busy
<1> QED
  BY <1>1, Requests DEF Moving, Place, SetDone, Sets, Waits

\* The ticks that fit.
LEMMA OffMoves ==
  ASSUME ControlInv, TickFrame, image' = image,
         \/ InitialMove \/ CommandMove \/ ResetMove \/ DriveMove \/ RestMove \/ StageMove \/ StagedMove
         \/ ShortMove \/ TransferMove \/ PacketMove \/ OverMove \/ PacketDataMove \/ ReceivedMove
         \/ AnswerMove \/ FinishMove
         \/ (RecvMove /\ h.st = "PACKET_RECV")
         \/ (h.st = "PACKET_SEND" /\ (SendMove \/ SentMove))
  PROVE  Off
<1>0. turn = "tick"
  BY TickKeeps
<1>1. CASE InitialMove \/ CommandMove \/ ResetMove \/ StageMove \/ StagedMove \/ TransferMove \/ OverMove
  <2>1. h'.sector = h.sector
    BY <1>1
       DEF InitialMove, CommandMove, ResetMove, StageMove, StagedMove, TransferMove, OverMove, Keeps, HostFields
  <2>2. h'.st \in {"IDLE", "GET_CMD", "GET_RESET_DRIVE", "DO_CMD", "READ", "WRITE"}
    BY <1>1
       DEF InitialMove, CommandMove, ResetMove, StageMove, StagedMove, TransferMove, OverMove, Keeps, HostFields
  <2>3. Active => ~Moving
    <3>1. CASE OverMove
      BY <3>1, Requests DEF OverMove, ControlInv, RtlType, ServeInv, Place, SetDone, Waits
    <3>2. CASE ~OverMove
      BY <1>1, <3>2
         DEF InitialMove, CommandMove, ResetMove, StageMove, StagedMove, TransferMove, Moving, Place, SetDone
    <3> QED
      BY <3>1, <3>2
  <2>4. ~Drq
    <3>1. CASE CommandMove \/ ResetMove \/ OverMove
      BY <3>1, Requests DEF CommandMove, ResetMove, OverMove
    <3>2. CASE ~(CommandMove \/ ResetMove \/ OverMove)
      <4>1. h.st \in {"INITIAL", "GET_CMD", "DO_CMD"}
        BY <1>1, <3>2 DEF InitialMove, StageMove, StagedMove, TransferMove
      <4> QED
        BY <1>0, <4>1, OffNow DEF Sets, Waits, Ends
    <3> QED
      BY <3>1, <3>2
  <2> QED
    BY <2>1, <2>2, <2>3, <2>4, OffState DEF Off, Sets
<1>2. CASE RestMove
  <2>1. /\ h.st = "RESET_SET" /\ h'.st = "IDLE" /\ h'.sector = h.sector /\ h'.count = h.count
        /\ h'.io = h.io /\ h'.pkt = h.pkt
    BY <1>2 DEF RestMove, Keeps, HostFields
  <2>2. Words' = Words
    BY <2>1, TickKeeps DEF Words
  <2>3. ~Moving /\ ~Reading
    BY <2>1 DEF Moving, Reading, Place, SetDone, Sets
  <2> QED
    BY <2>1, <2>2, <2>3, OffState DEF Off, Sets
<1>3. CASE \/ PacketDataMove \/ ReceivedMove \/ AnswerMove \/ (RecvMove /\ h.st = "PACKET_RECV")
           \/ (h.st = "PACKET_SEND" /\ SendMove)
  <2>1. h'.sector = h.sector
    BY <1>3 DEF PacketDataMove, ReceivedMove, AnswerMove, RecvMove, SendMove, Keeps, HostFields
  <2>2. h'.st \in {"PACKET_RECV", "PACKET_HANDLE", "PACKET_SEND"}
    BY <1>3 DEF PacketDataMove, ReceivedMove, AnswerMove, RecvMove, SendMove, Keeps, HostFields
  <2>3. h.st \in PacketStates
    BY <1>3 DEF PacketDataMove, ReceivedMove, AnswerMove, PacketStates
  <2>4. ~Moving
    BY <2>3 DEF Moving, Place, SetDone, PacketStates
  <2>5. ~Drq
    <3>1. CASE request = "data"
      BY <3>1, Requests
    <3>2. CASE request # "data"
      <4>1. h.st \in {"PACKET_RECV", "PACKET_HANDLE", "PACKET_SEND"}
        BY <1>3, <3>2 DEF PacketDataMove, ReceivedMove, AnswerMove
      <4> QED
        BY <1>0, <4>1, OffNow DEF Sets, Waits, Ends
    <3> QED
      BY <3>1, <3>2
  <2> QED
    BY <2>1, <2>2, <2>4, <2>5, OffState DEF Off, Sets
<1>4. CASE DriveMove \/ ShortMove \/ PacketMove \/ FinishMove \/ (h.st = "PACKET_SEND" /\ SentMove)
  <2>1. h'.sector = h.sector
    BY <1>4 DEF DriveMove, ShortMove, PacketMove, FinishMove, SentMove, Keeps, HostFields
  <2>2. /\ h'.st = "SET_REGS"
        /\ h'.next \in {"IDLE", "RESET_SET", "PACKET_WAIT_REQ", "PACKET_READ_WAIT_REQ"}
    BY <1>4 DEF DriveMove, ShortMove, PacketMove, FinishMove, SentMove
  <2>3. h.st \in {"GET_RESET_DRIVE", "DO_CMD", "PACKET_HANDLE", "PACKET_READ_WAIT_REQ", "PACKET_SEND"}
        /\ (h.st = "PACKET_READ_WAIT_REQ" => request = "data")
    BY <1>4 DEF DriveMove, ShortMove, PacketMove, FinishMove
  <2>4. ~Moving
    BY <2>3 DEF Moving, Place, SetDone
  <2>5. ~Drq
    <3>1. CASE h.st = "PACKET_READ_WAIT_REQ"
      BY <2>3, <3>1, Requests
    <3>2. CASE h.st # "PACKET_READ_WAIT_REQ"
      BY <1>0, <2>3, <3>2, OffNow DEF Sets, Waits, Ends
    <3> QED
      BY <3>1, <3>2
  <2>6. Active /\ "DRQ" \in h'.status => g.task.cmd = "PACKET"
    <3>1. CASE DriveMove \/ ShortMove \/ FinishMove
      BY <3>1 DEF DriveMove, ShortMove, FinishMove
    <3>2. CASE PacketMove
      BY <3>2 DEF PacketMove, ControlInv, AskInv
    <3>3. CASE h.st = "PACKET_SEND"
      BY <3>3 DEF ControlInv, PlaceInv, Is
    <3> QED
      BY <1>4, <3>1, <3>2, <3>3
  <2> QED
    BY <2>1, <2>2, <2>4, <2>5, <2>6, OffResponse DEF Off, Ends, PacketStates
<1> QED
  BY <1>1, <1>2, <1>3, <1>4

-----------------------------------------------------------------------------
(* Ticks that leave the sector in hand as it is.                            *)

Due == Setting /\ "DRQ" \in h.status
Through ==
  /\ image' = image /\ h'.sector = h.sector /\ h'.count = h.count /\ h'.lba = h.lba
  /\ GetLba(h)' = GetLba(h) /\ Words' = Words
  /\ (Reading' <=> Reading) /\ (Writing' <=> Writing) /\ (Moving' <=> Moving) /\ (Due' <=> Due)
  /\ (h'.st = "READ_SEND" <=> h.st = "READ_SEND") /\ (h'.st = "SEND_ID" <=> h.st = "SEND_ID")
  /\ (h'.st = "WRITE_RECV" <=> h.st = "WRITE_RECV") /\ (h'.st = "WRITE_REGS" <=> h.st = "WRITE_REGS")
  /\ (Place' = "WRITE_WAIT_REQ" <=> Place = "WRITE_WAIT_REQ")
  /\ h.st \in {"READ_SEND", "SEND_ID"} => Sent' = Sent /\ ~Pending'
  /\ h.st = "WRITE_RECV" => h'.cnt = h.cnt

\* Such a tick keeps what is known of sectors.
LEMMA ThroughKeeps ==
  ASSUME TickFrame, Through, AddressInv, BlockInv, WriteInv, KeptInv
  PROVE  AddressInv' /\ BlockInv' /\ WriteInv' /\ KeptInv'
<1>0. /\ image' = image /\ h'.sector = h.sector /\ h'.count = h.count /\ h'.lba = h.lba
      /\ GetLba(h)' = GetLba(h) /\ Words' = Words /\ (Due' <=> Due)
  BY DEF Through
<1>1. Ahead' = Ahead
  BY <1>0, WordsKept
<1>2. AddressInv'
  <2>1. (Reading' <=> Reading) /\ (Writing' <=> Writing) /\ (h'.st = "READ_SEND" <=> h.st = "READ_SEND")
        /\ (h'.st = "WRITE_REGS" <=> h.st = "WRITE_REGS") /\ (Drq' <=> Drq) /\ g' = g /\ (Active' <=> Active)
    BY TickKeeps DEF Through
  <2> QED
    BY <1>0, <1>1, <2>1 DEF AddressInv, SectorAt, Due
<1>3. BlockInv'
  <2>1. (Fills' <=> Fills) /\ (Fills => Sent' = Sent /\ ~Pending') /\ (Offered' <=> Offered) /\ (Active' <=> Active)
    BY <1>0, TickKeeps DEF Through, Fills, Offered, Due
  <2> QED
    BY <1>0, <2>1, WordsKept DEF BlockInv
<1>4. (Owed' <=> Owed) /\ g' = g /\ (Active' <=> Active)
  BY TickKeeps DEF Through, Owed
<1>5. WriteInv'
  <2>1. \A n : NewWords(n)' <=> NewWords(n)
    BY <1>0, WordsKept
  <2>2. NewSector(h.sector)' = NewSector(h.sector)
    BY <1>0, WordsKept
  <2>3. ioCnt' = ioCnt /\ Stb' = Stb /\ (Drq' <=> Drq) /\ request' = request
    BY TickKeeps
  <2>4. h.st = "WRITE_RECV" => (Stored' <=> Stored)
    BY <1>0 DEF Through, Stored
  <2>5. (h'.st = "WRITE_RECV" <=> h.st = "WRITE_RECV") /\ (Place' = "WRITE_WAIT_REQ" <=> Place = "WRITE_WAIT_REQ")
    BY DEF Through
  <2> QED
    BY <1>0, <1>4, <2>1, <2>2, <2>3, <2>4, <2>5 DEF WriteInv, Due
<1>6. KeptInv'
  BY <1>0, <1>4 DEF KeptInv, Kept
<1> QED
  BY <1>2, <1>3, <1>5, <1>6

\* The ticks that fit.
LEMMA ThroughMoves ==
  ASSUME ControlInv, TickFrame, image' = image, StayMove \/ SetMove \/ RegMove \/ RegsMove
  PROVE  Through
<1>0. turn = "tick" /\ ~Pending /\ h.cnt \in Nat /\ request' = request /\ (BlockMoved' <=> BlockMoved) /\ kind' = kind
  BY TickKeeps, HostNumbers DEF ControlInv
<1>1. /\ h'.sector = h.sector /\ h'.count = h.count /\ h'.lba = h.lba /\ h'.io = h.io /\ h'.pkt = h.pkt
      /\ h'.next = h.next /\ h'.sec = h.sec /\ h'.cyl = h.cyl /\ h'.head = h.head /\ h'.heads = h.heads
      /\ h'.spt = h.spt
  BY DEF StayMove, SetMove, RegMove, RegsMove, Keeps, HostFields
<1>2. GetLba(h)' = GetLba(h) /\ Words' = Words
  BY <1>0, <1>1 DEF GetLba, Words
<1>3. CASE StayMove
  <2>1. h'.st = h.st /\ h'.cnt = h.cnt /\ h'.status = h.status /\ ~Pending'
    BY <1>3, QuietPointer DEF StayMove, Keeps, HostFields
  <2>2. (SetDone' <=> SetDone) /\ Place' = Place /\ (Setting' <=> Setting) /\ Sent' = Sent
    BY <1>0, <1>1, <2>1 DEF SetDone, Place, Setting, Sent
  <2>3. (Reading' <=> Reading) /\ (Writing' <=> Writing) /\ (Moving' <=> Moving) /\ (Due' <=> Due)
    BY <1>0, <1>1, <2>1, <2>2 DEF Reading, Writing, Moving, Due
  <2> QED
    BY <1>1, <1>2, <2>1, <2>2, <2>3 DEF Through
<1>4. CASE SetMove
  <2>1. h.st = "SET_REGS" /\ h'.st = "SET_REGS_SEND" /\ h'.cnt = 0 /\ ("DRQ" \in h'.status <=> "DRQ" \in h.status)
    BY <1>4 DEF SetMove
  <2>2. Setting /\ Setting' /\ Place = h.st /\ Place' = h'.st
    BY <2>1 DEF SetDone, Place, Setting, Sets
  <2>3. (Reading' <=> Reading) /\ (Writing' <=> Writing) /\ (Moving' <=> Moving) /\ (Due' <=> Due)
    BY <1>0, <1>1, <2>1, <2>2 DEF Reading, Writing, Moving, Due, Sets
  <2> QED
    BY <1>1, <1>2, <2>1, <2>2, <2>3 DEF Through
<1>5. CASE RegMove
  <2>1. h.st = "SET_REGS_SEND" /\ h'.st = "SET_REGS_SEND" /\ h.cnt < 6 /\ h'.status = h.status /\ bus'.op = "wr"
    BY <1>5 DEF RegMove, Keeps, HostFields, Pulse, Bus
  <2>2. Setting /\ Setting' /\ Place = h.st /\ Place' = h'.st
    BY <1>0, <2>1, TickKeeps DEF SetDone, Place, Setting, Sets
  <2>3. (Reading' <=> Reading) /\ (Writing' <=> Writing) /\ (Moving' <=> Moving) /\ (Due' <=> Due)
    BY <1>0, <1>1, <2>1, <2>2 DEF Reading, Writing, Moving, Due, Sets
  <2> QED
    BY <1>1, <1>2, <2>1, <2>2, <2>3 DEF Through
<1>6. CASE RegsMove
  <2>1. h.st = "SET_REGS_SEND" /\ h.cnt = 6 /\ h'.st = h.next /\ h.next \in Waits \cup Ends
    BY <1>6, HostNumbers DEF RegsMove, ControlInv, BusInv
  <2>2. ~Setting /\ ~Setting' /\ Place = h.next /\ Place' = h.next
    BY <1>0, <2>1 DEF SetDone, Place, Setting, Sets, Waits, Ends
  <2>3. (Reading' <=> Reading) /\ (Writing' <=> Writing) /\ (Moving' <=> Moving) /\ (Due' <=> Due)
    BY <1>0, <1>1, <2>1, <2>2 DEF Reading, Writing, Moving, Due, Sets, Waits, Ends
  <2> QED
    BY <1>1, <1>2, <2>1, <2>2, <2>3 DEF Through, Waits, Ends
<1> QED
  BY <1>3, <1>4, <1>5, <1>6

-----------------------------------------------------------------------------
(* The ticks of an identification and of a read.                            *)

\* Where the host has no block of a write in hand, before or after, what is written stays as it is.
LEMMA NothingOwed ==
  ASSUME TickFrame, image' = image, ~Drq, ~Moving, ~Moving', KeptInv, h'.st # "WRITE_RECV",
         ~(Place' = "WRITE_WAIT_REQ" /\ request = "data"),
         Active /\ g.task.cmd = "WRITE" /\ Due' => Words' = SectorWords
  PROVE  WriteInv' /\ KeptInv'
<1>1. ~Owed /\ ~Owed' /\ g' = g /\ ~Drq' /\ request' = request
  BY TickKeeps DEF Owed
<1>2. WriteInv'
  BY <1>1 DEF WriteInv, Active, Due
<1>3. KeptInv'
  BY <1>1 DEF KeptInv, Kept
<1> QED
  BY <1>2, <1>3

\* An identification is of one sector's size.
LEMMA IdentifyData ==
  ASSUME ControlInv, TickFrame, image' = image, IdentifyMove, KeptInv
  PROVE  AddressInv' /\ BlockInv' /\ WriteInv' /\ KeptInv'
<1>0. turn = "tick" /\ g' = g /\ kind' = kind /\ kind \in {"hdd", "cd"} /\ h.st = "DO_CMD" /\ NoPulse
  BY TickKeeps, ConstantTypes DEF IdentifyMove, ControlInv, RtlType
<1>1. /\ h'.st = "SEND_ID" /\ h'.cnt = 0 /\ h'.io = (IF kind = "hdd" THEN 1 ELSE 0)
      /\ h'.pkt = IF kind = "cd" THEN SectorWords ELSE 0
  BY DEF IdentifyMove
<1>2. ~Reading' /\ ~Writing' /\ ~Setting' /\ ~Due' /\ Place' = "SEND_ID" /\ ~Moving' /\ ~Pending' /\ Sent' = 0
  BY <1>0, <1>1, QuietPointer DEF Reading, Writing, Setting, Due, Place, SetDone, Moving, Sets, Sent
<1>3. ~Drq /\ ~Moving /\ ~Drq'
  BY <1>0, OffNow, TickKeeps DEF Sets, Waits, Ends
<1>4. Active => g.task.cmd \in {"IDENTIFY", "IDPKT"}
  BY <1>0 DEF ControlInv, AskInv, IdentifyMove
<1>5. Words' = SectorWords
  BY <1>0, <1>1, ConstantTypes DEF Words
<1>6. AddressInv'
  BY <1>0, <1>1, <1>2, <1>3, <1>4 DEF AddressInv, Active
<1>7. BlockInv'
  <2>1. Filled(0)'
    BY DEF Filled
  <2> QED
    BY <1>2, <1>3, <1>5, <2>1 DEF BlockInv, Offered
<1>8. WriteInv' /\ KeptInv'
  BY <1>1, <1>2, <1>3, NothingOwed
<1> QED
  BY <1>6, <1>7, <1>8

\* The address a transfer starts with.
LEMMA StartLba ==
  ASSUME ControlInv, GeometryInv, AddressesFit, Active, h.st \in {"READ", "WRITE"}
  PROVE  GetLba(h) = Ahead /\ h.lba = g.task.lba
<1>1. Is("hdd", g.task.cmd) /\ g.task.cmd \in {"READ", "WRITE"}
  BY DEF ControlInv, PlaceInv, Is
<1>2. /\ h.lba = g.task.lba /\ h.sec = g.task.sec /\ h.cyl = g.task.cyl /\ h.head = g.task.head
      /\ h.count = Total
  BY DEF ControlInv, AskInv
<1>3. ~h.lba => h.heads = g.heads /\ h.spt = g.spt
  BY <1>1, <1>2 DEF GeometryInv, SetsGeometry, Is
<1>4. GuestLba \in Nat /\ Total \in Nat \ {0} /\ GuestLba + Total <= LbaSpace
  BY <1>1, AheadFits DEF ControlInv
<1>5. GuestLba < LbaSpace /\ Ahead = GuestLba
  BY <1>2, <1>4, ConstantTypes DEF Ahead
<1> QED
  BY <1>2, <1>3, <1>4, <1>5, FirstLba

\* The first sector of a read or of a write.
LEMMA StartData ==
  ASSUME ControlInv, GeometryInv, AddressesFit, TickFrame, image' = image, ReadMove \/ WriteMove, KeptInv
  PROVE  AddressInv' /\ BlockInv' /\ WriteInv' /\ KeptInv'
<1>0. turn = "tick" /\ g' = g /\ h.st \in {"READ", "WRITE"} /\ h'.st \in {"READ_REGS", "WRITE_REGS"}
  BY TickKeeps DEF ReadMove, WriteMove
<1>1. /\ h'.lba = h.lba /\ h'.sec = h.sec /\ h'.cyl = h.cyl /\ h'.head = h.head /\ h'.heads = h.heads
      /\ h'.spt = h.spt /\ h'.count = h.count /\ h'.sector = h.sector
  BY DEF ReadMove, WriteMove, Keeps, HostFields
<1>2. ~Fills' /\ ~Setting' /\ ~Due' /\ Place' = h'.st /\ ~Moving'
  BY <1>0 DEF Fills, Setting, Due, Place, SetDone, Moving, Sets
<1>3. ~Drq /\ ~Moving /\ ~Drq'
  BY <1>0, OffNow, TickKeeps DEF Sets, Waits, Ends
<1>4. GetLba(h)' = GetLba(h) /\ Ahead' = Ahead
  <2>1. GetLba(h)' = GetLba(h)
    BY <1>1 DEF GetLba
  <2> QED
    BY <1>1, <2>1, WordsKept
<1>5. AddressInv'
  <2> SUFFICES ASSUME Active PROVE AddressInv'
    BY TickKeeps DEF AddressInv
  <2>1. GetLba(h)' = Ahead' /\ h'.lba = g'.task.lba
    BY <1>0, <1>1, <1>4, StartLba
  <2>2. Writing' => h'.st = "WRITE_REGS"
    BY <1>0 DEF Writing, Sets
  <2> QED
    BY <1>0, <1>2, <1>3, <2>1, <2>2 DEF AddressInv, Due
<1>6. BlockInv'
  BY <1>2, <1>3 DEF BlockInv, Offered
<1>7. WriteInv' /\ KeptInv'
  BY <1>0, <1>2, <1>3, NothingOwed
<1> QED
  BY <1>5, <1>6, <1>7

\* What a count leaves, and the address that goes with it.
LEMMA AheadType ==
  ASSUME ControlInv, AddressInv, GeometryInv, AddressesFit, Active, h.st \in {"READ_REGS", "WRITE_REGS", "WRITE_RECV"}
  PROVE  /\ GetLba(h) = Ahead /\ Ahead \in Nat /\ h.lba = g.task.lba /\ h.count \in Nat \ {0}
         /\ (IF InRange(GetLba(h)) THEN GetLba(h) ELSE -1) = SectorAt(Ahead)
         /\ h.count # 1 => /\ GetLba(h) + 1 < LbaSpace
                           /\ h.lba => GetLba(h) + 1 < SecBase * CylBase * HeadBase
<1>0. h.count \in Nat \ {0} /\ g.blocks \in Nat
  <2>1. Counting
    BY DEF Counting
  <2> QED
    BY <2>1 DEF ControlInv, HostType, GuestType
<1>1. GetLba(h) = Ahead /\ h.lba = g.task.lba
  BY <1>0 DEF AddressInv, Reading, Writing
<1>2. Is("hdd", g.task.cmd) /\ g.task.cmd \in {"READ", "WRITE"}
  BY DEF ControlInv, PlaceInv, Is
<1>3. /\ GuestLba \in Nat /\ Total \in Nat \ {0} /\ GuestLba + Total <= LbaSpace
      /\ g.task.lba => GuestLba + Total <= SecBase * CylBase * HeadBase
  BY <1>2, AheadFits DEF ControlInv
<1>4. h.count + g.blocks \in {Total, Total + 1} /\ (h.count + g.blocks = Total + 1 => g.blocks > 0)
  <2>1. h.count + g.blocks \in {Total, Total + 1}
    BY DEF ControlInv, CountInv
  <2>2. h.st = "WRITE_RECV" => g.blocks > 0
    BY Requests DEF ControlInv, ServeInv
  <2>3. h.st # "WRITE_RECV" => h.count + g.blocks = Total
    BY DEF ControlInv, CountInv
  <2> QED
    BY <1>3, <2>1, <2>2, <2>3
<1>5. Ahead \in Nat /\ Ahead = GuestLba + (Total - h.count)
  BY <1>0, <1>3, <1>4 DEF Ahead
<1> DEFINE P == SecBase * CylBase * HeadBase
<1>6. P \in Nat
  <2>1. SecBase * CylBase \in Nat
    BY ConstantTypes
  <2> QED
    BY <2>1, ConstantTypes
<1> HIDE DEF P
<1>7. h.count # 1 => Ahead + 1 < LbaSpace /\ (h.lba => Ahead + 1 < P)
  <2>1. h.lba => GuestLba + Total <= P
    BY <1>1, <1>3 DEF P
  <2> QED
    BY <1>0, <1>3, <1>5, <1>6, <2>1, ConstantTypes
<1>8. (IF InRange(Ahead) THEN Ahead ELSE -1) = SectorAt(Ahead)
  BY <1>5, ConstantTypes DEF InRange, SectorAt
<1> QED
  BY <1>0, <1>1, <1>5, <1>7, <1>8 DEF P

\* The next sector of a read is fetched.
LEMMA ReadRegsData ==
  ASSUME ControlInv, AddressInv, GeometryInv, AddressesFit, TickFrame, image' = image, ReadRegsMove, KeptInv
  PROVE  AddressInv' /\ BlockInv' /\ WriteInv' /\ KeptInv'
<1>0. turn = "tick" /\ g' = g /\ kind' = kind /\ h.st = "READ_REGS" /\ h'.st = "READ_SEND" /\ NoPulse
  BY TickKeeps DEF ReadRegsMove
<1>1. /\ h'.lba = h.lba /\ h'.heads = h.heads /\ h'.spt = h.spt /\ h'.count = h.count - 1 /\ h'.io = 1
      /\ h'.cnt = 0 /\ h'.sector = (IF InRange(GetLba(h)) THEN GetLba(h) ELSE -1) /\ NextSector
  BY DEF ReadRegsMove, Keeps, HostFields
<1>2. ~Writing' /\ ~Setting' /\ ~Due' /\ Place' = h'.st /\ ~Moving' /\ Reading' /\ ~Pending' /\ Sent' = 0
  BY <1>0, <1>1, QuietPointer DEF Writing, Reading, Setting, Due, Place, SetDone, Moving, Sets, Sent
<1>3. ~Drq /\ ~Moving /\ ~Drq'
  BY <1>0, OffNow, TickKeeps DEF Sets, Waits, Ends
<1>4. AddressInv'
  <2> SUFFICES ASSUME Active PROVE AddressInv'
    BY TickKeeps DEF AddressInv
  <2>1. /\ GetLba(h) = Ahead /\ Ahead \in Nat /\ h.lba = g.task.lba /\ h.count \in Nat \ {0}
        /\ (IF InRange(GetLba(h)) THEN GetLba(h) ELSE -1) = SectorAt(Ahead)
        /\ h.count # 1 => /\ GetLba(h) + 1 < LbaSpace
                          /\ h.lba => GetLba(h) + 1 < SecBase * CylBase * HeadBase
    BY <1>0, AheadType
  <2>2. h'.sector = SectorAt(Ahead)
    BY <1>1, <2>1
  <2>3. Ahead' = Ahead + 1
    <3>1. GuestLba' = GuestLba /\ Total' = Total
      BY <1>0 DEF GuestLba, Total
    <3>2. GuestLba \in Nat /\ Total \in Nat
      BY <1>0, AheadFits DEF ControlInv, PlaceInv, Is
    <3> QED
      BY <1>1, <2>1, <3>1, <3>2 DEF Ahead
  <2>4. h.count # 1 => GetLba(h)' = GetLba(h) + 1
    BY <1>1, <2>1, NextLba DEF ControlInv
  <2>5. h'.count # 0 => GetLba(h)' = Ahead'
    BY <1>1, <2>1, <2>3, <2>4
  <2>6. SectorAt(Ahead - 1)' = SectorAt(Ahead)
    BY <2>1, <2>3 DEF SectorAt
  <2> QED
    BY <1>0, <1>1, <1>2, <1>3, <2>1, <2>2, <2>5, <2>6 DEF AddressInv, Due
<1>5. BlockInv'
  <2>1. Filled(0)'
    BY DEF Filled
  <2>2. kind = "hdd"
    BY <1>0 DEF ControlInv, PlaceInv, DiskStates
  <2>3. Words' = SectorWords
    BY <1>0, <1>1, <2>2, ConstantTypes DEF Words
  <2> QED
    BY <1>2, <1>3, <2>1, <2>3 DEF BlockInv, Offered
<1>6. WriteInv' /\ KeptInv'
  BY <1>0, <1>2, <1>3, NothingOwed
<1> QED
  BY <1>4, <1>5, <1>6

\* A word of a sector, or of the identification, goes to the buffer.
LEMMA SendData ==
  ASSUME ControlInv, AddressInv, BlockInv, KeptInv, TickFrame, image' = image, SendMove, h.wait = 0,
         h.st \in {"SEND_ID", "READ_SEND"}
  PROVE  AddressInv' /\ BlockInv' /\ WriteInv' /\ KeptInv'
<1>0. turn = "tick" /\ g' = g /\ kind' = kind /\ h'.st = h.st /\ h'.cnt = h.cnt + 1 /\ h.cnt \in Nat
  BY TickKeeps, HostNumbers DEF SendMove, Keeps, HostFields, ControlInv
<1>1. /\ h'.lba = h.lba /\ h'.heads = h.heads /\ h'.spt = h.spt /\ h'.count = h.count /\ h'.sector = h.sector
      /\ h'.sec = h.sec /\ h'.cyl = h.cyl /\ h'.head = h.head /\ h'.io = h.io /\ h'.pkt = h.pkt
  BY DEF SendMove, Keeps, HostFields
<1>2. /\ ~Writing' /\ ~Setting' /\ ~Due' /\ Place' = h'.st /\ ~Moving' /\ (Reading' <=> Reading)
      /\ (Reading <=> h.st = "READ_SEND")
  BY <1>0 DEF Writing, Reading, Setting, Due, Place, SetDone, Moving, Sets
<1>3. ~Drq /\ ~Moving /\ ~Drq'
  BY <1>0, OffNow, TickKeeps DEF Sets, Waits, Ends
<1>4. GetLba(h)' = GetLba(h) /\ Ahead' = Ahead /\ Words' = Words
  <2>1. GetLba(h)' = GetLba(h) /\ Words' = Words
    BY <1>0, <1>1 DEF GetLba, Words
  <2> QED
    BY <1>1, <2>1, WordsKept
<1>5. AddressInv'
  BY <1>0, <1>1, <1>2, <1>3, <1>4 DEF AddressInv, SectorAt, Due, Active
<1>6. BlockInv'
  <2> SUFFICES ASSUME Active PROVE BlockInv'
    BY TickKeeps DEF BlockInv
  <2>1. Pending' /\ ~Pending /\ Sent' = h.cnt /\ Sent = h.cnt
    <3>1. Pending' /\ ~Pending
      BY PulsePointer, TickKeeps DEF SendMove
    <3> QED
      BY <1>0, <3>1 DEF Sent
  <2>2. bus'.d = SourceWord(h.cnt)
    <3>1. (h.st = "SEND_ID" => g.task.cmd # "READ") /\ (h.st = "READ_SEND" => g.task.cmd = "READ")
      BY DEF ControlInv, PlaceInv, Is
    <3>2. CASE h.st = "SEND_ID"
      BY <3>1, <3>2 DEF SendMove, SourceWord
    <3>3. CASE h.st = "READ_SEND"
      BY <3>1, <3>3 DEF SendMove, SourceWord
    <3> QED
      BY <3>2, <3>3
  <2>3. Filled(h.cnt) /\ Words = SectorWords
    BY <2>1 DEF BlockInv, Fills
  <2>4. (\A n : Filled(n)' <=> Filled(n)) /\ \A k : SourceWord(k)' = SourceWord(k)
    BY <1>1, WordsKept
  <2> QED
    BY <1>2, <1>3, <1>4, <2>1, <2>2, <2>3, <2>4 DEF BlockInv, Offered
<1>7. WriteInv' /\ KeptInv'
  BY <1>0, <1>2, <1>3, NothingOwed
<1> QED
  BY <1>5, <1>6, <1>7

\* The block is complete.
LEMMA SentData ==
  ASSUME ControlInv, AddressInv, BlockInv, KeptInv, TickFrame, image' = image, SentMove,
         h.st \in {"SEND_ID", "READ_SEND"}
  PROVE  AddressInv' /\ BlockInv' /\ WriteInv' /\ KeptInv'
<1>0. turn = "tick" /\ g' = g /\ kind' = kind /\ h'.st = "SET_REGS" /\ h.cnt = SectorWords /\ ~Pending
  <2>1. h.cnt >= SectorWords
    BY DEF SentMove
  <2>2. h.cnt <= SectorWords /\ h.cnt \in Nat
    BY HostNumbers DEF ControlInv, BusInv
  <2> QED
    BY <2>1, <2>2, TickKeeps, ConstantTypes DEF SentMove
<1>1. /\ h'.lba = h.lba /\ h'.heads = h.heads /\ h'.spt = h.spt /\ h'.count = h.count /\ h'.sector = h.sector
      /\ h'.sec = h.sec /\ h'.cyl = h.cyl /\ h'.head = h.head /\ h'.io = h.io /\ h'.pkt = h.pkt
      /\ h'.next = (IF h.st = "READ_SEND" /\ h.count # 0 THEN "READ_WAIT_REQ" ELSE "IDLE")
  BY DEF SentMove, Keeps, HostFields
<1>2. ~Writing' /\ Setting' /\ Place' = h'.st /\ ~Moving' /\ ~Fills'
      /\ (Reading' <=> h.st = "READ_SEND" /\ h.count # 0) /\ (Reading <=> h.st = "READ_SEND")
  BY <1>0, <1>1 DEF Writing, Reading, Setting, Place, SetDone, Moving, Sets, Fills
<1>3. ~Drq /\ ~Moving /\ ~Drq'
  BY <1>0, OffNow, TickKeeps DEF Sets, Waits, Ends
<1>4. GetLba(h)' = GetLba(h) /\ Ahead' = Ahead /\ Words' = Words
  <2>1. GetLba(h)' = GetLba(h) /\ Words' = Words
    BY <1>0, <1>1 DEF GetLba, Words
  <2> QED
    BY <1>1, <2>1, WordsKept
<1>5. Active => /\ h.st = "SEND_ID" => g.task.cmd \in {"IDENTIFY", "IDPKT"}
                /\ h.st = "READ_SEND" => g.task.cmd = "READ"
  BY DEF ControlInv, PlaceInv, Is
<1>6. AddressInv'
  BY <1>0, <1>1, <1>2, <1>3, <1>4, <1>5 DEF AddressInv, SectorAt, Due, Active
<1>7. BlockInv'
  <2> SUFFICES ASSUME Active PROVE BlockInv'
    BY TickKeeps DEF BlockInv
  <2>1. Filled(SectorWords) /\ Words = SectorWords
    BY <1>0 DEF BlockInv, Fills, Sent
  <2>2. Filled(SectorWords)'
    BY <1>1, <2>1, WordsKept
  <2> QED
    BY <1>2, <1>4, <2>1, <2>2 DEF BlockInv
<1>8. WriteInv' /\ KeptInv'
  BY <1>0, <1>2, <1>3, <1>5, NothingOwed
<1> QED
  BY <1>6, <1>7, <1>8

\* The guest has moved the block: on to the next one.
LEMMA ReadDataData ==
  ASSUME ControlInv, AddressInv, KeptInv, TickFrame, image' = image, ReadDataMove
  PROVE  AddressInv' /\ BlockInv' /\ WriteInv' /\ KeptInv'
<1>0. turn = "tick" /\ g' = g /\ h.st = "READ_WAIT_REQ" /\ h'.st = "READ_REGS" /\ request = "data"
  BY TickKeeps DEF ReadDataMove
<1>1. /\ h'.lba = h.lba /\ h'.heads = h.heads /\ h'.spt = h.spt /\ h'.count = h.count /\ h'.sector = h.sector
      /\ h'.sec = h.sec /\ h'.cyl = h.cyl /\ h'.head = h.head
  BY DEF ReadDataMove, Keeps, HostFields
<1>2. ~Writing' /\ ~Setting' /\ ~Due' /\ Place' = h'.st /\ ~Moving' /\ ~Fills' /\ Reading /\ Reading' /\ ~Moving
  BY <1>0 DEF Writing, Reading, Setting, Due, Place, SetDone, Moving, Sets, Fills
<1>3. ~Drq /\ ~Drq'
  BY <1>0, Requests, TickKeeps
<1>4. GetLba(h)' = GetLba(h) /\ Ahead' = Ahead
  <2>1. GetLba(h)' = GetLba(h)
    BY <1>1 DEF GetLba
  <2> QED
    BY <1>1, <2>1, WordsKept
<1>5. AddressInv'
  BY <1>0, <1>1, <1>2, <1>3, <1>4 DEF AddressInv, Due, Active
<1>6. BlockInv'
  BY <1>2, <1>3 DEF BlockInv, Offered
<1>7. WriteInv' /\ KeptInv'
  BY <1>0, <1>2, <1>3, NothingOwed
<1> QED
  BY <1>5, <1>6, <1>7

-----------------------------------------------------------------------------
(* The ticks of a write.                                                    *)

\* The host asks for the next sector.
LEMMA WriteRegsData ==
  ASSUME ControlInv, AddressInv, GeometryInv, AddressesFit, KeptInv, TickFrame, image' = image, WriteRegsMove
  PROVE  AddressInv' /\ BlockInv' /\ WriteInv' /\ KeptInv'
<1>0. /\ turn = "tick" /\ g' = g /\ kind' = kind /\ h.st = "WRITE_REGS" /\ h'.st = "SET_REGS"
      /\ h'.next = "WRITE_WAIT_REQ"
  BY TickKeeps DEF WriteRegsMove
<1>1. /\ h'.lba = h.lba /\ h'.heads = h.heads /\ h'.spt = h.spt /\ h'.count = h.count
      /\ h'.sec = h.sec /\ h'.cyl = h.cyl /\ h'.head = h.head /\ h'.io = 1
      /\ h'.sector = (IF InRange(GetLba(h)) THEN GetLba(h) ELSE -1)
  BY DEF WriteRegsMove, Keeps, HostFields
<1>2. Writing' /\ Setting' /\ Place' = h'.st /\ ~Moving' /\ ~Fills' /\ ~Reading'
  BY <1>0 DEF Writing, Reading, Setting, Place, SetDone, Moving, Sets, Fills
<1>3. ~Drq /\ ~Moving /\ ~Drq'
  BY <1>0, OffNow, TickKeeps DEF Sets, Waits, Ends
<1>4. Active => g.task.cmd = "WRITE"
  BY <1>0 DEF ControlInv, PlaceInv, Is
<1>5. AddressInv'
  <2> SUFFICES ASSUME Active PROVE AddressInv'
    BY TickKeeps DEF AddressInv
  <2>1. GetLba(h) = Ahead /\ h.lba = g.task.lba /\ h'.sector = SectorAt(Ahead)
    BY <1>0, <1>1, AheadType
  <2>2. GetLba(h)' = GetLba(h) /\ Ahead' = Ahead
    <3>1. GuestLba' = GuestLba /\ Total' = Total
      BY <1>0 DEF GuestLba, Total
    <3> QED
      BY <1>1, <3>1 DEF GetLba, Ahead
  <2> QED
    BY <1>0, <1>1, <1>2, <1>4, <2>1, <2>2 DEF AddressInv, SectorAt
<1>6. BlockInv'
  BY <1>0, <1>2, <1>4 DEF BlockInv, Offered, Active
<1>7. Words' = SectorWords
  <2>1. kind = "hdd"
    BY <1>0 DEF ControlInv, PlaceInv, DiskStates
  <2> QED
    BY <1>0, <1>1, <2>1, ConstantTypes DEF Words
<1>8. WriteInv' /\ KeptInv'
  BY <1>0, <1>2, <1>3, <1>7, NothingOwed
<1> QED
  BY <1>5, <1>6, <1>8

\* The guest has moved the block.
LEMMA WriteDataData ==
  ASSUME ControlInv, AddressInv, WriteInv, KeptInv, TickFrame, image' = image, WriteDataMove
  PROVE  AddressInv' /\ BlockInv' /\ WriteInv' /\ KeptInv'
<1>0. /\ turn = "tick" /\ g' = g /\ h.st = "WRITE_WAIT_REQ" /\ h'.st = "WRITE_RECV" /\ request = "data"
      /\ h'.cnt = 0 /\ (Active' <=> Active) /\ request' = request
  BY TickKeeps DEF WriteDataMove
<1>1. /\ h'.lba = h.lba /\ h'.heads = h.heads /\ h'.spt = h.spt /\ h'.count = h.count
      /\ h'.sec = h.sec /\ h'.cyl = h.cyl /\ h'.head = h.head /\ h'.sector = h.sector
  BY DEF WriteDataMove, Keeps, HostFields
<1>2. Writing' /\ Writing /\ ~Setting' /\ Place' = h'.st /\ Place = h.st /\ Moving' /\ Moving /\ ~Fills' /\ ~Reading'
  BY <1>0 DEF Writing, Reading, Setting, Place, SetDone, Moving, BlockMoved, Sets, Fills
<1>3. ~Drq /\ ~Drq'
  BY <1>0, Requests, TickKeeps
<1>4. GetLba(h)' = GetLba(h) /\ Ahead' = Ahead
  <2>1. GetLba(h)' = GetLba(h)
    BY <1>1 DEF GetLba
  <2> QED
    BY <1>1, <2>1, WordsKept
<1>5. AddressInv'
  BY <1>0, <1>1, <1>2, <1>3, <1>4 DEF AddressInv, SectorAt
<1>6. BlockInv'
  BY <1>2, <1>3 DEF BlockInv, Offered
<1>7. Owed' <=> Owed
  BY <1>0, <1>2 DEF Owed
<1>8. WriteInv'
  <2>1. \A n : NewWords(n)' <=> NewWords(n)
    BY <1>1, WordsKept
  <2>2. NewSector(h.sector)' = NewSector(h.sector)
    BY <1>1, WordsKept
  <2>3. Stored'
    BY <1>0 DEF Stored
  <2> QED
    BY <1>0, <1>1, <1>2, <1>3, <1>7, <2>1, <2>2, <2>3 DEF WriteInv
<1>9. KeptInv'
  BY <1>0, <1>1, <1>7 DEF KeptInv, Kept
<1> QED
  BY <1>5, <1>6, <1>8, <1>9

\* The image, when the host stores a word.
LEMMA StoredWord ==
  ASSUME ControlInv, StoreWord, h.st = "WRITE_RECV"
  PROVE  /\ \A s \in 0 .. Sectors - 1 : s # h.sector => image'[s] = image[s]
         /\ h.sector # -1 /\ h.cnt > 0 =>
              /\ h.sector \in 0 .. Sectors - 1
              /\ image'[h.sector] = [image[h.sector] EXCEPT ![h.cnt - 1] = rdata]
         /\ h.cnt = 0 => image' = image
         /\ SectorSize = SectorWords /\ h.cnt \in 0 .. SectorWords
         /\ h.sector # -1 => image[h.sector] = [k \in 0 .. SectorWords - 1 |-> image[h.sector][k]]
<1>1. IsImage(image) /\ h.sector \in -1 .. Sectors - 1 /\ h.cnt \in Nat /\ h.cnt <= SectorWords /\ kind = "hdd"
  BY DEF ControlInv, DataType, HostType, BusInv, PlaceInv, DiskStates
<1>2. SectorSize = SectorWords /\ h.cnt \in 0 .. SectorWords
  BY <1>1, ConstantTypes DEF SectorSize
<1>3. h.sector # -1 => h.sector \in 0 .. Sectors - 1
  BY <1>1, ConstantTypes
<1>4. CASE h.cnt > 0 /\ h.sector # -1
  <2> DEFINE r == [image[h.sector] EXCEPT ![h.cnt - 1] = rdata]
  <2>1. image' = [image EXCEPT ![h.sector] = r]
    BY <1>4 DEF StoreWord
  <2>2. DOMAIN image = 0 .. Sectors - 1
    BY <1>1 DEF IsImage
  <2>3. image[h.sector] = [k \in 0 .. SectorWords - 1 |-> image[h.sector][k]]
    BY <1>1, <1>2, <1>3, <1>4 DEF IsImage
  <2> HIDE DEF r
  <2>4. image'[h.sector] = r /\ \A s \in 0 .. Sectors - 1 : s # h.sector => image'[s] = image[s]
    BY <1>3, <1>4, <2>1, <2>2
  <2>5. h.cnt # 0
    BY <1>1, <1>4
  <2> QED
    BY <1>2, <1>3, <1>4, <2>3, <2>4, <2>5 DEF r
<1>5. CASE ~(h.cnt > 0 /\ h.sector # -1)
  <2>1. image' = image
    BY <1>5 DEF StoreWord
  <2> QED
    BY <1>1, <1>2, <1>3, <1>5, <2>1 DEF IsImage
<1> QED
  BY <1>4, <1>5

\* The word it stores is the guest's.
LEMMA FetchedWord ==
  ASSUME ControlInv, FetchInv, WriteInv, AddressInv, Active, turn = "tick", h.wait = 0, h.st = "WRITE_RECV",
         h.sector # -1, h.cnt > 0
  PROVE  rdata = <<"new", h.sector, h.cnt - 1>>
<1>1. rdata = buf[h.cnt - 1]
  BY DEF FetchInv, Recvs
<1>2. NewWords(SectorWords)
  BY DEF WriteInv, Owed, Moving
<1>3. h.cnt - 1 \in 0 .. SectorWords - 1
  <2>1. h.cnt \in Nat /\ h.cnt <= SectorWords
    BY DEF ControlInv, HostType, BusInv
  <2> QED
    BY <2>1, ConstantTypes
<1>4. Ahead = h.sector
  BY DEF AddressInv, Writing, SectorAt
<1> QED
  BY <1>1, <1>2, <1>3, <1>4 DEF NewWords

\* The host asks for the next word of the block, and stores the one before.
LEMMA RecvData ==
  ASSUME ControlInv, FetchInv, WriteInv, AddressInv, KeptInv, TickFrame, StoreWord, RecvMove, h.wait = 0,
         h.st = "WRITE_RECV"
  PROVE  AddressInv' /\ BlockInv' /\ WriteInv' /\ KeptInv'
<1>0. /\ turn = "tick" /\ g' = g /\ h'.st = "WRITE_RECV" /\ buf' = buf /\ kind' = kind
      /\ h'.cnt = h.cnt + 1 /\ (Active' <=> Active) /\ request' = request
  BY TickKeeps DEF RecvMove, Keeps, HostFields
<1>1. /\ h'.lba = h.lba /\ h'.heads = h.heads /\ h'.spt = h.spt /\ h'.count = h.count
      /\ h'.sec = h.sec /\ h'.cyl = h.cyl /\ h'.head = h.head /\ h'.sector = h.sector
  BY DEF RecvMove, Keeps, HostFields
<1>2. Writing' /\ Writing /\ ~Setting' /\ Place' = h'.st /\ Place = h.st /\ Moving' /\ Moving /\ ~Fills' /\ ~Reading'
  BY <1>0 DEF Writing, Reading, Setting, Place, SetDone, Moving, Sets, Fills
<1>3. ~Drq /\ ~Drq'
  <2>1. Busy
    BY DEF Busy, Waits, Ends, Sets
  <2> QED
    BY <2>1, Requests, TickKeeps
<1>4. GetLba(h)' = GetLba(h) /\ Ahead' = Ahead
  <2>1. GuestLba' = GuestLba /\ Total' = Total
    BY <1>0 DEF GuestLba, Total
  <2> QED
    BY <1>1, <2>1 DEF GetLba, Ahead
<1>5. AddressInv'
  BY <1>0, <1>1, <1>2, <1>3, <1>4 DEF AddressInv, SectorAt
<1>6. BlockInv'
  BY <1>2, <1>3 DEF BlockInv, Offered
<1>7. Owed' <=> Owed
  BY <1>0, <1>2 DEF Owed
<1>8. WriteInv'
  <2>1. NewWords(SectorWords)' <=> NewWords(SectorWords)
    BY <1>0, <1>4 DEF NewWords
  <2>2. NewSector(h.sector)' = NewSector(h.sector)
    BY <1>0, <1>1 DEF NewSector, SectorSize
  <2>3. ASSUME Active, h.sector # -1 PROVE Stored'
    <3>1. Stored /\ h.cnt \in 0 .. SectorWords
      BY <2>3, StoredWord DEF WriteInv
    <3>2. CASE h.cnt = 0
      BY <1>0, <3>2 DEF Stored
    <3>3. CASE h.cnt > 0
      <4>1. rdata = <<"new", h.sector, h.cnt - 1>>
        BY <1>0, <2>3, <3>3, FetchedWord
      <4>2. /\ image'[h.sector] = [image[h.sector] EXCEPT ![h.cnt - 1] = rdata]
            /\ image[h.sector] = [k \in 0 .. SectorWords - 1 |-> image[h.sector][k]]
        BY <2>3, <3>3, StoredWord
      <4> DEFINE r == image[h.sector]
                 c == h.cnt - 1
      <4>3. \A k \in 0 .. h.cnt - 2 : r[k] = <<"new", h.sector, k>>
        BY <3>1 DEF Stored
      <4>4. DOMAIN r = 0 .. SectorWords - 1
        BY <4>2
      <4>a. c \in 0 .. SectorWords - 1 /\ \A k \in 0 .. c : k = c \/ k \in 0 .. h.cnt - 2
        BY <3>1, <3>3, ConstantTypes
      <4>b. image'[h.sector] = [r EXCEPT ![c] = rdata] /\ rdata = <<"new", h.sector, c>>
        BY <4>1, <4>2
      <4> HIDE DEF r, c
      <4>c. c \in DOMAIN r /\ \A k \in 0 .. c : k \in DOMAIN r
        BY <4>a, <4>4, ConstantTypes
      <4>d. \A k \in 0 .. c : image'[h.sector][k] = IF k = c THEN rdata ELSE r[k]
        BY <4>b, <4>c
      <4>5. \A k \in 0 .. h.cnt - 1 : image'[h.sector][k] = <<"new", h.sector, k>>
        BY <4>a, <4>b, <4>d, <4>3 DEF c
      <4>6. h'.cnt - 2 = h.cnt - 1
        BY <1>0, <3>1, ConstantTypes
      <4> QED
        BY <1>1, <4>5, <4>6 DEF Stored
    <3> QED
      BY <3>1, <3>2, <3>3, ConstantTypes
  <2> QED
    BY <1>0, <1>1, <1>2, <1>3, <1>7, <2>1, <2>2, <2>3 DEF WriteInv
<1>9. KeptInv'
  <2> SUFFICES ASSUME NEW s \in 0 .. Sectors - 1 PROVE Kept(s)'
    BY DEF KeptInv
  <2>1. CASE s # h.sector
    BY <1>0, <1>1, <1>7, <2>1, StoredWord DEF KeptInv, Kept
  <2>2. CASE s = h.sector /\ Active
    BY <1>0, <1>1, <1>2, <2>2 DEF Kept, Owed
  <2>3. CASE s = h.sector /\ ~Active
    <3>1. h.sector \in g.unsure
      <4>1. s # -1
        BY ConstantTypes
      <4> QED
        BY <2>3, <4>1 DEF WriteInv
    <3> QED
      BY <1>0, <2>3, <3>1 DEF Kept
  <2> QED
    BY <2>1, <2>2, <2>3
<1> QED
  BY <1>5, <1>6, <1>8, <1>9

\* The last word of a block: the sector is in the image.
LEMMA WrittenSector ==
  ASSUME ControlInv, FetchInv, WriteInv, AddressInv, Active, turn = "tick", h.wait = 0, h.st = "WRITE_RECV",
         h.sector # -1, h.cnt = SectorWords, StoreWord
  PROVE  image'[h.sector] = g.disk[h.sector]
<1> DEFINE r == image[h.sector]
           c == h.cnt - 1
<1>1. h.cnt > 0 /\ c = SectorWords - 1 /\ c \in 0 .. SectorWords - 1
      /\ (\A k \in 0 .. SectorWords - 1 : k = c \/ k \in 0 .. h.cnt - 2)
  BY ConstantTypes
<1>2. rdata = <<"new", h.sector, c>>
  BY <1>1, FetchedWord
<1>3. image'[h.sector] = [r EXCEPT ![c] = rdata] /\ r = [k \in 0 .. SectorWords - 1 |-> r[k]]
  BY <1>1, StoredWord
<1>4. \A k \in 0 .. h.cnt - 2 : r[k] = <<"new", h.sector, k>>
  BY DEF WriteInv, Stored
<1>5. g.disk[h.sector] = NewSector(h.sector) /\ SectorSize = SectorWords
  BY StoredWord DEF WriteInv, Owed, Moving
<1>6. g.disk[h.sector] = [k \in 0 .. SectorWords - 1 |-> <<"new", h.sector, k>>]
  BY <1>5 DEF NewSector
<1> HIDE DEF r, c
<1>7. image'[h.sector] = [k \in 0 .. SectorWords - 1 |-> IF k = c THEN rdata ELSE r[k]]
  BY <1>1, <1>3
<1>8. \A k \in 0 .. SectorWords - 1 : (IF k = c THEN rdata ELSE r[k]) = <<"new", h.sector, k>>
  BY <1>1, <1>2, <1>4
<1> QED
  BY <1>6, <1>7, <1>8

\* The last word of a sector, after which the host goes on to the next, or ends.
LEMMA WrittenData ==
  ASSUME ControlInv, FetchInv, WriteInv, AddressInv, GeometryInv, AddressesFit, KeptInv, TickFrame, StoreWord,
         WrittenMove, h.wait = 0
  PROVE  AddressInv' /\ BlockInv' /\ WriteInv' /\ KeptInv'
<1>0. turn = "tick" /\ g' = g /\ h.st = "WRITE_RECV" /\ h'.count = h.count - 1 /\ NextSector /\ (Active' <=> Active)
  BY TickKeeps DEF WrittenMove
<1>1. /\ h'.lba = h.lba /\ h'.heads = h.heads /\ h'.spt = h.spt /\ h'.sector = h.sector
      /\ \/ h.count # 1 /\ h'.st = "WRITE_REGS"
         \/ h.count = 1 /\ h'.st = "SET_REGS" /\ h'.next = "IDLE" /\ h'.status = {"RDY", "IRQ"}
  BY DEF WrittenMove, Keeps, HostFields
<1>2. /\ (Writing' <=> h.count # 1) /\ (Writing' => h'.st = "WRITE_REGS") /\ Moving /\ Writing /\ ~Moving' /\ ~Fills'
      /\ ~Reading' /\ ~Due' /\ Place' = h'.st /\ h'.st # "WRITE_RECV" /\ h'.st # "READ_SEND"
      /\ h'.st # "WRITE_WAIT_REQ"
  BY <1>0, <1>1 DEF Writing, Reading, Setting, Due, Place, SetDone, Moving, Sets, Fills
<1>3. ~Drq /\ ~Drq'
  <2>1. Busy
    BY <1>0 DEF Busy, Waits, Ends, Sets
  <2> QED
    BY <2>1, Requests, TickKeeps
<1>4. h.cnt = SectorWords
  <2>1. h.cnt \in Nat /\ h.cnt <= SectorWords
    BY <1>0 DEF ControlInv, HostType, BusInv
  <2> QED
    BY <2>1, ConstantTypes DEF WrittenMove
<1>5. AddressInv'
  <2> SUFFICES ASSUME Active PROVE AddressInv'
    BY <1>0 DEF AddressInv
  <2>1. /\ GetLba(h) = Ahead /\ Ahead \in Nat /\ h.lba = g.task.lba /\ h.count \in Nat \ {0}
        /\ h.count # 1 => /\ GetLba(h) + 1 < LbaSpace
                          /\ h.lba => GetLba(h) + 1 < SecBase * CylBase * HeadBase
    BY <1>0, AheadType
  <2>2. Ahead' = Ahead + 1
    <3>1. GuestLba' = GuestLba /\ Total' = Total
      BY <1>0 DEF GuestLba, Total
    <3>2. GuestLba \in Nat /\ Total \in Nat
      BY <1>0, AheadFits DEF ControlInv, PlaceInv, Is
    <3> QED
      BY <1>0, <2>1, <3>1, <3>2 DEF Ahead
  <2>3. h.count # 1 => GetLba(h)' = GetLba(h) + 1
    BY <1>0, <1>1, <2>1, NextLba DEF ControlInv
  <2>4. Writing' => GetLba(h)' = Ahead'
    BY <1>2, <2>1, <2>2, <2>3
  <2> QED
    BY <1>0, <1>1, <1>2, <1>3, <2>1, <2>4 DEF AddressInv, Due
<1>6. BlockInv'
  BY <1>2, <1>3 DEF BlockInv, Offered, Due
<1>7. ~Owed'
  BY <1>2 DEF Owed
<1>8. WriteInv'
  BY <1>2, <1>3, <1>7 DEF WriteInv, Due
<1>9. KeptInv'
  <2> SUFFICES ASSUME NEW s \in 0 .. Sectors - 1 PROVE Kept(s)'
    BY DEF KeptInv
  <2>0. s # -1
    BY ConstantTypes
  <2>1. CASE s # h.sector
    BY <1>0, <2>1, StoredWord DEF KeptInv, Kept
  <2>2. CASE s = h.sector /\ Active
    BY <1>0, <1>4, <2>0, <2>2, WrittenSector DEF Kept
  <2>3. CASE s = h.sector /\ ~Active
    BY <1>0, <2>0, <2>3 DEF Kept, WriteInv
  <2> QED
    BY <2>1, <2>2, <2>3
<1> QED
  BY <1>5, <1>6, <1>8, <1>9

-----------------------------------------------------------------------------
(* What the data of a disk depends on.                                      *)

DataInv == GeometryInv /\ CutInv /\ AddressInv /\ PointerInv /\ FetchInv /\ BlockInv /\ WriteInv /\ KeptInv

\* Every tick keeps it.
LEMMA TickData ==
  ASSUME ControlInv, DataInv, AddressesFit, ~Jitter, Tick
  PROVE  DataInv'
<1>1. TickMove
  BY TickMoves DEF ControlInv
<1>2. TickFrame /\ (PlainMove \/ StoreMove) /\ (h.wait = 0 \/ StayMove)
  BY <1>1, HostNumbers DEF TickMove, TickFrame, ControlInv, PlainMove
<1>3. GeometryInv' /\ CutInv' /\ PointerInv' /\ FetchInv'
  BY <1>2, GeometryKept, GeometrySet, CutKept, TickPointer, TickFetch DEF DataInv
<1>4. AddressInv' /\ BlockInv' /\ WriteInv' /\ KeptInv'
  <2>1. CASE h.wait > 0 \/ StayMove
    <3>1. image' = image /\ StayMove
      BY <1>1, <1>2, <2>1, HostNumbers DEF TickMove, StayMove, Waits, ControlInv
    <3> QED
      BY <1>2, <3>1, ThroughMoves, ThroughKeeps DEF DataInv
  <2>2. CASE ~StayMove /\ h.wait = 0 /\ h.st = "WRITE_RECV" /\ StoreMove
    BY <1>2, <2>2, RecvData, WrittenData DEF StoreMove, DataInv
  <2>3. CASE ~StayMove /\ h.wait = 0 /\ UNCHANGED image /\ PlainMove
    <3>1. CASE SetMove \/ RegMove \/ RegsMove
      BY <1>2, <2>3, <3>1, ThroughMoves, ThroughKeeps DEF DataInv
    <3>2. CASE \/ InitialMove \/ CommandMove \/ ResetMove \/ DriveMove \/ RestMove \/ StageMove \/ StagedMove
               \/ ShortMove \/ TransferMove \/ PacketMove \/ OverMove \/ PacketDataMove \/ ReceivedMove
               \/ AnswerMove \/ FinishMove
      BY <1>2, <2>3, <3>2, OffMoves, OffKeeps DEF DataInv
    <3>3. CASE RecvMove /\ h.st = "PACKET_RECV"
      BY <1>2, <2>3, <3>3, OffMoves, OffKeeps DEF DataInv
    <3>4. CASE SendMove \/ SentMove
      <4>1. CASE h.st = "PACKET_SEND"
        BY <1>2, <2>3, <3>4, <4>1, OffMoves, OffKeeps DEF DataInv
      <4>2. CASE h.st # "PACKET_SEND"
        <5>1. h.st \in {"SEND_ID", "READ_SEND"}
          BY <3>4, <4>2 DEF SendMove, SentMove, Sends
        <5> QED
          BY <1>2, <2>3, <3>4, <5>1, SendData, SentData DEF DataInv
      <4> QED
        BY <4>1, <4>2
    <3>5. CASE \/ IdentifyMove \/ ReadMove \/ WriteMove \/ ReadRegsMove \/ ReadDataMove \/ WriteRegsMove
               \/ WriteDataMove
      BY <1>2, <2>3, <3>5, IdentifyData, StartData, ReadRegsData, ReadDataData, WriteRegsData, WriteDataData
         DEF DataInv
    <3> QED
      BY <2>3, <3>1, <3>2, <3>3, <3>4, <3>5 DEF PlainMove
  <2> QED
    BY <1>1, <1>2, <2>1, <2>2, <2>3 DEF TickMove
<1> QED
  BY <1>3, <1>4 DEF DataInv

-----------------------------------------------------------------------------
(* The pointer and the words that are fetched, across an edge.              *)

\* The pointer ends where it was to end.
LEMMA EdgePointer ==
  ASSUME ControlInv, EdgeFrame, PointerStep, h' = h, Pointer < 2 * BufWords
  PROVE  Pointer' = Pointer
<1>0. mgmtCnt \in Nat /\ BufWords \in Nat \ {0} /\ (Pending <=> bus.op # "none") /\ ~Pending' /\ bus' = bus
  BY ConstantTypes, EdgeKeeps DEF ControlInv, RtlType
<1>1. CASE Pending
  <2>1. oldOp = "none" /\ oldOp' = bus.op /\ mgmtCnt' = mgmtCnt /\ Settling' /\ Settling
    BY <1>0, <1>1 DEF ControlInv, BusInv, PointerStep, Settling
  <2> QED
    BY <1>0, <2>1 DEF Pointer
<1>2. CASE ~Pending /\ oldOp # "none"
  <2>1. /\ oldOp' = "none" /\ ~Settling' /\ Settling
        /\ mgmtCnt' = IF bus.n = 15 THEN (mgmtCnt + 1) % (2 * BufWords) ELSE 0
    BY <1>0, <1>2 DEF PointerStep, Settling
  <2>2. bus.n = 15 => mgmtCnt + 1 < 2 * BufWords
    BY <2>1 DEF Pointer
  <2>3. bus.n = 15 => (mgmtCnt + 1) % (2 * BufWords) = mgmtCnt + 1
    BY <1>0, <2>2
  <2> QED
    BY <2>1, <2>3 DEF Pointer
<1>3. CASE ~Pending /\ oldOp = "none"
  BY <1>0, <1>3 DEF PointerStep, Settling, Pointer
<1> QED
  BY <1>1, <1>2, <1>3

\* The counter of the host stays within the buffer.
LEMMA CounterFits ==
  ASSUME ControlInv, h.st \in Sends \cup Recvs
  PROVE  h.cnt \in Nat /\ h.cnt <= BufWords
<1>1. h.cnt \in Nat /\ h.pkt \in 0 .. BufWords
  BY DEF ControlInv, HostType
<1>2. h.cnt <= SectorWords \/ h.cnt <= PacketWords \/ h.cnt <= h.pkt
  BY DEF ControlInv, BusInv, Sends, Recvs
<1> QED
  BY <1>1, <1>2, ConstantTypes, IdeHostAssumption

\* An edge keeps what is known of the pointer.
LEMMA PointerEdge ==
  ASSUME ControlInv, PointerInv, EdgeFrame, PointerStep, h' = h
  PROVE  PointerInv'
<1>1. ASSUME h.st \in Sends \cup Recvs PROVE Pointer' = h.cnt
  <2>1. Pointer = h.cnt /\ h.cnt \in Nat /\ h.cnt <= BufWords
    BY <1>1, CounterFits DEF PointerInv
  <2> QED
    BY <2>1, EdgePointer, ConstantTypes
<1>2. ASSUME Pointer = 0 PROVE Pointer' = 0
  BY <1>2, EdgePointer, ConstantTypes
<1> QED
  BY <1>1, <1>2 DEF PointerInv

\* The word at the pointer of the management side.
LEMMA FetchedPair ==
  ASSUME FetchStep, mgmtCnt \in 0 .. BufWords - 1
  PROVE  q'[1 + (mgmtCnt % 2)] = buf[mgmtCnt]
<1>0. BufWords \in Nat \ {0}
  BY ConstantTypes
<1> DEFINE m == mgmtCnt
<1>1. m \in Nat /\ m < BufWords /\ m % BufWords = m
  BY <1>0
<1>2. q' = <<buf[2 * (m \div 2)], buf[((2 * (m \div 2)) + 1) % BufWords]>>
  BY <1>1 DEF FetchStep, At15
<1> HIDE DEF m
<1>3. CASE m % 2 = 0
  <2>1. 2 * (m \div 2) = m
    BY <1>1, <1>3
  <2> QED
    BY <1>2, <1>3, <2>1 DEF m
<1>4. CASE m % 2 = 1
  <2>1. (2 * (m \div 2)) + 1 = m
    BY <1>1, <1>4
  <2> QED
    BY <1>1, <1>2, <1>4, <2>1 DEF m
<1>5. m % 2 \in {0, 1}
  BY <1>1
<1> QED
  BY <1>3, <1>4, <1>5

\* An edge fetches the word the host has asked for.
LEMMA FetchEdge ==
  ASSUME ControlInv, PointerInv, FetchInv, EdgeFrame, PointerStep, FetchStep, h' = h, HostWord \/ Drq
  PROVE  FetchInv'
<1> SUFFICES ASSUME h.st \in Recvs, h.cnt > 0 PROVE FetchInv'
  BY DEF FetchInv
<1>0. /\ turn = "edge" /\ turn' = "tick" /\ (Pending <=> bus.op # "none") /\ bus' = bus
      /\ bus.n = 15 /\ (Pending => bus.op = "rd" /\ oldOp = "none") /\ oldOp' = bus.op
  BY EdgeKeeps DEF ControlInv, BusInv, Recvs, Sends, PointerStep
<1>1. Busy /\ ~Drq
  <2>1. Busy
    BY DEF Busy, Waits, Ends, Sets, Recvs
  <2> QED
    BY <2>1, Requests
<1>2. buf' = buf
  BY <1>0, <1>1 DEF HostWord
<1>3. Pointer = h.cnt /\ h.cnt \in Nat /\ h.cnt <= BufWords /\ mgmtCnt \in Nat
  BY CounterFits DEF PointerInv, Recvs, ControlInv, RtlType
<1>4. h.wait = (IF Pending THEN 1 ELSE 0) /\ (~Pending => oldOp = "rd")
  BY <1>0 DEF FetchInv
<1>5. mgmtCnt = h.cnt - 1 /\ mgmtCnt \in 0 .. BufWords - 1
  <2>1. mgmtCnt + 1 = h.cnt
    BY <1>0, <1>3, <1>4 DEF Pointer, Settling
  <2> QED
    BY <1>3, <2>1, ConstantTypes
<1>6. CASE Pending
  <2>1. mgmtCnt' = mgmtCnt /\ h.wait = 1 /\ oldOp' = "rd"
    BY <1>0, <1>4, <1>6 DEF PointerStep
  <2>2. q'[1 + (mgmtCnt % 2)] = buf[mgmtCnt]
    BY <1>5, FetchedPair
  <2> QED
    BY <1>0, <1>2, <2>1, <2>2 DEF FetchInv
<1>7. CASE ~Pending
  <2>1. oldOp' = "none" /\ h.wait = 0 /\ oldOp = "rd"
    BY <1>0, <1>4, <1>7
  <2>2. rdata' = q[1 + (mgmtCnt % 2)]
    BY <1>0 DEF FetchStep
  <2>3. q[1 + (mgmtCnt % 2)] = buf[mgmtCnt]
    BY <2>1 DEF FetchInv
  <2> QED
    BY <1>0, <1>2, <1>5, <2>1, <2>2, <2>3 DEF FetchInv
<1> QED
  BY <1>6, <1>7

-----------------------------------------------------------------------------
(* The guest's own fields, across an edge.                                  *)

\* What a reset leaves of what the guest knows.
LEMMA CutFields ==
  ASSUME GuestType, CutOff
  PROVE  /\ g'.task = NoTask /\ g'.heads = g.heads /\ g'.spt = g.spt /\ g'.disk = g.disk
         /\ g'.sense = (IF Free THEN SenseNow ELSE {0, 5})
         /\ g'.geometry => g.geometry /\ (Free \/ g.task.cmd # "GEOMETRY")
         /\ g'.unsure = IF g.task.cmd = "WRITE" /\ g.blocks > 0 /\ ~Free
                        THEN g.unsure \cup ({GuestLba + g.blocks - 1} \cap DOMAIN image)
                        ELSE g.unsure
<1> DEFINE m == g.geometry /\ (Free \/ g.task.cmd # "GEOMETRY")
           u == IF g.task.cmd = "WRITE" /\ g.blocks > 0 /\ ~Free
                THEN g.unsure \cup ({GuestLba + g.blocks - 1} \cap DOMAIN image) ELSE g.unsure
           z == IF Free THEN SenseNow ELSE {0, 5}
<1>1. g' = [g EXCEPT !.task = NoTask, !.resets = g.resets + 1, !.blocks = 0, !.pos = 0, !.off = 0,
                     !.sense = z, !.geometry = m, !.unsure = u]
  BY DEF CutOff, GuestType, GuestFields
<1>2. m \in BOOLEAN
  BY DEF GuestType
<1>3. m => g.geometry /\ (Free \/ g.task.cmd # "GEOMETRY")
  OBVIOUS
<1> HIDE DEF m, u, z
<1>4. /\ g'.task = NoTask /\ g'.heads = g.heads /\ g'.spt = g.spt /\ g'.disk = g.disk
      /\ g'.geometry = m /\ g'.unsure = u /\ g'.sense = z
  BY <1>1 DEF GuestType, GuestFields
<1> QED
  BY <1>2, <1>3, <1>4 DEF u, z

\* What a command leaves of it.
LEMMA CommandFields ==
  ASSUME GuestType, NEW t, NEW p, Command(t, p)
  PROVE  /\ g'.task = t /\ g'.disk = g.disk /\ g'.unsure = g.unsure
         /\ IF SetsGeometry(t)
            THEN g'.heads = t.head + 1 /\ g'.spt = IF t.count = 0 THEN Spt ELSE t.count
            ELSE g'.heads = g.heads /\ g'.spt = g.spt
         /\ g'.geometry <=> g.geometry \/ SetsGeometry(t)
         /\ t.cmd \in {"READ", "WRITE"} /\ ~t.lba => g.geometry
<1> DEFINE hd == IF SetsGeometry(t) THEN t.head + 1 ELSE g.heads
           sp == IF ~SetsGeometry(t) THEN g.spt ELSE IF t.count = 0 THEN Spt ELSE t.count
           ge == g.geometry \/ SetsGeometry(t)
<1>1. g' = [g EXCEPT !.commands = g.commands + 1, !.task = t, !.packet = p, !.blocks = 0, !.pos = 0,
                     !.off = 0, !.sense = SenseNow, !.heads = hd, !.spt = sp, !.geometry = ge]
  BY DEF Command, GuestType, GuestFields
<1>2. ge \in BOOLEAN
  BY DEF GuestType, SetsGeometry
<1>3. ge <=> g.geometry \/ SetsGeometry(t)
  OBVIOUS
<1> HIDE DEF hd, sp, ge
<1>4. /\ g'.task = t /\ g'.disk = g.disk /\ g'.unsure = g.unsure /\ g'.heads = hd /\ g'.spt = sp
      /\ g'.geometry = ge
  BY <1>1 DEF GuestType, GuestFields
<1>5. t.cmd \in {"READ", "WRITE"} /\ ~t.lba => g.geometry
  BY DEF Command
<1> QED
  BY <1>2, <1>3, <1>4, <1>5 DEF hd, sp

\* What a word leaves of it.
LEMMA WordFields ==
  ASSUME GuestType, ReadData \/ WriteData
  PROVE  /\ g'.task = g.task /\ g'.heads = g.heads /\ g'.spt = g.spt /\ g'.geometry = g.geometry
         /\ IF WriteData /\ g.task.cmd = "WRITE" /\ g.pos + 1 = blk /\ GuestLba + g.blocks \in DOMAIN image
            THEN /\ g'.disk = [g.disk EXCEPT ![GuestLba + g.blocks] = NewSector(GuestLba + g.blocks)]
                 /\ g'.unsure = g.unsure \ {GuestLba + g.blocks}
            ELSE g'.disk = g.disk /\ g'.unsure = g.unsure
<1> DEFINE s == GuestLba + g.blocks
           n == NewSector(s)
           w == WriteData /\ g.task.cmd = "WRITE" /\ g.pos + 1 = blk /\ s \in DOMAIN image
<1>1. Moved.disk = g.disk /\ Moved.unsure = g.unsure /\ DOMAIN Moved = GuestFields
      /\ Moved.task = g.task /\ Moved.heads = g.heads /\ Moved.spt = g.spt /\ Moved.geometry = g.geometry
  BY DEF Moved, GuestType, GuestFields
<1>2. g' = IF w THEN [Moved EXCEPT !.disk[s] = n, !.unsure = @ \ {s}] ELSE Moved
  <2>1. WriteData => ~ReadData
    BY DEF WriteData, ReadData, AtDataPort
  <2> QED
    BY <2>1 DEF ReadData, WriteData, AtDataPort
<1> HIDE DEF s, n, w
<1>3. CASE w
  <2>1. g' = [Moved EXCEPT !.disk = [g.disk EXCEPT ![s] = n], !.unsure = g.unsure \ {s}]
    BY <1>1, <1>2, <1>3 DEF GuestFields
  <2>2. /\ g'.disk = [g.disk EXCEPT ![s] = n] /\ g'.unsure = g.unsure \ {s} /\ g'.task = g.task
        /\ g'.heads = g.heads /\ g'.spt = g.spt /\ g'.geometry = g.geometry
    BY <1>1, <2>1 DEF GuestFields
  <2> QED
    BY <1>3, <2>2 DEF s, n, w
<1>4. CASE ~w
  <2>1. g' = Moved
    BY <1>2, <1>4
  <2> QED
    BY <1>1, <1>4, <2>1 DEF s, w
<1> QED
  BY <1>3, <1>4

-----------------------------------------------------------------------------
(* The geometry, across an edge.                                            *)

\* An edge at which the guest sends no command.
LEMMA GeometryEdge ==
  ASSUME GeometryInv, EdgeFrame, h'.heads = h.heads, h'.spt = h.spt, g'.heads = g.heads, g'.spt = g.spt,
         g'.geometry => g.geometry,
         \/ g'.task = g.task /\ g'.geometry = g.geometry
         \/ g'.task = NoTask,
         g'.geometry /\ request = "command" /\ SetsGeometry(g.task) /\ ~Setting =>
           request' = "command" /\ g'.task = g.task /\ ~Setting'
  PROVE  GeometryInv'
<1>0. kind' = kind
  BY DEF EdgeFrame
<1>1. CASE g'.task = g.task /\ g'.geometry = g.geometry
  <2>1. (SetsGeometry(g.task)' <=> SetsGeometry(g.task)) /\ (Active' <=> Active)
    BY <1>1 DEF SetsGeometry, Active
  <2> QED
    BY <1>0, <1>1, <2>1 DEF GeometryInv
<1>2. CASE g'.task = NoTask
  <2>1. ~SetsGeometry(g.task)' /\ ~Active'
    BY <1>2 DEF SetsGeometry, Active, NoTask
  <2>2. g'.task = g.task => ~SetsGeometry(g.task)
    BY <1>2 DEF SetsGeometry, NoTask
  <2> QED
    BY <1>0, <1>2, <2>1, <2>2 DEF GeometryInv
<1> QED
  BY <1>1, <1>2

\* A reset drops the geometry of a command it cuts off.
LEMMA GeometryCut ==
  ASSUME ControlInv, GeometryInv, EdgeFrame, h'.heads = h.heads, h'.spt = h.spt, CutOff
  PROVE  GeometryInv'
<1>1. /\ g'.task = NoTask /\ g'.heads = g.heads /\ g'.spt = g.spt
      /\ g'.geometry => g.geometry /\ (Free \/ g.task.cmd # "GEOMETRY")
  BY CutFields DEF ControlInv
<1>2. request = "command" => ~Free
  BY DEF ControlInv, RtlType, Free
<1>3. SetsGeometry(g.task) => g.task.cmd = "GEOMETRY"
  BY DEF SetsGeometry
<1> QED
  BY <1>1, <1>2, <1>3, GeometryEdge

\* A command, which may set it.
LEMMA GeometryCommand ==
  ASSUME ControlInv, GeometryInv, NEW t, NEW p, CommandEdge(t, p)
  PROVE  GeometryInv'
<1> SUFFICES ASSUME kind' = "hdd" PROVE GeometryInv'
  BY DEF GeometryInv
<1>0. /\ EdgeFrame /\ h' = h /\ Command(t, p) /\ t \in Tasks[kind] /\ request' = "command" /\ kind = "hdd"
      /\ bus.op = "none"
  BY DEF CommandEdge, EdgeFrame
<1>1. /\ g'.task = t
      /\ IF SetsGeometry(t)
         THEN g'.heads = t.head + 1 /\ g'.spt = IF t.count = 0 THEN Spt ELSE t.count
         ELSE g'.heads = g.heads /\ g'.spt = g.spt
      /\ g'.geometry <=> g.geometry \/ SetsGeometry(t)
      /\ t.cmd \in {"READ", "WRITE"} /\ ~t.lba => g.geometry
  BY <1>0, CommandFields DEF ControlInv
<1>2. request = "none" /\ ~Setting /\ ~Setting'
  <2>1. request = "none"
    BY <1>0 DEF ControlInv, RtlType, Command, Free
  <2> QED
    BY <1>0, <2>1, HostWaits, EdgeStands
<1>3. CASE SetsGeometry(t)
  <2>1. <<g'.heads, g'.spt>> \in Geometries
    BY <1>0, <1>1, <1>3 DEF Geometries
  <2> QED
    BY <1>0, <1>1, <1>2, <1>3, <2>1 DEF GeometryInv, SetsGeometry
<1>4. CASE ~SetsGeometry(t)
  <2>1. SetsGeometry(g.task)' <=> SetsGeometry(t)
    BY <1>1 DEF SetsGeometry
  <2> QED
    BY <1>0, <1>1, <1>2, <1>4, <2>1 DEF GeometryInv
<1> QED
  BY <1>3, <1>4

\* The edges at which the command stays.
LEMMA GeometryStays ==
  ASSUME ControlInv, GeometryInv, EdgeFrame, h' = h, g'.task = g.task, g'.heads = g.heads, g'.spt = g.spt,
         g'.geometry = g.geometry, request' = request \/ request # "command" \/ ~Active \/ Setting
  PROVE  GeometryInv'
<1>1. SetsGeometry(g.task) => Active
  BY DEF SetsGeometry, Active, NoTask
<1>2. Setting' => Setting
  BY EdgeKeeps
<1> QED
  BY <1>1, <1>2, GeometryEdge

-----------------------------------------------------------------------------
(* A command that is cut off.                                               *)

\* What the host writes into the task file is not the command.
LEMMA CommandStays ==
  ASSUME ControlInv, HostRegs \/ task' = task
  PROVE  task'.cmd = task.cmd
BY DEF ControlInv, RtlType, TaskFile, HostRegs

\* An edge, a reset at it included, keeps what is known of a command that is cut off.
LEMMA CutEdge ==
  ASSUME ControlInv, CutInv, EdgeFrame, h' = h, request' = request, ~swReset, GuestIdles,
         ~(bus.op = "wr" /\ bus.n = 5), HostRegs \/ task' = task
  PROVE  CutInv'
<1> SUFFICES ASSUME ~Active' PROVE CutInv'
  BY DEF CutInv
<1>0. task'.cmd = task.cmd /\ h' = h
  BY CommandStays
<1>1. Place' = Place
  <2>1. ~(h.st = "SET_REGS_SEND" /\ h.cnt = 6 /\ Pending)
    BY DEF ControlInv, BusInv, Sends, Recvs
  <2> QED
    BY <2>1, EdgeKeeps DEF Place
<1>2. CASE ~Active
  <2>1. request # "command" /\ h.st \notin {"GET_CMD", "DO_CMD"}
    BY <1>2 DEF ControlInv, ServeInv, ResetPlace, Ends, Sets
  <2> QED
    BY <2>1 DEF CutInv
<1>3. CASE Active
  <2>1. CutOff
    BY <1>3 DEF GuestIdles, SoftReset, Active
  <2>2. g'.geometry => (Free \/ g.task.cmd # "GEOMETRY")
    BY <2>1, CutFields DEF ControlInv
  <2>3. request = "command" => ~Free
    BY DEF ControlInv, RtlType, Free
  <2>4. h.st \in {"GET_CMD", "DO_CMD"} => request = "command"
    BY DEF ControlInv, ServeInv
  <2>5. request = "command" /\ Place \in Ends => task = g.task
    BY <1>3 DEF ControlInv, AskInv
  <2>6. h.st = "GET_CMD" => task = g.task
    BY <1>3, <2>4 DEF ControlInv, AskInv, Place, SetDone
  <2>7. h.st = "DO_CMD" => h.cmd = g.task.cmd
    BY <1>3 DEF ControlInv, AskInv
  <2> QED
    BY <1>0, <1>1, <2>2, <2>3, <2>4, <2>5, <2>6, <2>7 DEF CutInv
<1> QED
  BY <1>2, <1>3

-----------------------------------------------------------------------------
(* Addresses and blocks, across an edge.                                    *)

\* What does not change while the command and the host stay.
LEMMA EdgeSame ==
  ASSUME EdgeFrame, h' = h, g'.task = g.task, g'.heads = g.heads, g'.spt = g.spt
  PROVE  /\ (Reading' <=> Reading) /\ (Writing' <=> Writing) /\ (Fills' <=> Fills) /\ (Due' => Due)
         /\ GetLba(h)' = GetLba(h) /\ GuestLba' = GuestLba /\ Ahead' = Ahead /\ (Active' <=> Active)
         /\ \A k : SourceWord(k)' = SourceWord(k)
<1>1. (Reading' <=> Reading) /\ (Writing' <=> Writing) /\ (Fills' <=> Fills) /\ (Active' <=> Active)
  BY DEF Reading, Writing, Fills, Active
<1>2. Due' => Due
  BY EdgeKeeps DEF Due
<1>3. GetLba(h)' = GetLba(h) /\ GuestLba' = GuestLba /\ Total' = Total
  BY DEF GetLba, GuestLba, Total
<1>4. Ahead' = Ahead
  BY <1>3 DEF Ahead
<1>5. \A k : SourceWord(k)' = SourceWord(k)
  BY DEF SourceWord, EdgeFrame
<1> QED
  BY <1>1, <1>2, <1>3, <1>4, <1>5

\* An edge at which the command stays keeps the address.
LEMMA AddressEdge ==
  ASSUME AddressInv, EdgeFrame, h' = h, g'.task = g.task, g'.heads = g.heads, g'.spt = g.spt,
         Drq' => Drq \/ Due
  PROVE  AddressInv'
BY EdgeSame DEF AddressInv, SectorAt, Due

\* Where no word of a block to the guest can change.
LEMMA OfferedStands ==
  ASSUME ControlInv, EdgeFrame, h' = h, Drq \/ Due, HostWord
  PROVE  buf' = buf
<1>1. CASE Drq
  BY <1>1, EdgeFacts DEF HostWord, EdgeFrame
<1>2. CASE Due
  <2>1. h.st \in Sets
    BY <1>2 DEF Due, Setting
  <2>2. bus.op = "wr" => bus.n # 15
    <3>1. bus.op = "wr" => Pending /\ h.st = "SET_REGS_SEND" /\ h.cnt > 0
      BY <2>1, EdgeKeeps DEF ControlInv, BusInv, Sends, Recvs, Sets
    <3>2. h.st = "SET_REGS_SEND" => h.cnt \in 0 .. 6 /\ (h.cnt > 0 => bus.n = h.cnt - 1)
      BY DEF ControlInv, BusInv
    <3> QED
      BY <3>1, <3>2
  <2> QED
    BY <2>2 DEF HostWord
<1> QED
  BY <1>1, <1>2

\* ... and the block: the word the host writes is the next one of it.
LEMMA BlockEdge ==
  ASSUME ControlInv, BlockInv, PointerInv, EdgeFrame, h' = h, g'.task = g.task, g'.heads = g.heads, g'.spt = g.spt,
         Drq' => Drq \/ Due,
         HostWord \/ (Drq /\ g.task.cmd \notin {"READ", "IDENTIFY", "IDPKT"})
  PROVE  BlockInv'
<1> SUFFICES ASSUME Active PROVE BlockInv'
  BY EdgeSame DEF BlockInv
<1>0. Words' = Words /\ ~Pending' /\ (Pending <=> bus.op # "none") /\ turn = "edge"
  BY EdgeKeeps
<1>1. Fills' => Filled(Sent)' /\ Words' = SectorWords
  <2> SUFFICES ASSUME Fills PROVE Filled(Sent)' /\ Words' = SectorWords
    BY EdgeSame
  <2>1. Filled(Sent) /\ (Pending => bus.d = SourceWord(Sent)) /\ Words = SectorWords
    BY DEF BlockInv
  <2>2. ~Drq
    <3>1. Busy
      BY DEF Busy, Fills, Waits, Ends, Sets
    <3> QED
      BY <3>1, Requests
  <2>3. HostWord /\ h.st \in Sends /\ h.cnt \in Nat /\ h.cnt <= BufWords
    BY <2>2, CounterFits DEF Fills, Sends
  <2>4. Sent' = h.cnt
    BY <1>0 DEF Sent
  <2>5. CASE ~Pending
    <3>1. buf' = buf /\ Sent = h.cnt
      BY <1>0, <2>3, <2>5 DEF HostWord, Sent
    <3>2. Filled(Sent)' <=> (\A k \in 0 .. h.cnt - 1 : buf[k] = SourceWord(k))
      BY <2>4, <3>1, EdgeSame DEF Filled
    <3> QED
      BY <1>0, <2>1, <3>1, <3>2 DEF Filled
  <2>6. CASE Pending
    <3>1. bus.op = "wr" /\ bus.n = 15 /\ h.cnt > 0 /\ oldOp = "none" /\ Sent = h.cnt - 1
      BY <2>3, <2>6 DEF ControlInv, BusInv, Sends, Recvs, Sent
    <3>2. mgmtCnt = h.cnt - 1
      <4>1. Pointer = h.cnt /\ Pointer = mgmtCnt + 1 /\ mgmtCnt \in Nat
        BY <2>3, <2>6, <3>1 DEF PointerInv, Pointer, Settling, ControlInv, RtlType
      <4> QED
        BY <2>3, <4>1
    <3> DEFINE c == h.cnt - 1
    <3>3. c \in 0 .. BufWords - 1 /\ At15 = c
      <4>1. c \in 0 .. BufWords - 1
        BY <2>3, <3>1, ConstantTypes
      <4>2. c % BufWords = c
        BY <4>1, ConstantTypes
      <4> QED
        BY <3>2, <4>1, <4>2 DEF At15
    <3>4. buf' = [buf EXCEPT ![c] = bus.d] /\ bus.d = SourceWord(c) /\ \A k \in 0 .. c - 1 : buf[k] = SourceWord(k)
      BY <2>1, <2>3, <2>6, <3>1, <3>3 DEF HostWord, Filled
    <3>5. DOMAIN buf = 0 .. BufWords - 1
      BY DEF ControlInv, DataType
    <3> HIDE DEF c
    <3>6. \A k \in 0 .. c : k \in DOMAIN buf /\ (k = c \/ k \in 0 .. c - 1)
      BY <3>3, <3>5, ConstantTypes
    <3>7. \A k \in 0 .. c : buf'[k] = SourceWord(k)
      BY <3>4, <3>6
    <3>8. Filled(Sent)' <=> (\A k \in 0 .. c : buf'[k] = SourceWord(k))
      BY <2>4, EdgeSame DEF Filled, c
    <3> QED
      BY <1>0, <2>1, <3>7, <3>8
  <2> QED
    BY <2>5, <2>6
<1>2. Offered' => Filled(SectorWords)' /\ Words' = SectorWords
  <2> SUFFICES ASSUME Offered' PROVE Filled(SectorWords)' /\ Words' = SectorWords
    OBVIOUS
  <2>1. Offered /\ (Drq \/ Due)
    BY EdgeSame DEF Offered, Due
  <2>2. buf' = buf
    BY <2>1, OfferedStands DEF Offered
  <2> QED
    BY <1>0, <2>1, <2>2, EdgeSame DEF BlockInv, Filled
<1> QED
  BY <1>0, <1>1, <1>2 DEF BlockInv

\* A guest that runs no command, or has just sent one, has no block on its way.
LEMMA NoBlock ==
  ASSUME ~Active'
  PROVE  AddressInv' /\ BlockInv'
BY DEF AddressInv, BlockInv

\* No block is on its way when a command has just been sent.
LEMMA CommandBlock ==
  ASSUME ControlInv, NEW t, NEW p, CommandEdge(t, p)
  PROVE  AddressInv' /\ BlockInv' /\ ~Moving /\ ~Moving' /\ ~Drq' /\ ~Due'
<1>0. EdgeFrame /\ h' = h /\ bus.op = "none" /\ status' = {"BSY"}
  BY DEF CommandEdge
<1>1. request = "none" /\ ~Drq
  BY DEF CommandEdge, ControlInv, RtlType, Command, Free, Drq
<1>2. Place \in Ends /\ ~Setting /\ h.st \in Waits \cup Ends \cup Sets
  BY <1>1, HostWaits
<1>3. ~Setting' /\ Place' = Place
  BY <1>0, <1>2, EdgeStands
<1>4. h.st \in Ends \/ (h.st \in Sets /\ h.next \in Ends)
  BY <1>2 DEF Place, SetDone, Sets
<1>5. ~Reading' /\ ~Writing' /\ ~Fills' /\ ~Moving' /\ ~Moving /\ ~Due' /\ ~Drq' /\ h'.st # "READ_SEND"
  BY <1>0, <1>2, <1>3, <1>4 DEF Reading, Writing, Fills, Moving, Due, Drq, Ends, Sets
<1> QED
  BY <1>3, <1>5 DEF AddressInv, BlockInv, Offered

-----------------------------------------------------------------------------
(* What is written, across an edge.                                         *)

\* The sector a write has in hand is the block the guest has moved last.
LEMMA OwedSector ==
  ASSUME ControlInv, AddressInv, Owed
  PROVE  /\ g.task.cmd = "WRITE" /\ g.blocks > 0 /\ ~Free
         /\ h.sector = SectorAt(GuestLba + g.blocks - 1)
<1>0. Active /\ Moving
  BY DEF Owed
<1>1. g.task.cmd = "WRITE" /\ Writing /\ h.st # "WRITE_REGS"
  <2>1. CASE h.st = "WRITE_RECV"
    BY <1>0, <2>1 DEF ControlInv, PlaceInv, Is, Writing
  <2>2. CASE Place = "WRITE_WAIT_REQ"
    BY <1>0, <2>2 DEF ControlInv, PlaceInv, Is, Writing, Place, SetDone, Sets
  <2> QED
    BY <1>0, <2>1, <2>2 DEF Moving
<1>2. BlockMoved /\ (h.st = "WRITE_RECV" => request = "data")
  BY <1>0 DEF Moving, BlockMoved, ControlInv, ServeInv
<1>3. g.blocks > 0 /\ g.blocks \in Nat /\ h.count \in Nat /\ Hand = g.blocks - 1
  BY <1>0, <1>2 DEF ControlInv, MoveInv, GuestType, HostType, Hand
<1>4. ~Free
  BY <1>2 DEF BlockMoved, ControlInv, RtlType, Free, Drq
<1>5. h.count + g.blocks = Total + 1
  <2>1. Total \in Nat
    BY <1>0, TotalType DEF ControlInv
  <2>2. CASE h.st = "WRITE_RECV"
    BY <1>0, <2>2 DEF ControlInv, CountInv
  <2>3. CASE Place = "WRITE_WAIT_REQ"
    <3>1. h.count + Hand = Total
      BY <1>0, <2>3 DEF ControlInv, CountInv
    <3> QED
      BY <1>3, <2>1, <3>1
  <2> QED
    BY <1>0, <2>2, <2>3 DEF Moving
<1>6. Ahead = GuestLba + g.blocks - 1
  <2>1. Total \in Nat
    BY <1>0, TotalType DEF ControlInv
  <2>2. GuestLba \in Int
    BY <1>0, GuestLbaType DEF ControlInv
  <2> QED
    BY <1>3, <1>5, <2>1, <2>2 DEF Ahead
<1>7. h.sector = SectorAt(Ahead)
  BY <1>0, <1>1 DEF AddressInv
<1> QED
  BY <1>1, <1>3, <1>4, <1>6, <1>7

\* A reset marks it as one the guest cannot be sure of.
LEMMA KeptCut ==
  ASSUME ControlInv, AddressInv, KeptInv, EdgeFrame, CutOff
  PROVE  /\ KeptInv' /\ ~Owed'
         /\ Owed => h.sector \in g'.unsure \cup {-1}
<1>1. /\ g'.task = NoTask /\ g'.disk = g.disk
      /\ g'.unsure = IF g.task.cmd = "WRITE" /\ g.blocks > 0 /\ ~Free
                     THEN g.unsure \cup ({GuestLba + g.blocks - 1} \cap DOMAIN image)
                     ELSE g.unsure
  BY CutFields DEF ControlInv
<1>2. ~Owed'
  BY <1>1 DEF Owed, Active
<1>3. Owed => h.sector \in g'.unsure \cup {-1}
  <2>1. DOMAIN image = 0 .. Sectors - 1
    BY DEF ControlInv, DataType, IsImage
  <2> QED
    BY <1>1, <2>1, OwedSector DEF SectorAt
<1>4. KeptInv'
  <2> SUFFICES ASSUME NEW s \in 0 .. Sectors - 1 PROVE Kept(s)'
    BY DEF KeptInv
  <2>1. s # -1 /\ image' = image
    BY ConstantTypes DEF EdgeFrame
  <2>2. CASE Owed /\ s = h.sector
    BY <1>3, <2>1, <2>2 DEF Kept
  <2>3. CASE ~(Owed /\ s = h.sector)
    BY <1>1, <2>1, <2>3 DEF Kept, KeptInv
  <2> QED
    BY <2>2, <2>3
<1> QED
  BY <1>2, <1>3, <1>4

\* A guest that runs no command, and no longer has one.
LEMMA WriteIdle ==
  ASSUME ~Active',
         h'.st = "WRITE_RECV" \/ (Place' = "WRITE_WAIT_REQ" /\ request' = "data") =>
           h'.sector \in g'.unsure \cup {-1}
  PROVE  WriteInv'
BY DEF WriteInv, Owed

\* A reset while the host goes on.
LEMMA WriteCut ==
  ASSUME ControlInv, AddressInv, KeptInv, EdgeFrame, h' = h, ~swReset, CutOff,
         \/ request' = request /\ ~(bus.op = "wr" /\ bus.n = 5)
         \/ request' = "none" /\ h.st = "SET_REGS_SEND"
  PROVE  WriteInv'
<1>1. ~Active'
  BY CutFields DEF ControlInv, Active
<1> SUFFICES ASSUME h.st = "WRITE_RECV" \/ (Place' = "WRITE_WAIT_REQ" /\ request' = "data")
             PROVE  h.sector \in g'.unsure \cup {-1}
  BY <1>1, WriteIdle
<1>2. request' = request /\ ~(bus.op = "wr" /\ bus.n = 5)
  OBVIOUS
<1>3. Place' = Place
  <2>1. ~(h.st = "SET_REGS_SEND" /\ h.cnt = 6 /\ Pending)
    BY <1>2 DEF ControlInv, BusInv, Sends, Recvs
  <2> QED
    BY <2>1, EdgeKeeps DEF Place
<1>4. Moving
  BY <1>2, <1>3 DEF Moving, BlockMoved
<1>5. Active
  <2>1. CASE h.st = "WRITE_RECV"
    BY <2>1 DEF ControlInv, ServeInv, ResetPlace, Ends, Sets
  <2>2. CASE request = "data"
    BY <2>2 DEF ControlInv, ServeInv
  <2> QED
    BY <1>2, <2>1, <2>2
<1> QED
  BY <1>4, <1>5, KeptCut DEF Owed

\* The edges at which the guest's sectors stay as they are.
LEMMA WriteStays ==
  ASSUME WriteInv, KeptInv, EdgeFrame, h' = h, g'.task = g.task, g'.heads = g.heads, g'.spt = g.spt,
         g'.disk = g.disk, g'.unsure = g.unsure, Moving' <=> Moving,
         Active /\ g.task.cmd = "WRITE" /\ Drq' => (Drq /\ ioCnt' + Stb' = ioCnt + Stb) \/ (Due /\ ioCnt' + Stb' = 0),
         (Active /\ g.task.cmd = "WRITE" /\ Drq') \/ Moving => buf' = buf,
         ~Active /\ Place' = "WRITE_WAIT_REQ" /\ request' = "data" => Place = "WRITE_WAIT_REQ" /\ request = "data"
  PROVE  WriteInv' /\ KeptInv'
<1>0. image' = image /\ Words' = Words /\ Ahead' = Ahead /\ (Active' <=> Active) /\ (Due' => Due)
  BY EdgeSame, EdgeKeeps
<1>1. Owed' <=> Owed
  BY <1>0 DEF Owed
<1>2. KeptInv'
  BY <1>0, <1>1 DEF KeptInv, Kept
<1>3. Active /\ g.task.cmd = "WRITE" /\ (Drq' \/ Due') => Words' = SectorWords
  BY <1>0 DEF WriteInv, Due
<1>4. Active /\ g.task.cmd = "WRITE" /\ Drq' => NewWords(ioCnt + Stb)'
  <2>1. CASE Drq /\ ioCnt' + Stb' = ioCnt + Stb
    BY <1>0, <2>1 DEF WriteInv, NewWords
  <2>2. CASE ioCnt' + Stb' = 0
    BY <2>2 DEF NewWords
  <2> QED
    BY <2>1, <2>2
<1>5. Owed => NewWords(SectorWords)'
  BY <1>0 DEF WriteInv, NewWords, Owed
<1>6. NewSector(h.sector)' = NewSector(h.sector) /\ (Stored' <=> Stored)
  BY <1>0, EdgeKeeps DEF NewSector, Stored
<1>7. WriteInv'
  BY <1>0, <1>1, <1>3, <1>4, <1>5, <1>6 DEF WriteInv, Due
<1> QED
  BY <1>2, <1>7

\* A word of the block in hand of a write.
LEMMA WriteWord ==
  ASSUME ControlInv, AddressInv, WriteInv, KeptInv, WriteEdge, g.task.cmd = "WRITE"
  PROVE  WriteInv' /\ KeptInv'
<1>0. /\ EdgeFrame /\ h' = h /\ bus.op = "none" /\ Drq /\ ~IoDone /\ ~oldStb /\ WriteData /\ oldStb' = TRUE
      /\ status' = status /\ request' = request /\ blk' = blk /\ ioCnt' = ioCnt
      /\ buf' = [buf EXCEPT ![ioCnt % BufWords] = OutWord] /\ image' = image
  BY DEF WriteEdge, MovesWord, EdgeFrame
<1>1. Active /\ Drq' /\ Stb = 0 /\ Stb' = 1 /\ request = "none"
  BY <1>0, Requests DEF Active, NoTask, Drq, Stb
<1>2. Place = "WRITE_WAIT_REQ" /\ Place' = "WRITE_WAIT_REQ" /\ ~Setting /\ ~Due'
  <2>1. Place \in Waits \cup Ends /\ ~Setting
    BY <1>1, HostWaits
  <2>2. Place \notin Ends
    BY <1>0, <1>1 DEF ControlInv, PlaceInv, Is
  <2>3. Place = "WRITE_WAIT_REQ"
    BY <1>1, <2>1, <2>2 DEF ControlInv, PlaceInv, Is, Waits
  <2> QED
    BY <1>0, <2>1, <2>3, EdgeStands DEF Due
<1>3. h.st # "WRITE_RECV" /\ Writing /\ h.st # "WRITE_REGS"
  BY <1>2 DEF Writing, Place, SetDone, Sets
<1>4. /\ ioCnt \in Nat /\ ioCnt < blk /\ blk = SectorWords /\ blk \in 0 .. BufWords /\ Words = SectorWords
      /\ g.pos = ioCnt /\ ~BlockMoved
  <2>1. Words = SectorWords /\ blk = Words /\ blk \in 0 .. BufWords
    BY <1>0, <1>1 DEF WriteInv, ControlInv, MoveInv
  <2>2. ioCnt \in Nat /\ ioCnt < blk
    BY <1>0, <2>1, ConstantTypes DEF IoDone, ControlInv, RtlType
  <2>3. ~BlockMoved
    BY <1>1, <2>1, <2>2, ConstantTypes DEF BlockMoved
  <2>4. g.pos = ioCnt
    BY <1>0, <1>1, <2>2, <2>3 DEF ControlInv, MoveInv
  <2> QED
    BY <2>1, <2>2, <2>3, <2>4
<1>5. Ahead = GuestLba + g.blocks /\ h.sector = SectorAt(Ahead)
  <2>1. h.count + g.blocks = Total
    BY <1>1, <1>2, <1>4 DEF ControlInv, CountInv, Hand
  <2>2. Total \in Nat /\ GuestLba \in Int /\ h.count \in Nat /\ g.blocks \in Nat
    BY <1>1, TotalType, GuestLbaType DEF ControlInv, HostType, GuestType
  <2>3. h.sector = SectorAt(Ahead)
    BY <1>1, <1>3 DEF AddressInv
  <2> QED
    BY <2>1, <2>2, <2>3 DEF Ahead
<1> DEFINE s == GuestLba + g.blocks
<1>6. /\ g'.task = g.task /\ g'.heads = g.heads /\ g'.spt = g.spt
      /\ IF g.pos + 1 = blk /\ s \in DOMAIN image
         THEN g'.disk = [g.disk EXCEPT ![s] = NewSector(s)] /\ g'.unsure = g.unsure \ {s}
         ELSE g'.disk = g.disk /\ g'.unsure = g.unsure
  BY <1>0, WordFields DEF ControlInv
<1>7. Ahead' = Ahead /\ (Active' <=> Active) /\ Words' = Words /\ SectorSize' = SectorSize
  BY <1>0, <1>6, EdgeSame, EdgeKeeps
<1>8. NewWords(ioCnt + 1)'
  <2>1. \A k \in 0 .. ioCnt - 1 : buf[k] = <<"new", Ahead, k>>
    BY <1>0, <1>1, <1>4 DEF WriteInv, NewWords
  <2>2. OutWord = <<"new", Ahead, ioCnt>>
    BY <1>4, <1>5 DEF OutWord
  <2>3. ioCnt % BufWords = ioCnt /\ DOMAIN buf = 0 .. BufWords - 1
    BY <1>4, ConstantTypes DEF ControlInv, DataType
  <2>4. \A k \in 0 .. ioCnt : k \in DOMAIN buf /\ (k = ioCnt \/ k \in 0 .. ioCnt - 1)
    BY <1>4, <2>3, ConstantTypes
  <2>5. buf' = [buf EXCEPT ![ioCnt] = OutWord]
    BY <1>0, <2>3
  <2>6. \A k \in 0 .. ioCnt : buf'[k] = <<"new", Ahead, k>>
    BY <2>1, <2>2, <2>4, <2>5
  <2>7. (ioCnt + 1)' - 1 = ioCnt
    BY <1>0, <1>4, ConstantTypes
  <2>8. \A k \in 0 .. (ioCnt + 1)' - 1 : buf'[k] = <<"new", Ahead', k>>
    BY <1>7, <2>6, <2>7
  <2> QED
    BY <2>8 DEF NewWords
<1>9. Owed' <=> g.pos + 1 = blk
  <2>1. BlockMoved' <=> ioCnt + 1 = blk
    BY <1>0, <1>1, <1>4, ConstantTypes DEF BlockMoved, Stb
  <2> QED
    BY <1>0, <1>1, <1>2, <1>3, <1>4, <1>7, <2>1 DEF Owed, Moving
<1>10. ~Owed
  BY <1>3, <1>4 DEF Owed, Moving
<1>11. DOMAIN image = 0 .. Sectors - 1 /\ DOMAIN g.disk = 0 .. Sectors - 1
  BY DEF ControlInv, DataType, GuestType, IsImage
<1>12. h.sector # -1 => s = h.sector /\ s \in DOMAIN image
  BY <1>5, <1>11 DEF SectorAt
<1> HIDE DEF s
<1>13. ASSUME Owed', h.sector # -1 PROVE g'.disk[h.sector] = NewSector(h.sector)'
  <2>1. g'.disk = [g.disk EXCEPT ![s] = NewSector(s)] /\ s = h.sector /\ s \in DOMAIN g.disk
    BY <1>6, <1>9, <1>11, <1>12, <1>13
  <2>2. g'.disk[h.sector] = NewSector(h.sector)
    BY <2>1
  <2> QED
    BY <1>0, <1>7, <2>2 DEF NewSector
<1>14. WriteInv'
  <2>1. Owed' => NewWords(SectorWords)'
    <3>1. Owed' => ioCnt' + 1 = SectorWords
      BY <1>0, <1>4, <1>9
    <3> QED
      BY <1>8, <3>1 DEF NewWords
  <2>2. NewWords(ioCnt + Stb)'
    BY <1>1, <1>8 DEF NewWords
  <2> QED
    BY <1>0, <1>1, <1>3, <1>4, <1>7, <1>13, <2>1, <2>2 DEF WriteInv
<1>15. KeptInv'
  <2> SUFFICES ASSUME NEW i \in 0 .. Sectors - 1 PROVE Kept(i)'
    BY DEF KeptInv
  <2>1. i \in g.unsure \/ image[i] = g.disk[i]
    BY <1>10 DEF KeptInv, Kept
  <2>2. CASE g.pos + 1 = blk /\ s \in DOMAIN image
    <3>1. g'.disk = [g.disk EXCEPT ![s] = NewSector(s)] /\ g'.unsure = g.unsure \ {s}
      BY <1>6, <2>2
    <3>2. h.sector = s
      BY <1>5, <1>11, <2>2 DEF SectorAt, s
    <3>3. CASE i = s
      BY <1>0, <1>9, <2>2, <3>2, <3>3 DEF Kept
    <3>4. CASE i # s
      <4>1. g'.disk[i] = g.disk[i] /\ (i \in g.unsure => i \in g'.unsure)
        BY <1>11, <3>1, <3>4
      <4> QED
        BY <1>0, <2>1, <4>1 DEF Kept
    <3> QED
      BY <3>3, <3>4
  <2>3. CASE ~(g.pos + 1 = blk /\ s \in DOMAIN image)
    BY <1>0, <1>6, <2>1, <2>3 DEF Kept
  <2> QED
    BY <2>2, <2>3
<1> QED
  BY <1>14, <1>15

-----------------------------------------------------------------------------
(* An edge keeps the data, move by move.                                    *)

\* A power-on.
LEMMA ColdData ==
  ASSUME ControlInv, DataInv, ColdEdge
  PROVE  DataInv'
<1> DEFINE x == FreshRegs(h)
<1>0. EdgeFrame /\ CutOff /\ h' = ColdHost(h) /\ HostType /\ GeometryInv /\ AddressInv /\ KeptInv
      /\ mgmtCnt' = 0 /\ oldOp' = "none" /\ turn' = "tick" /\ request' = "reset"
  BY DEF ColdEdge, ControlInv, DataInv, EdgeFrame
<1>1. /\ DOMAIN x = HostFields
      /\ \A f \in HostFields \ {"count", "sec", "cyl", "head", "lba", "io", "pkt"} : x[f] = h[f]
  BY <1>0, FreshFields DEF HostType
<1>2. h' = [x EXCEPT !.st = "INITIAL", !.next = "IDLE", !.drv = 0,
                     !.status = IF kind = "cd" THEN {} ELSE {"RDY"}, !.wait = 0]
  BY <1>0 DEF ColdHost
<1> HIDE DEF x
<1>3. h'.st = "INITIAL" /\ h'.heads = h.heads /\ h'.spt = h.spt
  BY <1>1, <1>2 DEF HostFields
<1>4. ~Active'
  BY <1>0, CutFields DEF ControlInv, Active
<1>5. GeometryInv'
  BY <1>0, <1>3, GeometryCut
<1>6. CutInv'
  BY <1>0, <1>3 DEF CutInv
<1>7. AddressInv' /\ BlockInv'
  BY <1>4, NoBlock
<1>8. PointerInv'
  <2>1. Pointer' = 0
    BY <1>0 DEF Pointer, Settling, Pending
  <2> QED
    BY <1>3, <2>1 DEF PointerInv, Sends, Recvs
<1>9. FetchInv'
  BY <1>3 DEF FetchInv, Recvs
<1>10. WriteInv'
  BY <1>0, <1>3, <1>4, WriteIdle
<1>11. KeptInv'
  BY <1>0, KeptCut
<1> QED
  BY <1>5, <1>6, <1>7, <1>8, <1>9, <1>10, <1>11 DEF DataInv

\* A cycle of SRST.
LEMMA HeldData ==
  ASSUME ControlInv, DataInv, HeldEdge
  PROVE  DataInv'
<1>0. /\ EdgeFrame /\ PointerStep /\ FetchStep /\ HostWord /\ h' = h /\ g' = g /\ swReset /\ request' = "reset"
      /\ GeometryInv /\ CutInv /\ PointerInv /\ FetchInv /\ WriteInv /\ KeptInv
  BY DEF HeldEdge, DataInv
<1>1. ~Active /\ ~Active'
  BY <1>0 DEF ControlInv, ServeInv, Active
<1>2. GeometryInv'
  BY <1>0, <1>1, GeometryStays
<1>3. task'.cmd = task.cmd
  <2>1. CASE MgmtWr(5)
    BY <2>1 DEF HeldEdge, ControlInv, RtlType, TaskFile
  <2>2. CASE ~MgmtWr(5)
    BY <2>2, CommandStays DEF HeldEdge
  <2> QED
    BY <2>1, <2>2
<1>4. CutInv'
  BY <1>0, <1>1, <1>3, EdgeKeeps DEF CutInv
<1>5. AddressInv' /\ BlockInv'
  BY <1>1, NoBlock
<1>6. PointerInv' /\ FetchInv'
  BY <1>0, PointerEdge, FetchEdge
<1>7. WriteInv'
  <2>1. h.st = "WRITE_RECV" => h.sector \in g.unsure \cup {-1}
    BY <1>0, <1>1 DEF WriteInv
  <2> QED
    BY <1>0, <1>1, <2>1, WriteIdle
<1>8. KeptInv'
  BY <1>0, <1>1, EdgeKeeps DEF KeptInv, Kept, Owed
<1> QED
  BY <1>2, <1>4, <1>5, <1>6, <1>7, <1>8 DEF DataInv

\* The edges at which the guest sets SRST.
LEMMA ResetData ==
  ASSUME ControlInv, DataInv, EdgeFrame, PointerStep, FetchStep, HostWord, h' = h, ~swReset, SoftReset,
         \/ request' = request /\ ~(bus.op = "wr" /\ bus.n = 5)
         \/ request' = "none" /\ h.st = "SET_REGS_SEND",
         CutInv'
  PROVE  DataInv'
<1>0. GeometryInv /\ AddressInv /\ PointerInv /\ FetchInv /\ KeptInv /\ CutOff
  BY DEF DataInv, SoftReset
<1>1. ~Active'
  BY <1>0, CutFields DEF ControlInv, Active
<1>2. GeometryInv'
  BY <1>0, GeometryCut
<1>3. AddressInv' /\ BlockInv'
  BY <1>1, NoBlock
<1>4. PointerInv' /\ FetchInv'
  BY <1>0, PointerEdge, FetchEdge
<1>5. WriteInv' /\ KeptInv'
  BY <1>0, KeptCut, WriteCut
<1> QED
  BY <1>2, <1>3, <1>4, <1>5 DEF DataInv

\* The six registers are written.
LEMMA AnswerData ==
  ASSUME ControlInv, DataInv, AnswerEdge
  PROVE  DataInv'
<1>0. /\ EdgeFrame /\ PointerStep /\ FetchStep /\ HostWord /\ h' = h /\ ~swReset /\ GuestIdles
      /\ bus.op = "wr" /\ bus.n = 5 /\ request' = "none" /\ oldStb' = FALSE /\ ioCnt' = 0 /\ blk' = blk
      /\ status' = h.status \cap {"RDY", "DSC", "DRQ", "ERR"}
      /\ GeometryInv /\ AddressInv /\ PointerInv /\ FetchInv /\ BlockInv /\ WriteInv /\ KeptInv
  BY DEF AnswerEdge, DataInv
<1>1. h.st = "SET_REGS_SEND" /\ h.cnt = 6
  <2>1. Pending
    BY <1>0, EdgeKeeps
  <2>2. h.st = "SET_REGS_SEND" /\ h.cnt > 0
    BY <1>0, <2>1 DEF ControlInv, BusInv, Sends, Recvs
  <2>3. bus.n = h.cnt - 1 /\ h.cnt \in 0 .. 6
    BY <2>2 DEF ControlInv, BusInv
  <2> QED
    BY <1>0, <2>2, <2>3
<1>2. /\ Setting /\ Place = "SET_REGS_SEND" /\ Place' = h.next /\ (Drq' <=> "DRQ" \in h.status)
      /\ buf' = buf /\ ioCnt' + Stb' = 0
  BY <1>0, <1>1, EdgeKeeps DEF Setting, SetDone, Place, Sets, Drq, HostWord, Stb
<1>3. CutInv'
  BY <1>0, <1>1 DEF CutInv
<1>4. CASE SoftReset
  BY <1>0, <1>1, <1>3, <1>4, ResetData
<1>5. CASE g' = g
  <2>1. GeometryInv'
    BY <1>0, <1>2, <1>5, GeometryStays
  <2>2. Drq' => Due
    BY <1>2 DEF Due
  <2>3. AddressInv'
    BY <1>0, <1>5, <2>2, AddressEdge
  <2>4. BlockInv'
    BY <1>0, <1>5, <2>2, BlockEdge
  <2>5. PointerInv' /\ FetchInv'
    BY <1>0, PointerEdge, FetchEdge
  <2>6. ~Moving /\ ~Moving'
    <3>1. ~BlockMoved'
      <4>1. ~(blk' # 0 /\ 0 + 0 = blk')
        OBVIOUS
      <4> QED
        BY <1>0, <1>2, <4>1 DEF BlockMoved, Stb
    <3> QED
      BY <1>0, <1>1, <1>2, <3>1 DEF Moving
  <2>7. WriteInv' /\ KeptInv'
    BY <1>0, <1>2, <1>5, <2>2, <2>6, WriteStays
  <2> QED
    BY <1>3, <2>1, <2>3, <2>4, <2>5, <2>7 DEF DataInv
<1> QED
  BY <1>0, <1>4, <1>5 DEF GuestIdles

\* Another access of the host.
LEMMA BusData ==
  ASSUME ControlInv, DataInv, BusEdge
  PROVE  DataInv'
<1>0. /\ EdgeFrame /\ PointerStep /\ FetchStep /\ HostWord /\ h' = h /\ ~swReset /\ GuestIdles /\ HostRegs
      /\ bus.op # "none" /\ ~(bus.op = "wr" /\ bus.n = 5) /\ request' = request /\ status' = status
      /\ GeometryInv /\ CutInv /\ AddressInv /\ PointerInv /\ FetchInv /\ BlockInv /\ WriteInv /\ KeptInv
  BY DEF BusEdge, DataInv
<1>1. CutInv'
  BY <1>0, CutEdge
<1>2. /\ Pending /\ request # "none" /\ ~Drq /\ ~Drq'
  <2>1. Pending /\ request # "none" /\ ~Drq
    BY <1>0, EdgeKeeps, EdgeFacts
  <2> QED
    BY <1>0, <2>1 DEF Drq
<1>3. Place = h.st /\ Place' = h.st
  <2>1. h.st = "SET_REGS_SEND" => bus.op = "wr" /\ bus.n = h.cnt - 1
    BY <1>2 DEF ControlInv, BusInv, Sends, Recvs
  <2> QED
    BY <1>0, <1>2, <2>1, EdgeKeeps DEF Place
<1>4. CASE SoftReset
  BY <1>0, <1>1, <1>4, ResetData
<1>5. CASE g' = g
  <2>1. GeometryInv'
    BY <1>0, <1>5, GeometryStays
  <2>2. AddressInv'
    BY <1>0, <1>2, <1>5, AddressEdge
  <2>3. BlockInv'
    BY <1>0, <1>2, <1>5, BlockEdge
  <2>4. PointerInv' /\ FetchInv'
    BY <1>0, PointerEdge, FetchEdge
  <2>5. Moving' <=> Moving
    BY <1>0, <1>2, <1>3 DEF Moving, BlockMoved
  <2>6. Moving => buf' = buf
    <3>1. Moving => h.st \in {"WRITE_WAIT_REQ", "WRITE_RECV"}
      BY <1>3 DEF Moving
    <3>2. h.st \in {"WRITE_WAIT_REQ", "WRITE_RECV"} => bus.op # "wr"
      BY <1>0, <1>2 DEF ControlInv, BusInv, Sends, Recvs
    <3> QED
      BY <1>0, <3>1, <3>2 DEF HostWord
  <2>7. WriteInv' /\ KeptInv'
    BY <1>0, <1>2, <1>3, <1>5, <2>5, <2>6, WriteStays
  <2> QED
    BY <1>1, <2>1, <2>2, <2>3, <2>4, <2>7 DEF DataInv
<1> QED
  BY <1>0, <1>4, <1>5 DEF GuestIdles

\* A cycle without an access.
LEMMA QuietData ==
  ASSUME ControlInv, DataInv, QuietEdge
  PROVE  DataInv'
<1>0. /\ EdgeFrame /\ PointerStep /\ FetchStep /\ buf' = buf /\ h' = h /\ ~swReset /\ GuestIdles
      /\ bus.op = "none" /\ request' = request /\ status' = status /\ task' = task /\ blk' = blk
      /\ oldStb' = FALSE /\ ioCnt' = ioCnt + Stb
      /\ GeometryInv /\ CutInv /\ AddressInv /\ PointerInv /\ FetchInv /\ BlockInv /\ WriteInv /\ KeptInv
  BY DEF QuietEdge, DataInv
<1>1. CutInv'
  BY <1>0, CutEdge
<1>2. HostWord /\ (Drq' <=> Drq) /\ Place' = Place
  BY <1>0, EdgeStands DEF HostWord, Drq
<1>3. ioCnt' + Stb' = ioCnt + Stb
  <2>1. ioCnt \in Nat /\ Stb \in {0, 1} /\ Stb' = 0
    BY <1>0, ConstantTypes DEF ControlInv, RtlType, Stb
  <2> QED
    BY <1>0, <2>1
<1>4. CASE SoftReset
  BY <1>0, <1>1, <1>2, <1>4, ResetData
<1>5. CASE g' = g
  <2>1. GeometryInv'
    BY <1>0, <1>5, GeometryStays
  <2>2. AddressInv'
    BY <1>0, <1>2, <1>5, AddressEdge
  <2>3. BlockInv'
    BY <1>0, <1>2, <1>5, BlockEdge
  <2>4. PointerInv' /\ FetchInv'
    BY <1>0, <1>2, PointerEdge, FetchEdge
  <2>5. Moving' <=> Moving
    BY <1>0, <1>2, <1>3 DEF Moving, BlockMoved
  <2>6. WriteInv' /\ KeptInv'
    BY <1>0, <1>2, <1>3, <1>5, <2>5, WriteStays
  <2> QED
    BY <1>1, <2>1, <2>2, <2>3, <2>4, <2>6 DEF DataInv
<1> QED
  BY <1>0, <1>4, <1>5 DEF GuestIdles

\* The block has been moved.
LEMMA DoneData ==
  ASSUME ControlInv, DataInv, DoneEdge
  PROVE  DataInv'
<1>0. /\ EdgeFrame /\ PointerStep /\ FetchStep /\ buf' = buf /\ h' = h /\ g' = g /\ bus.op = "none"
      /\ Drq /\ IoDone /\ ~swReset /\ request' = (IF lastRead THEN "none" ELSE "data")
      /\ status' = (IF lastRead THEN {"RDY"} ELSE {"BSY"})
      /\ GeometryInv /\ AddressInv /\ PointerInv /\ FetchInv /\ BlockInv /\ WriteInv /\ KeptInv
  BY DEF DoneEdge, DataInv
<1>1. request = "none" /\ ~Drq' /\ HostWord /\ Place' = Place
  BY <1>0, EdgeStands DEF ControlInv, RtlType, Drq, HostWord
<1>2. /\ Active /\ Active' /\ Place \in Waits \cup Ends /\ (lastRead <=> Place \in Ends)
      /\ h.st \in Waits \cup Ends \cup Sets
  <2>1. Place \in Waits \cup Ends /\ h.st \in Waits \cup Ends \cup Sets
    BY <1>1, HostWaits
  <2>2. Active /\ (lastRead <=> Place \in Ends)
    BY <1>0 DEF ControlInv, ServeInv
  <2> QED
    BY <1>0, <2>1, <2>2 DEF Active
<1>3. BlockMoved
  <2>1. ioCnt + Stb <= blk /\ blk \in 0 .. BufWords /\ ioCnt \in Nat /\ Stb \in {0, 1}
    BY <1>0, ConstantTypes DEF ControlInv, MoveInv, RtlType, Stb
  <2>2. ioCnt >= blk /\ blk # 0
    BY <1>0 DEF IoDone
  <2>3. ioCnt + Stb = blk
    BY <2>1, <2>2, ConstantTypes
  <2> QED
    BY <1>0, <2>2, <2>3 DEF BlockMoved
<1>4. Moving' <=> Moving
  BY <1>0, <1>1, <1>2, <1>3 DEF Moving, BlockMoved, Ends
<1>5. GeometryInv'
  BY <1>0, <1>1, GeometryStays
<1>6. CutInv'
  BY <1>2 DEF CutInv
<1>7. AddressInv'
  BY <1>0, <1>1, AddressEdge
<1>8. BlockInv'
  BY <1>0, <1>1, BlockEdge
<1>9. PointerInv' /\ FetchInv'
  BY <1>0, <1>1, PointerEdge, FetchEdge
<1>10. WriteInv' /\ KeptInv'
  BY <1>0, <1>1, <1>2, <1>4, WriteStays
<1> QED
  BY <1>5, <1>6, <1>7, <1>8, <1>9, <1>10 DEF DataInv

\* The guest sends a command.
LEMMA CommandData ==
  ASSUME ControlInv, DataInv, NEW t, NEW p, CommandEdge(t, p)
  PROVE  DataInv'
<1>0. /\ EdgeFrame /\ PointerStep /\ FetchStep /\ buf' = buf /\ h' = h /\ bus.op = "none" /\ Command(t, p)
      /\ t \in Tasks[kind] /\ GeometryInv /\ PointerInv /\ FetchInv /\ WriteInv /\ KeptInv
  BY DEF CommandEdge, DataInv
<1>1. HostWord /\ g'.task = t /\ g'.disk = g.disk /\ g'.unsure = g.unsure
  BY <1>0, CommandFields DEF HostWord, ControlInv
<1>2. Active'
  <2>1. t.cmd # "none"
    BY <1>0, TasksAssumption DEF ControlInv, RtlType, Commands
  <2> QED
    BY <1>1, <2>1 DEF Active, NoTask
<1>3. GeometryInv'
  BY <1>0, GeometryCommand
<1>4. CutInv'
  BY <1>2 DEF CutInv
<1>5. AddressInv' /\ BlockInv' /\ ~Moving /\ ~Moving' /\ ~Drq' /\ ~Due'
  BY CommandBlock
<1>6. PointerInv' /\ FetchInv'
  BY <1>0, <1>1, PointerEdge, FetchEdge
<1>7. WriteInv'
  <2>1. h'.st # "WRITE_RECV"
    BY <1>5 DEF Moving
  <2> QED
    BY <1>2, <1>5, <2>1 DEF WriteInv, Owed, Due
<1>8. KeptInv'
  BY <1>0, <1>1, <1>5, EdgeKeeps DEF KeptInv, Kept, Owed
<1> QED
  BY <1>3, <1>4, <1>5, <1>6, <1>7, <1>8 DEF DataInv

\* A word of a block.
LEMMA WordData ==
  ASSUME ControlInv, DataInv, ReadEdge \/ WriteEdge
  PROVE  DataInv'
<1>0. /\ EdgeFrame /\ PointerStep /\ FetchStep /\ h' = h /\ bus.op = "none" /\ Drq /\ request' = request
      /\ status' = status /\ (ReadData \/ WriteData)
      /\ GeometryInv /\ AddressInv /\ PointerInv /\ FetchInv /\ BlockInv /\ WriteInv /\ KeptInv
  BY DEF ReadEdge, WriteEdge, MovesWord, DataInv
<1>1. g'.task = g.task /\ g'.heads = g.heads /\ g'.spt = g.spt /\ g'.geometry = g.geometry
  BY <1>0, WordFields DEF ControlInv
<1>2. request = "none" /\ Active /\ Active' /\ Place' = Place /\ ~Setting /\ h.st # "WRITE_RECV"
  <2>1. request = "none" /\ Active
    BY <1>0, Requests DEF ReadData, WriteData, Active, AtDataPort
  <2>2. ~Setting /\ h.st \in Waits \cup Ends \cup Sets
    BY <2>1, HostWaits
  <2> QED
    BY <1>0, <1>1, <2>1, <2>2, EdgeStands DEF Active, Waits, Ends, Sets
<1>3. GeometryInv'
  BY <1>0, <1>1, GeometryStays
<1>4. CutInv'
  BY <1>2 DEF CutInv
<1>5. AddressInv'
  BY <1>0, <1>1, AddressEdge
<1>6. HostWord \/ g.task.cmd \notin {"READ", "IDENTIFY", "IDPKT"}
  BY <1>0 DEF ReadEdge, WriteEdge, WriteData, BlockOut, HostWord, AtDataPort
<1>7. BlockInv'
  BY <1>0, <1>1, <1>6, BlockEdge
<1>8. PointerInv' /\ FetchInv'
  BY <1>0, PointerEdge, FetchEdge
<1>9. CASE WriteEdge /\ g.task.cmd = "WRITE"
  <2>1. WriteInv' /\ KeptInv'
    BY <1>0, <1>9, WriteWord
  <2> QED
    BY <1>3, <1>4, <1>5, <1>7, <1>8, <2>1 DEF DataInv
<1>10. CASE ~(WriteEdge /\ g.task.cmd = "WRITE")
  <2>1. g.task.cmd # "WRITE"
    BY <1>10 DEF ReadEdge, ReadData, BlockOut, AtDataPort
  <2>2. Place # "WRITE_WAIT_REQ"
    BY <1>2, <2>1 DEF ControlInv, PlaceInv, Is
  <2>3. ~Moving /\ ~Moving'
    BY <1>0, <1>2, <2>2 DEF Moving
  <2>4. g'.disk = g.disk /\ g'.unsure = g.unsure
    BY <1>0, <2>1, WordFields DEF ControlInv
  <2>5. WriteInv' /\ KeptInv'
    BY <1>0, <1>1, <1>2, <2>1, <2>3, <2>4, WriteStays
  <2> QED
    BY <1>3, <1>4, <1>5, <1>7, <1>8, <2>5 DEF DataInv
<1> QED
  BY <1>9, <1>10

\* Every edge keeps the data.
LEMMA EdgeData ==
  ASSUME ControlInv, DataInv, Edge \/ MoveEdge \/ ReleaseEdge
  PROVE  DataInv'
<1>1. EdgeMove
  BY EdgeMoves
<1> QED
  BY <1>1, ColdData, HeldData, AnswerData, BusData, QuietData, DoneData, WordData, CommandData DEF EdgeMove

-----------------------------------------------------------------------------
(* What the guest reads, and what it has written.                           *)

\* A step that changes nothing.
LEMMA DataStutter ==
  ASSUME DataInv, UNCHANGED vars
  PROVE  DataInv'
<1>1. /\ status' = status /\ request' = request /\ task' = task /\ blk' = blk /\ ioCnt' = ioCnt
      /\ oldStb' = oldStb /\ mgmtCnt' = mgmtCnt /\ oldOp' = oldOp /\ buf' = buf /\ q' = q
      /\ rdata' = rdata /\ turn' = turn /\ bus' = bus /\ kind' = kind /\ h' = h /\ image' = image /\ g' = g
  BY DEF vars, rtl
<1>2. /\ (Pending' <=> Pending) /\ (SetDone' <=> SetDone) /\ (Setting' <=> Setting) /\ Place' = Place
      /\ (Active' <=> Active) /\ Stb' = Stb /\ (Drq' <=> Drq) /\ (BlockMoved' <=> BlockMoved)
      /\ Words' = Words /\ Total' = Total
  BY <1>1 DEF Pending, SetDone, Setting, Place, Active, Stb, Drq, BlockMoved, Words, Total
<1>3. /\ (Reading' <=> Reading) /\ (Writing' <=> Writing) /\ GuestLba' = GuestLba /\ GetLba(h)' = GetLba(h)
      /\ (Fills' <=> Fills) /\ (Offered' <=> Offered) /\ Sent' = Sent /\ Pointer' = Pointer
      /\ (Moving' <=> Moving) /\ (Owed' <=> Owed) /\ (Stored' <=> Stored)
  BY <1>1, <1>2 DEF Reading, Writing, GuestLba, GetLba, Fills, Offered, Sent, Pointer, Settling, Moving,
                    Owed, Stored
<1>4. /\ Ahead' = Ahead /\ (\A k : SourceWord(k)' = SourceWord(k)) /\ SectorSize' = SectorSize
  BY <1>1, <1>2, <1>3 DEF Ahead, SourceWord, SectorSize
<1>5. GeometryInv' /\ CutInv' /\ AddressInv'
  BY <1>1, <1>2, <1>3, <1>4 DEF DataInv, GeometryInv, CutInv, AddressInv, SetsGeometry, SectorAt
<1>6. PointerInv' /\ FetchInv'
  BY <1>1, <1>2, <1>3 DEF DataInv, PointerInv, FetchInv
<1>7. BlockInv'
  <2>1. (Filled(Sent)' <=> Filled(Sent)) /\ (Filled(SectorWords)' <=> Filled(SectorWords))
        /\ SourceWord(Sent)' = SourceWord(Sent)
    BY <1>1, <1>3, <1>4 DEF Filled, SourceWord
  <2> QED
    BY <1>1, <1>2, <1>3, <2>1 DEF DataInv, BlockInv
<1>8. WriteInv' /\ KeptInv'
  <2>1. (NewWords(ioCnt + Stb)' <=> NewWords(ioCnt + Stb)) /\ (NewWords(SectorWords)' <=> NewWords(SectorWords))
        /\ NewSector(h.sector)' = NewSector(h.sector)
    BY <1>1, <1>2, <1>4 DEF NewWords, NewSector
  <2>2. WriteInv'
    BY <1>1, <1>2, <1>3, <2>1 DEF DataInv, WriteInv
  <2>3. KeptInv'
    BY <1>1, <1>3 DEF DataInv, KeptInv, Kept
  <2> QED
    BY <2>2, <2>3
<1> QED
  BY <1>5, <1>6, <1>7, <1>8 DEF DataInv

\* The machine starts with the image the guest knows.
LEMMA DataInit ==
  ASSUME Init
  PROVE  DataInv
<1>1. /\ h.st = "INITIAL" /\ h.heads = Heads /\ h.spt = Spt /\ request = "reset" /\ mgmtCnt = 0
      /\ oldOp = "none" /\ turn = "tick" /\ bus.op = "none"
      /\ g.task = NoTask /\ g.disk = image /\ g.heads = Heads /\ g.spt = Spt
  BY DEF Init
<1>2. ~Active /\ ~Pending /\ ~SetsGeometry(g.task)
  BY <1>1 DEF Active, Pending, SetsGeometry, NoTask
<1>3. GeometryInv
  BY <1>1, <1>2 DEF GeometryInv, Geometries
<1>4. CutInv /\ FetchInv
  BY <1>1 DEF CutInv, FetchInv, Recvs
<1>5. AddressInv /\ BlockInv
  BY <1>2 DEF AddressInv, BlockInv
<1>6. PointerInv
  BY <1>1, <1>2 DEF PointerInv, Pointer, Settling, Sends, Recvs
<1>7. WriteInv
  BY <1>1, <1>2 DEF WriteInv, Owed, Place, SetDone
<1>8. KeptInv
  BY <1>1 DEF KeptInv, Kept
<1> QED
  BY <1>3, <1>4, <1>5, <1>6, <1>7, <1>8 DEF DataInv

\* The data invariant holds in every state of every behaviour of an image whose sectors the guest can
\* name, when the main loop waits out each access.
THEOREM DataCorrect ==
  ASSUME AddressesFit, ~Jitter
  PROVE  Spec => [](ControlInv /\ DataInv)
<1>1. Init => ControlInv /\ DataInv
  BY ControlInit, DataInit
<1>2. ControlInv /\ DataInv /\ [Next]_vars => (ControlInv /\ DataInv)'
  <2> SUFFICES ASSUME ControlInv, DataInv, [Next]_vars PROVE ControlInv' /\ DataInv'
    OBVIOUS
  <2>1. CASE Tick
    BY <2>1, TickStep, TickData
  <2>2. CASE Edge \/ MoveEdge \/ ReleaseEdge
    BY <2>2, EdgeStep, EdgeData
  <2>3. CASE UNCHANGED vars
    BY <2>3, ControlStutter, DataStutter
  <2> QED
    BY <2>1, <2>2, <2>3 DEF Next
<1> QED
  BY <1>1, <1>2, PTL DEF Spec

\* The block in hand of a channel the guest may look at has not been moved.
LEMMA SettledBlock ==
  ASSUME ControlInv, Settled
  PROVE  ~BlockMoved /\ ~Owed /\ (Drq => Active)
<1>1. request = "none" /\ ~oldStb /\ ~Busy /\ ~swReset
  BY SettledFacts
<1>2. ~BlockMoved
  <2>1. Drq => ~IoDone /\ blk \in Nat /\ ioCnt \in Nat
    BY ConstantTypes DEF Settled, Spaced, ControlInv, RtlType, MoveInv
  <2>2. Stb = 0
    BY <1>1 DEF Stb
  <2>3. Drq => ~(blk # 0 /\ ioCnt + 0 = blk)
    BY <2>1 DEF IoDone
  <2> QED
    BY <1>1, <2>2, <2>3 DEF BlockMoved
<1>3. h.st # "WRITE_RECV"
  BY <1>1 DEF Busy, Waits, Ends, Sets
<1>4. Drq => Active
  BY <1>1 DEF ControlInv, ServeInv
<1> QED
  BY <1>2, <1>3, <1>4 DEF Owed, Moving

\* The sector of a block that is offered is the one the guest asks for.
LEMMA OfferedSector ==
  ASSUME ControlInv, DataInv, Settled, Drq, g.task.cmd = "READ"
  PROVE  h.sector = SectorAt(GuestLba + g.blocks)
<1>1. Active /\ ~BlockMoved /\ request = "none" /\ Place \in Waits \cup Ends
  BY SettledBlock, SettledFacts
<1>2. h.sector = SectorAt(Ahead - 1) /\ (~Reading => h.count = 0)
  BY <1>1 DEF DataInv, AddressInv
<1>3. h.count + g.blocks + 1 = Total
  <2>1. Hand = g.blocks
    BY <1>1 DEF Hand
  <2>2. CASE Place \in Ends
    <3>1. ~Reading
      BY <1>1, <2>2, HostWaits DEF Reading, Place, SetDone, Sets, Ends, Waits
    <3> QED
      BY <1>1, <1>2, <2>1, <2>2, <3>1 DEF ControlInv, CountInv, GuestType
  <2>3. CASE Place \in Waits
    <3>1. Place = "READ_WAIT_REQ"
      BY <1>1, <2>3 DEF ControlInv, PlaceInv, Is, Waits
    <3> QED
      BY <1>1, <2>1, <3>1 DEF ControlInv, CountInv
  <2> QED
    BY <1>1, <2>2, <2>3
<1>4. Ahead - 1 = GuestLba + g.blocks
  <2>1. Total \in Nat /\ GuestLba \in Int /\ h.count \in Nat /\ g.blocks \in Nat
    BY <1>1, TotalType, GuestLbaType DEF ControlInv, HostType, GuestType
  <2> QED
    BY <1>3, <2>1 DEF Ahead
<1> QED
  BY <1>2, <1>4

\* BlockExact: a block offered to a read is, word for word, the sector the guest's CHS or LBA address
\* names plus the blocks already moved, as the guest last wrote it (zeros beyond the end of the image),
\* and the block of an IDENTIFY the identification: through every command, geometry and reset.  The
\* main loop waits out each access (no --jitter) and the addresses are ones the registers can name.
THEOREM BlocksExact ==
  ASSUME AddressesFit, ~Jitter
  PROVE  Spec => []BlockExact
<1>1. ControlInv /\ DataInv => BlockExact
  <2> SUFFICES ASSUME ControlInv, DataInv, Settled, Drq, g.task.cmd \in {"READ", "IDENTIFY", "IDPKT"}
               PROVE  /\ blk = SectorWords
                      /\ \A k \in 0 .. SectorWords - 1 :
                           LET s == GuestLba + g.blocks IN
                           buf[k] = IF g.task.cmd # "READ" THEN <<"id", 0, k>>
                                    ELSE IF s \notin DOMAIN image THEN Zero
                                    ELSE IF s \in g.unsure THEN image[s][k] ELSE g.disk[s][k]
    BY DEF BlockExact
  <2>1. Active /\ ~Owed
    BY SettledBlock
  <2>2. Filled(SectorWords) /\ Words = SectorWords
    BY <2>1 DEF DataInv, BlockInv, Offered
  <2>3. blk = SectorWords
    BY <2>2 DEF ControlInv, MoveInv
  <2> DEFINE s == GuestLba + g.blocks
  <2>4. \A k \in 0 .. SectorWords - 1 : buf[k] = SourceWord(k)
    BY <2>2 DEF Filled
  <2>5. g.task.cmd = "READ" => h.sector = SectorAt(s)
    BY OfferedSector
  <2>6. DOMAIN image = 0 .. Sectors - 1 /\ -1 \notin DOMAIN image
    BY ConstantTypes DEF ControlInv, DataType, IsImage
  <2>7. s \in DOMAIN image => s \in g.unsure \/ image[s] = g.disk[s]
    BY <2>1, <2>6 DEF DataInv, KeptInv, Kept
  <2> HIDE DEF s
  <2>8. ASSUME NEW k \in 0 .. SectorWords - 1
        PROVE  buf[k] = IF g.task.cmd # "READ" THEN <<"id", 0, k>>
                        ELSE IF s \notin DOMAIN image THEN Zero
                        ELSE IF s \in g.unsure THEN image[s][k] ELSE g.disk[s][k]
    BY <2>4, <2>5, <2>6, <2>7 DEF SourceWord, SectorAt
  <2> QED
    BY <2>3, <2>8 DEF s
<1>2. Spec => [](ControlInv /\ DataInv)
  BY DataCorrect
<1> QED
  BY <1>1, <1>2, PTL

\* WrittenIsKept: whenever the drive is not busy, the image holds what the guest has written and the
\* drive has acknowledged, and no other sector has changed; only the sector a reset has cut off in the
\* middle of its block is in doubt.  Under the same hypotheses.
THEOREM WritesKept ==
  ASSUME AddressesFit, ~Jitter
  PROVE  Spec => []WrittenIsKept
<1>1. ControlInv /\ DataInv => WrittenIsKept
  <2> SUFFICES ASSUME ControlInv, DataInv, Settled, NEW s \in DOMAIN image \ g.unsure
               PROVE  image[s] = g.disk[s]
    BY DEF WrittenIsKept
  <2>1. ~Owed
    BY SettledBlock
  <2>2. s \in 0 .. Sectors - 1
    BY DEF ControlInv, DataType, IsImage
  <2> QED
    BY <2>1, <2>2 DEF DataInv, KeptInv, Kept
<1>2. Spec => [](ControlInv /\ DataInv)
  BY DataCorrect
<1> QED
  BY <1>1, <1>2, PTL

-----------------------------------------------------------------------------
(* The packets of a CD channel.                                             *)

\* The host is being sent a packet, or is about to answer it.
Collecting == \/ h.st \in {"PACKET_WAIT_REQ", "PACKET_RECV", "PACKET_HANDLE"}
              \/ h.st \in Sets /\ h.next = "PACKET_WAIT_REQ"
\* The host is at the blocks of the answer.
Streaming == \/ h.st \in {"PACKET_SEND", "PACKET_READ_WAIT_REQ"}
             \/ h.st \in Sets /\ h.next = "PACKET_READ_WAIT_REQ"

\* The host has nothing of a packet in hand.
AtRest == \/ h.st \in {"INITIAL", "GET_RESET_DRIVE"} \cup Ends
          \/ h.st \in Sets /\ h.next \in Ends

\* A channel whose guest runs no command is at rest; nothing is left of a read but while its blocks
\* are sent; and a packet is answered in blocks of the size its task file asked for.
RestInv ==
  kind = "cd" =>
    /\ ~Active => AtRest /\ request \in {"none", "reset"}
    /\ Active => g.task \in Tasks["cd"] /\ (g.task.cmd = "PACKET" => g.packet \in Packets)
    /\ ~Streaming => h.rem = 0
    /\ Collecting \/ Streaming => h.limit = Limit(g.task)

\* The packet, as far as it is in the buffer, and as far as the host has copied it.
PacketWord(k) == <<"pkt", g.packet, k>>
PacketIn(n) == \A k \in 0 .. n - 1 : buf[k] = PacketWord(k)
Copied(n) == \A k \in 1 .. n : h.packet[k] = PacketWord(k - 1)
CollectInv ==
  Active /\ Collecting =>
    /\ g.off = 0
    /\ h.st \notin {"PACKET_RECV", "PACKET_HANDLE"} => h.pkt = PacketWords /\ Hand = 0
    /\ Setting => request = "command"
    /\ Drq => PacketIn(ioCnt + Stb)
    /\ request = "data" /\ h.st # "PACKET_HANDLE" => PacketIn(PacketWords)
    /\ h.st = "PACKET_RECV" => Copied(h.cnt - 1)
    /\ h.st = "PACKET_HANDLE" => Copied(PacketWords)

\* The words of the block in hand that the guest has taken, and where in the answer it begins.
Taken == IF Drq THEN ioCnt + Stb ELSE IF Place = "PACKET_READ_WAIT_REQ" THEN h.pkt ELSE 0
Base == g.off - Taken
\* The words the host holds, and those the buffer holds, are those of the answer.
Given(n) == \A k \in 1 .. n : h.data[k] \in Response[Base + k]
Matches(n) == \A k \in 1 .. n : buf[k - 1] \in Response[Base + k]
StreamInv ==
  Active /\ Streaming =>
    /\ g.blocks > 0
    /\ Base \in Nat /\ Base + h.pkt + h.rem * CdWords = Len(Response)
    /\ h.rem > 0 => /\ g.packet.op = "read" /\ h.rem <= g.packet.n
                    /\ h.plba = g.packet.lba + (g.packet.n - h.rem)
    /\ h.st = "PACKET_SEND" => /\ Given(h.pkt) /\ Matches(Sent)
                               /\ Pending => bus.d \in Response[Base + Sent + 1]
    /\ Due \/ Drq => Matches(h.pkt)

\* A packet that ends without an error has had its whole answer.
Complete == g.off = Len(Response)
EndInv ==
  g.task.cmd = "PACKET" =>
    /\ Setting /\ h.next \in Ends => "ERR" \in h.status \/ Complete
    /\ Place \in Ends /\ request = "none" => "ERR" \in status \/ Complete

\* The key the host keeps is one the guest reckons with.
Key(s) == IF "ERR" \in s THEN 5 ELSE 0
SenseInv ==
  kind = "cd" =>
    /\ ~Is("cd", "PACKET") => h.sense \in g.sense
    /\ Is("cd", "PACKET") =>
         /\ (request = "command" /\ ~Setting) \/ Collecting => h.sense \in g.sense
         /\ Setting /\ h.next \in Ends => h.sense = Key(h.status)
         /\ Place \in Ends /\ request = "none" => h.sense = Key(status)

\* The packet invariant.
PacketInv == RestInv /\ CollectInv /\ StreamInv /\ EndInv /\ SenseInv

\* The answer is a matter of the packet, of the sense keys and of the image.
LEMMA ResponseKept ==
  ASSUME g'.packet = g.packet, g'.sense = g.sense, image' = image
  PROVE  Response' = Response
  BY DEF Response

\* A tick after which the host is no further with a packet than before.
Steady ==
  /\ image' = image
  /\ h'.pkt = h.pkt /\ h'.rem = h.rem /\ h'.limit = h.limit /\ h'.plba = h.plba /\ h'.sense = h.sense
  /\ h'.packet = h.packet /\ h'.data = h.data /\ h'.next = h.next
  /\ (Collecting' <=> Collecting) /\ (Streaming' <=> Streaming) /\ (Setting' <=> Setting)
  /\ Place' \in Ends <=> Place \in Ends
  /\ Place' = "PACKET_READ_WAIT_REQ" <=> Place = "PACKET_READ_WAIT_REQ"
  /\ h'.st = "PACKET_RECV" <=> h.st = "PACKET_RECV"
  /\ h'.st = "PACKET_HANDLE" <=> h.st = "PACKET_HANDLE"
  /\ h'.st = "PACKET_SEND" <=> h.st = "PACKET_SEND"
  /\ h.st \in {"PACKET_RECV", "PACKET_SEND"} => h'.cnt = h.cnt /\ ~Pending'
  /\ (Due' <=> Due) /\ ("ERR" \in h'.status <=> "ERR" \in h.status) /\ (AtRest => AtRest')
\* Such a tick keeps what is known of the packet.
LEMMA SteadyKeeps ==
  ASSUME TickFrame, Steady, PacketInv
  PROVE  PacketInv'
<1>1. /\ buf' = buf /\ g' = g /\ kind' = kind /\ request' = request /\ status' = status /\ ioCnt' = ioCnt
      /\ Stb' = Stb /\ Hand' = Hand /\ (Drq' <=> Drq) /\ (Active' <=> Active) /\ ~Pending /\ image' = image
  BY TickKeeps DEF Steady
<1>2. Response' = Response /\ (Complete' <=> Complete)
  <2>1. Response' = Response
    BY <1>1, ResponseKept
  <2> QED
    BY <1>1, <2>1 DEF Complete
<1>3. Taken' = Taken /\ Base' = Base
  <2>1. Taken' = Taken
    BY <1>1 DEF Taken, Steady
  <2> QED
    BY <1>1, <2>1 DEF Base
<1>4. /\ \A n : PacketIn(n)' <=> PacketIn(n)
      /\ \A n : Copied(n)' <=> Copied(n)
      /\ \A n : Given(n)' <=> Given(n)
      /\ \A n : Matches(n)' <=> Matches(n)
  <2>1. h'.packet = h.packet /\ h'.data = h.data
    BY DEF Steady
  <2>2. \A k : PacketWord(k)' = PacketWord(k)
    BY <1>1 DEF PacketWord
  <2>3. \A n : PacketIn(n)' <=> PacketIn(n)
    BY <1>1, <2>2 DEF PacketIn
  <2>4. \A n : Copied(n)' <=> Copied(n)
    BY <2>1, <2>2 DEF Copied
  <2>5. \A n : Given(n)' <=> Given(n)
    BY <1>2, <1>3, <2>1 DEF Given
  <2>6. \A n : Matches(n)' <=> Matches(n)
    BY <1>1, <1>2, <1>3 DEF Matches
  <2> QED
    BY <2>3, <2>4, <2>5, <2>6
<1>5. RestInv'
  BY <1>1 DEF PacketInv, RestInv, Steady, Limit
<1>6. CollectInv'
  BY <1>1, <1>4 DEF PacketInv, CollectInv, Steady
<1>7. StreamInv'
  BY <1>1, <1>2, <1>3, <1>4 DEF PacketInv, StreamInv, Steady, Sent
<1>8. EndInv'
  BY <1>1, <1>2 DEF PacketInv, EndInv, Steady
<1>9. SenseInv'
  <2>1. Is("cd", "PACKET")' <=> Is("cd", "PACKET")
    BY <1>1 DEF Is
  <2> QED
    BY <1>1, <2>1 DEF PacketInv, SenseInv, Steady, Key
<1> QED
  BY <1>5, <1>6, <1>7, <1>8, <1>9 DEF PacketInv

\* The host waits, or writes its answer to the channel.
LEMMA SteadyMoves ==
  ASSUME ControlInv, TickFrame, image' = image, StayMove \/ SetMove \/ RegMove \/ RegsMove
  PROVE  Steady
<1>0. turn = "tick" /\ ~Pending /\ h.cnt \in Nat
  BY TickKeeps, HostNumbers DEF ControlInv
<1>1. /\ h'.pkt = h.pkt /\ h'.rem = h.rem /\ h'.limit = h.limit /\ h'.plba = h.plba /\ h'.sense = h.sense
      /\ h'.packet = h.packet /\ h'.data = h.data /\ h'.next = h.next
  BY DEF StayMove, SetMove, RegMove, RegsMove, Keeps, HostFields
<1>2. CASE StayMove
  <2>1. h'.st = h.st /\ h'.cnt = h.cnt /\ h'.status = h.status /\ ~Pending'
    BY <1>2, QuietPointer DEF StayMove, Keeps, HostFields
  <2>2. (SetDone' <=> SetDone) /\ Place' = Place /\ (Setting' <=> Setting) /\ (AtRest' <=> AtRest)
    BY <1>0, <1>1, <2>1 DEF SetDone, Place, Setting, AtRest
  <2>3. (Collecting' <=> Collecting) /\ (Streaming' <=> Streaming) /\ (Due' <=> Due)
    BY <1>1, <2>1, <2>2 DEF Collecting, Streaming, Due
  <2> QED
    BY <1>1, <2>1, <2>2, <2>3 DEF Steady
<1>3. CASE SetMove
  <2>1. /\ h.st = "SET_REGS" /\ h'.st = "SET_REGS_SEND" /\ h'.cnt = 0 /\ ("DRQ" \in h'.status <=> "DRQ" \in h.status)
        /\ ("ERR" \in h'.status <=> "ERR" \in h.status)
    BY <1>3 DEF SetMove
  <2>2. Setting /\ Setting' /\ Place = h.st /\ Place' = h'.st
    BY <2>1 DEF SetDone, Place, Setting, Sets
  <2>3. (Collecting' <=> Collecting) /\ (Streaming' <=> Streaming) /\ (Due' <=> Due) /\ (AtRest' <=> AtRest)
    BY <1>1, <2>1, <2>2 DEF Collecting, Streaming, Due, Sets, AtRest, Ends
  <2> QED
    BY <1>1, <2>1, <2>2, <2>3 DEF Steady, Ends
<1>4. CASE RegMove
  <2>1. h.st = "SET_REGS_SEND" /\ h'.st = "SET_REGS_SEND" /\ h.cnt < 6 /\ h'.status = h.status /\ bus'.op = "wr"
    BY <1>4 DEF RegMove, Keeps, HostFields, Pulse, Bus
  <2>2. Setting /\ Setting' /\ Place = h.st /\ Place' = h'.st
    BY <1>0, <2>1, TickKeeps DEF SetDone, Place, Setting, Sets
  <2>3. (Collecting' <=> Collecting) /\ (Streaming' <=> Streaming) /\ (Due' <=> Due) /\ (AtRest' <=> AtRest)
    BY <1>1, <2>1, <2>2 DEF Collecting, Streaming, Due, Sets, AtRest, Ends
  <2> QED
    BY <1>1, <2>1, <2>2, <2>3 DEF Steady, Ends
<1>5. CASE RegsMove
  <2>1. h.st = "SET_REGS_SEND" /\ h.cnt = 6 /\ h'.st = h.next /\ h.next \in Waits \cup Ends /\ h'.status = h.status
    BY <1>5, HostNumbers DEF RegsMove, ControlInv, BusInv, Keeps, HostFields
  <2>2. ~Setting /\ ~Setting' /\ Place = h.next /\ Place' = h.next
    BY <1>0, <2>1 DEF SetDone, Place, Setting, Sets, Waits, Ends
  <2>3. (Collecting' <=> Collecting) /\ (Streaming' <=> Streaming) /\ (Due' <=> Due) /\ (AtRest => AtRest')
    BY <1>1, <2>1, <2>2 DEF Collecting, Streaming, Due, Sets, AtRest, Ends, Waits
  <2> QED
    BY <1>1, <2>1, <2>2, <2>3 DEF Steady, Ends, Waits
<1> QED
  BY <1>2, <1>3, <1>4, <1>5

-----------------------------------------------------------------------------
(* Ticks of the host away from packets.                                     *)

\* Neither before nor after is the host at a packet.
Apart ==
  /\ image' = image /\ h'.rem = h.rem /\ (AtRest /\ request # "command" => AtRest')
  /\ ~Collecting /\ ~Streaming /\ ~Collecting' /\ ~Streaming'
  /\ kind = "cd" => h'.sense = h.sense \/ (Is("cd", "PACKET") /\ Setting' /\ h'.sense = Key(h'.status))
  /\ kind = "cd" /\ request = "command" /\ ~Setting' => ~Setting /\ h'.sense = h.sense
  /\ g.task.cmd = "PACKET" =>
       /\ Setting' => "ERR" \in h'.status /\ h'.sense = (IF Is("cd", "PACKET") THEN Key(h'.status) ELSE h.sense)
       /\ Place' \in Ends /\ request = "none" => Place \in Ends /\ h'.sense = h.sense
\* Such a tick keeps what is known of the packet.
LEMMA ApartKeeps ==
  ASSUME TickFrame, Apart, PacketInv
  PROVE  PacketInv'
<1>1. /\ g' = g /\ kind' = kind /\ request' = request /\ status' = status /\ (Active' <=> Active)
      /\ ~Collecting' /\ ~Streaming' /\ h'.rem = h.rem /\ image' = image
  BY TickKeeps DEF Apart
<1>2. Complete' <=> Complete
  BY <1>1, ResponseKept DEF Complete
<1>3. Is("cd", "PACKET")' <=> Is("cd", "PACKET")
  BY <1>1 DEF Is
<1>4. RestInv'
  <2>1. kind = "cd" /\ ~Active' => AtRest'
    BY <1>1 DEF PacketInv, RestInv, Apart
  <2> QED
    BY <1>1, <2>1 DEF PacketInv, RestInv, Apart
<1>5. CollectInv' /\ StreamInv'
  BY <1>1 DEF CollectInv, StreamInv
<1>6. EndInv'
  BY <1>1, <1>2 DEF PacketInv, EndInv, Apart
<1>7. SenseInv'
  BY <1>1, <1>3 DEF PacketInv, SenseInv, Apart, Key, Is
<1> QED
  BY <1>4, <1>5, <1>6, <1>7 DEF PacketInv

\* What the moves away from packets have in common: the host was not answering, and keeps the key.
Plain ==
  /\ h'.rem = h.rem /\ h'.sense = h.sense /\ h.st \notin Sets \cup PacketStates
  /\ AtRest /\ request # "command" => AtRest'
  /\ h'.st \notin PacketStates /\ (h'.st \in Sets => h'.next \notin PacketStates)
  /\ g.task.cmd = "PACKET" => /\ h'.st \notin Sets
                              /\ h'.st \in Ends /\ request = "none" => h.st \in Ends
\* Such a move has nothing to do with a packet.
LEMMA PlainApart ==
  ASSUME TickFrame, image' = image, Plain
  PROVE  Apart
<1>1. ~Collecting /\ ~Streaming /\ ~Collecting' /\ ~Streaming' /\ ~Setting /\ Place = h.st
  BY DEF Plain, Collecting, Streaming, PacketStates, Setting, SetDone, Place, Sets
<1>2. g.task.cmd = "PACKET" => ~Setting' /\ Place' = h'.st
  BY DEF Plain, Setting, SetDone, Place, Sets
<1> QED
  BY <1>1, <1>2 DEF Apart, Plain

\* The moves that have nothing to do with a packet, case by case.
LEMMA ApartMoves ==
  ASSUME ControlInv, PacketInv, TickFrame, image' = image,
         \/ InitialMove \/ CommandMove \/ ResetMove \/ DriveMove \/ RestMove \/ StageMove \/ StagedMove
         \/ ShortMove \/ IdentifyMove \/ TransferMove \/ OverMove \/ ReadMove \/ ReadRegsMove \/ ReadDataMove
         \/ WriteMove \/ WriteRegsMove \/ WriteDataMove
         \/ (h.st \in {"SEND_ID", "READ_SEND"} /\ (SendMove \/ SentMove))
  PROVE  Apart
<1>0. /\ h.next \in Waits \cup Ends /\ (g.task.cmd = "PACKET" => Active)
      /\ (h.st \notin Waits \cup Ends \cup Sets => request # "none")
  BY HostNumbers, Requests DEF ControlInv, Busy
<1>1. CASE InitialMove \/ DriveMove
  <2>1. g.task.cmd # "PACKET"
    BY <1>0, <1>1, Requests DEF InitialMove, DriveMove
  <2>2. Plain
    BY <1>1, <2>1 DEF InitialMove, DriveMove, Plain, Keeps, HostFields, Sets, PacketStates, Ends,
       AtRest
  <2> QED
    BY <2>2, PlainApart
<1>2. CASE CommandMove \/ ResetMove \/ RestMove
  <2>1. Plain
    BY <1>2 DEF CommandMove, ResetMove, RestMove, Plain, Keeps, HostFields, Sets, PacketStates, Ends,
       AtRest
  <2> QED
    BY <2>1, PlainApart
<1>3. CASE StageMove \/ StagedMove \/ IdentifyMove \/ TransferMove
  <2>1. Plain
    BY <1>3 DEF StageMove, StagedMove, IdentifyMove, TransferMove, Plain, Keeps, HostFields, Sets, PacketStates, Ends,
       AtRest
  <2> QED
    BY <2>1, PlainApart
<1>4. CASE ReadMove \/ ReadRegsMove \/ ReadDataMove \/ WriteMove \/ WriteDataMove
  <2>1. Plain
    BY <1>4 DEF ReadMove, ReadRegsMove, ReadDataMove, WriteMove, WriteDataMove, Plain, Keeps, HostFields, Sets,
       PacketStates, Ends, AtRest
  <2> QED
    BY <2>1, PlainApart
<1>5. CASE WriteRegsMove
  <2>1. g.task.cmd # "PACKET"
    BY <1>0, <1>5 DEF WriteRegsMove, ControlInv, PlaceInv, Is
  <2>2. Plain
    BY <1>5, <2>1 DEF WriteRegsMove, Plain, Keeps, HostFields, Sets, PacketStates, Ends,
       AtRest
  <2> QED
    BY <2>2, PlainApart
<1>6. CASE h.st \in {"SEND_ID", "READ_SEND"} /\ (SendMove \/ SentMove)
  <2>1. g.task.cmd # "PACKET"
    BY <1>0, <1>6 DEF ControlInv, PlaceInv, Is
  <2>2. Plain
    BY <1>6, <2>1 DEF SendMove, SentMove, Plain, Keeps, HostFields, Sets, PacketStates, Ends,
       AtRest
  <2> QED
    BY <2>2, PlainApart
<1>7. CASE OverMove
  <2>1. request # "command"
    <3>1. Place = h.st
      BY <1>7 DEF OverMove, Place, SetDone, Waits
    <3> QED
      BY <1>7, <3>1 DEF OverMove, ControlInv, ServeInv
  <2>2. request = "reset" /\ ~Active
    BY <1>7, <2>1, Requests DEF OverMove, ControlInv, RtlType
  <2>3. kind = "hdd"
    <3>1. ~AtRest
      BY <1>7 DEF OverMove, AtRest, Waits, Ends, Sets
    <3> QED
      BY <2>2, <3>1, ConstantTypes DEF PacketInv, RestInv, ControlInv, RtlType
  <2>4. h.st \notin PacketStates /\ g.task.cmd # "PACKET"
    BY <1>0, <2>2, <2>3 DEF ControlInv, PlaceInv
  <2>5. Plain
    BY <1>7, <2>4 DEF OverMove, Plain, Keeps, HostFields, Sets, PacketStates, Ends, Waits,
       AtRest
  <2> QED
    BY <2>5, PlainApart
<1>8. CASE ShortMove
  <2>1. h.st = "DO_CMD" /\ h'.st = "SET_REGS" /\ h'.next = "IDLE" /\ h'.rem = h.rem
    BY <1>8 DEF ShortMove, Keeps, HostFields
  <2>2. ~Collecting /\ ~Streaming /\ ~Collecting' /\ ~Streaming' /\ ~Setting /\ Setting' /\ Place' = h'.st
    BY <2>1 DEF Collecting, Streaming, Setting, SetDone, Place, Sets
  <2>3. Active => h.cmd = g.task.cmd /\ h.drv = g.task.drv
    BY <2>1 DEF ControlInv, AskInv
  <2>4. Place' \notin Ends
    BY <2>1, <2>2 DEF Ends
  <2>5. IF kind = "cd" /\ h.cmd = "PACKET" /\ h.drv = 0
        THEN h'.sense = 5 /\ "ERR" \in h'.status ELSE h'.sense = h.sense
    BY <1>8 DEF ShortMove
  <2>6. g.task.cmd = "PACKET" => "ERR" \in h'.status
    BY <1>0, <1>8, <2>3 DEF ShortMove
  <2>7. Active => (IF Is("cd", "PACKET") THEN h'.sense = Key(h'.status) ELSE h'.sense = h.sense)
    BY <2>3, <2>5 DEF Is, Key
  <2>8. ~Active /\ kind = "cd" => h'.sense = h.sense
    <3>1. ~AtRest
      BY <2>1 DEF AtRest, Ends, Sets
    <3> QED
      BY <3>1 DEF PacketInv, RestInv
  <2>9. ~AtRest
    BY <2>1 DEF AtRest, Ends, Sets
  <2> QED
    BY <1>0, <2>1, <2>2, <2>4, <2>6, <2>7, <2>8, <2>9 DEF Apart
<1> QED
  BY <1>1, <1>2, <1>3, <1>4, <1>5, <1>6, <1>7, <1>8

\* A sector comes in on a disk, which has no packets.
LEMMA StorePackets ==
  ASSUME ControlInv, ControlInv', TickFrame, h.st = "WRITE_RECV"
  PROVE  PacketInv'
<1>1. g' = g /\ kind' = kind /\ (Active' <=> Active) /\ kind = "hdd"
  BY TickKeeps DEF ControlInv, PlaceInv, DiskStates
<1>2. g.task.cmd # "PACKET"
  BY Requests DEF ControlInv, PlaceInv, Is
<1>3. ~Collecting' /\ ~Streaming'
  BY <1>1 DEF ControlInv, PlaceInv, Collecting, Streaming, PacketStates
<1> QED
  BY <1>1, <1>2, <1>3 DEF PacketInv, RestInv, CollectInv, StreamInv, EndInv, SenseInv

-----------------------------------------------------------------------------
(* Ticks in which the host takes a packet.                                  *)

\* The host asks for the packet.
LEMMA PacketAsked ==
  ASSUME ControlInv, ControlInv', PacketInv, TickFrame, image' = image, PacketMove
  PROVE  PacketInv'
<1>0. /\ g' = g /\ kind' = kind /\ request' = request /\ (Active' <=> Active) /\ (Drq' <=> Drq) /\ Hand' = Hand
  BY TickKeeps
<1>1. /\ h.st = "DO_CMD" /\ h'.st = "SET_REGS" /\ h'.next = "PACKET_WAIT_REQ" /\ kind = "cd" /\ h'.rem = h.rem
      /\ h'.sense = h.sense /\ h'.pkt = PacketWords
  BY DEF PacketMove, Keeps, HostFields
<1>2. ~Collecting /\ ~Streaming /\ ~Setting /\ Collecting' /\ ~Streaming' /\ Setting' /\ Place' = h'.st
  BY <1>1 DEF Collecting, Streaming, Setting, SetDone, Place, Sets
<1>3. Active
  <2>1. ~AtRest
    BY <1>1 DEF AtRest, Ends, Sets
  <2> QED
    BY <1>1, <2>1 DEF PacketInv, RestInv
<1>4. h.cmd = g.task.cmd /\ h.cyl = g.task.cyl /\ h.drv = g.task.drv /\ request = "command"
  BY <1>1, <1>3 DEF ControlInv, AskInv, ServeInv
<1>5. h'.limit = Limit(g.task) /\ Is("cd", "PACKET")
  BY <1>4 DEF PacketMove, Limit, Is
<1>6. ~Drq /\ Hand = 0 /\ g.off = 0
  <2>1. ~Drq /\ g.blocks = 0 /\ g.off = 0
    BY <1>4, Requests DEF ControlInv, MoveInv
  <2> QED
    BY <1>4, <2>1 DEF Hand, BlockMoved
<1>7. RestInv'
  BY <1>0, <1>1, <1>2, <1>3, <1>5 DEF PacketInv, RestInv, Limit
<1>8. CollectInv'
  BY <1>0, <1>1, <1>4, <1>6 DEF CollectInv
<1>9. StreamInv' /\ EndInv'
  BY <1>1, <1>2 DEF StreamInv, EndInv, Ends
<1>10. SenseInv'
  <2>1. h.sense \in g.sense
    BY <1>1, <1>2, <1>4, <1>5 DEF PacketInv, SenseInv
  <2>2. Is("cd", "PACKET")'
    BY <1>0, <1>5 DEF Is
  <2> QED
    BY <1>0, <1>1, <1>2, <2>1, <2>2 DEF SenseInv, Ends
<1> QED
  BY <1>7, <1>8, <1>9, <1>10 DEF PacketInv

\* While it comes in, only the words of the packet change.
LEMMA Collects ==
  ASSUME ControlInv, ControlInv', PacketInv, TickFrame, image' = image,
         h.st \in {"PACKET_WAIT_REQ", "PACKET_RECV"}, h'.st \in {"PACKET_RECV", "PACKET_HANDLE"}, request = "data",
         h'.rem = h.rem, h'.sense = h.sense, h'.limit = h.limit,
         Active /\ PacketIn(PacketWords) =>
           /\ h'.st = "PACKET_RECV" => Copied(h.cnt - 1)'
           /\ h'.st = "PACKET_HANDLE" => Copied(PacketWords)'
  PROVE  PacketInv'
<1>0. /\ g' = g /\ kind' = kind /\ request' = request /\ (Active' <=> Active) /\ (Drq' <=> Drq) /\ buf' = buf
  BY TickKeeps
<1>1. Collecting /\ ~Streaming /\ Collecting' /\ ~Streaming' /\ ~Setting' /\ Place' = h'.st
  BY DEF Collecting, Streaming, Setting, SetDone, Place, Sets
<1>2. kind = "cd" /\ ~Drq
  BY Requests DEF ControlInv, PlaceInv, PacketStates
<1>3. Active
  <2>1. ~AtRest
    BY DEF AtRest, Ends, Sets
  <2> QED
    BY <1>2, <2>1 DEF PacketInv, RestInv
<1>4. PacketIn(PacketWords) /\ (PacketIn(PacketWords)' <=> PacketIn(PacketWords)) /\ g.off = 0
  BY <1>0, <1>1, <1>3 DEF PacketInv, CollectInv, PacketIn, PacketWord
<1>5. RestInv'
  BY <1>0, <1>1, <1>3 DEF PacketInv, RestInv, Limit
<1>6. CollectInv'
  BY <1>0, <1>1, <1>2, <1>3, <1>4 DEF CollectInv
<1>7. StreamInv' /\ EndInv'
  BY <1>1 DEF StreamInv, EndInv, Ends
<1>8. SenseInv'
  <2>1. Is("cd", "PACKET")' <=> Is("cd", "PACKET")
    BY <1>0 DEF Is
  <2> QED
    BY <1>0, <1>1, <2>1 DEF PacketInv, SenseInv, Ends
<1> QED
  BY <1>5, <1>6, <1>7, <1>8 DEF PacketInv

\* The word read is the next one of the packet.
LEMMA PacketFetched ==
  ASSUME ControlInv, PacketInv, FetchInv, turn = "tick", h.wait = 0, h.st = "PACKET_RECV", Active,
         PacketIn(PacketWords),
         NEW x, x = IF h.cnt > 0 THEN [h.packet EXCEPT ![h.cnt] = rdata] ELSE h.packet
  PROVE  \A k \in 1 .. h.cnt : x[k] = PacketWord(k - 1)
<1>1. h.cnt \in Nat /\ h.cnt <= PacketWords /\ DOMAIN h.packet = 1 .. PacketWords
  BY DEF ControlInv, HostType, BusInv
<1>2. Copied(h.cnt - 1)
  BY DEF PacketInv, CollectInv, Collecting
<1>3. CASE h.cnt = 0
  BY <1>3
<1>4. CASE h.cnt > 0
  <2>1. rdata = buf[h.cnt - 1]
    BY <1>4 DEF FetchInv, Recvs
  <2>2. h.cnt - 1 \in 0 .. PacketWords - 1
    BY <1>1, <1>4, ConstantTypes
  <2>3. rdata = PacketWord(h.cnt - 1)
    BY <2>1, <2>2 DEF PacketIn
  <2>4. \A k \in 1 .. h.cnt : k \in DOMAIN h.packet /\ (k = h.cnt \/ k \in 1 .. h.cnt - 1)
    BY <1>1, ConstantTypes
  <2>5. \A k \in 1 .. h.cnt - 1 : h.packet[k] = PacketWord(k - 1)
    BY <1>2 DEF Copied
  <2> HIDE DEF PacketWord
  <2> QED
    BY <1>4, <2>3, <2>4, <2>5
<1> QED
  BY <1>1, <1>3, <1>4

\* The host copies the packet word by word, and then has the whole of it.
LEMMA PacketTaken ==
  ASSUME ControlInv, ControlInv', PacketInv, FetchInv, TickFrame, image' = image, h.wait = 0,
         PacketDataMove \/ (RecvMove /\ h.st = "PACKET_RECV") \/ ReceivedMove
  PROVE  PacketInv'
<1>0. g' = g /\ turn = "tick" /\ h.cnt \in Nat
  BY TickKeeps, HostNumbers DEF ControlInv
<1>1. /\ h.st \in {"PACKET_WAIT_REQ", "PACKET_RECV"} /\ h'.st \in {"PACKET_RECV", "PACKET_HANDLE"}
      /\ h'.rem = h.rem /\ h'.sense = h.sense /\ h'.limit = h.limit
  BY DEF PacketDataMove, RecvMove, ReceivedMove, Keeps, HostFields
<1>2. request = "data"
  <2>1. CASE PacketDataMove
    BY <2>1 DEF PacketDataMove
  <2>2. CASE ~PacketDataMove
    <3>1. h.st = "PACKET_RECV" /\ kind = "cd" /\ ~AtRest
      BY <2>2 DEF ReceivedMove, ControlInv, PlaceInv, PacketStates, AtRest, Ends, Sets
    <3> QED
      BY <3>1 DEF PacketInv, RestInv, ControlInv, ServeInv
  <2> QED
    BY <2>1, <2>2
<1>3. ASSUME Active, PacketIn(PacketWords)
      PROVE  /\ h'.st = "PACKET_RECV" => Copied(h.cnt - 1)'
             /\ h'.st = "PACKET_HANDLE" => Copied(PacketWords)'
  <2>0. \A k : PacketWord(k)' = PacketWord(k)
    BY <1>0 DEF PacketWord
  <2>1. CASE PacketDataMove
    <3>1. h'.cnt = 0 /\ h'.st = "PACKET_RECV"
      BY <2>1 DEF PacketDataMove
    <3> QED
      BY <3>1 DEF Copied
  <2>2. CASE RecvMove /\ h.st = "PACKET_RECV"
    <3>1. h'.cnt = h.cnt + 1 /\ h'.st = "PACKET_RECV"
      BY <2>2 DEF RecvMove, Keeps, HostFields
    <3>2. h'.packet = IF h.cnt > 0 THEN [h.packet EXCEPT ![h.cnt] = rdata] ELSE h.packet
      BY <2>2 DEF RecvMove
    <3>3. \A k \in 1 .. h.cnt : h'.packet[k] = PacketWord(k - 1)
      BY <1>0, <1>3, <2>2, <3>2, PacketFetched
    <3>4. h'.cnt - 1 = h.cnt
      BY <1>0, <3>1
    <3>5. Copied(h.cnt - 1)'
      BY <2>0, <3>3, <3>4 DEF Copied
    <3> QED
      BY <3>1, <3>5
  <2>3. CASE ReceivedMove
    <3>1. h.st = "PACKET_RECV" /\ h'.st = "PACKET_HANDLE" /\ h.cnt >= PacketWords
      BY <2>3 DEF ReceivedMove
    <3>2. h.cnt = PacketWords
      BY <1>0, <3>1, ConstantTypes DEF ControlInv, BusInv
    <3>3. h'.packet = IF h.cnt > 0 THEN [h.packet EXCEPT ![h.cnt] = rdata] ELSE h.packet
      BY <2>3, <3>2, ConstantTypes DEF ReceivedMove
    <3>4. \A k \in 1 .. h.cnt : h'.packet[k] = PacketWord(k - 1)
      BY <1>0, <1>3, <3>1, <3>3, PacketFetched
    <3>5. Copied(PacketWords)'
      BY <2>0, <3>2, <3>4 DEF Copied
    <3> QED
      BY <3>1, <3>5
  <2> QED
    BY <2>1, <2>2, <2>3
<1> QED
  BY <1>1, <1>2, <1>3, Collects

-----------------------------------------------------------------------------
(* The answer to a packet.                                                  *)

\* A whole number of divisors shifts the quotient and leaves the remainder.
LEMMA ShiftedDivision ==
  ASSUME NEW d \in Nat \ {0}, NEW a \in Nat, NEW m \in Nat
  PROVE  ((d * a) + m) \div d = a + (m \div d) /\ ((d * a) + m) % d = m % d
<1> DEFINE e == m \div d
           r == m % d
<1>1. e \in Nat /\ r \in 0 .. d - 1 /\ m = (d * e) + r
  BY Divides
<1> HIDE DEF e, r
<1>2. (d * a) + m = (d * (a + e)) + r
  BY <1>1
<1>3. ((d * (a + e)) + r) % d = r /\ ((d * (a + e)) + r) \div d = a + e
  <2>1. a + e \in Nat
    BY <1>1
  <2> HIDE DEF e, r
  <2> QED
    BY <1>1, <2>1, DivideOnly
<1> QED
  BY <1>2, <1>3 DEF e, r

\* A read answered so far, the block in hand and what is left of it make up the whole.
LEMMA ChunkSum ==
  ASSUME NEW n \in Nat, NEW l \in Nat, NEW c \in Nat, NEW d \in Nat, c <= l, l <= n
  PROVE  /\ (n - l) * d \in Nat /\ c * d \in Nat /\ (l - c) * d \in Nat
         /\ ((n - l) * d) + (c * d) + ((l - c) * d) = n * d
<1>1. n - l \in Nat /\ l - c \in Nat
  OBVIOUS
<1>2. (n - l) * d \in Nat /\ c * d \in Nat /\ (l - c) * d \in Nat
  BY <1>1
<1> QED
  BY <1>1, <1>2

\* So do the part that is done and the part that is left.
LEMMA PartSum ==
  ASSUME NEW n \in Nat, NEW l \in Nat, NEW d \in Nat, l <= n
  PROVE  (n - l) * d \in Nat /\ l * d \in Nat /\ ((n - l) * d) + (l * d) = n * d
<1>1. n - l \in Nat
  OBVIOUS
<1>2. (n - l) * d \in Nat /\ l * d \in Nat
  BY <1>1
<1> QED
  BY <1>1, <1>2

\* What a packet may be.
LEMMA PacketKinds ==
  ASSUME g.packet \in Packets
  PROVE  \/ g.packet.op \in {"none", "seek", "bad"}
         \/ g.packet.op = "sense" /\ g.packet.n \in {0, 1}
         \/ g.packet.op = "info" /\ g.packet.n \in 0 .. BufWords
         \/ g.packet.op = "read" /\ g.packet.lba \in Nat /\ g.packet.n \in Nat
  BY PacketsAssumption

\* Its answer.
LEMMA ResponseWords ==
  ASSUME g.packet \in Packets
  PROVE  /\ g.packet.op \in {"none", "seek", "bad"} => Len(Response) = 0
         /\ g.packet.op = "sense" =>
              /\ Len(Response) = g.packet.n
              /\ \A k \in 1 .. g.packet.n : Response[k] = {<<"sense", key, 0>> : key \in g.sense}
         /\ g.packet.op = "info" =>
              /\ Len(Response) = g.packet.n
              /\ \A k \in 1 .. g.packet.n : Response[k] = {<<"info", g.packet.n, k>>}
         /\ g.packet.op = "read" /\ g.packet.lba + g.packet.n <= Sectors =>
              /\ Len(Response) = g.packet.n * CdWords
              /\ \A i \in 1 .. g.packet.n * CdWords :
                   Response[i] = {image[g.packet.lba + (i - 1) \div CdWords][(i - 1) % CdWords]}
<1>1. CASE g.packet.op \in {"none", "seek", "bad"}
  <2>1. Response = <<>>
    BY <1>1 DEF Response
  <2> QED
    BY <1>1, <2>1
<1>2. CASE g.packet.op = "sense"
  <2> DEFINE n == g.packet.n
             w == {<<"sense", key, 0>> : key \in g.sense}
             f == [k \in 1 .. n |-> w]
  <2>1. n \in Nat
    BY <1>2, PacketKinds, ConstantTypes
  <2>2. Response = f
    BY <1>2 DEF Response
  <2> HIDE DEF w
  <2>3. f = [i \in 1 .. n |-> f[i]] /\ n \in 0 .. n
    BY <2>1
  <2>4. \A k \in 1 .. n : f[k] = w
    OBVIOUS
  <2> HIDE DEF n, f
  <2>5. Len(f) = n
    BY <2>1, <2>3, SequenceFields
  <2> QED
    BY <1>2, <2>2, <2>4, <2>5 DEF n, w
<1>3. CASE g.packet.op = "info"
  <2> DEFINE n == g.packet.n
             f == [k \in 1 .. n |-> {<<"info", n, k>>}]
  <2>1. n \in Nat
    BY <1>3, PacketKinds, ConstantTypes
  <2>2. Response = f
    BY <1>3 DEF Response
  <2>3. f = [i \in 1 .. n |-> f[i]] /\ n \in 0 .. n
    BY <2>1
  <2>4. \A k \in 1 .. n : f[k] = {<<"info", n, k>>}
    OBVIOUS
  <2> HIDE DEF n, f
  <2>5. Len(f) = n
    BY <2>1, <2>3, SequenceFields
  <2> QED
    BY <1>3, <2>2, <2>4, <2>5 DEF n
<1>4. CASE g.packet.op = "read" /\ g.packet.lba + g.packet.n <= Sectors
  <2> DEFINE n == g.packet.n * CdWords
             w(i) == image[g.packet.lba + (i - 1) \div CdWords][(i - 1) % CdWords]
             f == [i \in 1 .. n |-> {w(i)}]
  <2>1. n \in Nat
    BY <1>4, PacketKinds, ConstantTypes
  <2>2. Response = f
    BY <1>4 DEF Response
  <2> HIDE DEF n, w
  <2>3. f = [i \in 1 .. n |-> f[i]] /\ n \in 0 .. n
    BY <2>1
  <2>4. \A k \in 1 .. n : f[k] = {w(k)}
    OBVIOUS
  <2> HIDE DEF f
  <2>5. Len(f) = n
    BY <2>1, <2>3, SequenceFields
  <2>6. Len(Response) = n /\ \A i \in 1 .. n : Response[i] = {w(i)}
    BY <2>2, <2>4, <2>5
  <2> QED
    BY <1>4, <2>6 DEF n, w
<1> QED
  BY <1>1, <1>2, <1>3, <1>4

\* The packet the host has put together is the one the guest sent.
LEMMA PacketWhole ==
  ASSUME g.packet \in Packets, Copied(PacketWords)
  PROVE  Assembled(h) = g.packet
<1>1. Holds(h, g.packet)
  BY DEF Holds, Copied, PacketWord
<1>2. ASSUME NEW p \in Packets, Holds(h, p) PROVE p = g.packet
  <2>1. 1 \in 1 .. PacketWords
    BY ConstantTypes
  <2>2. h.packet[1] = <<"pkt", p, 1 - 1>>
    BY <1>2, <2>1 DEF Holds
  <2>3. h.packet[1] = <<"pkt", g.packet, 1 - 1>>
    BY <1>1, <2>1 DEF Holds
  <2> QED
    BY <2>2, <2>3
<1>3. (CHOOSE p \in Packets : Holds(h, p)) = g.packet
  BY <1>1, <1>2
<1> QED
  BY <1>1, <1>3 DEF Assembled

\* The host turns to a packet: where it and the guest stand.
Answering == h.st = "PACKET_HANDLE" \/ (h.st = "PACKET_READ_WAIT_REQ" /\ request = "data")
\* There the whole packet is known, or the rest of a read is what is missing of its answer.
LEMMA AnswerPlace ==
  ASSUME ControlInv, PacketInv, turn = "tick", Answering
  PROVE  /\ Active /\ Is("cd", "PACKET") /\ request = "data" /\ ~Drq /\ g.blocks > 0 /\ g.off \in Nat
         /\ g.task \in Tasks["cd"] /\ g.packet \in Packets /\ h.limit = Limit(g.task) /\ h.rem \in Nat
         /\ h.st = "PACKET_HANDLE" =>
              Assembled(h) = g.packet /\ g.off = 0 /\ h.rem = 0 /\ h.sense \in g.sense
         /\ h.st = "PACKET_READ_WAIT_REQ" =>
              /\ g.off + (h.rem * CdWords) = Len(Response)
              /\ h.rem > 0 => /\ g.packet.op = "read" /\ h.rem <= g.packet.n
                              /\ h.plba = g.packet.lba + (g.packet.n - h.rem)
<1>1. /\ h.st \in {"PACKET_HANDLE", "PACKET_READ_WAIT_REQ"} /\ kind = "cd" /\ ~AtRest /\ ~Pending
      /\ Place = h.st
  BY DEF Answering, ControlInv, PlaceInv, PacketStates, AtRest, Ends, Sets, Pending, Place, SetDone
<1>2. Active
  BY <1>1 DEF PacketInv, RestInv
<1>3. Is("cd", "PACKET") /\ request = "data"
  BY <1>1, <1>2 DEF Answering, ControlInv, PlaceInv, ServeInv
<1>4. ~Drq /\ g.blocks > 0 /\ g.off \in Nat /\ h.rem \in Nat
  BY <1>2, <1>3, Requests DEF ControlInv, GuestType, HostType
<1>5. Collecting \/ Streaming
  BY <1>1 DEF Collecting, Streaming
<1>6. g.task \in Tasks["cd"] /\ g.packet \in Packets /\ h.limit = Limit(g.task)
  BY <1>1, <1>2, <1>3, <1>5 DEF PacketInv, RestInv, Is
<1>7. ASSUME h.st = "PACKET_HANDLE"
      PROVE  Assembled(h) = g.packet /\ g.off = 0 /\ h.rem = 0 /\ h.sense \in g.sense
  <2>1. Collecting /\ ~Streaming
    BY <1>7 DEF Collecting, Streaming, Sets
  <2>2. Copied(PacketWords) /\ g.off = 0
    BY <1>2, <1>7, <2>1 DEF PacketInv, CollectInv
  <2>3. h.rem = 0 /\ h.sense \in g.sense
    BY <1>1, <1>3, <2>1 DEF PacketInv, RestInv, SenseInv
  <2> QED
    BY <1>6, <2>2, <2>3, PacketWhole
<1>8. ASSUME h.st = "PACKET_READ_WAIT_REQ"
      PROVE  /\ g.off + (h.rem * CdWords) = Len(Response)
             /\ h.rem > 0 => /\ g.packet.op = "read" /\ h.rem <= g.packet.n
                             /\ h.plba = g.packet.lba + (g.packet.n - h.rem)
  <2>1. Streaming
    BY <1>8 DEF Streaming
  <2>2. /\ Base + h.pkt + h.rem * CdWords = Len(Response)
        /\ h.rem > 0 => /\ g.packet.op = "read" /\ h.rem <= g.packet.n
                        /\ h.plba = g.packet.lba + (g.packet.n - h.rem)
    BY <1>2, <2>1 DEF PacketInv, StreamInv
  <2>3. Base = g.off - h.pkt
    BY <1>1, <1>4, <1>8 DEF Base, Taken
  <2>4. Base + h.pkt = g.off
    BY <1>4, <2>3, HostNumbers DEF ControlInv
  <2> QED
    BY <2>2, <2>4
<1> QED
  BY <1>2, <1>3, <1>4, <1>6, <1>7, <1>8

\* A read of sectors, at its first block or at a later one.
LEMMA ReadPlace ==
  ASSUME ControlInv, PacketInv, PacketsFit, turn = "tick", Answering, More, Left > 0
  PROVE  /\ g.packet.op = "read" /\ g.packet.lba \in Nat /\ g.packet.n \in Nat /\ Left \in Nat /\ Left <= g.packet.n
         /\ g.packet.lba + g.packet.n <= Sectors /\ CdWords <= h.limit
         /\ Start = g.packet.lba + (g.packet.n - Left)
         /\ g.off = (g.packet.n - Left) * CdWords
<1>1. /\ Is("cd", "PACKET") /\ g.task \in Tasks["cd"] /\ g.packet \in Packets /\ h.limit = Limit(g.task)
      /\ h.rem \in Nat /\ g.off \in Nat
  BY AnswerPlace
<1>2. CASE h.st = "PACKET_HANDLE"
  <2>1. Assembled(h) = g.packet /\ g.off = 0 /\ g.packet.op = "read"
    BY <1>2, AnswerPlace DEF More, Asked
  <2>2. g.packet.lba \in Nat /\ g.packet.n \in Nat
    BY <1>1, <2>1, PacketKinds
  <2>3. g.packet.lba + g.packet.n <= Sectors /\ CdWords <= h.limit
    BY <1>1, <2>1 DEF PacketsFit, Is
  <2>4. Left = g.packet.n /\ Start = g.packet.lba
    BY <1>2, <2>1 DEF Left, Start
  <2>5. g.packet.n - Left = 0 /\ 0 * CdWords = 0
    BY <2>2, <2>4, ConstantTypes
  <2> QED
    BY <2>1, <2>2, <2>3, <2>4, <2>5
<1>3. CASE h.st # "PACKET_HANDLE"
  <2>1. h.st = "PACKET_READ_WAIT_REQ" /\ Left = h.rem /\ Start = h.plba
    BY <1>3 DEF Answering, Left, Start
  <2>2. /\ g.packet.op = "read" /\ h.rem <= g.packet.n /\ h.plba = g.packet.lba + (g.packet.n - h.rem)
        /\ g.off + (h.rem * CdWords) = Len(Response)
    BY <2>1, AnswerPlace
  <2>3. g.packet.lba \in Nat /\ g.packet.n \in Nat
    BY <1>1, <2>2, PacketKinds
  <2>4. g.packet.lba + g.packet.n <= Sectors /\ CdWords <= h.limit
    BY <1>1, <2>2 DEF PacketsFit, Is
  <2>5. Len(Response) = g.packet.n * CdWords
    BY <1>1, <2>2, <2>4, ResponseWords
  <2> DEFINE done == (g.packet.n - h.rem) * CdWords
             left == h.rem * CdWords
             all  == g.packet.n * CdWords
  <2>6. done \in Nat /\ left \in Nat /\ done + left = all
    <3>1. g.packet.n \in Nat /\ h.rem \in Nat /\ CdWords \in Nat /\ h.rem <= g.packet.n
      BY <1>1, <2>1, <2>2, <2>3, ConstantTypes
    <3>2. \A m \in Nat, l \in Nat, d \in Nat :
            l <= m => (m - l) * d \in Nat /\ l * d \in Nat /\ ((m - l) * d) + (l * d) = m * d
      BY PartSum
    <3> QED
      BY <3>1, <3>2, Zenon
  <2> HIDE DEF done, left, all
  <2>7. g.off + left = all
    BY <2>2, <2>5 DEF left, all
  <2>8. g.off = done
    BY <1>1, <2>6, <2>7
  <2> QED
    BY <1>1, <2>1, <2>2, <2>3, <2>4, <2>8 DEF done
<1> QED
  BY <1>2, <1>3

\* The block the host makes up is the next part of the answer.
NextBlock ==
  /\ g.off + h'.pkt + (h'.rem * CdWords) = Len(Response)
  /\ h'.rem > 0 => /\ g.packet.op = "read" /\ h'.rem <= g.packet.n
                   /\ h'.plba = g.packet.lba + (g.packet.n - h'.rem)
  /\ \A k \in 1 .. h'.pkt : h'.data[k] \in Response[g.off + k]
\* A chunk of a read is the next block.
LEMMA ReadBlock ==
  ASSUME ControlInv, PacketInv, PacketsFit, turn = "tick", Answering, ReadAnswer
  PROVE  NextBlock
<1>1. PICK c \in 1 .. MaxChunk :
        /\ c <= Left /\ Start + c <= Sectors /\ (h.limit >= CdWords => c * CdWords <= h.limit)
        /\ h'.plba = Start + c /\ h'.rem = Left - c /\ h'.pkt = MinOf(c * CdWords, h.limit)
  BY DEF ReadAnswer
<1> DEFINE n == g.packet.n
           a == n - Left
<1>2. More /\ Left \in Nat /\ Left > 0 /\ c \in Nat /\ c > 0
  <2>1. Left \in Nat
    BY AnswerPlace, AssembledType DEF Left, ReadAnswer, More, Asked, Answering
  <2> QED
    BY <1>1, <2>1, ConstantTypes DEF ReadAnswer
<1>3. /\ g.packet.op = "read" /\ g.packet.lba \in Nat /\ n \in Nat /\ Left <= n
      /\ g.packet.lba + n <= Sectors /\ CdWords <= h.limit
      /\ Start = g.packet.lba + a /\ g.off = a * CdWords
  BY <1>2, ReadPlace
<1>4. a \in Nat /\ CdWords \in Nat \ {0} /\ Left - c \in Nat
  BY <1>1, <1>2, <1>3, ConstantTypes
<1>5. h'.pkt = c * CdWords
  <2>1. c * CdWords <= h.limit /\ h.limit \in Nat /\ c * CdWords \in Nat
    BY <1>1, <1>2, <1>3, <1>4, HostNumbers DEF ControlInv
  <2> QED
    BY <1>1, <2>1 DEF MinOf
<1>6. /\ a * CdWords \in Nat /\ c * CdWords \in Nat /\ (Left - c) * CdWords \in Nat
      /\ (a * CdWords) + (c * CdWords) + ((Left - c) * CdWords) = n * CdWords
  BY <1>1, <1>2, <1>3, <1>4, ChunkSum
<1>7. /\ Len(Response) = n * CdWords
      /\ \A i \in 1 .. n * CdWords :
           Response[i] = {image[g.packet.lba + (i - 1) \div CdWords][(i - 1) % CdWords]}
  BY <1>3, AnswerPlace, ResponseWords
<1>8. h'.rem = Left - c /\ h'.rem <= n /\ h'.plba = g.packet.lba + (n - h'.rem)
  BY <1>1, <1>2, <1>3
<1>9. ASSUME NEW k \in 1 .. h'.pkt PROVE h'.data[k] \in Response[g.off + k]
  <2>1. h'.data[k] = image[Start + (k - 1) \div CdWords][(k - 1) % CdWords]
    BY <1>9 DEF ReadAnswer
  <2>2. k \in 1 .. c * CdWords
    BY <1>5, <1>9
  <2> HIDE DEF a, n
  <2>3. g.off + k \in 1 .. n * CdWords /\ (g.off + k) - 1 = (CdWords * a) + (k - 1) /\ k - 1 \in Nat
    <3>1. CdWords * a = a * CdWords
      BY <1>4
    <3> QED
      BY <1>3, <1>6, <2>2, <3>1
  <2> DEFINE m == k - 1
             e == m \div CdWords
  <2>4. ((g.off + k) - 1) \div CdWords = a + e /\ ((g.off + k) - 1) % CdWords = m % CdWords
    <3>1. m \in Nat /\ (g.off + k) - 1 = (CdWords * a) + m
      BY <2>3
    <3> HIDE DEF m
    <3>2. ((CdWords * a) + m) \div CdWords = a + e /\ ((CdWords * a) + m) % CdWords = m % CdWords
      BY <1>4, <3>1, ShiftedDivision
    <3> QED
      BY <3>1, <3>2
  <2>5. Response[g.off + k] = {image[g.packet.lba + ((g.off + k) - 1) \div CdWords][((g.off + k) - 1) % CdWords]}
    BY <1>7, <2>3
  <2>6. g.packet.lba + (a + e) = Start + e
    <3>1. e \in Nat
      BY <1>4, <2>3, Divides
    <3> HIDE DEF e
    <3> QED
      BY <1>3, <1>4, <3>1
  <2> QED
    BY <2>1, <2>4, <2>5, <2>6
<1>10. g.off + h'.pkt + (h'.rem * CdWords) = Len(Response)
  BY <1>3, <1>5, <1>6, <1>7, <1>8
<1> QED
  BY <1>3, <1>8, <1>9, <1>10 DEF NextBlock

\* So it is of every answer.
LEMMA AnswerBlock ==
  ASSUME ControlInv, PacketInv, PacketsFit, turn = "tick", AnswerMove
  PROVE  NextBlock
<1>0. Answering
  BY DEF AnswerMove, Answering
<1>1. CASE ReadAnswer
  BY <1>0, <1>1, ReadBlock
<1>2. CASE SenseAnswer
  <2>1. /\ h.st = "PACKET_HANDLE" /\ Assembled(h).op = "sense" /\ h'.pkt = Assembled(h).n
        /\ \A k \in 1 .. h'.pkt : h'.data[k] = <<"sense", h.sense, 0>>
        /\ h'.rem = h.rem
    BY <1>2 DEF SenseAnswer, Asked
  <2>2. g.packet = Assembled(h) /\ g.packet \in Packets /\ g.off = 0 /\ h.rem = 0 /\ h.sense \in g.sense
    BY <1>0, <2>1, AnswerPlace
  <2>3. g.packet.op = "sense" /\ g.packet.n \in Nat /\ h'.pkt = g.packet.n
    BY <2>1, <2>2, PacketKinds
  <2>4. /\ Len(Response) = g.packet.n
        /\ \A k \in 1 .. g.packet.n : Response[k] = {<<"sense", key, 0>> : key \in g.sense}
    BY <2>2, <2>3, ResponseWords
  <2>5. ASSUME NEW k \in 1 .. h'.pkt PROVE h'.data[k] \in Response[k] /\ g.off + k = k
    <3>1. h'.data[k] = <<"sense", h.sense, 0>>
      BY <2>1, <2>5
    <3>2. Response[k] = {<<"sense", key, 0>> : key \in g.sense}
      BY <2>3, <2>4, <2>5
    <3> QED
      BY <2>2, <2>3, <2>5, <3>1, <3>2
  <2>6. 0 * CdWords = 0
    BY ConstantTypes
  <2> QED
    <3>1. h'.rem = 0 /\ g.off + h'.pkt + (h'.rem * CdWords) = Len(Response)
      BY <2>1, <2>2, <2>3, <2>4, <2>6
    <3>2. \A k \in 1 .. h'.pkt : h'.data[k] \in Response[g.off + k]
      BY <2>5
    <3> QED
      BY <3>1, <3>2 DEF NextBlock
<1>3. CASE InfoAnswer
  <2>1. /\ h.st = "PACKET_HANDLE" /\ Assembled(h).op = "info" /\ h'.pkt = MinOf(Assembled(h).n, h.limit)
        /\ \A k \in 1 .. h'.pkt : h'.data[k] = <<"info", Assembled(h).n, k>>
        /\ h'.rem = h.rem
    BY <1>3 DEF InfoAnswer, Asked
  <2>2. /\ Assembled(h) = g.packet /\ g.packet \in Packets /\ g.off = 0 /\ h.rem = 0 /\ g.task \in Tasks["cd"]
        /\ g.task.cmd = "PACKET" /\ h.limit = Limit(g.task)
    BY <1>0, <2>1, AnswerPlace DEF Is
  <2>3. g.packet.op = "info" /\ g.packet.n \in Nat /\ g.packet.n <= h.limit
    BY <2>1, <2>2, PacketKinds, ConstantTypes DEF PacketsFit
  <2>4. h'.pkt = g.packet.n
    BY <2>1, <2>2, <2>3, HostNumbers DEF MinOf, ControlInv
  <2>5. Len(Response) = g.packet.n /\ \A k \in 1 .. g.packet.n : Response[k] = {<<"info", g.packet.n, k>>}
    BY <2>2, <2>3, ResponseWords
  <2>6. ASSUME NEW k \in 1 .. h'.pkt PROVE h'.data[k] \in Response[k] /\ g.off + k = k
    <3>1. h'.data[k] = <<"info", g.packet.n, k>>
      BY <2>1, <2>2
    <3>2. Response[k] = {<<"info", g.packet.n, k>>}
      BY <2>4, <2>5
    <3> QED
      BY <2>2, <3>1, <3>2
  <2>7. 0 * CdWords = 0
    BY ConstantTypes
  <2> QED
    BY <2>1, <2>2, <2>3, <2>4, <2>5, <2>6, <2>7 DEF NextBlock
<1> QED
  BY <1>1, <1>2, <1>3 DEF AnswerMove

\* The block the host prepares is the next one the guest is owed.
LEMMA AnswerKept ==
  ASSUME ControlInv, ControlInv', PacketInv, PacketsFit, TickFrame, image' = image, AnswerMove
  PROVE  PacketInv'
<1>0. /\ g' = g /\ kind' = kind /\ request' = request /\ (Active' <=> Active) /\ (Drq' <=> Drq) /\ turn = "tick"
      /\ Stb' = Stb
  BY TickKeeps
<1>1. Answering /\ h'.st = "PACKET_SEND" /\ h'.cnt = 0 /\ h'.limit = h.limit
  BY DEF AnswerMove, Answering, Keeps, HostFields
<1>2. ~Collecting' /\ Streaming' /\ ~Setting' /\ Place' = h'.st
  BY <1>1 DEF Collecting, Streaming, Setting, SetDone, Place, Sets
<1>3. /\ Active /\ Is("cd", "PACKET") /\ request = "data" /\ ~Drq /\ g.blocks > 0 /\ g.off \in Nat
      /\ g.task \in Tasks["cd"] /\ g.packet \in Packets /\ h.limit = Limit(g.task)
  BY <1>0, <1>1, AnswerPlace
<1>4. NextBlock
  BY <1>0, AnswerBlock
<1>5. Response' = Response
  BY <1>0, ResponseKept
<1>6. Taken' = 0 /\ Base' = g.off
  <2>1. Taken' = 0
    BY <1>0, <1>1, <1>2, <1>3 DEF Taken
  <2> QED
    BY <1>0, <1>3, <2>1 DEF Base
<1>7. ~Pending' /\ Sent' = 0 /\ ~Due'
  <2>1. ~Pending'
    BY QuietPointer DEF AnswerMove
  <2> QED
    BY <1>1, <1>2, <2>1 DEF Sent, Due
<1>8. Given(h.pkt)' /\ Matches(Sent)'
  <2>1. Given(h.pkt)'
    BY <1>4, <1>5, <1>6 DEF Given, NextBlock
  <2>2. Matches(Sent)'
    BY <1>7 DEF Matches
  <2> QED
    BY <2>1, <2>2
<1>9. RestInv'
  BY <1>0, <1>1, <1>2, <1>3 DEF RestInv, Limit
<1>10. CollectInv'
  BY <1>2 DEF CollectInv
<1>11. StreamInv'
  <2>1. (Base + h.pkt + h.rem * CdWords)' = Len(Response')
    BY <1>4, <1>5, <1>6 DEF NextBlock
  <2> QED
    BY <1>0, <1>3, <1>4, <1>6, <1>7, <1>8, <2>1 DEF StreamInv, NextBlock
<1>12. EndInv'
  BY <1>1, <1>2 DEF EndInv, Ends
<1>13. SenseInv'
  BY <1>0, <1>1, <1>2, <1>3 DEF SenseInv, Ends, Is
<1> QED
  BY <1>9, <1>10, <1>11, <1>12, <1>13 DEF PacketInv

\* The host is through with the packet: it has sent the whole answer, or says that it could not.
LEMMA FinishComplete ==
  ASSUME ControlInv, PacketInv, PacketsFit, turn = "tick", FinishMove
  PROVE  h'.rem = 0 /\ ("ERR" \in h'.status \/ Complete)
<1>0. Answering /\ h'.sense \in {0, 5} /\ (h'.sense = 5 <=> "ERR" \in h'.status)
  BY DEF FinishMove, Answering
<1>1. CASE PlainFinish
  <2>1. h.st = "PACKET_HANDLE" /\ h'.rem = h.rem /\ (Assembled(h).op \in {"none", "seek"} \/ h'.sense = 5)
    BY <1>1 DEF PlainFinish, Asked
  <2>2. Assembled(h) = g.packet /\ g.packet \in Packets /\ g.off = 0 /\ h.rem = 0
    BY <1>0, <2>1, AnswerPlace
  <2> QED
    BY <1>0, <2>1, <2>2, ResponseWords DEF Complete
<1>2. CASE ReadFinish
  <2>0. More /\ h'.rem = Left /\ (Left = 0 \/ \E c \in 1 .. MaxChunk : c <= Left /\ Start + c > Sectors)
    BY <1>2 DEF ReadFinish
  <2>1. Left = 0
    <3> SUFFICES ASSUME NEW c \in 1 .. MaxChunk, c <= Left, Start + c > Sectors PROVE FALSE
      BY <2>0
    <3>1. Left \in Nat
      BY <1>0, <2>0, AnswerPlace, AssembledType DEF Left, More, Asked, Answering
    <3>2. Left > 0
      BY <3>1, ConstantTypes
    <3>3. /\ g.packet.lba \in Nat /\ g.packet.n \in Nat /\ Left <= g.packet.n
          /\ g.packet.lba + g.packet.n <= Sectors /\ Start = g.packet.lba + (g.packet.n - Left)
      BY <1>0, <2>0, <3>2, ReadPlace
    <3> QED
      BY <3>1, <3>3, ConstantTypes
  <2>2. CASE h.st = "PACKET_HANDLE"
    <3>1. /\ Assembled(h) = g.packet /\ g.packet \in Packets /\ g.off = 0 /\ g.packet.op = "read"
          /\ g.packet.n = 0 /\ Is("cd", "PACKET") /\ g.task \in Tasks["cd"]
      BY <1>0, <2>0, <2>1, <2>2, AnswerPlace DEF More, Asked, Left
    <3>2. g.packet.lba + g.packet.n <= Sectors
      BY <3>1 DEF PacketsFit, Is
    <3>3. Len(Response) = 0 * CdWords /\ 0 * CdWords = 0
      BY <3>1, <3>2, ResponseWords, ConstantTypes
    <3> QED
      BY <2>0, <2>1, <3>1, <3>3 DEF Complete
  <2>3. CASE h.st # "PACKET_HANDLE"
    <3>1. h.st = "PACKET_READ_WAIT_REQ" /\ h.rem = 0
      BY <1>0, <2>1, <2>3 DEF Answering, Left
    <3>2. g.off + (0 * CdWords) = Len(Response) /\ g.off \in Nat /\ 0 * CdWords = 0
      BY <1>0, <3>1, AnswerPlace, ConstantTypes
    <3> QED
      BY <2>0, <2>1, <3>2 DEF Complete
  <2> QED
    BY <2>2, <2>3
<1> QED
  BY <1>1, <1>2 DEF FinishMove

\* The end of a packet command.
LEMMA FinishKept ==
  ASSUME ControlInv, ControlInv', PacketInv, PacketsFit, TickFrame, image' = image, FinishMove
  PROVE  PacketInv'
<1>0. g' = g /\ kind' = kind /\ request' = request /\ (Active' <=> Active) /\ turn = "tick"
  BY TickKeeps
<1>1. /\ Answering /\ h'.st = "SET_REGS" /\ h'.next = "IDLE" /\ h'.sense \in {0, 5}
      /\ (h'.sense = 5 <=> "ERR" \in h'.status)
  BY DEF FinishMove, Answering
<1>2. ~Collecting' /\ ~Streaming' /\ Setting' /\ Place' = h'.st
  BY <1>1 DEF Collecting, Streaming, Setting, SetDone, Place, Sets
<1>3. Active /\ Is("cd", "PACKET") /\ request = "data" /\ g.task \in Tasks["cd"] /\ g.packet \in Packets
  BY <1>0, <1>1, AnswerPlace
<1>4. h'.rem = 0 /\ ("ERR" \in h'.status \/ Complete')
  <2>1. Complete' <=> Complete
    BY <1>0, ResponseKept DEF Complete
  <2> QED
    BY <1>0, <2>1, FinishComplete
<1>5. RestInv'
  BY <1>0, <1>2, <1>3, <1>4 DEF RestInv
<1>6. CollectInv' /\ StreamInv'
  BY <1>2 DEF CollectInv, StreamInv
<1>7. EndInv'
  BY <1>1, <1>2, <1>4 DEF EndInv, Ends
<1>8. SenseInv'
  BY <1>0, <1>1, <1>2, <1>3 DEF SenseInv, Ends, Is, Key
<1> QED
  BY <1>5, <1>6, <1>7, <1>8 DEF PacketInv

\* A word of the block goes to the buffer, or the last one has gone.
LEMMA PacketSent ==
  ASSUME ControlInv, ControlInv', PacketInv, TickFrame, image' = image, h.wait = 0, h.st = "PACKET_SEND",
         SendMove \/ SentMove
  PROVE  PacketInv'
<1>0. /\ g' = g /\ kind' = kind /\ request' = request /\ (Active' <=> Active) /\ (Drq' <=> Drq) /\ turn = "tick"
      /\ Stb' = Stb /\ buf' = buf /\ ~Pending /\ (Pending' <=> bus'.op # "none") /\ ioCnt' = ioCnt
  BY TickKeeps
<1>1. /\ h'.pkt = h.pkt /\ h'.rem = h.rem /\ h'.limit = h.limit /\ h'.plba = h.plba /\ h'.sense = h.sense
      /\ h'.data = h.data /\ h'.status = h.status /\ h.cnt \in Nat /\ h.pkt \in Nat /\ h.cnt <= h.pkt
  BY HostNumbers DEF SendMove, SentMove, Keeps, HostFields, ControlInv, BusInv
<1>2. /\ ~Collecting /\ Streaming /\ ~Setting /\ Place = h.st /\ kind = "cd" /\ Sent = h.cnt /\ ~Drq
  <2>1. Busy
    BY DEF Busy, Waits, Ends, Sets
  <2> QED
    BY <1>0, <2>1, Requests
       DEF Collecting, Streaming, Setting, SetDone, Place, Sets, ControlInv, PlaceInv, PacketStates, Sent
<1>3. Active
  <2>1. ~AtRest
    BY DEF AtRest, Ends, Sets
  <2> QED
    BY <1>2, <2>1 DEF PacketInv, RestInv
<1>4. /\ h'.st \in {"PACKET_SEND", "SET_REGS"} /\ (h'.st = "SET_REGS" => h'.next = "PACKET_READ_WAIT_REQ")
      /\ Streaming' /\ ~Collecting' /\ Place' = h'.st /\ (Setting' => h'.next = "PACKET_READ_WAIT_REQ")
  <2>1. h'.st \in {"PACKET_SEND", "SET_REGS"} /\ (h'.st = "SET_REGS" => h'.next = "PACKET_READ_WAIT_REQ")
    BY DEF SendMove, SentMove, Keeps, HostFields
  <2> QED
    BY <2>1 DEF Collecting, Streaming, Setting, SetDone, Place, Sets
<1>5. Response' = Response /\ Taken' = Taken /\ Base' = Base
  <2>1. Taken' = Taken
    BY <1>0, <1>2, <1>4 DEF Taken
  <2> QED
    BY <1>0, <2>1, ResponseKept DEF Base
<1>6. /\ \A n : Given(n)' <=> Given(n)
      /\ \A n : Matches(n)' <=> Matches(n)
  BY <1>0, <1>1, <1>5 DEF Given, Matches
<1>7. /\ g.blocks > 0 /\ Base \in Nat /\ Base + h.pkt + h.rem * CdWords = Len(Response)
      /\ h.rem > 0 => /\ g.packet.op = "read" /\ h.rem <= g.packet.n
                      /\ h.plba = g.packet.lba + (g.packet.n - h.rem)
      /\ Given(h.pkt) /\ Matches(h.cnt)
  BY <1>2, <1>3 DEF PacketInv, StreamInv
<1>8. RestInv'
  BY <1>0, <1>1, <1>2, <1>3, <1>4 DEF PacketInv, RestInv, Limit
<1>9. CollectInv' /\ EndInv'
  BY <1>4 DEF CollectInv, EndInv, Ends
<1>10. SenseInv'
  BY <1>0, <1>1, <1>2, <1>4 DEF PacketInv, SenseInv, Ends, Is
<1>11. StreamInv'
  <2>1. CASE SendMove
    <3>1. h'.cnt = h.cnt + 1 /\ h'.st = "PACKET_SEND" /\ h.cnt < h.pkt /\ bus'.d = h.data[h.cnt + 1] /\ bus'.op = "wr"
      BY <2>1 DEF SendMove, Keeps, HostFields, Pulse, Bus
    <3>2. Pending' /\ Sent' = h.cnt /\ ~Due'
      BY <1>0, <1>1, <3>1 DEF Sent, Due, Setting, Sets
    <3>3. bus'.d \in Response[Base + h.cnt + 1]
      <4>1. h.cnt + 1 \in 1 .. h.pkt /\ Base + h.cnt + 1 = Base + (h.cnt + 1)
        BY <1>1, <1>7, <3>1
      <4> QED
        BY <1>7, <3>1, <4>1 DEF Given
    <3> QED
      BY <1>0, <1>1, <1>2, <1>5, <1>6, <1>7, <3>1, <3>2, <3>3 DEF StreamInv
  <2>2. CASE SentMove
    <3>1. h'.st = "SET_REGS" /\ h.cnt = h.pkt
      BY <1>1, <2>2 DEF SentMove
    <3> QED
      BY <1>0, <1>1, <1>2, <1>5, <1>6, <1>7, <3>1 DEF StreamInv
  <2> QED
    BY <2>1, <2>2
<1> QED
  BY <1>8, <1>9, <1>10, <1>11 DEF PacketInv

\* Every tick of the host.
LEMMA TickPacket ==
  ASSUME ControlInv, PacketInv, FetchInv, PacketsFit, Tick
  PROVE  PacketInv'
<1>1. ControlInv' /\ TickMove /\ TickFrame
  <2>1. TickMove
    BY TickMoves DEF ControlInv
  <2> QED
    BY <2>1, TickStep DEF TickMove, TickFrame
<1>2. CASE h.st = "WRITE_RECV"
  BY <1>1, <1>2, StorePackets
<1>3. CASE h.st # "WRITE_RECV" /\ h.wait > 0
  <2>1. image' = image /\ StayMove
    BY <1>1, <1>3 DEF TickMove
  <2> QED
    BY <1>1, <2>1, SteadyMoves, SteadyKeeps
<1>4. CASE h.st # "WRITE_RECV" /\ ~(h.wait > 0)
  <2>1. image' = image /\ PlainMove /\ h.wait = 0
    BY <1>1, <1>4, HostNumbers DEF TickMove, ControlInv
  <2>2. CASE StayMove \/ SetMove \/ RegMove \/ RegsMove
    BY <1>1, <2>1, <2>2, SteadyMoves, SteadyKeeps
  <2>3. CASE PacketMove
    BY <1>1, <2>1, <2>3, PacketAsked
  <2>4. CASE PacketDataMove \/ (RecvMove /\ h.st = "PACKET_RECV") \/ ReceivedMove
    BY <1>1, <2>1, <2>4, PacketTaken
  <2>5. CASE AnswerMove
    BY <1>1, <2>1, <2>5, AnswerKept
  <2>6. CASE FinishMove
    BY <1>1, <2>1, <2>6, FinishKept
  <2>7. CASE h.st = "PACKET_SEND" /\ (SendMove \/ SentMove)
    BY <1>1, <2>1, <2>7, PacketSent
  <2>8. CASE \/ InitialMove \/ CommandMove \/ ResetMove \/ DriveMove \/ RestMove \/ StageMove \/ StagedMove
             \/ ShortMove \/ IdentifyMove \/ TransferMove \/ OverMove \/ ReadMove \/ ReadRegsMove \/ ReadDataMove
             \/ WriteMove \/ WriteRegsMove \/ WriteDataMove
             \/ (h.st \in {"SEND_ID", "READ_SEND"} /\ (SendMove \/ SentMove))
    <3>1. Apart
      BY <1>1, <2>1, <2>8, ApartMoves
    <3> QED
      BY <1>1, <3>1, ApartKeeps
  <2> QED
    BY <2>1, <2>2, <2>3, <2>4, <2>5, <2>6, <2>7, <2>8 DEF PlainMove, SendMove, SentMove, Sends
<1> QED
  BY <1>2, <1>3, <1>4

-----------------------------------------------------------------------------
(* The edges of the clock.                                                  *)

\* A guest with no command has no packet.
LEMMA RestPacket ==
  ASSUME ~Active',
         kind' = "cd" => AtRest' /\ request' \in {"none", "reset"} /\ h'.rem = 0 /\ h'.sense \in g'.sense
  PROVE  PacketInv'
<1>1. g'.task.cmd = "none"
  BY DEF Active, NoTask
<1>2. ~Is("cd", "PACKET")' /\ g'.task.cmd # "PACKET"
  BY <1>1 DEF Is
<1>3. AtRest' => ~Collecting' /\ ~Streaming'
  BY DEF AtRest, Collecting, Streaming, Ends, Sets
<1> QED
  BY <1>2, <1>3 DEF PacketInv, RestInv, CollectInv, StreamInv, EndInv, SenseInv

\* A CD channel that takes a command holds nothing of the one before.
LEMMA FreeRest ==
  ASSUME ControlInv, PacketInv, Free
  PROVE  /\ request = "none" /\ Place \in Ends /\ ~Setting /\ ~Drq /\ AtRest /\ ~Collecting /\ ~Streaming
         /\ kind = "cd" => h.rem = 0 /\ h.sense \in SenseNow
<1>1. request = "none" /\ ~Drq
  BY DEF Free, Drq, ControlInv, RtlType
<1>2. Place \in Ends /\ ~Setting
  BY <1>1, HostWaits
<1>3. AtRest
  BY <1>2 DEF AtRest, Place, SetDone, Sets
<1>4. ~Collecting /\ ~Streaming
  BY <1>3 DEF AtRest, Collecting, Streaming, Ends, Sets
<1>5. kind = "cd" => h.rem = 0
  BY <1>4 DEF PacketInv, RestInv
<1>6. Is("cd", "PACKET") => h.sense = Key(status)
  BY <1>1, <1>2 DEF PacketInv, SenseInv, Is
<1>7. kind = "cd" /\ ~Is("cd", "PACKET") => h.sense \in g.sense
  BY DEF PacketInv, SenseInv
<1>8. kind = "cd" => h.sense \in SenseNow
  BY <1>6, <1>7 DEF SenseNow, Key, Is
<1> QED
  BY <1>1, <1>2, <1>3, <1>4, <1>5, <1>8

\* A CD channel is only reset between commands.
LEMMA CutRest ==
  ASSUME ControlInv, PacketInv, ~CdAborts, CutOff, kind = "cd"
  PROVE  AtRest /\ request \in {"none", "reset"} /\ h.rem = 0 /\ h.sense \in g'.sense
<1>1. Free \/ ~Active
  BY DEF CutOff, Active
<1>2. g'.sense = IF Free THEN SenseNow ELSE {0, 5}
  BY CutFields DEF ControlInv
<1>3. h.sense \in {0, 5}
  BY DEF ControlInv, HostType
<1>4. AtRest /\ request \in {"none", "reset"}
  BY <1>1, FreeRest DEF PacketInv, RestInv
<1>5. h.rem = 0
  <2>1. ~Streaming
    BY <1>4 DEF AtRest, Streaming, Ends, Sets
  <2> QED
    BY <2>1 DEF PacketInv, RestInv
<1> QED
  BY <1>2, <1>3, <1>4, <1>5, FreeRest

\* A power-on reset.
LEMMA ColdPacket ==
  ASSUME ControlInv, PacketInv, ~CdAborts, ColdEdge
  PROVE  PacketInv'
<1> DEFINE x == FreshRegs(h)
<1>0. /\ EdgeFrame /\ CutOff /\ h' = ColdHost(h) /\ HostType /\ request' = "reset" /\ kind' = kind
  BY DEF ColdEdge, ControlInv, EdgeFrame
<1>1. /\ DOMAIN x = HostFields
      /\ \A f \in HostFields \ {"count", "sec", "cyl", "head", "lba", "io", "pkt"} : x[f] = h[f]
  BY <1>0, FreshFields DEF HostType
<1>2. h' = [x EXCEPT !.st = "INITIAL", !.next = "IDLE", !.drv = 0,
                     !.status = IF kind = "cd" THEN {} ELSE {"RDY"}, !.wait = 0]
  BY <1>0 DEF ColdHost
<1> HIDE DEF x
<1>3. h'.st = "INITIAL" /\ h'.rem = h.rem /\ h'.sense = h.sense
  BY <1>1, <1>2 DEF HostFields
<1>4. ~Active'
  BY <1>0, CutFields DEF ControlInv, Active
<1>5. AtRest'
  BY <1>3 DEF AtRest
<1> QED
  BY <1>0, <1>3, <1>4, <1>5, CutRest, RestPacket

\* An edge at which the guest runs no command, or is cut off.
LEMMA IdlePacket ==
  ASSUME ControlInv, PacketInv, ~CdAborts, EdgeFrame, h' = h, request' \in {request, "none", "reset"},
         CutOff \/ (g' = g /\ ~Active)
  PROVE  PacketInv'
<1>1. ~Active' /\ kind' = kind
  BY CutFields DEF ControlInv, Active, EdgeFrame
<1>2. kind = "cd" => AtRest /\ request \in {"none", "reset"} /\ h.rem = 0 /\ h.sense \in g'.sense
  <2>1. CASE CutOff
    BY <2>1, CutRest
  <2>2. CASE g' = g /\ ~Active
    <3>1. kind = "cd" => AtRest
      BY <2>2 DEF PacketInv, RestInv
    <3>2. kind = "cd" => ~Streaming
      BY <3>1 DEF AtRest, Streaming, Ends, Sets
    <3>3. ~Is("cd", "PACKET")
      BY <2>2, Requests
    <3> QED
      BY <2>2, <3>1, <3>2, <3>3 DEF PacketInv, RestInv, SenseInv
  <2> QED
    BY <2>1, <2>2
<1>3. AtRest' <=> AtRest
  BY DEF AtRest
<1> QED
  BY <1>1, <1>2, <1>3, RestPacket

\* An edge that moves nothing leaves what is known of a packet, but for the word the host may write.
LEMMA StillPacket ==
  ASSUME ControlInv, PacketInv, EdgeFrame, h' = h, g' = g, request' = request, status' = status,
         Setting' <=> Setting, Place' \in Ends <=> Place \in Ends,
         Place' = "PACKET_READ_WAIT_REQ" <=> Place = "PACKET_READ_WAIT_REQ",
         Drq => ioCnt' + Stb' = ioCnt + Stb /\ blk' = blk,
         h.st \notin Sends => buf' = buf,
         Active /\ h.st = "PACKET_SEND" => Matches(Sent)'
  PROVE  PacketInv'
<1>0. kind' = kind /\ image' = image /\ ~Pending' /\ (Drq' <=> Drq) /\ (Active' <=> Active) /\ (Due' <=> Due)
  BY EdgeKeeps DEF Drq, Active, Due
<1>1. /\ (Collecting' <=> Collecting) /\ (Streaming' <=> Streaming) /\ (AtRest' <=> AtRest)
      /\ (Is("cd", "PACKET")' <=> Is("cd", "PACKET"))
  BY <1>0 DEF Collecting, Streaming, AtRest, Is
<1>2. Response' = Response /\ (Complete' <=> Complete)
  <2>1. Response' = Response
    BY <1>0, ResponseKept
  <2> QED
    BY <2>1 DEF Complete
<1>3. Taken' = Taken /\ Base' = Base
  <2>1. Taken' = Taken
    BY <1>0 DEF Taken
  <2> QED
    BY <2>1 DEF Base
<1>4. Hand' = Hand
  <2>1. BlockMoved' <=> BlockMoved
    BY <1>0 DEF BlockMoved
  <2> QED
    BY <2>1 DEF Hand
<1>5. /\ \A n : Copied(n)' <=> Copied(n)
      /\ \A n : Given(n)' <=> Given(n)
      /\ \A k : PacketWord(k)' = PacketWord(k)
  BY <1>2, <1>3 DEF Copied, Given, PacketWord
<1>6. h.st \notin Sends => /\ \A n : PacketIn(n)' <=> PacketIn(n)
                           /\ \A n : Matches(n)' <=> Matches(n)
  BY <1>2, <1>3, <1>5 DEF PacketIn, Matches
<1>7. RestInv'
  BY <1>0, <1>1 DEF PacketInv, RestInv, Limit
<1>8. CollectInv'
  <2> SUFFICES ASSUME Active, Collecting PROVE CollectInv'
    BY <1>0, <1>1 DEF CollectInv
  <2>1. h.st \notin Sends
    BY DEF Collecting, Sends, Sets
  <2>2. Drq => (PacketIn(ioCnt + Stb)' <=> PacketIn(ioCnt + Stb))
    BY <1>6, <2>1 DEF PacketIn
  <2> QED
    BY <1>0, <1>1, <1>4, <1>5, <1>6, <2>1, <2>2 DEF PacketInv, CollectInv
<1>9. StreamInv'
  <2> SUFFICES ASSUME Active, Streaming PROVE StreamInv'
    BY <1>0, <1>1 DEF StreamInv
  <2>1. Due \/ Drq => h.st \notin Sends
    <3>1. h.st \in Sends => Busy /\ ~Setting
      BY DEF Busy, Setting, Sends, Waits, Ends, Sets
    <3> QED
      BY <3>1, Requests DEF Due
  <2> QED
    BY <1>0, <1>1, <1>2, <1>3, <1>5, <1>6, <2>1 DEF PacketInv, StreamInv
<1>10. EndInv'
  BY <1>0, <1>1, <1>2 DEF PacketInv, EndInv
<1>11. SenseInv'
  BY <1>0, <1>1 DEF PacketInv, SenseInv, Key
<1> QED
  BY <1>7, <1>8, <1>9, <1>10, <1>11 DEF PacketInv

\* Nothing but a block being sent goes to the buffer.
LEMMA BufferStands ==
  ASSUME ControlInv, EdgeFrame, HostWord, h.st \notin Sends
  PROVE  buf' = buf
<1>1. ~(bus.op = "wr" /\ bus.n = 15)
  BY DEF ControlInv, BusInv, Pending, EdgeFrame
<1> QED
  BY <1>1 DEF HostWord

\* The word the host writes goes to its place.
LEMMA WordSent ==
  ASSUME ControlInv, PacketInv, PointerInv, EdgeFrame, HostWord, h' = h, g' = g, Active, h.st = "PACKET_SEND",
         Drq' <=> Drq
  PROVE  Matches(Sent)'
<1>0. ~Pending' /\ (Pending <=> bus.op # "none") /\ turn = "edge" /\ image' = image
  BY EdgeKeeps
<1>1. Sent' = h.cnt /\ h.cnt \in Nat /\ h.cnt <= BufWords
  BY <1>0, CounterFits DEF Sent, Sends
<1>2. Streaming /\ Place = h.st /\ Place' = h.st /\ ~Drq
  <2>1. Busy
    BY DEF Busy, Waits, Ends, Sets
  <2> QED
    BY <2>1, Requests DEF Streaming, Place, SetDone
<1>3. Response' = Response /\ Base' = Base
  <2>1. Response' = Response
    BY <1>0, ResponseKept
  <2>2. Taken' = Taken
    BY <1>2 DEF Taken
  <2> QED
    BY <2>1, <2>2 DEF Base
<1>4. Matches(Sent) /\ (Pending => bus.d \in Response[Base + Sent + 1]) /\ Base \in Nat
  BY <1>2 DEF PacketInv, StreamInv
<1>5. CASE ~Pending
  <2>1. buf' = buf /\ Sent = h.cnt
    BY <1>0, <1>5 DEF HostWord, Sent
  <2> QED
    BY <1>1, <1>3, <1>4, <2>1 DEF Matches
<1>6. CASE Pending
  <2>1. bus.op = "wr" /\ bus.n = 15 /\ h.cnt > 0 /\ oldOp = "none" /\ Sent = h.cnt - 1
    BY <1>6 DEF ControlInv, BusInv, Sends, Recvs, Sent
  <2>2. mgmtCnt = h.cnt - 1
    <3>1. Pointer = h.cnt /\ Pointer = mgmtCnt + 1 /\ mgmtCnt \in Nat
      BY <1>6, <2>1 DEF PointerInv, Pointer, Settling, ControlInv, RtlType, Sends
    <3> QED
      BY <1>1, <3>1
  <2> DEFINE c == h.cnt - 1
  <2>3. c \in 0 .. BufWords - 1 /\ At15 = c
    <3>1. c \in 0 .. BufWords - 1
      BY <1>1, <2>1, ConstantTypes
    <3>2. c % BufWords = c
      BY <3>1, ConstantTypes
    <3> QED
      BY <2>2, <3>1, <3>2 DEF At15
  <2>4. buf' = [buf EXCEPT ![c] = bus.d] /\ DOMAIN buf = 0 .. BufWords - 1
    BY <2>1, <2>3 DEF HostWord, ControlInv, DataType
  <2>5. bus.d \in Response[Base + h.cnt] /\ \A k \in 1 .. c : buf[k - 1] \in Response[Base + k]
    <3>1. Base + Sent + 1 = Base + h.cnt
      BY <1>1, <1>4, <2>1
    <3> QED
      BY <1>4, <1>6, <2>1, <3>1 DEF Matches
  <2> HIDE DEF c
  <2>6. ASSUME NEW k \in 1 .. h.cnt PROVE buf'[k - 1] \in Response[Base + k]
    <3>1. CASE k = h.cnt
      <4>1. k - 1 = c /\ c \in DOMAIN buf
        BY <2>3, <2>4, <3>1 DEF c
      <4> QED
        BY <2>4, <2>5, <3>1, <4>1
    <3>2. CASE k # h.cnt
      <4>1. k \in 1 .. c /\ k - 1 # c /\ k - 1 \in DOMAIN buf
        BY <1>1, <2>4, <3>2, ConstantTypes DEF c
      <4> QED
        BY <2>4, <2>5, <4>1
    <3> QED
      BY <3>1, <3>2
  <2> QED
    BY <1>1, <1>3, <2>6 DEF Matches
<1> QED
  BY <1>5, <1>6

\* An edge of no bus.
LEMMA QuietPacket ==
  ASSUME ControlInv, PacketInv, PointerInv, ~CdAborts, QuietEdge
  PROVE  PacketInv'
<1>0. /\ EdgeFrame /\ h' = h /\ buf' = buf /\ GuestIdles /\ bus.op = "none" /\ status' = status
      /\ request' = request /\ blk' = blk /\ oldStb' = FALSE /\ ioCnt' = ioCnt + Stb
  BY DEF QuietEdge
<1>1. CASE CutOff \/ (g' = g /\ ~Active)
  BY <1>0, <1>1, IdlePacket
<1>2. CASE g' = g /\ Active
  <2>1. (Setting' <=> Setting) /\ Place' = Place
    BY <1>0, EdgeStands
  <2>2. ioCnt' + Stb' = ioCnt + Stb
    BY <1>0 DEF Stb, ControlInv, RtlType
  <2>3. HostWord /\ (Drq' <=> Drq)
    BY <1>0 DEF HostWord, Drq
  <2>4. h.st = "PACKET_SEND" => Matches(Sent)'
    BY <1>0, <1>2, <2>3, WordSent
  <2> QED
    BY <1>0, <1>2, <2>1, <2>2, <2>4, StillPacket
<1> QED
  BY <1>0, <1>1, <1>2 DEF GuestIdles, SoftReset

\* A word the host moves over the bus, but for the status register.
LEMMA BusPacket ==
  ASSUME ControlInv, PacketInv, PointerInv, ~CdAborts, BusEdge
  PROVE  PacketInv'
<1>0. /\ EdgeFrame /\ h' = h /\ HostWord /\ GuestIdles /\ bus.op # "none" /\ status' = status
      /\ request' = request /\ ~(bus.op = "wr" /\ bus.n = 5) /\ turn = "edge"
  BY DEF BusEdge, EdgeFrame
<1>1. CASE CutOff \/ (g' = g /\ ~Active)
  BY <1>0, <1>1, IdlePacket
<1>2. CASE g' = g /\ Active
  <2>1. ~Drq /\ (Drq' <=> Drq)
    BY <1>0, EdgeFacts DEF Drq
  <2>2. SetDone' <=> SetDone
    <3>1. (SetDone' <=> h.st = "SET_REGS_SEND" /\ h.cnt = 6) /\ Pending
      BY <1>0, EdgeKeeps
    <3>2. ~(h.st = "SET_REGS_SEND" /\ h.cnt = 6)
      <4>1. h.st = "SET_REGS_SEND" /\ h.cnt = 6 => bus.op = "wr" /\ bus.n = 5
        BY <3>1 DEF ControlInv, BusInv, Sends, Recvs
      <4> QED
        BY <1>0, <4>1
    <3> QED
      BY <3>1, <3>2 DEF SetDone
  <2>3. (Setting' <=> Setting) /\ Place' = Place
    BY <1>0, <2>2 DEF Setting, Place
  <2>4. h.st \notin Sends => buf' = buf
    BY <1>0, BufferStands
  <2>5. h.st = "PACKET_SEND" => Matches(Sent)'
    BY <1>0, <1>2, <2>1, WordSent
  <2> QED
    BY <1>0, <1>2, <2>1, <2>3, <2>4, <2>5, StillPacket
<1> QED
  BY <1>0, <1>1, <1>2 DEF GuestIdles, SoftReset

\* The channel is held in reset.
LEMMA HeldPacket ==
  ASSUME ControlInv, PacketInv, ~CdAborts, HeldEdge
  PROVE  PacketInv'
<1>1. EdgeFrame /\ h' = h /\ g' = g /\ request' = "reset" /\ ~Active
  BY EdgeFacts DEF HeldEdge, EdgeFrame
<1> QED
  BY <1>1, IdlePacket

\* The host hands over the status register: the block it announces is that of the buffer.
LEMMA AnswerPacket ==
  ASSUME ControlInv, ControlInv', PacketInv, ~CdAborts, AnswerEdge
  PROVE  PacketInv'
<1>0. /\ EdgeFrame /\ h' = h /\ HostWord /\ GuestIdles /\ bus.op = "wr" /\ bus.n = 5 /\ turn = "edge"
      /\ status' = h.status \cap {"RDY", "DSC", "DRQ", "ERR"} /\ request' = "none" /\ blk' = blk
      /\ oldStb' = FALSE /\ ioCnt' = 0 /\ kind' = kind /\ image' = image
  BY DEF AnswerEdge, EdgeFrame
<1>1. CASE CutOff \/ (g' = g /\ ~Active)
  BY <1>0, <1>1, IdlePacket
<1>2. CASE g' = g /\ Active
  <2>1. Pending /\ ~Pending' /\ ~Drq
    BY <1>0, EdgeFacts, EdgeKeeps
  <2>2. h.st = "SET_REGS_SEND" /\ h.cnt = 6
    BY <1>0, <2>1 DEF ControlInv, BusInv, Sends, Recvs
  <2>3. Setting /\ ~Setting' /\ Place = h.st /\ Place' = h.next
    BY <1>0, <2>1, <2>2 DEF Setting, Place, SetDone, Sets
  <2>4. h.next \in Waits \cup Ends /\ (h.next \in Waits => "DRQ" \in h.status)
    BY <2>3 DEF ControlInv, HostType, ServeInv
  <2>5. (Drq' <=> "DRQ" \in h.status) /\ ("ERR" \in status' <=> "ERR" \in h.status)
    BY <1>0 DEF Drq
  <2>6. buf' = buf
    BY <1>0, <2>2, BufferStands DEF Sends
  <2>7. ioCnt' + Stb' = 0
    BY <1>0 DEF Stb
  <2>8. /\ (Active' <=> Active) /\ (Collecting' <=> Collecting) /\ (Streaming' <=> Streaming)
        /\ (Is("cd", "PACKET")' <=> Is("cd", "PACKET"))
    BY <1>0, <1>2 DEF Active, Collecting, Streaming, Is
  <2>9. Response' = Response /\ (Complete' <=> Complete)
    <3>1. Response' = Response
      BY <1>0, <1>2, ResponseKept
    <3> QED
      BY <1>2, <3>1 DEF Complete
  <2>10. RestInv'
    BY <1>0, <1>2, <2>8 DEF PacketInv, RestInv, Limit
  <2>11. CollectInv'
    <3> SUFFICES ASSUME Collecting PROVE CollectInv'
      BY <2>8 DEF CollectInv
    <3>1. g.off = 0 /\ h.pkt = PacketWords /\ Hand = 0 /\ request = "command"
      BY <1>2, <2>2, <2>3 DEF PacketInv, CollectInv
    <3>2. g.blocks = 0
      BY <2>1, <3>1 DEF Hand, BlockMoved
    <3>3. ~(blk' # 0 /\ 0 = blk')
      OBVIOUS
    <3>4. Hand' = 0
      BY <1>0, <1>2, <2>7, <3>2, <3>3 DEF Hand, BlockMoved
    <3>5. Drq' => PacketIn(ioCnt + Stb)'
      BY <2>7 DEF PacketIn
    <3> QED
      BY <1>0, <1>2, <2>2, <2>3, <3>1, <3>4, <3>5 DEF CollectInv
  <2>12. StreamInv'
    <3> SUFFICES ASSUME Streaming PROVE StreamInv'
      BY <2>8 DEF StreamInv
    <3>1. h.next = "PACKET_READ_WAIT_REQ" /\ Due /\ Drq'
      BY <2>2, <2>3, <2>4, <2>5 DEF Streaming, Waits, Due
    <3>2. Taken = 0 /\ Taken' = 0
      BY <2>1, <2>2, <2>3, <2>7, <3>1 DEF Taken
    <3>3. Base' = Base
      BY <1>2, <3>2 DEF Base
    <3>4. Matches(h.pkt)'
      BY <1>0, <1>2, <2>6, <2>9, <3>1, <3>3 DEF PacketInv, StreamInv, Matches
    <3> QED
      BY <1>0, <1>2, <2>2, <2>9, <3>3, <3>4 DEF PacketInv, StreamInv
  <2>13. EndInv'
    BY <1>0, <1>2, <2>3, <2>5, <2>9 DEF PacketInv, EndInv
  <2>14. SenseInv'
    BY <1>0, <1>2, <2>3, <2>5, <2>8 DEF PacketInv, SenseInv, Key
  <2> QED
    BY <2>10, <2>11, <2>12, <2>13, <2>14 DEF PacketInv
<1> QED
  BY <1>0, <1>1, <1>2 DEF GuestIdles, SoftReset

\* The end of a block.
LEMMA DonePacket ==
  ASSUME ControlInv, PacketInv, DoneEdge
  PROVE  PacketInv'
<1>0. /\ EdgeFrame /\ h' = h /\ g' = g /\ buf' = buf /\ bus.op = "none" /\ Drq /\ IoDone /\ ~swReset
      /\ status' = (IF lastRead THEN {"RDY"} ELSE {"BSY"}) /\ request' = (IF lastRead THEN "none" ELSE "data")
      /\ kind' = kind /\ image' = image
  BY DEF DoneEdge, EdgeFrame
<1>1. request = "none" /\ Active /\ ~Drq'
  BY <1>0, Requests DEF ControlInv, ServeInv, Drq
<1>2. ~Busy /\ ~Setting /\ Place \in Waits \cup Ends /\ h.st \in Waits \cup Ends \cup Sets
  BY <1>1, HostWaits
<1>3. ~Setting' /\ Place' = Place /\ (lastRead <=> Place \in Ends)
  BY <1>0, <1>2, EdgeStands DEF ControlInv, ServeInv
<1>4. /\ (Active' <=> Active) /\ (Collecting' <=> Collecting) /\ (Streaming' <=> Streaming)
      /\ (Is("cd", "PACKET")' <=> Is("cd", "PACKET"))
  BY <1>0 DEF Active, Collecting, Streaming, Is
<1>5. Response' = Response
  BY <1>0, ResponseKept
<1>6. ioCnt + Stb = blk /\ blk = Words
  BY <1>0 DEF ControlInv, RtlType, MoveInv, IoDone, Stb
<1>7. (Collecting => Place = "PACKET_WAIT_REQ") /\ (Streaming => Place = "PACKET_READ_WAIT_REQ")
  BY <1>2 DEF Collecting, Streaming, Place, SetDone, Setting, Waits, Ends, Sets
<1>8. RestInv'
  BY <1>0, <1>1, <1>4 DEF PacketInv, RestInv, Limit
<1>9. CollectInv'
  <2> SUFFICES ASSUME Collecting PROVE CollectInv'
    BY <1>4 DEF CollectInv
  <2>1. Place = "PACKET_WAIT_REQ" /\ request' = "data" /\ kind = "cd"
    BY <1>0, <1>1, <1>3, <1>7 DEF Ends, ControlInv, PlaceInv, Is
  <2>2. h.st \notin {"PACKET_RECV", "PACKET_HANDLE"}
    BY <1>2 DEF Waits, Ends, Sets
  <2>3. g.off = 0 /\ h.pkt = PacketWords /\ Hand = 0 /\ PacketIn(ioCnt + Stb)
    BY <1>0, <1>1, <2>2 DEF PacketInv, CollectInv
  <2>4. Hand' = Hand
    BY <1>0, <1>6, <2>1 DEF Hand, BlockMoved, IoDone
  <2>5. PacketIn(PacketWords)'
    BY <1>0, <1>6, <2>1, <2>3 DEF Words, PacketIn, PacketWord
  <2> QED
    BY <1>0, <1>1, <1>3, <2>2, <2>3, <2>4, <2>5 DEF CollectInv
<1>10. StreamInv'
  <2> SUFFICES ASSUME Streaming PROVE StreamInv'
    BY <1>4 DEF StreamInv
  <2>1. Place = "PACKET_READ_WAIT_REQ" /\ kind = "cd" /\ h.st # "PACKET_SEND"
    BY <1>1, <1>2, <1>7 DEF ControlInv, PlaceInv, Is, Waits, Ends, Sets
  <2>2. Taken' = Taken
    BY <1>0, <1>1, <1>3, <1>6, <2>1 DEF Taken, Words
  <2>3. Base' = Base
    BY <1>0, <2>2 DEF Base
  <2>4. ~Due'
    BY <1>3 DEF Due
  <2> QED
    BY <1>0, <1>1, <1>5, <2>1, <2>3, <2>4 DEF PacketInv, StreamInv
<1>11. Place \in Ends => g.task.cmd # "PACKET"
  BY <1>0, <1>1 DEF ControlInv, PlaceInv, Is
<1>12. EndInv'
  BY <1>0, <1>3, <1>11 DEF EndInv
<1>13. SenseInv'
  BY <1>0, <1>3, <1>4, <1>11 DEF PacketInv, SenseInv, Is
<1> QED
  BY <1>8, <1>9, <1>10, <1>12, <1>13 DEF PacketInv

\* A new command.
LEMMA CommandPacket ==
  ASSUME ControlInv, PacketInv, NEW t, NEW p, CommandEdge(t, p)
  PROVE  PacketInv'
<1>0. /\ EdgeFrame /\ h' = h /\ Command(t, p) /\ t \in Tasks[kind] /\ bus.op = "none"
      /\ p \in (IF t.cmd = "PACKET" THEN Packets ELSE {NoPacket}) /\ request' = "command" /\ kind' = kind
  BY DEF CommandEdge, EdgeFrame
<1>1. g'.task = t /\ g'.packet = p /\ g'.off = 0 /\ g'.sense = SenseNow /\ t # NoTask
  BY <1>0, CommandGuest DEF ControlInv
<1>2. Free
  BY <1>0 DEF Command
<1>3. /\ ~Setting /\ ~Collecting /\ ~Streaming
      /\ kind = "cd" => h.rem = 0 /\ h.sense \in SenseNow
  BY <1>2, FreeRest
<1>4. ~Setting' /\ ~Collecting' /\ ~Streaming'
  BY <1>0, <1>3, EdgeStands DEF Collecting, Streaming
<1>5. RestInv'
  BY <1>0, <1>1, <1>3, <1>4 DEF RestInv, Active
<1>6. CollectInv' /\ StreamInv' /\ EndInv'
  BY <1>0, <1>4 DEF CollectInv, StreamInv, EndInv
<1>7. SenseInv'
  BY <1>0, <1>1, <1>3, <1>4 DEF SenseInv
<1> QED
  BY <1>5, <1>6, <1>7 DEF PacketInv

\* Where the host stands while the guest moves a word.
LEMMA WordPlace ==
  ASSUME ControlInv, MovesWord, ReadData \/ WriteData
  PROVE  /\ EdgeFrame /\ h' = h /\ MovesGuest /\ kind' = kind /\ image' = image /\ Active /\ Drq /\ Drq'
         /\ status' = status /\ request' = request /\ request = "none" /\ blk' = blk
         /\ ~Setting /\ ~Setting' /\ Place' = Place /\ h.st \in Waits \cup Ends \cup Sets
         /\ (Active' <=> Active) /\ (Collecting' <=> Collecting) /\ (Streaming' <=> Streaming)
         /\ (Is("cd", "PACKET")' <=> Is("cd", "PACKET")) /\ Response' = Response
         /\ ~BlockMoved /\ Stb = 0 /\ Stb' = 1 /\ ioCnt' = ioCnt /\ ioCnt \in Nat /\ ioCnt < blk
         /\ blk \in 0 .. BufWords /\ g.pos = ioCnt /\ g.blocks \in Nat
         /\ Collecting => Place = "PACKET_WAIT_REQ" /\ Is("cd", "PACKET")
         /\ Streaming => Place = "PACKET_READ_WAIT_REQ" /\ Is("cd", "PACKET")
         /\ Place \in Ends => g.task.cmd # "PACKET"
<1>1. /\ EdgeFrame /\ h' = h /\ bus.op = "none" /\ Drq /\ ~IoDone /\ ~oldStb /\ status' = status
      /\ request' = request /\ blk' = blk /\ oldStb' = TRUE /\ ioCnt' = ioCnt /\ kind' = kind /\ image' = image
  BY DEF MovesWord, EdgeFrame
<1>2. MovesGuest /\ Active /\ Drq'
  BY <1>1, MovedGuest DEF ControlInv, ReadData, WriteData, Active, Drq, AtDataPort
<1>3. request = "none" /\ g.blocks \in Nat
  BY <1>1, Requests
<1>4. ~Busy /\ ~Setting /\ h.st \in Waits \cup Ends \cup Sets
  BY <1>3, HostWaits
<1>5. ~Setting' /\ Place' = Place
  BY <1>1, <1>4, EdgeStands
<1>6. /\ (Active' <=> Active) /\ (Collecting' <=> Collecting) /\ (Streaming' <=> Streaming)
      /\ (Is("cd", "PACKET")' <=> Is("cd", "PACKET"))
  BY <1>1, <1>2 DEF MovesGuest, Active, Collecting, Streaming, Is
<1>7. Response' = Response
  BY <1>1, <1>2, ResponseKept DEF MovesGuest
<1>8. Stb = 0 /\ Stb' = 1 /\ ioCnt \in Nat /\ ioCnt < blk /\ blk \in 0 .. BufWords
  <2>1. blk # 0
    BY DEF ReadData, WriteData, AtDataPort
  <2> QED
    BY <1>1, <2>1, ConstantTypes DEF Stb, IoDone, ControlInv, RtlType, MoveInv
<1>9. ~BlockMoved
  BY <1>3, <1>8 DEF BlockMoved
<1>10. g.pos = ioCnt
  BY <1>1, <1>2, <1>8, <1>9 DEF ControlInv, MoveInv
<1>11. (Collecting => Place = "PACKET_WAIT_REQ") /\ (Streaming => Place = "PACKET_READ_WAIT_REQ")
  BY <1>4 DEF Collecting, Streaming, Place, SetDone, Setting, Waits, Ends, Sets
<1>12. /\ Place \in {"PACKET_WAIT_REQ", "PACKET_READ_WAIT_REQ"} => Is("cd", "PACKET")
       /\ Place \in Ends => g.task.cmd # "PACKET"
  BY <1>1, <1>2 DEF ControlInv, PlaceInv, Is
<1> QED
  BY <1>1, <1>2, <1>3, <1>4, <1>5, <1>6, <1>7, <1>8, <1>9, <1>10, <1>11, <1>12

\* A word leaves the packet and the drive's sense data alone.
LEMMA WordKept ==
  ASSUME ControlInv, PacketInv, MovesWord, ReadData \/ WriteData
  PROVE  RestInv' /\ EndInv' /\ SenseInv'
<1>1. /\ h' = h /\ MovesGuest /\ kind' = kind /\ Active /\ status' = status /\ request' = request
      /\ ~Setting' /\ ~Setting /\ Place' = Place
      /\ (Active' <=> Active) /\ (Collecting' <=> Collecting) /\ (Streaming' <=> Streaming)
      /\ (Is("cd", "PACKET")' <=> Is("cd", "PACKET")) /\ (Place \in Ends => g.task.cmd # "PACKET")
  BY WordPlace
<1>2. RestInv'
  BY <1>1 DEF PacketInv, RestInv, Limit, MovesGuest
<1>3. EndInv'
  BY <1>1 DEF EndInv, MovesGuest
<1>4. SenseInv'
  BY <1>1 DEF PacketInv, SenseInv, MovesGuest, Key
<1> QED
  BY <1>2, <1>3, <1>4

\* The guest takes a word of the response.
LEMMA ReadPacket ==
  ASSUME ControlInv, PacketInv, ReadEdge
  PROVE  PacketInv'
<1>0. MovesWord /\ ReadData /\ buf' = buf /\ ~BlockOut
  BY DEF ReadEdge, ReadData, AtDataPort
<1>1. /\ h' = h /\ MovesGuest /\ Active /\ Drq /\ Drq' /\ blk' = blk
      /\ ~Setting' /\ h.st \in Waits \cup Ends \cup Sets
      /\ (Active' <=> Active) /\ (Collecting' <=> Collecting) /\ (Streaming' <=> Streaming) /\ Response' = Response
      /\ ~BlockMoved /\ Stb = 0 /\ Stb' = 1 /\ ioCnt' = ioCnt /\ ioCnt \in Nat /\ g.blocks \in Nat
      /\ (Collecting => Is("cd", "PACKET")) /\ (Streaming => Is("cd", "PACKET"))
  BY <1>0, WordPlace
<1>2. ~Collecting
  <2> SUFFICES ASSUME Collecting PROVE FALSE
    OBVIOUS
  <2>1. Hand = 0
    BY <1>1 DEF PacketInv, CollectInv, Waits, Ends, Sets
  <2>2. g.blocks = 0
    BY <1>1, <2>1 DEF Hand
  <2> QED
    BY <1>0, <1>1, <2>2 DEF BlockOut, Is
<1>3. CollectInv'
  BY <1>1, <1>2 DEF CollectInv
<1>4. StreamInv'
  <2> SUFFICES ASSUME Streaming PROVE StreamInv'
    BY <1>1 DEF StreamInv
  <2>1. g'.off = g.off + 1 /\ g.off \in Nat /\ g'.blocks \in {g.blocks, g.blocks + 1} /\ g'.packet = g.packet
    BY <1>0, <1>1 DEF MovesGuest, ControlInv, GuestType
  <2>2. Taken' = Taken + 1 /\ Taken \in Nat
    BY <1>1 DEF Taken
  <2>3. Base' = Base
    BY <2>1, <2>2 DEF Base
  <2>4. Matches(h.pkt)' /\ h.st # "PACKET_SEND" /\ g'.blocks > 0
    BY <1>0, <1>1, <2>1, <2>3 DEF PacketInv, StreamInv, Matches, Waits, Ends, Sets
  <2> QED
    BY <1>1, <2>1, <2>3, <2>4 DEF PacketInv, StreamInv
<1> QED
  BY <1>0, <1>3, <1>4, WordKept DEF PacketInv

\* The guest gives a word: of its packet, on a CD channel.
LEMMA WritePacket ==
  ASSUME ControlInv, PacketInv, WriteEdge
  PROVE  PacketInv'
<1>0. MovesWord /\ WriteData /\ buf' = [buf EXCEPT ![ioCnt % BufWords] = OutWord] /\ BlockOut
  BY DEF WriteEdge, WriteData, AtDataPort
<1>1. /\ h' = h /\ MovesGuest /\ Active /\ Drq /\ Drq' /\ blk' = blk /\ request' = request /\ request = "none"
      /\ ~Setting' /\ h.st \in Waits \cup Ends \cup Sets
      /\ (Active' <=> Active) /\ (Collecting' <=> Collecting) /\ (Streaming' <=> Streaming) /\ Response' = Response
      /\ ~BlockMoved /\ Stb = 0 /\ Stb' = 1 /\ ioCnt' = ioCnt /\ ioCnt \in Nat /\ ioCnt < blk
      /\ blk \in 0 .. BufWords /\ g.pos = ioCnt /\ g.blocks \in Nat
      /\ (Collecting => Is("cd", "PACKET")) /\ (Streaming => Is("cd", "PACKET"))
  BY <1>0, WordPlace
<1>2. ~Streaming
  BY <1>0, <1>1 DEF BlockOut, Is, PacketInv, StreamInv
<1>3. CollectInv'
  <2> SUFFICES ASSUME Collecting PROVE CollectInv'
    BY <1>1 DEF CollectInv
  <2>1. h.st \notin {"PACKET_RECV", "PACKET_HANDLE"} /\ g.task.cmd = "PACKET"
    BY <1>1 DEF Waits, Ends, Sets, Is
  <2>2. g.off = 0 /\ h.pkt = PacketWords /\ Hand = 0 /\ PacketIn(ioCnt)
    BY <1>1, <2>1 DEF PacketInv, CollectInv
  <2>3. g.blocks = 0
    BY <1>1, <2>2 DEF Hand
  <2>4. g'.off = 0 /\ g'.packet = g.packet /\ g'.blocks = IF ioCnt + 1 = blk THEN 1 ELSE 0
    BY <1>0, <1>1, <2>2, <2>3 DEF MovesGuest
  <2>5. Hand' = 0
    BY <1>1, <2>4 DEF Hand, BlockMoved
  <2>6. PacketIn(ioCnt + 1)'
    <3>1. ioCnt % BufWords = ioCnt /\ ioCnt \in 0 .. BufWords - 1
      BY <1>1, ConstantTypes
    <3>2. buf' = [buf EXCEPT ![ioCnt] = PacketWord(ioCnt)] /\ DOMAIN buf = 0 .. BufWords - 1
      BY <1>0, <1>1, <2>1, <3>1 DEF OutWord, PacketWord, ControlInv, DataType
    <3>3. \A k : PacketWord(k)' = PacketWord(k)
      BY <2>4 DEF PacketWord
    <3>4. ASSUME NEW k \in 0 .. ioCnt PROVE buf'[k] = PacketWord(k)
      <4>1. CASE k = ioCnt
        BY <3>1, <3>2, <4>1
      <4>2. CASE k # ioCnt
        <5>1. k \in 0 .. ioCnt - 1
          BY <1>1, <4>2
        <5> QED
          BY <2>2, <3>2, <4>2, <5>1 DEF PacketIn
      <4> QED
        BY <4>1, <4>2
    <3> QED
      BY <1>1, <3>3, <3>4 DEF PacketIn
  <2>7. PacketIn(ioCnt + Stb)'
    BY <1>1, <2>6 DEF PacketIn
  <2> QED
    BY <1>1, <2>1, <2>2, <2>4, <2>5, <2>7 DEF CollectInv
<1>4. StreamInv'
  BY <1>1, <1>2 DEF StreamInv
<1> QED
  BY <1>0, <1>3, <1>4, WordKept DEF PacketInv

\* No edge loses what is known of a packet.
LEMMA EdgePacket ==
  ASSUME ControlInv, PacketInv, PointerInv, ~CdAborts, Edge \/ MoveEdge \/ ReleaseEdge
  PROVE  PacketInv'
<1>1. EdgeMove /\ ControlInv'
  BY EdgeMoves, EdgeStep
<1> QED
  BY <1>1, ColdPacket, HeldPacket, AnswerPacket, BusPacket, QuietPacket, DonePacket, ReadPacket, WritePacket,
     CommandPacket DEF EdgeMove

-----------------------------------------------------------------------------
(* What the guest gets of a packet.                                         *)

\* A step that changes nothing.
LEMMA PacketStutter ==
  ASSUME PacketInv, UNCHANGED vars
  PROVE  PacketInv'
<1>1. /\ status' = status /\ request' = request /\ ioCnt' = ioCnt /\ oldStb' = oldStb /\ blk' = blk /\ buf' = buf
      /\ turn' = turn /\ bus' = bus /\ kind' = kind /\ h' = h /\ image' = image /\ g' = g
  BY DEF vars, rtl
<1>2. /\ (Pending' <=> Pending) /\ (Setting' <=> Setting) /\ Place' = Place /\ (Active' <=> Active) /\ Stb' = Stb
      /\ (Drq' <=> Drq) /\ (Is("cd", "PACKET")' <=> Is("cd", "PACKET")) /\ (Due' <=> Due)
  BY <1>1 DEF Pending, SetDone, Setting, Place, Active, Stb, Drq, Is, Due
<1>3. (Collecting' <=> Collecting) /\ (Streaming' <=> Streaming) /\ (AtRest' <=> AtRest)
      /\ Hand' = Hand /\ Sent' = Sent
  BY <1>1, <1>2 DEF Collecting, Streaming, AtRest, Hand, BlockMoved, Sent
<1>4. Response' = Response /\ Base' = Base
  <2>1. Response' = Response
    BY <1>1, ResponseKept
  <2>2. Taken' = Taken
    BY <1>1, <1>2 DEF Taken
  <2> QED
    BY <1>1, <2>1, <2>2 DEF Base
<1>5. RestInv'
  BY <1>1, <1>2, <1>3 DEF PacketInv, RestInv, Limit
<1>6. CollectInv'
  <2>1. PacketIn(ioCnt + Stb)' <=> PacketIn(ioCnt + Stb)
    BY <1>1, <1>2 DEF PacketIn, PacketWord
  <2> QED
    BY <1>1, <1>2, <1>3, <2>1 DEF PacketInv, CollectInv, PacketIn, Copied, PacketWord
<1>7. StreamInv'
  <2>1. Matches(Sent)' <=> Matches(Sent)
    BY <1>1, <1>3, <1>4 DEF Matches
  <2> QED
    BY <1>1, <1>2, <1>3, <1>4, <2>1 DEF PacketInv, StreamInv, Given, Matches
<1>8. EndInv' /\ SenseInv'
  BY <1>1, <1>2, <1>3, <1>4 DEF PacketInv, EndInv, SenseInv, Complete, Key
<1> QED
  BY <1>5, <1>6, <1>7, <1>8 DEF PacketInv

\* The machine starts with no packet.
LEMMA PacketInit ==
  ASSUME Init
  PROVE  PacketInv
<1>1. /\ h.st = "INITIAL" /\ h.rem = 0 /\ h.sense = 0 /\ request = "reset" /\ g.task = NoTask /\ g.sense = {0}
  BY DEF Init
<1>2. ~Active /\ AtRest
  BY <1>1 DEF Active, AtRest
<1>3. ~Collecting /\ ~Streaming /\ g.task.cmd = "none"
  BY <1>1 DEF Collecting, Streaming, Sets, NoTask
<1> QED
  BY <1>1, <1>2, <1>3 DEF PacketInv, RestInv, CollectInv, StreamInv, EndInv, SenseInv, Is

\* The pointer into the buffer, and the words fetched from it.
TransferInv == PointerInv /\ FetchInv

\* The pointer into the buffer and the words fetched from it, at a tick.
LEMMA TickTransfer ==
  ASSUME ControlInv, TransferInv, ~Jitter, Tick
  PROVE  TransferInv'
<1>1. TickMove
  BY TickMoves DEF ControlInv
<1>2. TickFrame /\ (PlainMove \/ StoreMove) /\ (h.wait = 0 \/ StayMove)
  BY <1>1, HostNumbers DEF TickMove, TickFrame, ControlInv, PlainMove
<1> QED
  BY <1>2, TickPointer, TickFetch DEF TransferInv

\* The same at an edge.
LEMMA EdgeTransfer ==
  ASSUME ControlInv, TransferInv, Edge \/ MoveEdge \/ ReleaseEdge
  PROVE  TransferInv'
<1>1. EdgeMove
  BY EdgeMoves
<1>2. CASE ColdEdge
  <2> DEFINE x == FreshRegs(h)
  <2>1. DOMAIN x = HostFields
    BY FreshFields DEF ControlInv, HostType
  <2>2. h' = [x EXCEPT !.st = "INITIAL", !.next = "IDLE", !.drv = 0,
                       !.status = IF kind = "cd" THEN {} ELSE {"RDY"}, !.wait = 0]
    BY <1>2 DEF ColdEdge, ColdHost
  <2> HIDE DEF x
  <2>3. h'.st = "INITIAL" /\ mgmtCnt' = 0 /\ oldOp' = "none" /\ turn' = "tick"
    BY <1>2, <2>1, <2>2 DEF HostFields, ColdEdge, EdgeFrame
  <2>4. Pointer' = 0
    BY <2>3 DEF Pointer, Settling, Pending
  <2> QED
    BY <2>3, <2>4 DEF TransferInv, PointerInv, FetchInv, Sends, Recvs
<1>3. CASE ~ColdEdge
  <2>1. EdgeFrame /\ PointerStep /\ FetchStep /\ h' = h /\ (HostWord \/ Drq)
    BY <1>1, <1>3 DEF EdgeMove, HeldEdge, AnswerEdge, BusEdge, QuietEdge, DoneEdge, CommandEdge, ReadEdge,
                      WriteEdge, MovesWord, HostWord
  <2> QED
    BY <2>1, PointerEdge, FetchEdge DEF TransferInv
<1> QED
  BY <1>2, <1>3

\* A step that changes nothing.
LEMMA TransferStutter ==
  ASSUME TransferInv, UNCHANGED vars
  PROVE  TransferInv'
<1>1. /\ mgmtCnt' = mgmtCnt /\ oldOp' = oldOp /\ buf' = buf /\ q' = q /\ rdata' = rdata /\ turn' = turn
      /\ bus' = bus /\ h' = h
  BY DEF vars, rtl
<1>2. (Pending' <=> Pending) /\ Pointer' = Pointer
  BY <1>1 DEF Pending, Pointer, Settling
<1> QED
  BY <1>1, <1>2 DEF TransferInv, PointerInv, FetchInv

\* The pointer starts at the first word.
LEMMA TransferInit ==
  ASSUME Init
  PROVE  TransferInv
<1>1. h.st = "INITIAL" /\ mgmtCnt = 0 /\ oldOp = "none" /\ turn = "tick"
  BY DEF Init
<1> QED
  BY <1>1 DEF TransferInv, PointerInv, FetchInv, Pointer, Settling, Pending, Sends, Recvs

\* The packet invariant holds in every state of every behaviour in which the main loop waits out each
\* access, a CD channel is only reset between commands, and the packets read sectors of the disc.
THEOREM PacketCorrect ==
  ASSUME PacketsFit, ~Jitter, ~CdAborts
  PROVE  Spec => [](ControlInv /\ TransferInv /\ PacketInv)
<1> DEFINE Inv == ControlInv /\ TransferInv /\ PacketInv
<1>1. Init => Inv
  BY ControlInit, TransferInit, PacketInit
<1>2. Inv /\ [Next]_vars => Inv'
  <2> SUFFICES ASSUME ControlInv, TransferInv, PacketInv, [Next]_vars
               PROVE  ControlInv' /\ TransferInv' /\ PacketInv'
    OBVIOUS
  <2>1. CASE Tick
    BY <2>1, TickStep, TickTransfer, TickPacket DEF TransferInv
  <2>2. CASE Edge \/ MoveEdge \/ ReleaseEdge
    BY <2>2, EdgeStep, EdgeTransfer, EdgePacket DEF TransferInv
  <2>3. CASE UNCHANGED vars
    BY <2>3, ControlStutter, TransferStutter, PacketStutter
  <2> QED
    BY <2>1, <2>2, <2>3 DEF Next
<1> HIDE DEF Inv
<1>3. Spec => []Inv
  BY <1>1, <1>2, PTL DEF Spec
<1> QED
  BY <1>3 DEF Inv

\* PacketResponseExact: every block the drive offers in answer to a packet is, word for word, the next
\* of the response to the packet the guest has sent - the sense data, the answer of a fixed length, or
\* the sectors of a read at their place on the disc - and no more than is left of it.
THEOREM PacketResponsesExact ==
  ASSUME PacketsFit, ~Jitter, ~CdAborts
  PROVE  Spec => []PacketResponseExact
<1>1. ControlInv /\ PacketInv => PacketResponseExact
  <2> SUFFICES ASSUME ControlInv, PacketInv, Settled, Drq, g.pos = 0, g.task.cmd = "PACKET", g.blocks > 0
               PROVE  /\ g.off + blk <= Len(Response)
                      /\ \A k \in 1 .. blk : buf[k - 1] \in Response[g.off + k]
    BY DEF PacketResponseExact
  <2>1. /\ Active /\ ~BlockMoved /\ request = "none" /\ ~Busy /\ ~Setting /\ ~oldStb /\ Place \in Waits \cup Ends
        /\ h.st \in Waits \cup Ends \cup Sets
    BY SettledBlock, SettledFacts, HostWaits
  <2>2. Place \in {"PACKET_WAIT_REQ", "PACKET_READ_WAIT_REQ"} /\ kind = "cd"
    BY <2>1 DEF ControlInv, PlaceInv, Is, Waits
  <2>3. Place = "PACKET_READ_WAIT_REQ"
    <3>1. ASSUME Place = "PACKET_WAIT_REQ" PROVE FALSE
      <4>1. Collecting /\ h.st \notin {"PACKET_RECV", "PACKET_HANDLE"}
        BY <2>1, <3>1 DEF Collecting, Place, SetDone, Sets, Waits, Ends
      <4>2. Hand = 0
        BY <2>1, <4>1 DEF PacketInv, CollectInv
      <4> QED
        BY <2>1, <4>2 DEF Hand
    <3> QED
      BY <2>2, <3>1
  <2>4. Streaming /\ h.st # "PACKET_SEND"
    BY <2>1, <2>3 DEF Streaming, Place, SetDone, Sets, Waits, Ends
  <2>5. Taken = 0 /\ blk = h.pkt /\ blk \in Nat
    BY <2>1, <2>2 DEF Taken, ControlInv, MoveInv, Words, RtlType
  <2>6. Base = g.off
    BY <2>5 DEF Base, ControlInv, GuestType
  <2>7. g.off \in Nat /\ g.off + h.pkt + h.rem * CdWords = Len(Response) /\ Matches(h.pkt)
    <3>1. /\ Base \in Nat /\ Base + h.pkt + h.rem * CdWords = Len(Response) /\ (Due \/ Drq => Matches(h.pkt))
      BY <2>1, <2>4 DEF PacketInv, StreamInv
    <3> QED
      BY <2>6, <3>1
  <2>8. h.rem * CdWords \in Nat
    <3>1. h.rem \in Nat /\ CdWords \in Nat
      BY ConstantTypes DEF ControlInv, HostType
    <3> QED
      BY <3>1
  <2>9. g.off + blk <= Len(Response)
    <3> DEFINE r == h.rem * CdWords
    <3>1. g.off + blk + r = Len(Response) /\ r \in Nat /\ g.off \in Nat /\ blk \in Nat
      BY <2>5, <2>7, <2>8
    <3> HIDE DEF r
    <3> QED
      BY <3>1
  <2> QED
    BY <2>5, <2>6, <2>7, <2>9 DEF Matches
<1>2. Spec => [](ControlInv /\ TransferInv /\ PacketInv)
  BY PacketCorrect
<1> QED
  BY <1>1, <1>2, PTL

\* PacketEndsComplete: a packet command that has ended without an error has handed over every word of
\* its response, however the host cut it into blocks.  Under the same hypotheses.
THEOREM PacketsEndComplete ==
  ASSUME PacketsFit, ~Jitter, ~CdAborts
  PROVE  Spec => []PacketEndsComplete
<1>1. ControlInv /\ PacketInv => PacketEndsComplete
  <2> SUFFICES ASSUME ControlInv, PacketInv, Settled, ~Drq, g.task.cmd = "PACKET", "ERR" \notin status
               PROVE  g.off = Len(Response)
    BY DEF PacketEndsComplete
  <2>1. Place \in Ends /\ request = "none"
    BY SettledFacts
  <2> QED
    BY <2>1 DEF PacketInv, EndInv, Complete
<1>2. Spec => [](ControlInv /\ TransferInv /\ PacketInv)
  BY PacketCorrect
<1> QED
  BY <1>1, <1>2, PTL
=============================================================================
