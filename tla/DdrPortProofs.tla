---------------------------- MODULE DdrPortProofs ----------------------------
(***************************************************************************)
(* Proofs about DdrPort for every burst length, line width, mailbox length *)
(* and sample memory, provided that masters are switched off only while    *)
(* they are idle (FreeRelease = FALSE).                                    *)
(***************************************************************************)
EXTENDS DdrPort, TLAPS

(* The inductive invariant.  At most one read is outstanding, and which one   *)
(* can be read off the states of the masters: that is what stands in for the  *)
(* tags Avalon read data does not have.                                       *)

LfRead  == [m |-> "lf", a |-> lbWr, n |-> burstLeft]
GusRead == [m |-> "gus", a |-> gusReg.widx, n |-> 1]
MmFbRead == [m |-> "mm", a |-> 0, n |-> 1]

OneRead ==
  \/ q = <<>>         /\ lf # "DATA" /\ gus # "RDW" /\ mm # "FB_READ_WAIT"
  \/ q = <<LfRead>>   /\ lf = "DATA" /\ gus # "RDW" /\ mm # "FB_READ_WAIT"
  \/ q = <<GusRead>>  /\ lf = "IDLE" /\ gus = "RDW" /\ mm # "FB_READ_WAIT"
  \/ q = <<MmFbRead>> /\ lf = "IDLE" /\ gus = "IDLE" /\ mm = "FB_READ_WAIT"

\* The fetcher's counters.
LfCounters ==
  /\ lfRd => lf = "ISSUE" /\ wordsLeft # 0 /\ burstLeft # 0 /\ burstLeft <= wordsLeft
  /\ lf = "DATA" => burstLeft # 0
  /\ lf = "ISSUE" => curWord = lbWr
  /\ lf = "DATA" => curWord = lbWr + burstLeft

\* A master that is off is idle; a transfer of the GUS serves the access that is on.
GusTransfer ==
  gus # "IDLE" => gusOn /\ ~memAck /\ ~served /\ acc # None /\ gusReg = acc
                  /\ acc \in GusRequests /\ (gus = "WR" => acc.we)

OffIsIdle == ~enable => lf = "IDLE"

PendingIsWait == mmRdPending <=> mm = "FB_READ_WAIT"

\* The kept word is the word in memory.
KeptCoherent ==
  /\ tagValid => tag \in GusWords /\ kept = gusMem[tag]
  /\ (MemReq /\ memAck /\ ~acc.we) => memRdata = Pick16(gusMem[acc.widx], acc)

RouteInv == TypeOK /\ OneRead /\ LfCounters /\ GusTransfer /\ OffIsIdle /\ PendingIsWait

-----------------------------------------------------------------------------
\* The assumptions on the constants, in the form the proofs use.
LEMMA ConstNat ==
  MaxBurst \in Nat /\ MaxBurst > 0 /\ MaxShared \in Nat /\ MaxShared > 0
BY DdrPortAssumption

LEMMA ConstSets == Widths \subseteq Nat /\ GusRequests \subseteq AllGusRequests
BY DdrPortAssumption

\* What the DDR3 does to the queue when nothing is outstanding.
LEMMA DdrEmpty ==
  ASSUME NEW busy \in BOOLEAN, NEW ready \in BOOLEAN, q = <<>>, Ddr(busy, ready)
  PROVE  ~ready /\ q' = IF PortRead /\ ~busy THEN <<NewRead>> ELSE <<>>
<1>1. \A x : Append(<<>>, x) = <<x>>
  OBVIOUS
<1>2. ~ready /\ q' = IF PortRead /\ ~busy THEN Append(q, NewRead) ELSE q
  BY DEF Ddr
<1> QED
  BY <1>1, <1>2

\* What it does when one read is outstanding and none is requested.
LEMMA DdrOne ==
  ASSUME NEW busy \in BOOLEAN, NEW ready \in BOOLEAN, NEW h, q = <<h>>,
         ~PortRead, Ddr(busy, ready)
  PROVE  q' = IF ~ready THEN <<h>>
              ELSE IF h.n = 1 THEN <<>>
              ELSE <<[m |-> h.m, a |-> IF h.m = "lf" THEN h.a + 1 ELSE h.a,
                      n |-> h.n - 1]>>
<1>1. Head(q) = h /\ Tail(q) = <<>>
  OBVIOUS
<1>2. \A x : <<x>> \o <<>> = <<x>>
  OBVIOUS
<1>3. q' = IF ready THEN Returned ELSE q
  BY Zenon DEF Ddr
<1>4. Returned = IF h.n = 1 THEN <<>>
                 ELSE <<[m |-> h.m, a |-> IF h.m = "lf" THEN h.a + 1 ELSE h.a,
                         n |-> h.n - 1]>>
  BY <1>1, <1>2 DEF Returned
<1> QED
  BY <1>3, <1>4

LEMMA TypeInit == Init => TypeOK
<1> SUFFICES ASSUME Init PROVE TypeOK
  OBVIOUS
<1>1. /\ enable \in BOOLEAN /\ gusOn \in BOOLEAN /\ lfRd \in BOOLEAN
      /\ reqValid \in BOOLEAN /\ reqLine1 \in BOOLEAN /\ reqTaken \in BOOLEAN
      /\ served \in BOOLEAN /\ memAck \in BOOLEAN /\ tagValid \in BOOLEAN
      /\ mmRdPending \in BOOLEAN
  BY Zenon DEF Init
<1>2. /\ wordsLeft \in Nat /\ burstLeft \in Nat /\ burstLeft <= MaxBurst
      /\ curWord \in Nat /\ lbWr \in Nat
      /\ sharedLeft \in Nat /\ 1 <= sharedLeft /\ sharedLeft <= MaxShared
  BY ConstNat DEF Init
<1>3. gusMem \in [GusWords -> [Lanes -> Bytes]]
  BY DEF Init
<1> QED
  BY <1>1, <1>2, <1>3, Zenon DEF Init, TypeOK

LEMMA TypeStep ==
  ASSUME TypeOK, LfCounters, GusTransfer, NEW busy \in BOOLEAN, NEW ready \in BOOLEAN,
         Clock(busy, ready)
  PROVE  TypeOK'
<1> USE DEF TypeOK
<1>1. enable' \in BOOLEAN /\ gusOn' \in BOOLEAN
  BY DEF Clock, Switches
<1>2. /\ lf' \in {"IDLE", "ISSUE", "DATA"}
      /\ wordsLeft' \in Nat /\ burstLeft' \in Nat /\ burstLeft' <= MaxBurst
      /\ curWord' \in Nat /\ lbWr' \in Nat
  <2>1. LineFetcher(busy, ready)
    BY DEF Clock
  <2>2. CASE LfOff
    BY <2>2, ConstNat DEF LfOff
  <2>3. CASE LfIdle
    BY <2>3 DEF LfIdle
  <2>4. CASE LfTake(busy)
    BY <2>4, ConstSets DEF LfTake
  <2>5. CASE LfLineDone \/ LfHold(busy) \/ LfWait(ready)
    BY <2>5 DEF LfLineDone, LfHold, LfWait
  <2>6. CASE LfIssue
    BY <2>6, ConstNat DEF LfIssue, MinOf
  <2>7. CASE LfAccepted(busy)
    BY <2>7 DEF LfAccepted, LfCounters
  <2>8. CASE LfWord(ready)
    <3>1. burstLeft # 0
      BY <2>8 DEF LfWord, LfCounters
    <3>2. lf' \in {"IDLE", "ISSUE", "DATA"}
      BY <2>8 DEF LfWord
    <3> QED
      BY <2>8, <3>1, <3>2, ConstNat DEF LfWord
  <2> QED
    BY <2>1, <2>2, <2>3, <2>4, <2>5, <2>6, <2>7, <2>8 DEF LineFetcher
<1>9. lfRd' \in BOOLEAN /\ reqTaken' \in BOOLEAN
  BY Zenon DEF Clock, LineFetcher, LfOff, LfIdle, LfTake, LfLineDone, LfIssue, LfHold,
               LfAccepted, LfWord, LfWait
<1>3. reqValid' \in BOOLEAN /\ reqLine1' \in BOOLEAN
  BY Zenon DEF Clock, Raster
<1>4. acc' \in GusRequests \cup {None} /\ served' \in BOOLEAN
  BY DEF Clock, Gf1, Gf1Access
<1>5. /\ gus' \in {"IDLE", "RD", "RDW", "WR"} /\ gusReg' \in GusRequests \cup {None}
      /\ memAck' \in BOOLEAN /\ tagValid' \in BOOLEAN
  BY DEF Clock, GusDdr, GusOff, GusRest, GusHit, GusStart, GusHold, GusReadAccepted,
         GusReadData, GusWritten
<1>6. /\ mm' \in {"IDLE", "FB_WRITE", "FB_READ", "FB_READ_WAIT"}
      /\ sharedLeft' \in Nat /\ 1 <= sharedLeft' /\ sharedLeft' <= MaxShared
  BY ConstNat DEF Clock, MainMemoryFb, MmIdle, MmWrite, MmRead, MmReadWait
<1>7. mmRdPending' \in BOOLEAN
  BY DEF Clock, MainMemoryFb, RdPending
<1>8. gusMem' \in [GusWords -> [Lanes -> Bytes]]
  <2>1. CASE GusWrite /\ ~busy
    <3>1. gusReg \in AllGusRequests
      BY <2>1, ConstSets DEF GusWrite, Owner, GusActive, GusTransfer
    <3>2. Merge(gusMem[gusReg.widx], gusReg) \in [Lanes -> Bytes]
      BY <3>1 DEF Merge, AllGusRequests
    <3> QED
      BY <2>1, <3>1, <3>2 DEF Clock, GusStore, AllGusRequests
  <2>2. CASE ~(GusWrite /\ ~busy)
    BY <2>2 DEF Clock, GusStore
  <2> QED
    BY <2>1, <2>2
<1> QED
  BY <1>1, <1>2, <1>3, <1>4, <1>5, <1>6, <1>7, <1>8, <1>9, Zenon

-----------------------------------------------------------------------------
(* The invariant is preserved, one part at a time.                         *)

LEMMA RouteInit == Init => RouteInv
<1> SUFFICES ASSUME Init PROVE RouteInv
  OBVIOUS
<1>1. TypeOK
  BY TypeInit
<1>2. OneRead /\ OffIsIdle /\ LfCounters /\ GusTransfer
  BY DEF Init, OneRead, OffIsIdle, LfCounters, GusTransfer
<1>3. PendingIsWait
  BY DEF Init, PendingIsWait
<1> QED
  BY <1>1, <1>2, <1>3 DEF RouteInv

LEMMA LfCountersStep ==
  ASSUME RouteInv, NEW busy \in BOOLEAN, NEW ready \in BOOLEAN, Clock(busy, ready)
  PROVE  LfCounters'
<1> USE DEF RouteInv, TypeOK, LfCounters
<1>1. LineFetcher(busy, ready)
  BY DEF Clock
<1>2. CASE LfOff
  BY <1>2 DEF LfOff
<1>3. CASE LfIdle
  BY <1>3 DEF LfIdle
<1>4. CASE LfTake(busy)
  BY <1>4 DEF LfTake
<1>5. CASE LfLineDone
  BY <1>5 DEF LfLineDone
<1>6. CASE LfHold(busy) \/ LfWait(ready)
  BY <1>6 DEF LfHold, LfWait
<1>7. CASE LfIssue
  BY <1>7, ConstNat DEF LfIssue, MinOf
<1>8. CASE LfAccepted(busy)
  BY <1>8 DEF LfAccepted
<1>9. CASE LfWord(ready)
  <2>1. ~lfRd
    BY <1>9 DEF LfWord
  <2> QED
    BY <1>9, <2>1 DEF LfWord
<1> QED
  BY <1>1, <1>2, <1>3, <1>4, <1>5, <1>6, <1>7, <1>8, <1>9 DEF LineFetcher

LEMMA GusTransferStep ==
  ASSUME RouteInv, FreeRelease = FALSE, NEW busy \in BOOLEAN, NEW ready \in BOOLEAN,
         Clock(busy, ready)
  PROVE  GusTransfer'
<1> SUFFICES ASSUME gus' # "IDLE"
             PROVE  /\ gusOn' /\ ~memAck' /\ ~served' /\ acc' # None /\ gusReg' = acc'
                    /\ acc' \in GusRequests /\ (gus' = "WR" => acc'.we)
  BY DEF GusTransfer
<1>1. gusOn /\ acc # None /\ ~served /\ ~memAck /\ acc \in GusRequests
      /\ ~memAck' /\ gusReg' = acc
  BY DEF Clock, GusDdr, GusOff, GusRest, GusHit, GusStart, GusHold, GusReadAccepted,
         GusReadData, GusWritten, MemReq, RouteInv, GusTransfer, TypeOK
<1>2. acc' = acc /\ ~served'
  BY <1>1 DEF Clock, Gf1, Gf1Access
<1>3. gusOn'
  BY <1>1 DEF Clock, Switches
<1>4. gus' = "WR" => acc.we
  BY DEF Clock, GusDdr, GusOff, GusRest, GusHit, GusStart, GusHold, GusReadAccepted,
         GusReadData, GusWritten, RouteInv, GusTransfer
<1> QED
  BY <1>1, <1>2, <1>3, <1>4

LEMMA OffIsIdleStep ==
  ASSUME RouteInv, FreeRelease = FALSE, NEW busy \in BOOLEAN, NEW ready \in BOOLEAN,
         Clock(busy, ready)
  PROVE  OffIsIdle'
<1>1. CASE enable
  BY <1>1 DEF Clock, Switches, OffIsIdle
<1>2. CASE ~enable
  BY <1>2 DEF Clock, LineFetcher, LfOff, LfIdle, LfTake, LfLineDone, LfIssue, LfHold,
              LfAccepted, LfWord, LfWait, OffIsIdle
<1> QED
  BY <1>1, <1>2

LEMMA PendingIsWaitStep ==
  ASSUME RouteInv, NEW busy \in BOOLEAN, NEW ready \in BOOLEAN, Clock(busy, ready)
  PROVE  PendingIsWait'
<1>1. RdPending(busy, ready) /\ (mmRdPending <=> mm = "FB_READ_WAIT")
  BY DEF Clock, MainMemoryFb, RouteInv, PendingIsWait
<1>2. CASE MmIdle
  BY <1>1, <1>2 DEF MmIdle, RdPending, PendingIsWait
<1>3. CASE MmWrite(busy)
  BY <1>1, <1>3 DEF MmWrite, RdPending, PendingIsWait
<1>4. CASE MmRead(busy)
  BY <1>1, <1>4 DEF MmRead, MmBusy, RdPending, PendingIsWait
<1>5. CASE MmReadWait(ready)
  BY <1>1, <1>5 DEF MmReadWait, MmDoutReady, RdPending, PendingIsWait
<1> QED
  BY <1>2, <1>3, <1>4, <1>5 DEF Clock, MainMemoryFb

\* What the steps of the masters can do to the states that wait for data.
LEMMA LfWaits ==
  ASSUME NEW busy \in BOOLEAN, NEW ready \in BOOLEAN, LineFetcher(busy, ready)
  PROVE  /\ (lf = "IDLE" /\ (MmActive \/ GusActive)) => lf' = "IDLE"
         /\ (lf' = "DATA" /\ lf # "DATA") => enable /\ lf = "ISSUE" /\ lfRd /\ ~busy
         /\ (enable /\ lf = "ISSUE" /\ lfRd /\ ~busy /\ wordsLeft # 0)
              => lf' = "DATA" /\ burstLeft' = burstLeft /\ lbWr' = lbWr
         /\ (enable /\ lf = "DATA" /\ ~ready) => lf' = lf /\ UNCHANGED <<burstLeft, lbWr>>
         /\ (enable /\ lf = "DATA" /\ ready)
              => /\ lf' = IF burstLeft = 1 THEN "ISSUE" ELSE "DATA"
                 /\ burstLeft' = burstLeft - 1 /\ lbWr' = lbWr + 1
BY DEF LineFetcher, LfOff, LfIdle, LfTake, LfLineDone, LfIssue, LfHold, LfAccepted,
       LfWord, LfWait, LfBusy, LfOwner

LEMMA GusWaits ==
  ASSUME NEW busy \in BOOLEAN, NEW ready \in BOOLEAN, GusDdr(busy, ready)
  PROVE  /\ (gus = "IDLE" /\ MmActive) => gus' = "IDLE"
         /\ (gus' = "RDW" /\ gus # "RDW") => gus = "RD" /\ ~LfOwner /\ ~busy
         /\ (gusOn /\ gus = "RD" /\ ~LfOwner /\ ~busy) => gus' = "RDW" /\ gusReg' = gusReg
         /\ (gusOn /\ gus = "RDW" /\ ~(ready /\ ~LfOwner)) => gus' = "RDW" /\ gusReg' = gusReg
         /\ (gusOn /\ gus = "RDW" /\ ready /\ ~LfOwner) => gus' = "IDLE"
BY DEF GusDdr, GusOff, GusRest, GusHit, GusStart, GusHold, GusReadAccepted, GusReadData,
       GusWritten, GusBusy, GusStartOk

LEMMA MmWaits ==
  ASSUME NEW busy \in BOOLEAN, NEW ready \in BOOLEAN, MainMemoryFb(busy, ready)
  PROVE  /\ (mm' = "FB_READ_WAIT" /\ mm # "FB_READ_WAIT")
              => mm = "FB_READ" /\ ~LfOwner /\ ~GusActive /\ ~busy
         /\ (mm = "FB_READ" /\ ~LfOwner /\ ~GusActive /\ ~busy) => mm' = "FB_READ_WAIT"
         /\ (mm = "FB_READ_WAIT" /\ ~MmDoutReady(ready)) => mm' = "FB_READ_WAIT"
         /\ (mm = "FB_READ_WAIT" /\ MmDoutReady(ready)) => mm' # "FB_READ_WAIT"
BY DEF MainMemoryFb, MmIdle, MmWrite, MmRead, MmReadWait, MmBusy

LEMMA OneReadStep ==
  ASSUME RouteInv, NEW busy \in BOOLEAN, NEW ready \in BOOLEAN, Clock(busy, ready)
  PROVE  OneRead'
<1> USE DEF LfOwner, GusActive, Owner
<1>1. Ddr(busy, ready) /\ LineFetcher(busy, ready) /\ GusDdr(busy, ready)
      /\ MainMemoryFb(busy, ready)
  BY DEF Clock
<1>2. OneRead /\ LfCounters /\ GusTransfer /\ OffIsIdle /\ PendingIsWait /\ TypeOK
  BY DEF RouteInv
<1>3. CASE q = <<>> /\ lf # "DATA" /\ gus # "RDW" /\ mm # "FB_READ_WAIT"
  <2>1. q' = IF PortRead /\ ~busy THEN <<NewRead>> ELSE <<>>
    BY <1>1, <1>3, DdrEmpty
  <2>2. CASE ~(PortRead /\ ~busy)
    <3>1. lf' # "DATA" /\ gus' # "RDW" /\ mm' # "FB_READ_WAIT"
      BY <1>1, <1>3, <2>2, LfWaits, GusWaits, MmWaits DEF PortRead
    <3> QED
      BY <2>1, <2>2, <3>1 DEF OneRead
  <2>3. CASE PortRead /\ ~busy /\ Owner = "lf"
    <3>1. lf = "ISSUE" /\ lfRd /\ enable /\ wordsLeft # 0 /\ curWord = lbWr
      BY <1>2, <1>3, <2>3 DEF PortRead, OffIsIdle, LfCounters
    <3>2. lf' = "DATA" /\ burstLeft' = burstLeft /\ lbWr' = lbWr
      BY <1>1, <2>3, <3>1, LfWaits
    <3>3. gus' # "RDW" /\ mm' # "FB_READ_WAIT"
      BY <1>1, <1>3, <3>1, GusWaits, MmWaits
    <3>4. NewRead = [m |-> "lf", a |-> curWord, n |-> burstLeft]
      BY <2>3 DEF NewRead
    <3> QED
      BY <2>1, <2>3, <3>1, <3>2, <3>3, <3>4 DEF OneRead, LfRead
  <2>4. CASE PortRead /\ ~busy /\ Owner = "gus"
    <3>1. lf = "IDLE" /\ gus = "RD" /\ gusOn
      BY <1>2, <1>3, <2>4 DEF PortRead, GusTransfer
    <3>2. gus' = "RDW" /\ gusReg' = gusReg /\ lf' = "IDLE" /\ mm' # "FB_READ_WAIT"
      BY <1>1, <1>3, <2>4, <3>1, LfWaits, GusWaits, MmWaits
    <3>3. NewRead = [m |-> "gus", a |-> gusReg.widx, n |-> 1]
      BY <2>4 DEF NewRead
    <3> QED
      BY <2>1, <2>4, <3>2, <3>3 DEF OneRead, GusRead
  <2>5. CASE PortRead /\ ~busy /\ Owner = "mm"
    <3>1. lf = "IDLE" /\ gus = "IDLE" /\ mm = "FB_READ" /\ MmActive
      BY <2>5 DEF PortRead, MmActive
    <3>2. mm' = "FB_READ_WAIT" /\ lf' = "IDLE" /\ gus' = "IDLE"
      BY <1>1, <2>5, <3>1, LfWaits, GusWaits, MmWaits
    <3>3. NewRead = [m |-> "mm", a |-> 0, n |-> 1]
      BY <2>5 DEF NewRead
    <3> QED
      BY <2>1, <2>5, <3>2, <3>3 DEF OneRead, MmFbRead
  <2> QED
    BY <2>2, <2>3, <2>4, <2>5
<1>4. CASE q = <<LfRead>> /\ lf = "DATA" /\ gus # "RDW" /\ mm # "FB_READ_WAIT"
  <2>1. ~PortRead /\ enable /\ ~lfRd /\ burstLeft \in Nat /\ burstLeft # 0 /\ lbWr \in Nat
    BY <1>2, <1>4 DEF PortRead, OffIsIdle, LfCounters, TypeOK
  <2>2. q' = IF ~ready THEN <<LfRead>>
             ELSE IF burstLeft = 1 THEN <<>>
             ELSE <<[m |-> "lf", a |-> lbWr + 1, n |-> burstLeft - 1]>>
    BY <1>1, <1>4, <2>1, DdrOne DEF LfRead
  <2>3. gus' # "RDW" /\ mm' # "FB_READ_WAIT"
    BY <1>1, <1>4, GusWaits, MmWaits
  <2>4. CASE ~ready
    BY <1>1, <1>4, <2>1, <2>2, <2>3, <2>4, LfWaits DEF OneRead, LfRead
  <2>5. CASE ready /\ burstLeft = 1
    BY <1>1, <1>4, <2>1, <2>2, <2>3, <2>5, LfWaits DEF OneRead
  <2>6. CASE ready /\ burstLeft # 1
    BY <1>1, <1>4, <2>1, <2>2, <2>3, <2>6, LfWaits DEF OneRead, LfRead
  <2> QED
    BY <2>4, <2>5, <2>6
<1>5. CASE q = <<GusRead>> /\ lf = "IDLE" /\ gus = "RDW" /\ mm # "FB_READ_WAIT"
  <2>1. ~PortRead /\ gusOn
    BY <1>2, <1>5 DEF PortRead, GusTransfer
  <2>2. q' = IF ~ready THEN <<GusRead>> ELSE <<>>
    BY <1>1, <1>5, <2>1, DdrOne DEF GusRead
  <2>3. lf' = "IDLE" /\ mm' # "FB_READ_WAIT"
    BY <1>1, <1>5, LfWaits, MmWaits
  <2>4. CASE ~ready
    BY <1>1, <1>5, <2>1, <2>2, <2>3, <2>4, GusWaits DEF OneRead, GusRead
  <2>5. CASE ready
    BY <1>1, <1>5, <2>1, <2>2, <2>3, <2>5, GusWaits DEF OneRead
  <2> QED
    BY <2>4, <2>5
<1>6. CASE q = <<MmFbRead>> /\ lf = "IDLE" /\ gus = "IDLE" /\ mm = "FB_READ_WAIT"
  <2>1. ~PortRead /\ MmActive
    BY <1>2, <1>6 DEF PortRead, PendingIsWait, MmActive
  <2>2. q' = IF ~ready THEN <<MmFbRead>> ELSE <<>>
    BY <1>1, <1>6, <2>1, DdrOne DEF MmFbRead
  <2>3. lf' = "IDLE" /\ gus' = "IDLE"
    BY <1>1, <1>6, <2>1, LfWaits, GusWaits
  <2>4. CASE ~ready
    BY <1>1, <1>6, <2>2, <2>3, <2>4, MmWaits DEF OneRead, MmFbRead, MmDoutReady
  <2>5. CASE ready
    BY <1>1, <1>6, <2>2, <2>3, <2>5, MmWaits DEF OneRead, MmDoutReady
  <2> QED
    BY <2>4, <2>5
<1> QED
  BY <1>2, <1>3, <1>4, <1>5, <1>6 DEF OneRead

-----------------------------------------------------------------------------
(* Stuttering steps, and the theorems.                                     *)

LEMMA RouteStutter == RouteInv /\ UNCHANGED vars => RouteInv'
BY DEF vars, lfVars, reqVars, gusVars, gf1Vars, mmVars, RouteInv, TypeOK, OneRead,
       LfRead, GusRead, MmFbRead, LfCounters, GusTransfer, OffIsIdle, PendingIsWait

\* The masters share the port as OneRead says, in every reachable state.
THEOREM PortSharing ==
  ASSUME FreeRelease = FALSE
  PROVE  Spec => []RouteInv
<1>1. Init => RouteInv
  BY RouteInit
<1>2. RouteInv /\ [Next]_vars => RouteInv'
  <2> SUFFICES ASSUME RouteInv, [Next]_vars PROVE RouteInv'
    OBVIOUS
  <2>1. CASE Next
    <3>1. PICK busy \in BOOLEAN, ready \in BOOLEAN : Clock(busy, ready)
      BY <2>1 DEF Next
    <3> QED
      BY <3>1, TypeStep, OneReadStep, LfCountersStep, GusTransferStep, OffIsIdleStep,
         PendingIsWaitStep DEF RouteInv
  <2>2. CASE UNCHANGED vars
    BY <2>2, RouteStutter
  <2> QED
    BY <2>1, <2>2
<1> QED
  BY <1>1, <1>2, PTL DEF Spec

\* The type invariant of DdrPort.
THEOREM DdrPortTypes ==
  ASSUME FreeRelease = FALSE
  PROVE  Spec => []TypeOK
<1>1. RouteInv => TypeOK
  BY DEF RouteInv
<1> QED
  BY <1>1, PortSharing, PTL

\* A word the DDR3 returns goes to the master that asked for it (system.sv).
THEOREM Routing ==
  ASSUME FreeRelease = FALSE
  PROVE  Spec => []RoutedToRequester
<1>1. RouteInv => RoutedToRequester
  <2> SUFFICES ASSUME RouteInv PROVE RoutedToRequester
    OBVIOUS
  <2>1. OneRead /\ PendingIsWait
    BY DEF RouteInv
  <2>2. \A x : Head(<<x>>) = x
    OBVIOUS
  <2>3. CASE q = <<LfRead>> /\ lf = "DATA"
    BY <2>2, <2>3 DEF RoutedToRequester, LfRead, Owner, LfOwner
  <2>4. CASE q = <<GusRead>> /\ lf = "IDLE" /\ gus = "RDW"
    BY <2>2, <2>4 DEF RoutedToRequester, GusRead, Owner, LfOwner, GusActive
  <2>5. CASE q = <<MmFbRead>> /\ lf = "IDLE" /\ gus = "IDLE" /\ mm = "FB_READ_WAIT"
    BY <2>1, <2>2, <2>5 DEF RoutedToRequester, MmFbRead, Owner, LfOwner, GusActive,
                            PendingIsWait
  <2>6. CASE q = <<>>
    BY <2>6 DEF RoutedToRequester
  <2> QED
    BY <2>1, <2>3, <2>4, <2>5, <2>6 DEF OneRead
<1> QED
  BY <1>1, PortSharing, PTL

\* Word k of a line goes to place k of the line buffer (svga_linebuf.sv).
THEOREM LineInPlace ==
  ASSUME FreeRelease = FALSE
  PROVE  Spec => []LineWordInPlace
<1>1. RouteInv => LineWordInPlace
  <2> SUFFICES ASSUME RouteInv PROVE LineWordInPlace
    OBVIOUS
  <2>1. \A x : Head(<<x>>) = x
    OBVIOUS
  <2> QED
    BY <2>1 DEF RouteInv, OneRead, LineWordInPlace, LfRead, GusRead, MmFbRead
<1> QED
  BY <1>1, PortSharing, PTL

\* A master that waits for data has a read outstanding.
THEOREM NoLostRead ==
  ASSUME FreeRelease = FALSE
  PROVE  Spec => []WaiterHasRead
<1>1. RouteInv => WaiterHasRead
  BY DEF RouteInv, OneRead, WaiterHasRead
<1> QED
  BY <1>1, PortSharing, PTL

-----------------------------------------------------------------------------
(* The kept word of gus_ddr.sv.                                            *)

\* The memory changes only when a GUS write is accepted.
LEMMA StoreOnlyOnWrite ==
  ASSUME NEW busy, GusStore(busy), ~(GusWrite /\ ~busy)
  PROVE  gusMem' = gusMem
BY DEF GusStore

LEMMA KeptStep ==
  ASSUME RouteInv, KeptCoherent, NEW busy \in BOOLEAN, NEW ready \in BOOLEAN,
         Clock(busy, ready)
  PROVE  KeptCoherent'
<1>1. GusDdr(busy, ready) /\ GusStore(busy) /\ Gf1 /\ Gf1Access
  BY DEF Clock, Gf1
<1>2. TypeOK /\ OneRead /\ GusTransfer
  BY DEF RouteInv
<1>3. tagValid => tag \in GusWords /\ kept = gusMem[tag]
  BY DEF KeptCoherent
<1>4. MemReq => acc \in GusRequests /\ acc.widx \in GusWords
  BY <1>2, ConstSets DEF MemReq, TypeOK, AllGusRequests
<1>5. CASE GusOff \/ GusRest \/ GusStart \/ GusHold(busy, ready) \/ GusReadAccepted(busy)
  <2>1. ~memAck' /\ kept' = kept /\ tag' = tag /\ (tagValid' => tagValid)
    BY <1>5 DEF GusOff, GusRest, GusStart, GusHold, GusReadAccepted
  <2>2. gusMem' = gusMem
    <3>1. ~(GusWrite /\ ~busy)
      BY <1>2, <1>5 DEF GusWrite, Owner, LfOwner, GusActive, GusOff, GusRest, GusStart,
                  GusHold, GusReadAccepted, GusBusy, GusTransfer
    <3> QED
      BY <1>1, <3>1, StoreOnlyOnWrite
  <2> QED
    BY <1>3, <2>1, <2>2 DEF KeptCoherent
<1>6. CASE GusHit
  <2>1. gus = "IDLE" /\ MemReq /\ tagValid /\ tag = acc.widx
        /\ memRdata' = Pick16(kept, acc) /\ kept' = kept /\ tag' = tag /\ tagValid' = tagValid
    BY <1>6 DEF GusHit, Hit
  <2>2. gusMem' = gusMem
    BY <1>1, <2>1, StoreOnlyOnWrite DEF GusWrite, Owner, GusActive
  <2>3. acc' = acc
    BY <1>1, <2>1 DEF Gf1Access, MemReq
  <2>4. memRdata' = Pick16(gusMem[acc.widx], acc)
    BY <1>3, <2>1
  <2> QED
    BY <1>3, <2>1, <2>2, <2>3, <2>4 DEF KeptCoherent, Pick16
<1>7. CASE GusReadData(ready)
  <2>1. gus = "RDW" /\ kept' = GusDout /\ tag' = acc.widx
        /\ memRdata' = Pick16(GusDout, acc)
    BY <1>7 DEF GusReadData
  <2>2. gusReg = acc /\ acc \in GusRequests /\ acc # None /\ ~served /\ gusOn
    BY <1>2, <2>1 DEF GusTransfer
  <2>3. \A x : Head(<<x>>) = x
    OBVIOUS
  <2>4. q = <<GusRead>>
    BY <1>2, <2>1 DEF OneRead
  <2>5. GusDout = gusMem[acc.widx]
    BY <2>2, <2>3, <2>4 DEF GusDout, GusRead
  <2>6. gusMem' = gusMem
    BY <1>1, <2>1, StoreOnlyOnWrite DEF GusWrite
  <2>7. acc' = acc
    BY <1>1, <2>2 DEF Gf1Access
  <2>8. acc.widx \in GusWords
    BY <1>4, <2>2 DEF MemReq
  <2> QED
    BY <2>1, <2>5, <2>6, <2>7, <2>8 DEF KeptCoherent, Pick16
<1>8. CASE GusWritten(busy)
  <2>1. gus = "WR" /\ ~busy /\ ~LfOwner /\ tag' = tag /\ tagValid' = tagValid
        /\ kept' = IF Hit THEN Merge(kept, gusReg) ELSE kept
    BY <1>8 DEF GusWritten, GusBusy
  <2>2. gusReg = acc /\ acc \in GusRequests /\ acc # None /\ ~served /\ gusOn
    BY <1>2, <2>1 DEF GusTransfer
  <2>3. acc' = acc
    BY <1>1, <2>2 DEF Gf1Access
  <2>4. acc.we
    BY <1>2, <2>1 DEF GusTransfer
  <2>5. acc.widx \in GusWords
    BY <1>4, <2>2 DEF MemReq
  <2>6. gusMem' = [gusMem EXCEPT ![acc.widx] = Merge(gusMem[acc.widx], acc)]
    BY <1>1, <2>1, <2>2 DEF GusStore, GusWrite, Owner, GusActive
  <2>7. tagValid' => tag' \in GusWords /\ kept' = gusMem'[tag']
    BY <1>2, <1>3, <2>1, <2>2, <2>5, <2>6 DEF Hit, TypeOK
  <2> QED
    BY <2>3, <2>4, <2>7 DEF KeptCoherent
<1> QED
  BY <1>1, <1>5, <1>6, <1>7, <1>8 DEF GusDdr

\* A read of the GF1 returns what it last wrote (gus_ddr.sv, gus.sv).
THEOREM SampleReads ==
  ASSUME FreeRelease = FALSE
  PROVE  Spec => []SampleReadExact
<1>1. Init => KeptCoherent
  BY DEF Init, KeptCoherent, MemReq
<1>2. RouteInv /\ KeptCoherent /\ [Next]_vars => KeptCoherent'
  <2> SUFFICES ASSUME RouteInv, KeptCoherent, [Next]_vars PROVE KeptCoherent'
    OBVIOUS
  <2>1. CASE Next
    <3>1. PICK busy \in BOOLEAN, ready \in BOOLEAN : Clock(busy, ready)
      BY <2>1 DEF Next
    <3> QED
      BY <3>1, KeptStep
  <2>2. CASE UNCHANGED vars
    BY <2>2 DEF vars, gusVars, gf1Vars, KeptCoherent, MemReq, Pick16
  <2> QED
    BY <2>1, <2>2
<1>3. KeptCoherent => SampleReadExact
  BY DEF KeptCoherent, SampleReadExact
<1> QED
  BY <1>1, <1>2, <1>3, PortSharing, PTL DEF Spec
==============================================================================
