------------------------------- MODULE DdrPort -------------------------------
(***************************************************************************)
(* The DDR3 port of the SoC after boot.  Three bus masters share one       *)
(* Avalon-MM port without an arbiter of their own:                         *)
(*                                                                         *)
(*   lf   the line fetcher of the native video output (svga_linebuf.sv),   *)
(*   gus  the sample memory of the Gravis UltraSound (gus_ddr.sv, gus.sv), *)
(*   mm   the framebuffer / mailbox path of main_memory.sv.                *)
(*                                                                         *)
(* system.sv multiplexes their requests by priority and hands the returned *)
(* data words to "whoever owns the port now".  Avalon read data carries no *)
(* tag, so the sharing is right only when every word is returned while the *)
(* master that asked for it still owns the port.                           *)
(*                                                                         *)
(* All of it is one clock domain: a step of the specification is one edge  *)
(* of clk_sys, the conjunction of one step of every always block.  The     *)
(* DDR3 controller is external: it may raise waitrequest in any cycle and  *)
(* answers accepted reads in order, a word at a time, after any delay.     *)
(***************************************************************************)
EXTENDS Naturals, Sequences

CONSTANTS
  MaxBurst,      \* words per burst of the line fetcher (8 in the code)
  Widths,        \* line lengths in words the CRTC registers may ask for
  MaxShared,     \* dwords a mailbox read may ask for (cpu_burstcount)
  GusWords,      \* 64-bit words of the GUS sample memory
  LanePairs,     \* 16-bit halves of such a word (4 in the code)
  Bytes,         \* byte values
  GusRequests,   \* accesses the GF1 makes, a subset of AllGusRequests
  FreeRelease    \* TRUE: mode and option switches at any time, as in the code
                 \* FALSE: only while the switched master is idle

\* The byte lanes of a word.
Lanes == 0 .. (2 * LanePairs - 1)

\* An access of the GF1: mem_we, mem_word, mem_addr split into word index and
\* byte lane, and the two bytes of mem_wdata.
AllGusRequests == [we : BOOLEAN, word : BOOLEAN, widx : GusWords,
                   lane : Lanes, data : Bytes \X Bytes]

ASSUME DdrPortAssumption ==
  /\ MaxBurst \in Nat \ {0}
  /\ Widths \subseteq Nat
  /\ MaxShared \in Nat \ {0}
  /\ LanePairs \in Nat \ {0}
  /\ GusRequests \subseteq AllGusRequests
  /\ FreeRelease \in BOOLEAN

Junk == "not a GUS word"       \* a byte of a word read for another master
None == [we |-> "none"]        \* no access of the GF1 / no word in the latch

VARIABLES
  enable,      \* video_fb_native: the fetcher is switched on
  lf,          \* svga_linebuf state: "IDLE", "ISSUE", "DATA"
  lfRd,        \* ddr_rd
  wordsLeft,   \* words_left
  burstLeft,   \* burst_left (equal to ddr_burstcnt until the burst is accepted)
  curWord,     \* cur_addr, relative to the start of the line
  lbWr,        \* lb_wr_addr, relative to the buffer half
  reqValid, reqLine1, reqTaken,     \* the request the raster side raises
  gusOn,       \* the OSD option gus_on
  acc,         \* the GF1's memory access (dram_access and its attributes)
  served,      \* gus.sv: the access has been answered
  gus,         \* gus_ddr state: "IDLE", "RD", "RDW", "WR"
  gusReg,      \* a_r, d_r, w_r: the request latched when the transfer starts
  memAck, memRdata,                 \* mem_ack, mem_rdata
  tagValid, tag, kept,              \* the last word read
  mm,          \* main_memory: "IDLE", "FB_WRITE", "FB_READ", "FB_READ_WAIT"
  sharedLeft,  \* dwords the mailbox read still has to fetch
  mmRdPending, \* system.sv mm_rd_pending
  q,           \* reads the DDR3 has accepted and not fully answered, in order
  gusMem       \* the GUS megabyte in the DDR3

lfVars  == <<lf, lfRd, wordsLeft, burstLeft, curWord, lbWr, reqTaken>>
reqVars == <<reqValid, reqLine1>>
gusVars == <<gus, gusReg, memAck, memRdata, tagValid, tag, kept>>
gf1Vars == <<acc, served>>
mmVars  == <<mm, sharedLeft, mmRdPending>>
vars == <<enable, lfVars, reqVars, gusOn, gusVars, gf1Vars, mmVars, q, gusMem>>

-----------------------------------------------------------------------------
(* The combinational nets of system.sv.                                    *)

LfOwner   == lf # "IDLE"
GusActive == gus # "IDLE"
MmActive  == mm \in {"FB_WRITE", "FB_READ"} \/ mmRdPending

\* The master whose request is on the port, and which gets a returned word.
Owner == IF LfOwner THEN "lf" ELSE IF GusActive THEN "gus" ELSE "mm"

PortRead  == \/ Owner = "lf"  /\ lfRd
             \/ Owner = "gus" /\ gus = "RD"
             \/ Owner = "mm"  /\ mm = "FB_READ"
GusWrite  == Owner = "gus" /\ gus = "WR"

\* waitrequest as each master sees it, given the port's own.
\* Slips: a master that does not wait for the GUS, a GUS that does not wait
\* for main_memory (the NoGus and Any forms).
LfBusyNoGus(busy) == busy \/ (MmActive /\ ~LfOwner)
LfBusy(busy)  == busy \/ ((MmActive \/ GusActive) /\ ~LfOwner)
GusBusy(busy) == busy \/ LfOwner
MmBusyNoGus(busy) == busy \/ LfOwner
MmBusy(busy)  == busy \/ LfOwner \/ GusActive
GusStartAny == ~LfOwner
GusStartOk  == ~LfOwner /\ ~MmActive

-----------------------------------------------------------------------------
(* The DDR3 controller.  A queue entry is a read: the master m that issued *)
(* it, the address a of the next word it returns and the number n of words *)
(* still to come.                                                          *)

NewRead == [m |-> Owner,
            a |-> CASE Owner = "lf"  -> curWord
                    [] Owner = "gus" -> gusReg.widx
                    [] OTHER         -> 0,
            n |-> IF Owner = "lf" THEN burstLeft ELSE 1]

\* The queue after the head's next word has been returned.
Returned ==
  LET h == Head(q) IN
  IF h.n = 1 THEN Tail(q)
  ELSE <<[m |-> h.m, a |-> IF h.m = "lf" THEN h.a + 1 ELSE h.a, n |-> h.n - 1]>>
       \o Tail(q)

Ddr(busy, ready) ==
  /\ ready => q # <<>>
  /\ LET rest == IF ready THEN Returned ELSE q IN
     q' = IF PortRead /\ ~busy THEN Append(rest, NewRead) ELSE rest

\* The bytes a request writes: ddr_be and ddr_din.
WriteLanes(r) == IF r.word THEN {2 * (r.lane \div 2), 2 * (r.lane \div 2) + 1}
                 ELSE {r.lane}
Merge(w, r) ==
  [l \in Lanes |-> IF l \in WriteLanes(r)
                   THEN IF r.word /\ l % 2 = 1 THEN r.data[2] ELSE r.data[1]
                   ELSE w[l]]

\* The word on ddram_dout, as far as the GUS is concerned.
GusDout == IF Head(q).m = "gus" THEN gusMem[Head(q).a]
           ELSE [l \in Lanes |-> Junk]

\* The aligned 16 bits of a word a request addresses.
Pick16(w, r) == <<w[2 * (r.lane \div 2)], w[2 * (r.lane \div 2) + 1]>>

-----------------------------------------------------------------------------
(* svga_linebuf.sv: the raster side raises a request at the start of a     *)
(* frame (line 0, then line 1) and at the end of every line.               *)

Raster(event) ==
  IF ~enable
  THEN reqValid' = FALSE /\ reqLine1' = FALSE
  ELSE /\ reqValid' = (event # "none" \/ IF reqTaken THEN reqLine1 ELSE reqValid)
       /\ reqLine1' = (event = "frame" \/ (reqLine1 /\ ~reqTaken))

MinOf(a, b) == IF a < b THEN a ELSE b

LfOff ==
  /\ ~enable
  /\ lf' = "IDLE" /\ lfRd' = FALSE /\ reqTaken' = FALSE
  /\ wordsLeft' = 0 /\ burstLeft' = 0 /\ curWord' = 0 /\ lbWr' = 0

LfIdle ==
  /\ enable /\ lf = "IDLE" /\ lfRd' = FALSE /\ reqTaken' = FALSE
  /\ UNCHANGED <<lf, wordsLeft, burstLeft, curWord, lbWr>>

\* A request is taken: it names the line, words_left its length.
LfTake(busy) ==
  /\ enable /\ lf = "IDLE" /\ reqValid /\ ~reqTaken /\ ~LfBusy(busy)
  /\ reqTaken' = TRUE /\ lf' = "ISSUE" /\ lfRd' = FALSE
  /\ wordsLeft' \in Widths /\ curWord' = 0 /\ lbWr' = 0
  /\ UNCHANGED burstLeft

LfLineDone ==
  /\ enable /\ lf = "ISSUE" /\ wordsLeft = 0
  /\ lfRd' = FALSE /\ lf' = "IDLE" /\ reqTaken' = FALSE
  /\ UNCHANGED <<wordsLeft, burstLeft, curWord, lbWr>>

LfIssue ==
  /\ enable /\ lf = "ISSUE" /\ wordsLeft # 0 /\ ~lfRd
  /\ burstLeft' = MinOf(MaxBurst, wordsLeft)
  /\ lfRd' = TRUE /\ reqTaken' = FALSE
  /\ UNCHANGED <<lf, wordsLeft, curWord, lbWr>>

LfHold(busy) ==
  /\ enable /\ lf = "ISSUE" /\ wordsLeft # 0 /\ lfRd /\ LfBusy(busy)
  /\ reqTaken' = FALSE
  /\ UNCHANGED <<lf, lfRd, wordsLeft, burstLeft, curWord, lbWr>>

\* A slip: the burst is taken for accepted without looking at waitrequest.
LfAcceptedBlind(busy) ==
  /\ enable /\ lf = "ISSUE" /\ wordsLeft # 0 /\ lfRd
  /\ lfRd' = FALSE /\ lf' = "DATA" /\ reqTaken' = FALSE
  /\ curWord' = curWord + burstLeft
  /\ wordsLeft' = wordsLeft - burstLeft
  /\ UNCHANGED <<burstLeft, lbWr>>

\* A slip: the next burst starts where this one did.
LfAcceptedNoAdvance(busy) ==
  /\ enable /\ lf = "ISSUE" /\ wordsLeft # 0 /\ lfRd /\ ~LfBusy(busy)
  /\ lfRd' = FALSE /\ lf' = "DATA" /\ reqTaken' = FALSE
  /\ wordsLeft' = wordsLeft - burstLeft
  /\ UNCHANGED <<burstLeft, lbWr, curWord>>

LfAccepted(busy) ==
  /\ enable /\ lf = "ISSUE" /\ wordsLeft # 0 /\ lfRd /\ ~LfBusy(busy)
  /\ lfRd' = FALSE /\ lf' = "DATA" /\ reqTaken' = FALSE
  /\ curWord' = curWord + burstLeft
  /\ wordsLeft' = wordsLeft - burstLeft
  /\ UNCHANGED <<burstLeft, lbWr>>

LfWord(ready) ==
  /\ enable /\ lf = "DATA" /\ ready
  /\ lbWr' = lbWr + 1 /\ burstLeft' = burstLeft - 1
  /\ lf' = IF burstLeft = 1 THEN "ISSUE" ELSE "DATA"
  /\ reqTaken' = FALSE
  /\ UNCHANGED <<lfRd, wordsLeft, curWord>>

LfWait(ready) ==
  /\ enable /\ lf = "DATA" /\ ~ready /\ reqTaken' = FALSE
  /\ UNCHANGED <<lf, lfRd, wordsLeft, burstLeft, curWord, lbWr>>

\* ready: the port's dout_ready; the fetcher owns the port in "DATA".
LineFetcher(busy, ready) ==
  \/ LfOff
  \/ LfIdle /\ ~(reqValid /\ ~reqTaken /\ ~LfBusy(busy))
  \/ LfTake(busy) \/ LfLineDone \/ LfIssue
  \/ LfHold(busy) \/ LfAccepted(busy)
  \/ LfWord(ready) \/ LfWait(ready)

-----------------------------------------------------------------------------
(* gus.sv: the chip clock stands still from the moment the GF1 raises      *)
(* dram_access until the memory has answered (served).  The GF1 itself is  *)
(* external: it makes an access while its clock runs, and ends it when the *)
(* clock runs again; with the card switched off it is held in reset.       *)

MemReq == acc # None /\ ~served /\ gusOn

Gf1Access ==
  \/ acc = None /\ ~served /\ acc' \in GusRequests
  \/ acc # None /\ (served \/ ~gusOn) /\ acc' = None
  \/ UNCHANGED acc

Gf1 ==
  /\ Gf1Access
  /\ served' = (acc # None /\ (served \/ ~gusOn \/ memAck))

-----------------------------------------------------------------------------
(* gus_ddr.sv                                                              *)

Hit == tagValid /\ tag = acc.widx

GusOff ==
  /\ ~gusOn
  /\ gus' = "IDLE" /\ tagValid' = FALSE /\ memAck' = FALSE
  /\ UNCHANGED <<gusReg, memRdata, tag, kept>>

GusRest ==
  /\ gusOn /\ gus = "IDLE" /\ memAck' = FALSE
  /\ ~(MemReq /\ ~memAck /\ ((~acc.we /\ Hit) \/ GusStartOk))
  /\ UNCHANGED <<gus, gusReg, memRdata, tagValid, tag, kept>>

GusHit ==
  /\ gusOn /\ gus = "IDLE" /\ MemReq /\ ~memAck /\ ~acc.we /\ Hit
  /\ memRdata' = Pick16(kept, acc) /\ memAck' = TRUE
  /\ UNCHANGED <<gus, gusReg, tagValid, tag, kept>>

GusStart ==
  /\ gusOn /\ gus = "IDLE" /\ MemReq /\ ~memAck /\ (acc.we \/ ~Hit) /\ GusStartOk
  /\ gusReg' = acc /\ gus' = (IF acc.we THEN "WR" ELSE "RD") /\ memAck' = FALSE
  /\ UNCHANGED <<memRdata, tagValid, tag, kept>>

GusHold(busy, ready) ==
  /\ gusOn /\ memAck' = FALSE
  /\ \/ gus \in {"RD", "WR"} /\ GusBusy(busy)
     \/ gus = "RDW" /\ ~(ready /\ ~LfOwner)
  /\ UNCHANGED <<gus, gusReg, memRdata, tagValid, tag, kept>>

GusReadAccepted(busy) ==
  /\ gusOn /\ gus = "RD" /\ ~GusBusy(busy)
  /\ gus' = "RDW" /\ memAck' = FALSE
  /\ UNCHANGED <<gusReg, memRdata, tagValid, tag, kept>>

GusReadData(ready) ==
  /\ gusOn /\ gus = "RDW" /\ ready /\ ~LfOwner
  /\ kept' = GusDout /\ tag' = acc.widx /\ tagValid' = TRUE
  /\ memRdata' = Pick16(GusDout, acc) /\ memAck' = TRUE
  /\ gus' = "IDLE" /\ UNCHANGED gusReg

\* A slip: the kept word is not written through.
GusWriteNoMerge(busy) ==
  /\ gusOn /\ gus = "WR" /\ ~GusBusy(busy)
  /\ memAck' = TRUE /\ gus' = "IDLE"
  /\ UNCHANGED <<gusReg, memRdata, tagValid, tag, kept>>

GusWritten(busy) ==
  /\ gusOn /\ gus = "WR" /\ ~GusBusy(busy)
  /\ kept' = (IF Hit THEN Merge(kept, gusReg) ELSE kept)
  /\ memAck' = TRUE /\ gus' = "IDLE"
  /\ UNCHANGED <<gusReg, memRdata, tagValid, tag>>

GusDdr(busy, ready) ==
  \/ GusOff \/ GusRest \/ GusHit \/ GusStart
  \/ GusHold(busy, ready) \/ GusReadAccepted(busy)
  \/ GusReadData(ready) \/ GusWritten(busy)

GusStore(busy) ==
  gusMem' = IF GusWrite /\ ~busy
            THEN [gusMem EXCEPT ![gusReg.widx] = Merge(gusMem[gusReg.widx], gusReg)]
            ELSE gusMem

-----------------------------------------------------------------------------
(* main_memory.sv, the states that use the port.  In IDLE a request of the *)
(* CPU for the framebuffer or the mailbox starts at once, whatever the     *)
(* port is doing.  A mailbox read is up to MaxShared dwords, a framebuffer *)
(* read one.                                                               *)

MmIdle ==
  /\ mm = "IDLE"
  /\ \/ UNCHANGED <<mm, sharedLeft>>
     \/ mm' = "FB_WRITE" /\ UNCHANGED sharedLeft
     \/ mm' = "FB_READ" /\ sharedLeft' \in 1 .. MaxShared

MmWrite(busy) ==
  /\ mm = "FB_WRITE" /\ UNCHANGED sharedLeft
  /\ mm' = IF MmBusy(busy) THEN mm ELSE "IDLE"

MmRead(busy) ==
  /\ mm = "FB_READ" /\ UNCHANGED sharedLeft
  /\ mm' = IF MmBusy(busy) THEN mm ELSE "FB_READ_WAIT"

\* The word is for main_memory unless another master owns the port.
MmDoutReady(ready) == ready /\ ~LfOwner /\ ~GusActive

\* A slip: the last dword of a mailbox read is not recognised.
MmReadWaitEndless(ready) ==
  /\ mm = "FB_READ_WAIT"
  /\ IF ~MmDoutReady(ready) THEN UNCHANGED <<mm, sharedLeft>>
     ELSE mm' = "FB_READ" /\ sharedLeft' = sharedLeft - 1

MmReadWait(ready) ==
  /\ mm = "FB_READ_WAIT"
  /\ IF ~MmDoutReady(ready) THEN UNCHANGED <<mm, sharedLeft>>
     ELSE IF sharedLeft > 1 THEN mm' = "FB_READ" /\ sharedLeft' = sharedLeft - 1
     ELSE mm' = "IDLE" /\ UNCHANGED sharedLeft

RdPending(busy, ready) ==
  mmRdPending' = IF mm = "FB_READ" /\ ~LfOwner /\ ~GusActive /\ ~busy THEN TRUE
                 ELSE IF ready /\ ~LfOwner /\ ~GusActive THEN FALSE
                 ELSE mmRdPending

MainMemoryFb(busy, ready) ==
  /\ MmIdle \/ MmWrite(busy) \/ MmRead(busy) \/ MmReadWait(ready)
  /\ RdPending(busy, ready)

-----------------------------------------------------------------------------
(* A video mode set or an OSD option switches a master on or off.          *)

Switches ==
  /\ enable' \in BOOLEAN /\ gusOn' \in BOOLEAN
  /\ FreeRelease \/ (enable /\ ~enable' => lf' = "IDLE")
  /\ FreeRelease \/ (gusOn /\ ~gusOn' => gus' = "IDLE")

Init ==
  /\ enable = FALSE /\ lf = "IDLE" /\ lfRd = FALSE
  /\ wordsLeft = 0 /\ burstLeft = 0 /\ curWord = 0 /\ lbWr = 0
  /\ reqValid = FALSE /\ reqLine1 = FALSE /\ reqTaken = FALSE
  /\ gusOn = FALSE /\ acc = None /\ served = FALSE
  /\ gus = "IDLE" /\ gusReg = None /\ memAck = FALSE /\ memRdata = <<Junk, Junk>>
  /\ tagValid = FALSE /\ tag = "none" /\ kept = [l \in Lanes |-> Junk]
  /\ mm = "IDLE" /\ sharedLeft = 1 /\ mmRdPending = FALSE
  /\ q = <<>> /\ \E b \in Bytes : gusMem = [w \in GusWords |-> [l \in Lanes |-> b]]

\* One edge of clk_sys: busy is ddram_busy, ready is ddram_dout_ready.
Clock(busy, ready) ==
  /\ Ddr(busy, ready)
  /\ \E event \in {"none", "line", "frame"} : Raster(event)
  /\ LineFetcher(busy, ready)
  /\ Gf1 /\ GusDdr(busy, ready) /\ GusStore(busy)
  /\ MainMemoryFb(busy, ready)
  /\ Switches

Next == \E busy, ready \in BOOLEAN : Clock(busy, ready)

\* The controller is never busy forever and answers what it has accepted.
Served == Clock(FALSE, q # <<>>)

Spec == Init /\ [][Next]_vars
FairSpec == Spec /\ WF_vars(Served)

-----------------------------------------------------------------------------
(* Properties                                                              *)

TypeOK ==
  /\ enable \in BOOLEAN /\ gusOn \in BOOLEAN
  /\ lf \in {"IDLE", "ISSUE", "DATA"} /\ lfRd \in BOOLEAN
  /\ wordsLeft \in Nat /\ burstLeft \in Nat /\ burstLeft <= MaxBurst
  /\ curWord \in Nat /\ lbWr \in Nat
  /\ reqValid \in BOOLEAN /\ reqLine1 \in BOOLEAN /\ reqTaken \in BOOLEAN
  /\ acc \in GusRequests \cup {None} /\ served \in BOOLEAN
  /\ gus \in {"IDLE", "RD", "RDW", "WR"} /\ gusReg \in GusRequests \cup {None}
  /\ memAck \in BOOLEAN /\ tagValid \in BOOLEAN
  /\ mm \in {"IDLE", "FB_WRITE", "FB_READ", "FB_READ_WAIT"}
  /\ sharedLeft \in Nat /\ 1 <= sharedLeft /\ sharedLeft <= MaxShared
  /\ mmRdPending \in BOOLEAN
  /\ gusMem \in [GusWords -> [Lanes -> Bytes]]

\* A word can be returned in any cycle in which a read is outstanding: the
\* master that the multiplexer of system.sv would give it to is the one that
\* asked for it, and that master is waiting for data.
RoutedToRequester ==
  q # <<>> =>
    /\ Head(q).m = Owner
    /\ CASE Owner = "lf"  -> lf = "DATA" /\ Head(q).n = burstLeft
         [] Owner = "gus" -> gus = "RDW"
         [] OTHER         -> mm = "FB_READ_WAIT" /\ mmRdPending

\* The fetcher stores word k of a line at place k of the line buffer.
LineWordInPlace == (q # <<>> /\ Head(q).m = "lf") => Head(q).a = lbWr

\* "the fetcher [...] holds it for a whole burst, during which main_memory sees
\* busy" (system.sv): no word of a burst can be taken by main_memory or the GUS.
BurstHeld ==
  (q # <<>> /\ Head(q).m = "lf") =>
    /\ ~(Owner = "mm" /\ mm = "FB_READ_WAIT")
    /\ ~(Owner = "gus" /\ gus = "RDW")

\* A master that waits for data has a read outstanding: no request was taken
\* for accepted that the DDR3 never saw (the word would never come).
WaiterHasRead ==
  (lf = "DATA" \/ gus = "RDW" \/ mm = "FB_READ_WAIT") => q # <<>>

\* When gus_ddr.sv acknowledges a read, the 16 bits the GF1 latches at that
\* edge (DRAM_i) are what it last wrote there, through the kept word and
\* whatever the other masters did meanwhile.
SampleReadExact ==
  (MemReq /\ memAck /\ ~acc.we) => memRdata = Pick16(gusMem[acc.widx], acc)

\* A framebuffer or mailbox access of the CPU ends: the fetcher and the GUS
\* cannot keep main_memory off the port.
CpuAccessEnds == mm # "IDLE" ~> mm = "IDLE"

\* The GF1 gets its memory access (its clock starts again) or is switched off.
Gf1AccessEnds == MemReq ~> ~MemReq
==============================================================================
