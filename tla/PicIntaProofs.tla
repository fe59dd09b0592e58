--------------------------- MODULE PicIntaProofs ---------------------------
(***************************************************************************)
(* Proofs about PicInta, for any number of levels, any cascade level, any  *)
(* device lines and any depth of nesting.                                  *)
(***************************************************************************)
EXTENDS PicInta, WellFoundedInduction, TLAPS

-----------------------------------------------------------------------------
(* Priorities.                                                               *)

\* Every non-empty set of natural numbers has a least element.
LEMMA LeastOfNat ==
  ASSUME NEW S, S \subseteq Nat, S # {}
  PROVE  \E x \in S : \A y \in S : x <= y
<1>1. PICK x \in S : \A y \in S : ~(<<y, x>> \in OpToRel(<, Nat))
  BY NatLessThanWellFounded, WFMin, Zenon
<1>2. \A y \in S : <<y, x>> \in Nat \X Nat /\ <<y, x>>[1] = y /\ <<y, x>>[2] = x
  BY <1>1
<1>3. \A y \in S : ~(y < x)
  BY <1>1, <1>2 DEF OpToRel
<1> QED
  BY <1>3

\* Levels are natural numbers, and there is a last one.
LEMMA LevelsNat == N \in Nat \ {0} /\ Levels \subseteq Nat /\ 0 \in Levels /\ N - 1 \in Levels /\ Cascade \in Levels
BY PicIntaAssumption DEF Levels

\* A level's place is a number below N, and a place gives a level.
LEMMA RankType ==
  ASSUME NEW c, c.lowest \in Levels, NEW l \in Levels
  PROVE  Rank(c, l) \in Levels /\ AtRank(c, l) \in Levels
<1>1. N \in Nat \ {0} /\ l + N - c.lowest - 1 \in Nat /\ c.lowest + l + 1 \in Nat
  BY PicIntaAssumption DEF Levels
<1>2. \A x \in Nat : x % N \in 0 .. N - 1
  BY <1>1
<1> QED
  BY <1>1, <1>2 DEF Rank, AtRank, Levels

\* First is the best place among the levels of S.
LEMMA FirstIs ==
  ASSUME NEW c, c.lowest \in Levels, NEW S, S \subseteq Levels, S # {}
  PROVE  /\ First(c, S) \in Levels
         /\ \E l \in S : Rank(c, l) = First(c, S)
         /\ \A l \in S : First(c, S) <= Rank(c, l)
<1> DEFINE R == {Rank(c, l) : l \in S}
<1>1. R \subseteq Levels /\ R # {} /\ Levels \subseteq Nat
  BY RankType, LevelsNat
<1>2. PICK x \in R : \A y \in R : x <= y
  BY <1>1, LeastOfNat
<1>3. x \in Levels /\ (\E l \in S : Rank(c, l) = x) /\ \A l \in S : x <= Rank(c, l)
  BY <1>1, <1>2
<1>4. \E r \in Levels : (\E l \in S : Rank(c, l) = r) /\ \A l \in S : r <= Rank(c, l)
  BY <1>3
<1> QED
  BY <1>4, Zenon DEF First

\* Places depend on nothing but the lowest level.
LEMMA FirstSame ==
  ASSUME NEW c, NEW d, c.lowest \in Levels, d.lowest = c.lowest, NEW S, S \subseteq Levels
  PROVE  First(d, S) = First(c, S)
<1>1. CASE S = {}
  BY <1>1 DEF First
<1>2. CASE S # {}
  <2>1. \A l \in S : Rank(d, l) = Rank(c, l) /\ Rank(c, l) \in Nat
    BY RankType, PicIntaAssumption DEF Rank, Levels
  <2>2. /\ First(c, S) \in Nat /\ (\E l \in S : Rank(c, l) = First(c, S)) /\ \A l \in S : First(c, S) <= Rank(c, l)
    BY <1>2, FirstIs, LevelsNat
  <2>3. /\ First(d, S) \in Nat /\ (\E l \in S : Rank(d, l) = First(d, S)) /\ \A l \in S : First(d, S) <= Rank(d, l)
    BY <1>2, FirstIs, LevelsNat
  <2> QED
    BY <2>1, <2>2, <2>3
<1> QED
  BY <1>1, <1>2

-----------------------------------------------------------------------------
(* One chip.                                                                 *)

ChipType(c) ==
  /\ c.irr \subseteq Levels /\ c.isr \subseteq Levels /\ c.imr \subseteq Levels
  /\ c.lowest \in Levels /\ c.vec \in Levels
  /\ c.init \in BOOLEAN /\ c.need4 \in BOOLEAN /\ c.ltim \in BOOLEAN /\ c.aeoi \in BOOLEAN
  /\ c.rotate \in BOOLEAN /\ c.special \in BOOLEAN /\ c.spurious \in BOOLEAN /\ c.do \in BOOLEAN
  /\ c.slave \in BOOLEAN

\* The writes of the initialisation, and those of running software, each with a value of its kind.
Suits(c, w) ==
  \/ w = NoWrite
  \/ w \in Ocws /\ c.init = FALSE
  \/ w.op = "icw1" /\ w.v.need4 = TRUE /\ w.v.ltim = FALSE
  \/ w.op = "data" /\ c.init = TRUE /\ (c.expect = 4 => w.v = FALSE)

\* What a chip would interrupt for has a level.
LEMMA IrqType ==
  ASSUME NEW c, ChipType(c)
  PROVE  IrqValue(c) \in Levels /\ Irq(c) \in BOOLEAN
<1>1. First(c, Selected(c)) \in Levels
  <2>1. Selected(c) \subseteq Levels /\ c.lowest \in Levels
    BY DEF ChipType, Selected
  <2>2. CASE Selected(c) = {}
    BY <2>2, LevelsNat DEF First
  <2>3. CASE Selected(c) # {}
    BY <2>1, <2>3, FirstIs
  <2> QED
    BY <2>2, <2>3
<1> QED
  BY <1>1, RankType DEF IrqValue, ChipType, Irq

\* A clock keeps the types of a chip.
LEMMA ChipStep ==
  ASSUME NEW c, ChipType(c), NEW in, in \subseteq Levels, NEW w, Suits(c, w), NEW ack \in BOOLEAN
  PROVE  ChipType(I8259(c, in, w, ack))
<1> DEFINE d == I8259(c, in, w, ack)
<1>0. IrqValue(c) \in Levels /\ Irq(c) \in BOOLEAN /\ N \in Nat /\ N # 0 /\ 0 \in Levels /\ N - 1 \in Levels
  BY IrqType, LevelsNat
<1>a. \/ w.op \in {"none", "eoi", "rot_eoi"}
      \/ w.op = "data" /\ c.init = FALSE /\ w.v \subseteq Levels
      \/ w.op \in {"eoi_level", "rot_level", "set_lowest"} /\ w.v \in Levels
      \/ w.op \in {"rot_aeoi", "special"} /\ w.v \in BOOLEAN
      \/ w.op = "icw1" /\ w.v.need4 = TRUE /\ w.v.ltim = FALSE
      \/ w.op = "data" /\ c.init = TRUE /\ (c.expect = 4 => w.v = FALSE)
  BY DEF Suits, NoWrite, Ocws
<1>1. d.irr \subseteq Levels
  BY DEF I8259, Irr, ChipType, AckReal
<1>2. d.isr \subseteq Levels
  BY DEF I8259, Isr, ChipType, AckReal
<1>3. d.imr \subseteq Levels
  BY <1>a DEF I8259, ChipType, Icw1, Ocw1
<1>4. d.lowest \in Levels
  <2>1. (c.lowest + 1) % N \in Levels
    BY <1>0 DEF ChipType, Levels
  <2> QED
    BY <1>0, <1>a, <2>1 DEF I8259, Lowest, ChipType, Icw1
<1>5. d.vec \in Levels
  BY <1>0 DEF I8259, Vec, ChipType
<1>6. d.init \in BOOLEAN /\ d.spurious \in BOOLEAN /\ d.do \in BOOLEAN /\ d.slave \in BOOLEAN
  BY DEF I8259, Spurious
<1>7. d.need4 \in BOOLEAN /\ d.ltim \in BOOLEAN
  BY <1>a DEF I8259, Icw1, ChipType
<1>8. d.aeoi \in BOOLEAN /\ d.rotate \in BOOLEAN /\ d.special \in BOOLEAN
  BY DEF I8259
<1> HIDE DEF d
<1>9. ChipType(d)
  BY <1>1, <1>2, <1>3, <1>4, <1>5, <1>6, <1>7, <1>8 DEF ChipType
<1> QED
  BY <1>9 DEF d

\* How a write w takes the initialisation of chip c on to d.
InitMoves(c, w, d) ==
  /\ w.op = "icw1" /\ w.v.need4 = TRUE => d.init = TRUE /\ d.need4 = TRUE /\ d.expect = 2
  /\ w.op = "data" /\ c.init = TRUE /\ c.need4 = TRUE /\ c.expect = 2
       => d.init = TRUE /\ d.need4 = TRUE /\ d.expect = 3
  /\ w.op = "data" /\ c.init = TRUE /\ c.need4 = TRUE /\ c.expect = 3
       => d.init = TRUE /\ d.need4 = TRUE /\ d.expect = 4
  /\ w.op = "data" /\ c.init = TRUE /\ c.need4 = TRUE /\ c.expect = 4 => d.init = FALSE
  /\ w.op # "icw1" /\ c.init = FALSE => d.init = FALSE

\* A clock moves the initialisation on as the code's case does.
LEMMA InitStep ==
  ASSUME NEW c, NEW in, NEW w, NEW ack \in BOOLEAN
  PROVE  InitMoves(c, w, I8259(c, in, w, ack))
<1> DEFINE d == I8259(c, in, w, ack)
<1>1. w.op = "icw1" /\ w.v.need4 = TRUE => d.init = TRUE /\ d.need4 = TRUE /\ d.expect = 2
  BY DEF I8259, Icw1
<1>2. w.op = "data" /\ c.init = TRUE /\ c.need4 = TRUE /\ c.expect = 2
        => d.init = TRUE /\ d.need4 = TRUE /\ d.expect = 3
  <2> HAVE w.op = "data" /\ c.init = TRUE /\ c.need4 = TRUE /\ c.expect = 2
  <2>1. ~Icw1(w) /\ ~Icw(c, w, 4) /\ Icw(c, w, 2) /\ ~Icw(c, w, 3)
    BY DEF Icw1, Icw
  <2>2. d.init = TRUE
    BY <2>1 DEF I8259
  <2>3. d.need4 = TRUE
    BY <2>1 DEF I8259
  <2>4. d.expect = 3
    BY <2>1 DEF I8259
  <2> QED
    BY <2>2, <2>3, <2>4
<1>3. w.op = "data" /\ c.init = TRUE /\ c.need4 = TRUE /\ c.expect = 3
        => d.init = TRUE /\ d.need4 = TRUE /\ d.expect = 4
  <2> HAVE w.op = "data" /\ c.init = TRUE /\ c.need4 = TRUE /\ c.expect = 3
  <2>1. ~Icw1(w) /\ ~Icw(c, w, 4) /\ ~Icw(c, w, 2) /\ Icw(c, w, 3)
    BY DEF Icw1, Icw
  <2>2. d.init = TRUE
    BY <2>1 DEF I8259
  <2>3. d.need4 = TRUE
    BY <2>1 DEF I8259
  <2>4. d.expect = 4
    BY <2>1 DEF I8259
  <2> QED
    BY <2>2, <2>3, <2>4
<1>4. w.op = "data" /\ c.init = TRUE /\ c.need4 = TRUE /\ c.expect = 4 => d.init = FALSE
  BY DEF I8259, Icw1, Icw
<1>5. w.op # "icw1" /\ c.init = FALSE => d.init = FALSE
  BY DEF I8259, Icw1, Icw
<1> HIDE DEF d
<1>6. InitMoves(c, w, d)
  BY <1>1, <1>2, <1>3, <1>4, <1>5 DEF InitMoves
<1> QED
  BY <1>6 DEF d

-----------------------------------------------------------------------------
(* Both chips, the bridge and the CPU.                                       *)

HandlerType == [chip : Chips, lvl : Levels, slaveDone : BOOLEAN, real : BOOLEAN]
CpuType == cpu \in [st : {"run", "inta1", "gap", "inta2"}, boot : 1 .. 9, enabled : BOOLEAN, handlers : Seq(HandlerType)]
BridgeType == /\ bridge.intr \in BOOLEAN /\ bridge.ready \in BOOLEAN /\ bridge.done \in BOOLEAN
              /\ bridge.responded \in BOOLEAN
ChipTypes == ChipType(chip["mas"]) /\ ChipType(chip["sla"])
LineType == line \subseteq Lines /\ owed \subseteq line

\* How far the two chips are initialised.
BootPhase ==
  /\ Booting => cpu.st = "run" /\ cpu.handlers = <<>> /\ cpu.enabled = FALSE
  /\ IF cpu.boot \in 2 .. 4
     THEN chip["mas"].init = TRUE /\ chip["mas"].need4 = TRUE /\ chip["mas"].expect = cpu.boot
     ELSE chip["mas"].init = FALSE
  /\ IF cpu.boot \in 6 .. 8
     THEN chip["sla"].init = TRUE /\ chip["sla"].need4 = TRUE /\ chip["sla"].expect = cpu.boot - 4
     ELSE chip["sla"].init = FALSE

\* The bridge goes with the CPU through the two INTA cycles: it answers each once, and acknowledges the
\* PIC in the second, for one clock.
BridgePhase ==
  /\ cpu.st = "run" => bridge.st = "IDLE" /\ bridge.ready = FALSE
  /\ cpu.st = "inta1" => \/ bridge.ready = FALSE /\ bridge.st = "IDLE" /\ bridge.responded = FALSE
                         \/ bridge.ready = TRUE /\ bridge.st = "INTA1" /\ bridge.responded = TRUE
  /\ cpu.st = "gap" => bridge.ready = FALSE /\ bridge.st = "INTA1"
  /\ cpu.st = "inta2" => \/ bridge.ready = FALSE /\ bridge.st = "INTA2" /\ bridge.responded = FALSE
                         \/ /\ bridge.ready = TRUE /\ bridge.st = "IDLE" /\ bridge.responded = TRUE
                            /\ bridge.din \in Chips \X Levels
  /\ bridge.done = (IF cpu.st = "inta2" /\ bridge.ready = TRUE THEN TRUE ELSE FALSE)

Nesting == Len(cpu.handlers) <= MaxNest /\ (cpu.st # "run" => Len(cpu.handlers) < MaxNest)

TypeInv == LineType /\ ChipTypes /\ CpuType /\ BridgeType /\ BootPhase /\ BridgePhase /\ Nesting

\* The initialisation's writes.
LEMMA BootIs ==
  /\ Len(Boot) = 8
  /\ \A i \in 1 .. 8 : Boot[i][1] = (IF i <= 4 THEN "mas" ELSE "sla")
  /\ \A i \in {1, 5} : Boot[i][2].op = "icw1" /\ Boot[i][2].v.need4 = TRUE /\ Boot[i][2].v.ltim = FALSE
  /\ \A i \in {2, 3, 4, 6, 7, 8} : Boot[i][2].op = "data"
  /\ Boot[4][2].v = FALSE /\ Boot[8][2].v = FALSE
BY DEF Boot

\* The inputs are levels.
LEMMA InputType == MasInput \subseteq Levels /\ SlaInput \subseteq Levels
BY LevelsNat DEF MasInput, SlaInput

\* Both chips are clocked, one of them perhaps with a write.
LEMMA PicEffect ==
  ASSUME NEW to \in Chips, NEW w, Pic(to, w)
  PROVE  /\ chip'["mas"] = I8259(chip["mas"], MasInput, IF to = "mas" THEN w ELSE NoWrite, bridge.done)
         /\ chip'["sla"] = I8259(chip["sla"], SlaInput, IF to = "sla" THEN w ELSE NoWrite, SlaSelect /\ bridge.done)
BY DEF Pic

\* wm, ws: what is written to the master and to the slave in this clock.
ClockWith(wm, ws) ==
  /\ chip'["mas"] = I8259(chip["mas"], MasInput, wm, bridge.done)
  /\ chip'["sla"] = I8259(chip["sla"], SlaInput, ws, SlaSelect /\ bridge.done)

\* Both initialisations move on.
LEMMA ClockInit ==
  ASSUME TypeInv, NEW wm, NEW ws, ClockWith(wm, ws)
  PROVE  InitMoves(chip["mas"], wm, chip'["mas"]) /\ InitMoves(chip["sla"], ws, chip'["sla"])
<1>1. PICK ack \in BOOLEAN : ack = (SlaSelect /\ bridge.done)
  OBVIOUS
<1>2. chip'["sla"] = I8259(chip["sla"], SlaInput, ws, ack)
  BY <1>1 DEF ClockWith
<1>3. chip'["mas"] = I8259(chip["mas"], MasInput, wm, bridge.done) /\ bridge.done \in BOOLEAN
  BY DEF ClockWith, TypeInv, BridgeType
<1> QED
  BY <1>2, <1>3, InitStep

\* Once the CPU runs both chips are initialised.
LEMMA RunningIs ==
  ASSUME TypeInv
  PROVE  ~Booting => /\ cpu.boot = 9 /\ chip["mas"].init = FALSE /\ chip["sla"].init = FALSE
                     /\ Running <=> cpu.st = "run"
<1>1. ~Booting => cpu.boot = 9
  BY BootIs DEF TypeInv, CpuType, Booting
<1>2. cpu.boot = 9 => chip["mas"].init = FALSE /\ chip["sla"].init = FALSE
  BY DEF TypeInv, BootPhase
<1> QED
  BY <1>1, <1>2 DEF Running

\* Software writes masks only, beside the ends of interrupt: the chips stay in fully nested mode.
OnlyMasks == \A x \in Writes : x[2].op = "data"
PlainOps == {"none", "icw1", "data", "eoi"}

\* Every clock is one of both chips; nothing is written during an INTA sequence.
LEMMA StepWrites ==
  ASSUME TypeInv, Next
  PROVE  \E wm, ws : /\ ClockWith(wm, ws) /\ Suits(chip["mas"], wm) /\ Suits(chip["sla"], ws)
                     /\ ~Booting \/ cpu.boot = 8 => wm.op # "icw1" /\ ws.op # "icw1"
                     /\ OnlyMasks => wm.op \in PlainOps /\ ws.op \in PlainOps
                     /\ cpu.st # "run" \/ cpu'.st # "run" => wm = NoWrite /\ ws = NoWrite
<1> DEFINE Good(to, w) == /\ Pic(to, w) /\ to \in Chips /\ Suits(chip[to], w)
                          /\ ~Booting \/ cpu.boot = 8 => w.op # "icw1"
                          /\ OnlyMasks => w.op \in PlainOps
                          /\ cpu.st # "run" \/ cpu'.st # "run" => w = NoWrite
<1>0. /\ NoWrite.op = "none" /\ NoWrite.op \in PlainOps /\ \A c : Suits(c, NoWrite)
      /\ CpuType /\ "mas" \in Chips /\ "sla" \in Chips
  BY DEF NoWrite, Suits, TypeInv, Chips, PlainOps
<1>1. ASSUME NEW to, NEW w, Good(to, w)
      PROVE  \E wm, ws : /\ ClockWith(wm, ws) /\ Suits(chip["mas"], wm) /\ Suits(chip["sla"], ws)
                         /\ ~Booting \/ cpu.boot = 8 => wm.op # "icw1" /\ ws.op # "icw1"
                         /\ OnlyMasks => wm.op \in PlainOps /\ ws.op \in PlainOps
                         /\ cpu.st # "run" \/ cpu'.st # "run" => wm = NoWrite /\ ws = NoWrite
  <2>1. ClockWith(IF to = "mas" THEN w ELSE NoWrite, IF to = "sla" THEN w ELSE NoWrite)
    BY <1>1, PicEffect DEF ClockWith
  <2>2. to = "mas" \/ to = "sla"
    BY <1>1 DEF Chips
  <2>3. CASE to = "mas"
    <3>1. ClockWith(w, NoWrite)
      BY <2>1, <2>3
    <3> QED
      BY <1>0, <1>1, <2>3, <3>1
  <2>4. CASE to = "sla"
    <3>1. ClockWith(NoWrite, w)
      BY <2>1, <2>4
    <3> QED
      BY <1>0, <1>1, <2>4, <3>1
  <2> QED
    BY <2>2, <2>3, <2>4
<1>2. CASE BootWrite
  <2>1. cpu.boot \in 1 .. 8 /\ cpu.st = "run" /\ Booting
    BY <1>0, <1>2, BootIs DEF BootWrite, Booting, TypeInv, BootPhase, CpuType
  <2>2. Pic(Boot[cpu.boot][1], Boot[cpu.boot][2]) /\ cpu'.st = cpu.st
    BY <1>0, <1>2 DEF BootWrite, CpuType
  <2>3. Boot[cpu.boot][1] = (IF cpu.boot <= 4 THEN "mas" ELSE "sla")
    BY <2>1, BootIs
  <2>4. Suits(chip[Boot[cpu.boot][1]], Boot[cpu.boot][2])
    <3>1. CASE cpu.boot \in {1, 5}
      BY <3>1, BootIs DEF Suits
    <3>2. CASE cpu.boot \in 2 .. 4
      <4>1. chip["mas"].init = TRUE /\ chip["mas"].expect = cpu.boot
        BY <3>2 DEF TypeInv, BootPhase
      <4>2. Boot[cpu.boot][2].op = "data" /\ (cpu.boot = 4 => Boot[cpu.boot][2].v = FALSE)
        BY <3>2, BootIs
      <4> QED
        BY <2>3, <3>2, <4>1, <4>2 DEF Suits
    <3>3. CASE cpu.boot \in 6 .. 8
      <4>1. chip["sla"].init = TRUE /\ chip["sla"].expect = cpu.boot - 4
        BY <3>3 DEF TypeInv, BootPhase
      <4>2. Boot[cpu.boot][2].op = "data" /\ (cpu.boot = 8 => Boot[cpu.boot][2].v = FALSE)
        BY <3>3, BootIs
      <4> QED
        BY <2>3, <3>3, <4>1, <4>2 DEF Suits
    <3> QED
      BY <2>1, <3>1, <3>2, <3>3
  <2>6. Boot[cpu.boot][2].op \in PlainOps /\ (cpu.boot = 8 => Boot[cpu.boot][2].op # "icw1")
    BY <2>1, BootIs DEF PlainOps
  <2>5. Good(Boot[cpu.boot][1], Boot[cpu.boot][2])
    BY <1>0, <2>1, <2>2, <2>3, <2>4, <2>6
  <2> HIDE DEF Good
  <2> QED
    BY <1>1, <2>5
<1>3. CASE Pic("mas", NoWrite)
  <2>1. Good("mas", NoWrite)
    BY <1>0, <1>3
  <2> HIDE DEF Good
  <2> QED
    BY <1>1, <2>1
<1>a. Running => chip["mas"].init = FALSE /\ chip["sla"].init = FALSE /\ ~Booting /\ cpu.st = "run"
  BY RunningIs DEF Running
<1>4. CASE SoftwareWrite
  <2>1. PICK x \in Writes : Pic(x[1], x[2])
    BY <1>4 DEF SoftwareWrite
  <2>2. x[1] \in Chips /\ x[2] \in Ocws
    BY WritesAssumption
  <2>3. x[2].op # "icw1"
    BY <2>2 DEF Ocws
  <2>4. Suits(chip[x[1]], x[2])
    BY <1>4, <1>a, <2>2 DEF SoftwareWrite, Suits, Chips
  <2>5. Good(x[1], x[2])
    BY <1>4, <1>a, <2>1, <2>2, <2>3, <2>4 DEF SoftwareWrite, OnlyMasks, PlainOps
  <2> HIDE DEF Good
  <2> QED
    BY <1>1, <2>5
<1>5. CASE EndHandler
  <2>1. Running /\ \E to \in Chips : \E w \in {NoWrite, [op |-> "eoi"]} : Pic(to, w) /\ cpu'.st = cpu.st
    <3>1. Head(cpu.handlers) \in HandlerType /\ cpu.handlers # <<>>
      BY <1>0, <1>5 DEF EndHandler, CpuType
    <3>2. Return.st = cpu.st
      BY <1>0 DEF Return, CpuType
    <3>3. [cpu EXCEPT !.handlers[1].slaveDone = TRUE, !.enabled = FALSE].st = cpu.st
      BY <1>0 DEF CpuType
    <3> QED
      BY <1>0, <1>5, <3>2, <3>3 DEF EndHandler
  <2>2. PICK to \in Chips, w \in {NoWrite, [op |-> "eoi"]} : Pic(to, w) /\ cpu'.st = cpu.st
    BY <2>1
  <2>3. w.op # "icw1" /\ w.op \in PlainOps /\ (w = NoWrite \/ w \in Ocws)
    BY <2>2 DEF NoWrite, Ocws, PlainOps
  <2>4. Suits(chip[to], w)
    BY <1>a, <2>1, <2>2, <2>3 DEF Suits, Chips
  <2>5. Good(to, w)
    BY <1>a, <2>1, <2>2, <2>3, <2>4
  <2> HIDE DEF Good
  <2> QED
    BY <1>1, <2>5
<1> HIDE DEF Good
<1> QED
  BY <1>2, <1>3, <1>4, <1>5 DEF Next, Work, TakeInterrupt, Enable, IntaCycle

\* The vector on offer is a level of one of the chips.
LEMMA VectorType == TypeInv => Vector \in Chips \X Levels
BY DEF TypeInv, ChipTypes, ChipType, Vector, Chips

\* The CPU's next place.
LEMMA CpuMoves ==
  ASSUME TypeInv, Next
  PROVE  /\ cpu.st = "run" => cpu'.st \in {"run", "inta1"}
         /\ cpu.st = "inta1" => cpu'.st = (IF bridge.ready THEN "gap" ELSE "inta1")
         /\ cpu.st = "gap" => cpu'.st = "inta2"
         /\ cpu.st = "inta2" => cpu'.st = (IF bridge.ready THEN "run" ELSE "inta2")
         /\ cpu.st # "run" => IntaCycle
         /\ cpu'.boot = (IF Booting THEN cpu.boot + 1 ELSE cpu.boot) /\ (Booting => BootWrite)
<1>0. CpuType /\ BridgeType
  BY DEF TypeInv
<1>1. CASE cpu.st = "run"
  <2>1. CASE BootWrite \/ Work \/ SoftwareWrite \/ TakeInterrupt \/ Enable
    BY <1>0, <1>1, <2>1 DEF BootWrite, Work, SoftwareWrite, TakeInterrupt, Enable, CpuType, Running
  <2>2. CASE EndHandler
    <3>1. cpu'.st = cpu.st /\ cpu'.boot = cpu.boot
      BY <1>0, <2>2 DEF EndHandler, Return, CpuType
    <3> QED
      BY <1>1, <2>2, <3>1 DEF EndHandler, Running
  <2> QED
    BY <1>1, <2>1, <2>2 DEF Next, IntaCycle
<1>2. CASE cpu.st # "run"
  <2>1. ~Booting
    BY <1>2 DEF TypeInv, BootPhase
  <2>2. IntaCycle
    BY <1>2, <2>1 DEF Next, BootWrite, Work, SoftwareWrite, TakeInterrupt, Enable, EndHandler, Running
  <2> QED
    BY <1>0, <1>2, <2>1, <2>2 DEF IntaCycle, Inta, CpuType, BridgeType
<1> QED
  BY <1>1, <1>2

\* The bridge's next state, by the place of the CPU.
LEMMA BridgeMoves ==
  ASSUME TypeInv, Next
  PROVE  /\ bridge'.intr = chip["mas"].do /\ bridge'.intr \in BOOLEAN
         /\ \/ cpu.st \in {"inta1", "inta2"} /\ bridge.ready = FALSE /\ bridge'.ready = TRUE /\ bridge'.responded = TRUE
               /\ bridge'.st = (IF cpu.st = "inta1" THEN "INTA1" ELSE "IDLE")
               /\ bridge'.done = (IF cpu.st = "inta2" THEN TRUE ELSE FALSE)
               /\ bridge'.din = (IF cpu.st = "inta2" THEN Vector ELSE <<>>)
            \/ /\ cpu.st \notin {"inta1", "inta2"} \/ bridge.ready = TRUE
               /\ bridge'.ready = FALSE /\ bridge'.responded = (IF cpu.st \in {"inta1", "inta2"} THEN TRUE ELSE FALSE)
               /\ bridge'.st = (IF cpu.st = "gap" THEN "INTA2" ELSE IF cpu.st = "inta1" THEN "INTA1" ELSE "IDLE")
               /\ bridge'.done = FALSE /\ bridge'.din = bridge.din
<1>0. bridge' = BridgeStep /\ CpuType /\ BridgeType /\ BridgePhase /\ ChipTypes
  BY DEF Next, Rest, TypeInv
<1>1. bridge'.intr = chip["mas"].do /\ bridge'.intr \in BOOLEAN
  BY <1>0 DEF BridgeStep, ChipTypes, ChipType
<1>2. CASE Inta /\ bridge.responded = FALSE /\ bridge.st # "INTA1"
  BY <1>0, <1>1, <1>2 DEF BridgeStep, Inta, BridgePhase, BridgeType
<1>3. CASE ~(Inta /\ bridge.responded = FALSE /\ bridge.st # "INTA1")
  <2>1. cpu.st \notin {"inta1", "inta2"} \/ bridge.ready = TRUE
    BY <1>0, <1>3 DEF Inta, BridgePhase
  <2>2. bridge'.ready = FALSE /\ bridge'.done = FALSE /\ bridge'.din = bridge.din
    BY <1>0, <1>3 DEF BridgeStep, BridgeType
  <2>3. bridge'.responded = (IF cpu.st \in {"inta1", "inta2"} THEN TRUE ELSE FALSE)
    BY <1>0, <1>3, <2>1 DEF BridgeStep, Inta, BridgePhase, BridgeType
  <2>4. bridge'.st = (IF cpu.st = "gap" THEN "INTA2" ELSE IF cpu.st = "inta1" THEN "INTA1" ELSE "IDLE")
    BY <1>0, <1>3, <2>1 DEF BridgeStep, Inta, BridgePhase, BridgeType, CpuType
  <2> QED
    BY <1>1, <2>1, <2>2, <2>3, <2>4
<1> QED
  BY <1>2, <1>3

\* What the CPU was told is a handler's.
LEMMA DeliveredType ==
  ASSUME TypeInv, cpu.st = "inta2", bridge.ready = TRUE
  PROVE  Delivered \in HandlerType
<1>1. bridge.din \in Chips \X Levels
  BY DEF TypeInv, BridgePhase
<1>2. chip[bridge.din[1]].spurious \in BOOLEAN
  BY <1>1 DEF TypeInv, ChipTypes, ChipType, Chips
<1> QED
  BY <1>1, <1>2 DEF Delivered, HandlerType

\* The CPU's own steps.
LEMMA CpuStep ==
  ASSUME TypeInv, Next
  PROVE  CpuType' /\ Nesting' /\ (Booting' => cpu'.st = "run" /\ cpu'.handlers = <<>> /\ cpu'.enabled = FALSE)
<1>0. CpuType /\ Nesting /\ MaxNest \in Nat /\ Len(cpu.handlers) \in Nat
  BY PicIntaAssumption DEF TypeInv, CpuType
<1>1. CASE BootWrite
  <2>1. cpu.boot \in 1 .. 8 /\ cpu.handlers = <<>> /\ cpu.st = "run"
    BY <1>0, <1>1, BootIs DEF BootWrite, Booting, CpuType, TypeInv, BootPhase
  <2>2. PICK e \in BOOLEAN : e = (cpu.boot = 8)
    OBVIOUS
  <2>a. cpu' = [cpu EXCEPT !.boot = cpu.boot + 1, !.enabled = e]
    BY <1>1, <2>2, BootIs DEF BootWrite
  <2>3. /\ cpu'.boot = cpu.boot + 1 /\ cpu'.enabled = e /\ cpu'.handlers = cpu.handlers /\ cpu'.st = cpu.st
    BY <1>0, <2>1, <2>a DEF CpuType
  <2>b. cpu.boot + 1 \in 1 .. 9
    BY <2>1
  <2>c. CpuType'
    BY <1>0, <2>a, <2>b DEF CpuType
  <2>4. Booting' => cpu'.enabled = FALSE
    <3>1. cpu.boot # 8 => e = FALSE
      BY <2>2
    <3>2. Booting' => cpu.boot # 8
      BY <2>1, <2>3, BootIs DEF Booting
    <3> QED
      BY <2>3, <3>1, <3>2
  <2> QED
    BY <1>0, <2>1, <2>3, <2>4, <2>c DEF Nesting
<1>2. CASE Work \/ SoftwareWrite \/ TakeInterrupt \/ Enable
  <2>1. ~Booting /\ Running
    BY <1>2 DEF Work, SoftwareWrite, TakeInterrupt, Enable, Running
  <2>2. CASE UNCHANGED cpu
    BY <1>0, <2>1, <2>2 DEF CpuType, Nesting, Booting
  <2>3. CASE TakeInterrupt
    BY <1>0, <2>1, <2>3 DEF TakeInterrupt, CpuType, Nesting, Booting
  <2>4. CASE Enable
    BY <1>0, <2>1, <2>4 DEF Enable, CpuType, Nesting, Booting
  <2> QED
    BY <1>2, <2>2, <2>3, <2>4 DEF Work, SoftwareWrite
<1>3. CASE EndHandler
  <2>1. /\ ~Booting /\ cpu.st = "run" /\ cpu.handlers # <<>> /\ cpu.handlers \in Seq(HandlerType)
    BY <1>0, <1>3 DEF EndHandler, Running, CpuType
  <2>2. CASE cpu' = [cpu EXCEPT !.handlers[1].slaveDone = TRUE, !.enabled = FALSE]
    <3> DEFINE h == [cpu.handlers EXCEPT ![1].slaveDone = TRUE]
    <3>1. h \in Seq(HandlerType) /\ Len(h) = Len(cpu.handlers)
      <4>1. cpu.handlers[1] \in HandlerType /\ 1 \in 1 .. Len(cpu.handlers)
        BY <2>1
      <4>2. [cpu.handlers[1] EXCEPT !.slaveDone = TRUE] \in HandlerType
        BY <4>1 DEF HandlerType
      <4>3. h = [cpu.handlers EXCEPT ![1] = [cpu.handlers[1] EXCEPT !.slaveDone = TRUE]]
        OBVIOUS
      <4> QED
        BY <2>1, <4>1, <4>2, <4>3
    <3>2. cpu' = [cpu EXCEPT !.handlers = h, !.enabled = FALSE]
      BY <2>2
    <3> HIDE DEF h
    <3> QED
      BY <1>0, <2>1, <3>1, <3>2 DEF CpuType, Nesting, Booting
  <2>3. CASE cpu' = Return
    <3>1. Tail(cpu.handlers) \in Seq(HandlerType) /\ Len(Tail(cpu.handlers)) = Len(cpu.handlers) - 1
      BY <2>1
    <3> DEFINE h == Tail(cpu.handlers)
    <3>2. cpu' = [cpu EXCEPT !.handlers = h, !.enabled = TRUE]
      BY <2>3 DEF Return
    <3> HIDE DEF h
    <3>3. CpuType' /\ cpu'.handlers = h /\ cpu'.st = "run" /\ cpu'.boot = cpu.boot
      BY <1>0, <2>1, <3>1, <3>2 DEF CpuType, h
    <3>4. Len(h) <= MaxNest
      BY <1>0, <3>1 DEF Nesting, h
    <3> QED
      BY <2>1, <3>3, <3>4 DEF Nesting, Booting
  <2> QED
    BY <1>3, <2>2, <2>3 DEF EndHandler
<1>4. CASE IntaCycle
  <2>1. ~Booting /\ Len(cpu.handlers) < MaxNest
    BY <1>0, <1>4 DEF IntaCycle, TypeInv, BootPhase, Nesting
  <2>2. CASE cpu.st = "inta2" /\ bridge.ready = TRUE
    <3> DEFINE h == <<Delivered>> \o cpu.handlers
    <3>1. cpu' = [cpu EXCEPT !.st = "run", !.enabled = FALSE, !.handlers = h]
      BY <1>4, <2>2 DEF IntaCycle, Inta
    <3>2. h \in Seq(HandlerType) /\ Len(h) = Len(cpu.handlers) + 1
      <4>1. Delivered \in HandlerType /\ cpu.handlers \in Seq(HandlerType)
        BY <1>0, <2>2, DeliveredType DEF CpuType
      <4> QED
        BY <4>1
    <3> HIDE DEF h
    <3>3. CpuType' /\ cpu'.handlers = h /\ cpu'.st = "run" /\ cpu'.boot = cpu.boot
      BY <1>0, <3>1, <3>2 DEF CpuType
    <3> QED
      BY <1>0, <2>1, <3>2, <3>3 DEF Nesting, Booting
  <2>3. CASE ~(cpu.st = "inta2" /\ bridge.ready = TRUE)
    <3>1. bridge.ready \in BOOLEAN
      BY DEF TypeInv, BridgeType
    <3>2. \/ cpu' = [cpu EXCEPT !.st = "inta2"] \/ UNCHANGED cpu \/ cpu' = [cpu EXCEPT !.st = "gap"]
      BY <1>4, <2>3, <3>1 DEF IntaCycle
    <3> QED
      BY <1>0, <2>1, <3>2 DEF CpuType, Nesting, Booting
  <2> QED
    BY <2>2, <2>3
<1> QED
  BY <1>1, <1>2, <1>3, <1>4 DEF Next

\* Every step keeps the types and the phases.
LEMMA TypeNext == TypeInv /\ [Next]_vars => TypeInv'
<1> SUFFICES ASSUME TypeInv, [Next]_vars PROVE TypeInv'
  OBVIOUS
<1>1. CASE Next
  <2>0. PICK wm, ws : /\ ClockWith(wm, ws) /\ Suits(chip["mas"], wm) /\ Suits(chip["sla"], ws)
                      /\ ~Booting => wm.op # "icw1" /\ ws.op # "icw1"
    BY <1>1, StepWrites
  <2>1. LineType'
    BY <1>1 DEF Next, Rest, LineType
  <2>2. ChipTypes'
    BY <2>0, ChipStep, InputType DEF TypeInv, ChipTypes, ClockWith, BridgeType, SlaSelect
  <2>3. CpuType' /\ Nesting' /\ (Booting' => cpu'.st = "run" /\ cpu'.handlers = <<>> /\ cpu'.enabled = FALSE)
    BY <1>1, CpuStep
  <2>4. BridgeType' /\ BridgePhase'
    <3>1. CpuType /\ BridgeType /\ BridgePhase /\ Vector \in Chips \X Levels
      BY VectorType DEF TypeInv
    <3> DEFINE Answers == /\ cpu.st \in {"inta1", "inta2"} /\ bridge.ready = FALSE
                          /\ bridge'.ready = TRUE /\ bridge'.responded = TRUE
                          /\ bridge'.st = (IF cpu.st = "inta1" THEN "INTA1" ELSE "IDLE")
                          /\ bridge'.done = (IF cpu.st = "inta2" THEN TRUE ELSE FALSE)
                          /\ bridge'.din = (IF cpu.st = "inta2" THEN Vector ELSE <<>>)
               Waits == /\ cpu.st \notin {"inta1", "inta2"} \/ bridge.ready = TRUE
                        /\ bridge'.ready = FALSE /\ bridge'.responded = (IF cpu.st \in {"inta1", "inta2"} THEN TRUE ELSE FALSE)
                        /\ bridge'.st = (IF cpu.st = "gap" THEN "INTA2" ELSE IF cpu.st = "inta1" THEN "INTA1" ELSE "IDLE")
                        /\ bridge'.done = FALSE
    <3>2. bridge'.intr \in BOOLEAN /\ (Answers \/ Waits)
      BY <1>1, BridgeMoves
    <3>3. CASE Answers
      <4>1. cpu'.st = cpu.st
        BY <1>1, <3>3, CpuMoves
      <4> QED
        BY <3>1, <3>2, <3>3, <4>1 DEF BridgePhase, CpuType, BridgeType
    <3>4. CASE Waits
      <4>1. /\ cpu.st = "run" => cpu'.st \in {"run", "inta1"}
            /\ cpu.st = "inta1" => cpu'.st = "gap"
            /\ cpu.st = "gap" => cpu'.st = "inta2"
            /\ cpu.st = "inta2" => cpu'.st = "run"
        BY <1>1, <3>4, CpuMoves
      <4> QED
        BY <3>1, <3>2, <3>4, <4>1 DEF BridgePhase, CpuType, BridgeType
    <3> QED
      BY <3>2, <3>3, <3>4
  <2>5. BootPhase'
    <3>1. CASE Booting
      <4>1. /\ cpu.boot \in 1 .. 8 /\ cpu'.boot = cpu.boot + 1 /\ BootWrite
        BY <1>1, <3>1, CpuMoves, BootIs DEF TypeInv, CpuType, Booting
      <4>2. Pic(Boot[cpu.boot][1], Boot[cpu.boot][2])
        BY <4>1 DEF BootWrite
      <4>3. Boot[cpu.boot][1] = (IF cpu.boot <= 4 THEN "mas" ELSE "sla") /\ NoWrite.op = "none"
        BY <4>1, BootIs DEF NoWrite
      <4>4. CASE cpu.boot \in 1 .. 4
        <5>0. ClockWith(Boot[cpu.boot][2], NoWrite)
          BY <4>2, <4>3, <4>4, PicEffect DEF Chips, ClockWith
        <5>1. /\ InitMoves(chip["mas"], Boot[cpu.boot][2], chip'["mas"])
              /\ InitMoves(chip["sla"], NoWrite, chip'["sla"])
          BY <5>0, ClockInit
        <5>2. chip'["sla"].init = FALSE
          <6>1. chip["sla"].init = FALSE
            BY <4>4 DEF TypeInv, BootPhase
          <6> QED
            BY <4>3, <5>1, <6>1 DEF InitMoves
        <5>3. IF cpu.boot < 4 THEN chip'["mas"].init = TRUE /\ chip'["mas"].need4 = TRUE
                                   /\ chip'["mas"].expect = cpu.boot + 1
              ELSE chip'["mas"].init = FALSE
          <6>1. CASE cpu.boot = 1
            <7>1. Boot[cpu.boot][2].op = "icw1" /\ Boot[cpu.boot][2].v.need4 = TRUE
              BY <6>1, BootIs
            <7>2. chip'["mas"].init = TRUE /\ chip'["mas"].need4 = TRUE /\ chip'["mas"].expect = 2
              BY <5>1, <7>1 DEF InitMoves
            <7> QED
              BY <6>1, <7>2
          <6>2. CASE cpu.boot \in 2 .. 4
            <7>1. chip["mas"].init = TRUE /\ chip["mas"].need4 = TRUE /\ chip["mas"].expect = cpu.boot
              BY <6>2 DEF TypeInv, BootPhase
            <7>2. Boot[cpu.boot][2].op = "data"
              BY <6>2, BootIs
            <7>3. /\ chip["mas"].expect = 2 => /\ chip'["mas"].init = TRUE /\ chip'["mas"].need4 = TRUE
                                              /\ chip'["mas"].expect = 3
                  /\ chip["mas"].expect = 3 => /\ chip'["mas"].init = TRUE /\ chip'["mas"].need4 = TRUE
                                              /\ chip'["mas"].expect = 4
                  /\ chip["mas"].expect = 4 => chip'["mas"].init = FALSE
              BY <5>1, <7>1, <7>2 DEF InitMoves
            <7> QED
              BY <6>2, <7>1, <7>3
          <6>3. cpu.boot = 1 \/ cpu.boot \in 2 .. 4
            BY <4>4
          <6> QED
            BY <6>1, <6>2, <6>3, Zenon
        <5> QED
          BY <2>3, <4>1, <4>4, <5>2, <5>3 DEF BootPhase
      <4>5. CASE cpu.boot \in 5 .. 8
        <5>0. ClockWith(NoWrite, Boot[cpu.boot][2])
          BY <4>2, <4>3, <4>5, PicEffect DEF Chips, ClockWith
        <5>1. /\ InitMoves(chip["mas"], NoWrite, chip'["mas"])
              /\ InitMoves(chip["sla"], Boot[cpu.boot][2], chip'["sla"])
          BY <5>0, ClockInit
        <5>2. chip'["mas"].init = FALSE
          <6>1. chip["mas"].init = FALSE
            BY <4>5 DEF TypeInv, BootPhase
          <6> QED
            BY <4>3, <5>1, <6>1 DEF InitMoves
        <5>3. IF cpu.boot < 8 THEN chip'["sla"].init = TRUE /\ chip'["sla"].need4 = TRUE
                                   /\ chip'["sla"].expect = cpu.boot - 3
              ELSE chip'["sla"].init = FALSE
          <6>1. CASE cpu.boot = 5
            <7>1. Boot[cpu.boot][2].op = "icw1" /\ Boot[cpu.boot][2].v.need4 = TRUE
              BY <6>1, BootIs
            <7>2. chip'["sla"].init = TRUE /\ chip'["sla"].need4 = TRUE /\ chip'["sla"].expect = 2
              BY <5>1, <7>1 DEF InitMoves
            <7> QED
              BY <6>1, <7>2
          <6>2. CASE cpu.boot \in 6 .. 8
            <7>1. chip["sla"].init = TRUE /\ chip["sla"].need4 = TRUE /\ chip["sla"].expect = cpu.boot - 4
              BY <6>2 DEF TypeInv, BootPhase
            <7>2. Boot[cpu.boot][2].op = "data"
              BY <6>2, BootIs
            <7>3. /\ chip["sla"].expect = 2 => /\ chip'["sla"].init = TRUE /\ chip'["sla"].need4 = TRUE
                                              /\ chip'["sla"].expect = 3
                  /\ chip["sla"].expect = 3 => /\ chip'["sla"].init = TRUE /\ chip'["sla"].need4 = TRUE
                                              /\ chip'["sla"].expect = 4
                  /\ chip["sla"].expect = 4 => chip'["sla"].init = FALSE
              BY <5>1, <7>1, <7>2 DEF InitMoves
            <7> QED
              BY <6>2, <7>1, <7>3
          <6>3. cpu.boot = 5 \/ cpu.boot \in 6 .. 8
            BY <4>5
          <6> QED
            BY <6>1, <6>2, <6>3, Zenon
        <5> QED
          BY <2>3, <4>1, <4>5, <5>2, <5>3 DEF BootPhase
      <4> QED
        BY <4>1, <4>4, <4>5
    <3>2. CASE ~Booting
      <4>1. cpu'.boot = 9 /\ chip["mas"].init = FALSE /\ chip["sla"].init = FALSE
        BY <1>1, <3>2, CpuMoves, RunningIs
      <4>2. chip'["mas"].init = FALSE /\ chip'["sla"].init = FALSE
        <5>1. wm.op # "icw1" /\ ws.op # "icw1"
          BY <2>0, <3>2
        <5> QED
          BY <2>0, <4>1, <5>1, ClockInit DEF InitMoves
      <4> QED
        BY <2>3, <4>1, <4>2 DEF BootPhase
    <3> QED
      BY <3>1, <3>2
  <2> QED
    BY <2>1, <2>2, <2>3, <2>4, <2>5 DEF TypeInv
<1>2. CASE UNCHANGED vars
  BY <1>2 DEF vars, TypeInv, LineType, ChipTypes, CpuType, BridgeType, BootPhase, BridgePhase, Nesting, Booting
<1> QED
  BY <1>1, <1>2

\* The chips are powered on with everything masked.
LEMMA TypeInit == Init => TypeInv
<1> SUFFICES ASSUME Init PROVE TypeInv
  OBVIOUS
<1>1. chip["mas"] = PowerOn /\ chip["sla"] = PowerOn
  BY DEF Init, Chips
<1>2. ChipTypes
  BY <1>1, LevelsNat DEF ChipTypes, ChipType, PowerOn
<1>3. LineType /\ BridgeType /\ BridgePhase
  BY DEF Init, LineType, BridgeType, BridgePhase
<1>4. CpuType /\ Nesting
  BY PicIntaAssumption DEF Init, CpuType, Nesting
<1>5. BootPhase
  BY <1>1 DEF Init, BootPhase, PowerOn
<1> QED
  BY <1>2, <1>3, <1>4, <1>5 DEF TypeInv

\* The types and the phases hold in every state.
LEMMA TypeAlways == Spec => []TypeInv
BY TypeInit, TypeNext, PTL DEF Spec

\* TypeOK, for any number of levels, any lines and any depth of nesting: the registers of both chips hold
\* levels, the bridge is in one of its three states, and handlers nest no deeper than the bound.
THEOREM PicTypes == Spec => []TypeOK
<1>1. TypeInv => TypeOK
  <2> SUFFICES ASSUME TypeInv PROVE TypeOK
    OBVIOUS
  <2>1. bridge.st \in {"IDLE", "INTA1", "INTA2"}
    BY DEF TypeInv, BridgePhase, CpuType
  <2> QED
    BY <2>1 DEF TypeInv, TypeOK, LineType, ChipTypes, ChipType, Nesting, Chips
<1> QED
  BY <1>1, TypeAlways, PTL

-----------------------------------------------------------------------------
(* The lines stand still during an INTA sequence: the chips come to rest     *)
(* before the vector is taken, the slave first, the master a clock later.    *)

\* irr has followed the inputs.
Stable(c, in) == c.last = in /\ c.irr \subseteq in /\ (c.ltim = TRUE => in \subseteq c.irr)

\* The request and the vector have followed irr.
Settled(c, in) ==
  /\ Stable(c, in)
  /\ c.do = TRUE <=> Irq(c)
  /\ c.do = TRUE => c.vec = IrqValue(c)
  /\ c.do = TRUE => (c.slave = TRUE <=> IrqValue(c) \in c.cascade)

\* Two chips that agree on what is requested, masked, in service and first agree on the request.
LEMMA IrqSame ==
  ASSUME NEW c, NEW d, ChipType(c), d.irr = c.irr, d.isr = c.isr, d.imr = c.imr, d.lowest = c.lowest,
         d.special = c.special
  PROVE  (Irq(d) <=> Irq(c)) /\ IrqValue(d) = IrqValue(c)
<1>1. Selected(d) = Selected(c) /\ Selected(c) \subseteq Levels /\ c.isr \subseteq Levels /\ c.lowest \in Levels
  BY DEF Selected, ChipType
<1>2. First(d, Selected(d)) = First(c, Selected(c)) /\ First(d, d.isr) = First(c, c.isr)
  BY <1>1, FirstSame
<1>3. Irq(d) <=> Irq(c)
  BY <1>1, <1>2 DEF Irq
<1>4. IrqValue(d) = IrqValue(c)
  BY <1>2 DEF IrqValue, AtRank
<1> QED
  BY <1>3, <1>4

\* What a clock without a write and without an acknowledge makes of c.
QuietMoves(c, in, d) ==
  /\ d.last = in /\ d.irr = (c.irr \cap in) \cup (IF c.ltim THEN in ELSE in \ c.last)
  /\ d.isr = c.isr /\ d.imr = c.imr /\ d.lowest = c.lowest /\ d.special = c.special
  /\ d.ltim = c.ltim /\ d.cascade = c.cascade
  /\ d.do = TRUE <=> Irq(c)
  /\ d.vec = (IF Irq(c) \/ c.do THEN IrqValue(c) ELSE c.vec)
  /\ d.slave = TRUE <=> (IF Irq(c) \/ c.do THEN IrqValue(c) \in c.cascade ELSE c.slave)

\* A clock without a write and without an acknowledge.
LEMMA QuietClock ==
  ASSUME NEW c, ChipType(c), NEW in
  PROVE  QuietMoves(c, in, I8259(c, in, NoWrite, FALSE))
<1> DEFINE d == I8259(c, in, NoWrite, FALSE)
<1>1. NoWrite.op = "none"
  BY DEF NoWrite
<1>2. ~Icw1(NoWrite) /\ ~Ocw1(c, NoWrite) /\ ~Icw(c, NoWrite, 3)
  BY <1>1 DEF Icw1, Ocw1, Icw
<1>3. d.last = in /\ d.imr = c.imr /\ d.ltim = c.ltim /\ d.cascade = c.cascade
  BY <1>2 DEF I8259
<1>4. d.irr = (c.irr \cap in) \cup (IF c.ltim THEN in ELSE in \ c.last)
  BY <1>2 DEF I8259, Irr, AckReal
<1>5. d.isr = c.isr /\ d.lowest = c.lowest
  BY <1>1, <1>2 DEF I8259, Isr, Lowest, AckReal
<1>6. d.special = c.special
  BY <1>1, <1>2 DEF I8259, ChipType
<1>7. d.do = TRUE <=> Irq(c)
  BY <1>2 DEF I8259
<1>8. d.vec = (IF Irq(c) \/ c.do THEN IrqValue(c) ELSE c.vec)
  BY <1>2 DEF I8259, Vec
<1>9. d.slave = TRUE <=> (IF Irq(c) \/ c.do THEN IrqValue(c) \in c.cascade ELSE c.slave)
  BY <1>2 DEF I8259
<1> HIDE DEF d
<1>a. QuietMoves(c, in, d)
  BY <1>3, <1>4, <1>5, <1>6, <1>7, <1>8, <1>9 DEF QuietMoves
<1> QED
  BY <1>a DEF d

\* One quiet clock makes a chip stable; with the inputs unchanged the next one settles it, and from then on
\* it stays as it is.
LEMMA QuietSettles ==
  ASSUME NEW c, ChipType(c), NEW in, NEW d, QuietMoves(c, in, d), ChipType(d)
  PROVE  /\ Stable(d, in)
         /\ Stable(c, in) => Settled(d, in)
         /\ Settled(c, in) => d.do = c.do /\ d.vec = c.vec /\ d.slave = c.slave
<1>1. /\ d.last = in /\ d.irr = (c.irr \cap in) \cup (IF c.ltim THEN in ELSE in \ c.last)
      /\ d.isr = c.isr /\ d.imr = c.imr /\ d.lowest = c.lowest /\ d.special = c.special
      /\ d.ltim = c.ltim /\ d.cascade = c.cascade
  BY DEF QuietMoves
<1>2. /\ d.do = TRUE <=> Irq(c)
      /\ d.vec = (IF Irq(c) \/ c.do THEN IrqValue(c) ELSE c.vec)
      /\ d.slave = TRUE <=> (IF Irq(c) \/ c.do THEN IrqValue(c) \in c.cascade ELSE c.slave)
  BY DEF QuietMoves
<1>0. c.do \in BOOLEAN /\ d.do \in BOOLEAN /\ c.slave \in BOOLEAN /\ d.slave \in BOOLEAN /\ c.ltim \in BOOLEAN
  BY DEF ChipType
<1>3. Stable(d, in)
  BY <1>0, <1>1 DEF Stable
<1>4. Stable(c, in) => Settled(d, in)
  <2> HAVE Stable(c, in)
  <2>1. d.irr = c.irr
    BY <1>0, <1>1 DEF Stable
  <2>2. (Irq(d) <=> Irq(c)) /\ IrqValue(d) = IrqValue(c)
    BY <1>1, <2>1, IrqSame
  <2> QED
    BY <1>1, <1>2, <1>3, <2>2 DEF Settled
<1>5. Settled(c, in) => d.do = c.do /\ d.vec = c.vec /\ d.slave = c.slave
  BY <1>0, <1>2 DEF Settled
<1> QED
  BY <1>3, <1>4, <1>5

\* How far the chips have come to rest in an INTA sequence.
Resting ==
  /\ cpu.st = "inta1" /\ bridge.ready = FALSE => Stable(chip["sla"], SlaInput)
  /\ cpu.st = "inta1" /\ bridge.ready = TRUE => Settled(chip["sla"], SlaInput)
  /\ cpu.st = "gap" => Settled(chip["sla"], SlaInput) /\ Stable(chip["mas"], MasInput)
  /\ cpu.st = "inta2" => Settled(chip["sla"], SlaInput) /\ Settled(chip["mas"], MasInput)
  /\ cpu.st = "inta2" /\ bridge.ready = TRUE => bridge.din = Vector

\* With the lines still, every step of the sequence brings the chips to rest.
LEMMA RestingNext ==
  ASSUME FreeLines = FALSE, TypeInv, TypeInv', Resting, Next
  PROVE  Resting'
<1>0. /\ CpuType /\ CpuType' /\ BridgeType /\ BridgeType' /\ BridgePhase /\ BridgePhase'
      /\ ChipType(chip["mas"]) /\ ChipType(chip["sla"]) /\ ChipType(chip'["mas"]) /\ ChipType(chip'["sla"])
  BY DEF TypeInv, ChipTypes
<1>1. CASE cpu.st = "run" /\ cpu'.st = "run"
  BY <1>1 DEF Resting
<1>2. CASE cpu.st = "inta2" /\ bridge.ready = TRUE
  <2>1. cpu'.st = "run"
    BY <1>2, CpuMoves
  <2> QED
    BY <2>1 DEF Resting
<1>3. CASE ~(cpu.st = "run" /\ cpu'.st = "run") /\ ~(cpu.st = "inta2" /\ bridge.ready = TRUE)
  <2>1. line' = line
    BY <1>3 DEF Next, Rest
  <2>2. bridge.done = FALSE
    BY <1>0, <1>3 DEF BridgePhase, BridgeType
  <2>3. ClockWith(NoWrite, NoWrite)
    BY <1>3, StepWrites
  <2>4. /\ chip'["mas"] = I8259(chip["mas"], MasInput, NoWrite, FALSE)
        /\ chip'["sla"] = I8259(chip["sla"], SlaInput, NoWrite, FALSE)
    <3>1. PICK ack \in BOOLEAN : ack = (SlaSelect /\ bridge.done)
      OBVIOUS
    <3>2. ack = FALSE
      BY <2>2, <3>1
    <3>3. chip'["sla"] = I8259(chip["sla"], SlaInput, NoWrite, ack)
      BY <2>3, <3>1 DEF ClockWith
    <3> QED
      BY <2>2, <2>3, <3>2, <3>3 DEF ClockWith
  <2>f. /\ QuietMoves(chip["mas"], MasInput, chip'["mas"])
        /\ QuietMoves(chip["sla"], SlaInput, chip'["sla"])
    BY <1>0, <2>4, QuietClock
  <2>5. /\ Stable(chip'["sla"], SlaInput)
        /\ Stable(chip["sla"], SlaInput) => Settled(chip'["sla"], SlaInput)
        /\ Settled(chip["sla"], SlaInput) => chip'["sla"].do = chip["sla"].do /\ chip'["sla"].vec = chip["sla"].vec
    BY <1>0, <2>f, QuietSettles
  <2>6. /\ Stable(chip'["mas"], MasInput)
        /\ Stable(chip["mas"], MasInput) => Settled(chip'["mas"], MasInput)
        /\ Settled(chip["mas"], MasInput) => chip'["mas"].vec = chip["mas"].vec /\ chip'["mas"].slave = chip["mas"].slave
    BY <1>0, <2>f, QuietSettles
  <2>7. SlaInput' = SlaInput
    BY <2>1 DEF SlaInput
  <2>8. Settled(chip["sla"], SlaInput) => MasInput' = MasInput
    BY <2>1, <2>5 DEF MasInput
  <2>9. \A c, in : Settled(c, in) => Stable(c, in)
    BY DEF Settled
  <2>a. CASE cpu.st = "run"
    <3>1. cpu'.st = "inta1" /\ bridge'.ready = FALSE
      BY <1>1, <1>3, <2>a, CpuMoves, BridgeMoves
    <3> QED
      BY <2>5, <2>7, <3>1 DEF Resting
  <2>b. CASE cpu.st = "inta1" /\ bridge.ready = FALSE
    <3>1. cpu'.st = "inta1" /\ bridge'.ready = TRUE
      BY <2>b, CpuMoves, BridgeMoves
    <3> QED
      BY <2>b, <2>5, <2>7, <3>1 DEF Resting
  <2>c. CASE cpu.st = "inta1" /\ bridge.ready = TRUE
    <3>1. cpu'.st = "gap"
      BY <2>c, CpuMoves
    <3> QED
      BY <2>c, <2>5, <2>6, <2>7, <2>8, <2>9, <3>1 DEF Resting
  <2>d. CASE cpu.st = "gap"
    <3>1. cpu'.st = "inta2" /\ bridge'.ready = FALSE
      BY <2>d, CpuMoves, BridgeMoves
    <3> QED
      BY <2>d, <2>5, <2>6, <2>7, <2>8, <2>9, <3>1 DEF Resting
  <2>e. CASE cpu.st = "inta2" /\ bridge.ready = FALSE
    <3>1. cpu'.st = "inta2" /\ bridge'.ready = TRUE /\ bridge'.din = Vector
      BY <2>e, CpuMoves, BridgeMoves
    <3>2. Vector' = Vector
      BY <2>e, <2>5, <2>6 DEF Resting, Vector, SlaSelect
    <3> QED
      BY <2>e, <2>5, <2>6, <2>7, <2>8, <2>9, <3>1, <3>2 DEF Resting
  <2> QED
    BY <1>0, <1>3, <2>a, <2>b, <2>c, <2>d, <2>e DEF CpuType, BridgeType
<1> QED
  BY <1>1, <1>2, <1>3

\* Resting is inductive with the types, when the lines stand still.
LEMMA RestingAlways ==
  ASSUME FreeLines = FALSE
  PROVE  Spec => []Resting
<1>1. Init => Resting
  BY DEF Init, Resting
<1>2. TypeInv /\ TypeInv' /\ Resting /\ [Next]_vars => Resting'
  <2>1. CASE Next
    BY <2>1, RestingNext
  <2>2. ASSUME Resting, UNCHANGED vars
        PROVE  Resting'
    BY <2>2 DEF vars, Resting, SlaInput, MasInput, Vector, SlaSelect
  <2> QED
    BY <2>1, <2>2
<1> QED
  BY <1>1, <1>2, TypeAlways, PTL DEF Spec

\* VectorAcknowledged, for any number of levels, any lines, any OCWs and any nesting, as long as the lines
\* stand still during the two INTA cycles: the vector the bridge returned is the one the 8259s take for
\* acknowledged in the clock of interrupt_done.
THEOREM VectorSafe ==
  ASSUME FreeLines = FALSE
  PROVE  Spec => []VectorAcknowledged
<1>1. TypeInv /\ Resting => VectorAcknowledged
  BY DEF TypeInv, BridgePhase, BridgeType, Resting, VectorAcknowledged
<1> QED
  BY <1>1, TypeAlways, RestingAlways, PTL

-----------------------------------------------------------------------------
(* No request is lost.                                                       *)

\* What a clock without an ICW1 makes of the request register.
IrrMoves(c, in, ack, d) ==
  /\ d.last = in
  /\ \A l \in in : l \in c.irr \/ l \notin c.last => l \in d.irr \/ (ack = TRUE /\ c.spurious = FALSE /\ l = c.vec)

\* A requested level leaves irr when it is acknowledged, or with its line.
LEMMA IrrClock ==
  ASSUME NEW c, ChipType(c), NEW in, NEW w, w.op # "icw1", NEW ack \in BOOLEAN
  PROVE  IrrMoves(c, in, ack, I8259(c, in, w, ack))
<1> DEFINE d == I8259(c, in, w, ack)
<1>1. d.last = in
  BY DEF I8259
<1>2. d.irr = ((c.irr \cap in) \ (IF AckReal(c, ack) THEN {c.vec} ELSE {}))
              \cup (IF c.ltim THEN in ELSE in \ c.last)
  BY DEF I8259, Irr, Icw1
<1>3. AckReal(c, ack) => ack = TRUE /\ c.spurious = FALSE
  BY DEF AckReal, ChipType
<1> HIDE DEF d
<1>4. IrrMoves(c, in, ack, d)
  BY <1>1, <1>2, <1>3 DEF IrrMoves
<1> QED
  BY <1>4 DEF d

\* NoRequestLost is inductive with the types and the vector that is acknowledged.
LEMMA RequestNext ==
  ASSUME TypeInv, Resting, NoRequestLost, Next
  PROVE  NoRequestLost'
<1> SUFFICES ASSUME NEW x \in owed', x[2] \in chip'[x[1]].last
             PROVE  x[2] \in chip'[x[1]].irr
  BY DEF NoRequestLost
<1>0. /\ BridgePhase /\ BridgeType /\ ChipType(chip["mas"]) /\ ChipType(chip["sla"]) /\ LineType
  BY DEF TypeInv, ChipTypes
<1>1. /\ ~Booting /\ x \in line' /\ x \notin Received /\ (x \in owed \/ x \notin line)
      /\ line' \subseteq Lines /\ owed \subseteq line
  BY <1>0 DEF Next, Rest, LineType
<1>2. PICK wm, ws : ClockWith(wm, ws) /\ wm.op # "icw1" /\ ws.op # "icw1"
  BY <1>1, StepWrites
<1>3. PICK ack \in BOOLEAN : ack = (SlaSelect /\ bridge.done)
  OBVIOUS
<1>4. /\ chip'["mas"] = I8259(chip["mas"], MasInput, wm, bridge.done) /\ bridge.done \in BOOLEAN
      /\ chip'["sla"] = I8259(chip["sla"], SlaInput, ws, ack)
  BY <1>0, <1>2, <1>3 DEF ClockWith, BridgeType
<1>5. /\ IrrMoves(chip["mas"], MasInput, bridge.done, chip'["mas"])
      /\ IrrMoves(chip["sla"], SlaInput, ack, chip'["sla"])
  BY <1>0, <1>2, <1>4, IrrClock
<1>6. x \in Chips \X Levels /\ x # <<"mas", Cascade>>
  BY <1>1, PicIntaAssumption
<1>7. PICK l \in Levels : x = <<"mas", l>> \/ x = <<"sla", l>>
  BY <1>6 DEF Chips
<1>8. bridge.done = TRUE => cpu.st = "inta2" /\ bridge.ready = TRUE /\ bridge.din = Vector
  BY <1>0 DEF BridgePhase, BridgeType, Resting
<1>9. CASE x = <<"mas", l>>
  <2>1. x[1] = "mas" /\ x[2] = l /\ l # Cascade
    BY <1>6, <1>9
  <2>2. l \in MasInput
    BY <1>5, <2>1 DEF IrrMoves
  <2>3. x \in line
    BY <1>9, <2>1, <2>2 DEF MasInput
  <2>4. l \in chip["mas"].irr \/ l \notin chip["mas"].last
    BY <1>1, <2>1, <2>3 DEF NoRequestLost
  <2>5. ASSUME bridge.done = TRUE, chip["mas"].spurious = FALSE, l = chip["mas"].vec
        PROVE  FALSE
    <3>1. Vector = x
      BY <1>9, <2>1, <2>5 DEF Vector, SlaSelect
    <3>2. bridge.din = x /\ bridge.din[1] = "mas"
      BY <1>8, <2>1, <2>5, <3>1
    <3>3. Delivered.real
      BY <2>5, <3>2 DEF Delivered
    <3>4. x \in Received
      BY <1>8, <2>5, <3>2, <3>3 DEF Received
    <3> QED
      BY <1>1, <3>4
  <2> QED
    BY <1>5, <2>1, <2>2, <2>4, <2>5 DEF IrrMoves
<1>a. CASE x = <<"sla", l>>
  <2>1. x[1] = "sla" /\ x[2] = l
    BY <1>a
  <2>2. l \in SlaInput
    BY <1>5, <2>1 DEF IrrMoves
  <2>3. x \in line
    BY <1>a, <2>2 DEF SlaInput
  <2>4. l \in chip["sla"].irr \/ l \notin chip["sla"].last
    BY <1>1, <2>1, <2>3 DEF NoRequestLost
  <2>5. ASSUME ack = TRUE, chip["sla"].spurious = FALSE, l = chip["sla"].vec
        PROVE  FALSE
    <3>0. SlaSelect /\ bridge.done = TRUE
      BY <1>3, <1>4, <2>5
    <3>1. Vector = x
      BY <1>a, <2>5, <3>0 DEF Vector
    <3>2. bridge.din = x /\ bridge.din[1] = "sla"
      BY <1>8, <2>1, <3>0, <3>1
    <3>3. Delivered.real
      BY <2>5, <3>2 DEF Delivered
    <3>4. x \in Received
      BY <1>8, <3>0, <3>2, <3>3 DEF Received
    <3> QED
      BY <1>1, <3>4
  <2> QED
    BY <1>5, <2>1, <2>2, <2>4, <2>5 DEF IrrMoves
<1> QED
  BY <1>7, <1>9, <1>a

\* NoRequestLost, for any number of levels, any lines, any OCWs and any nesting, with the lines still during
\* the INTA cycles: a line that rose and stays high is pending in its chip until the CPU has its vector.
THEOREM RequestSafe ==
  ASSUME FreeLines = FALSE
  PROVE  Spec => []NoRequestLost
<1>1. Init => NoRequestLost
  BY DEF Init, NoRequestLost
<1>2. TypeInv /\ Resting /\ NoRequestLost /\ [Next]_vars => NoRequestLost'
  <2>1. CASE Next
    BY <2>1, RequestNext
  <2>2. ASSUME NoRequestLost, UNCHANGED vars
        PROVE  NoRequestLost'
    BY <2>2 DEF vars, NoRequestLost
  <2> QED
    BY <2>1, <2>2
<1> QED
  BY <1>1, <1>2, TypeAlways, RestingAlways, PTL DEF Spec

-----------------------------------------------------------------------------
(* Fully nested mode: priorities do not rotate and a level is its own place. *)

Plain(c) == c.lowest = N - 1 /\ c.aeoi = FALSE /\ c.special = FALSE

\* Without rotation level 0 comes first and N - 1 last.
LEMMA RankPlain ==
  ASSUME NEW c, c.lowest = N - 1, NEW l \in Levels
  PROVE  Rank(c, l) = l /\ AtRank(c, l) = l
<1>1. N \in Nat \ {0} /\ l \in 0 .. N - 1
  BY PicIntaAssumption DEF Levels
<1>2. l + N - c.lowest - 1 = l /\ c.lowest + l + 1 = l + N
  BY <1>1
<1>3. l % N = l /\ (l + N) % N = l
  BY <1>1
<1> QED
  BY <1>2, <1>3 DEF Rank, AtRank

\* Without rotation the first level is the least.
LEMMA FirstPlain ==
  ASSUME NEW c, c.lowest = N - 1, NEW S, S \subseteq Levels
  PROVE  /\ First(c, S) \in Levels
         /\ S # {} => First(c, S) \in S /\ \A l \in S : First(c, S) <= l
         /\ S = {} => First(c, S) = N - 1
<1>1. c.lowest \in Levels
  BY LevelsNat
<1>2. CASE S = {}
  BY <1>2, LevelsNat DEF First
<1>3. CASE S # {}
  <2>1. /\ First(c, S) \in Levels /\ (\E l \in S : Rank(c, l) = First(c, S))
        /\ \A l \in S : First(c, S) <= Rank(c, l)
    BY <1>1, <1>3, FirstIs
  <2>2. \A l \in S : Rank(c, l) = l
    BY RankPlain
  <2> QED
    BY <1>3, <2>1, <2>2
<1> QED
  BY <1>2, <1>3

\* What interrupts is selected, and comes before everything in service.
LEMMA IrqPlain ==
  ASSUME NEW c, ChipType(c), Plain(c), Irq(c)
  PROVE  IrqValue(c) \in Selected(c) /\ \A k \in c.isr : IrqValue(c) < k
<1>1. /\ Selected(c) \subseteq Levels /\ c.isr \subseteq Levels /\ c.lowest = N - 1 /\ Levels \subseteq Nat
      /\ Selected(c) # {} /\ First(c, Selected(c)) <= First(c, c.isr)
      /\ \A k \in c.isr : k \notin Selected(c)
  BY LevelsNat DEF ChipType, Plain, Selected, Irq
<1>2. First(c, Selected(c)) \in Levels /\ First(c, Selected(c)) \in Selected(c)
  BY <1>1, FirstPlain
<1>3. IrqValue(c) = First(c, Selected(c))
  BY <1>1, <1>2, RankPlain DEF IrqValue
<1>4. First(c, c.isr) \in Levels /\ \A k \in c.isr : First(c, c.isr) <= k
  BY <1>1, FirstPlain
<1>5. \A k \in c.isr : k # IrqValue(c) /\ k \in Nat
  BY <1>1, <1>2, <1>3
<1>6. IrqValue(c) \in Nat /\ First(c, c.isr) \in Nat /\ IrqValue(c) <= First(c, c.isr)
  BY <1>1, <1>2, <1>3, <1>4
<1>7. ASSUME NEW k \in c.isr
      PROVE  IrqValue(c) < k
  <2>1. k \in Nat /\ k # IrqValue(c) /\ First(c, c.isr) <= k
    BY <1>4, <1>5
  <2> QED
    BY <1>6, <2>1
<1> QED
  BY <1>2, <1>3, <1>7

\* What a clock makes of the mode, the request and the in-service register of c.
ServiceMoves(c, w, ack, d) ==
  /\ Plain(d)
  /\ d.spurious = TRUE => d.do = FALSE
  /\ w.op # "icw1" /\ ack = FALSE /\ (c.do = TRUE \/ c.spurious = TRUE) => d.do = TRUE \/ d.spurious = TRUE
  /\ w.op = "icw1" => d.isr = {}
  /\ w.op \in {"none", "data"} /\ ack = FALSE => d.isr = c.isr
  /\ w.op = "none" /\ ack = TRUE => d.isr = (IF c.spurious = TRUE THEN c.isr ELSE c.isr \cup {c.vec})
  /\ w.op = "eoi" => \A l : l \in d.isr <=> l \in c.isr /\ ~(\A k \in c.isr : l <= k)

\* A clock keeps fully nested mode; an end of interrupt takes the first level out of service.
LEMMA ServiceClock ==
  ASSUME NEW c, ChipType(c), Plain(c), NEW in, NEW w, Suits(c, w), w.op \in PlainOps, NEW ack \in BOOLEAN
  PROVE  ServiceMoves(c, w, ack, I8259(c, in, w, ack))
<1> DEFINE d == I8259(c, in, w, ack)
<1>1. Plain(d)
  <2>1. d.lowest = N - 1
    BY DEF I8259, Lowest, Plain, PlainOps
  <2>2. Icw(c, w, 4) => w.v = FALSE
    <3>1. w \in Ocws => c.init = FALSE \/ w = NoWrite \/ w.op = "icw1" \/ (c.expect = 4 => w.v = FALSE)
      BY DEF Suits, NoWrite
    <3> QED
      BY DEF Icw, Suits, NoWrite
  <2>3. d.aeoi = FALSE
    BY <2>2 DEF I8259, Plain
  <2>4. d.special = FALSE
    BY DEF I8259, Plain, PlainOps
  <2> HIDE DEF d
  <2> QED
    BY <2>1, <2>3, <2>4 DEF Plain
<1>2. d.spurious = TRUE => d.do = FALSE
  BY DEF I8259, Spurious
<1>3. w.op # "icw1" /\ ack = FALSE /\ (c.do = TRUE \/ c.spurious = TRUE) => d.do = TRUE \/ d.spurious = TRUE
  BY DEF I8259, Spurious, Icw1
<1>4. w.op = "icw1" => d.isr = {}
  BY DEF I8259, Isr, Icw1
<1>5. w.op \in {"none", "data"} /\ ack = FALSE => d.isr = c.isr
  BY DEF I8259, Isr, Icw1, AckReal
<1>6. w.op = "none" /\ ack = TRUE => d.isr = (IF c.spurious = TRUE THEN c.isr ELSE c.isr \cup {c.vec})
  BY DEF I8259, Isr, Icw1, AckReal, Plain, ChipType
<1>7. w.op = "eoi" => \A l : l \in d.isr <=> l \in c.isr /\ ~(\A k \in c.isr : l <= k)
  <2> HAVE w.op = "eoi"
  <2>1. d.isr = c.isr \ {AtRank(c, First(c, c.isr))}
    BY DEF I8259, Isr, Icw1
  <2>2. c.isr \subseteq Levels /\ c.lowest = N - 1 /\ Levels \subseteq Nat
    BY LevelsNat DEF ChipType, Plain
  <2>3. AtRank(c, First(c, c.isr)) = First(c, c.isr) /\ First(c, c.isr) \in Nat
    BY <2>2, FirstPlain, RankPlain
  <2>4. c.isr # {} => First(c, c.isr) \in c.isr /\ \A k \in c.isr : First(c, c.isr) <= k
    BY <2>2, FirstPlain
  <2> HIDE DEF d
  <2>5. \A l \in c.isr : l = First(c, c.isr) <=> \A k \in c.isr : l <= k
    <3> DEFINE f == First(c, c.isr)
    <3>1. c.isr \subseteq Nat
      BY <2>2
    <3>2. c.isr # {} => f \in c.isr /\ \A k \in c.isr : f <= k
      BY <2>4
    <3> HIDE DEF f
    <3> SUFFICES ASSUME NEW l \in c.isr
                 PROVE  l = f <=> \A k \in c.isr : l <= k
      BY DEF f
    <3>3. f \in c.isr /\ f \in Nat /\ l \in Nat /\ f <= l
      BY <3>1, <3>2
    <3> QED
      BY <3>2, <3>3
  <2> QED
    BY <2>1, <2>3, <2>5
<1> HIDE DEF d
<1>8. ServiceMoves(c, w, ack, d)
  BY <1>1, <1>2, <1>3, <1>4, <1>5, <1>6, <1>7 DEF ServiceMoves
<1> QED
  BY <1>8 DEF d

\* Both chips of a clock.
LEMMA ServiceBoth ==
  ASSUME TypeInv, Plain(chip["mas"]), Plain(chip["sla"]), NEW wm, NEW ws, ClockWith(wm, ws),
         Suits(chip["mas"], wm), Suits(chip["sla"], ws), wm.op \in PlainOps, ws.op \in PlainOps
  PROVE  /\ ServiceMoves(chip["mas"], wm, bridge.done, chip'["mas"])
         /\ \E ack \in BOOLEAN : /\ ack = TRUE <=> SlaSelect /\ bridge.done = TRUE
                                 /\ ServiceMoves(chip["sla"], ws, ack, chip'["sla"])
<1>1. PICK ack \in BOOLEAN : ack = (SlaSelect /\ bridge.done)
  OBVIOUS
<1>2. /\ chip'["sla"] = I8259(chip["sla"], SlaInput, ws, ack) /\ ChipType(chip["sla"])
  BY <1>1 DEF ClockWith, TypeInv, ChipTypes
<1>3. /\ chip'["mas"] = I8259(chip["mas"], MasInput, wm, bridge.done) /\ bridge.done \in BOOLEAN
      /\ ChipType(chip["mas"])
  BY DEF ClockWith, TypeInv, BridgeType, ChipTypes
<1>4. ServiceMoves(chip["mas"], wm, bridge.done, chip'["mas"])
  BY <1>3, ServiceClock
<1>5. ServiceMoves(chip["sla"], ws, ack, chip'["sla"])
  BY <1>2, ServiceClock
<1>6. ack = TRUE <=> SlaSelect /\ bridge.done = TRUE
  BY <1>1, <1>3
<1> QED
  BY <1>4, <1>5, <1>6

\* Both chips are in fully nested mode, and once the CPU answers a request the master either still has it or
\* has noted that it is gone.
Wants == chip["mas"].do = TRUE \/ chip["mas"].spurious = TRUE
Asking ==
  /\ Plain(chip["mas"])
  /\ Plain(chip["sla"])
  /\ chip["mas"].spurious = TRUE => chip["mas"].do = FALSE
  /\ chip["sla"].spurious = TRUE => chip["sla"].do = FALSE
  /\ cpu.st # "run" => Wants
  /\ bridge.intr = TRUE /\ cpu.enabled = TRUE => Wants

\* An interrupt is taken from an enabled CPU that sees intr.
LEMMA TakenIs ==
  ASSUME TypeInv, Next, cpu.st = "run", cpu'.st # "run"
  PROVE  TakeInterrupt
<1>0. CpuType
  BY DEF TypeInv
<1>1. BootWrite => cpu'.st = cpu.st
  BY <1>0 DEF BootWrite, CpuType
<1>2. Work \/ SoftwareWrite \/ Enable => cpu'.st = cpu.st
  BY <1>0 DEF Work, SoftwareWrite, Enable, CpuType
<1>3. EndHandler => cpu'.st = cpu.st
  BY <1>0 DEF EndHandler, Return, CpuType
<1> QED
  BY <1>1, <1>2, <1>3 DEF Next, IntaCycle

\* Every step keeps fully nested mode and does not forget a request the CPU has seen.
LEMMA AskingNext ==
  ASSUME OnlyMasks, TypeInv, TypeInv', Asking, Next
  PROVE  Asking'
<1>0. CpuType /\ CpuType' /\ BridgeType /\ BridgePhase /\ BootPhase' /\ BootPhase
  BY DEF TypeInv
<1>1. PICK wm, ws : /\ ClockWith(wm, ws) /\ Suits(chip["mas"], wm) /\ Suits(chip["sla"], ws)
                    /\ ~Booting \/ cpu.boot = 8 => wm.op # "icw1" /\ ws.op # "icw1"
                    /\ wm.op \in PlainOps /\ ws.op \in PlainOps
  BY StepWrites
<1>2. Plain(chip["mas"]) /\ Plain(chip["sla"])
  BY DEF Asking
<1>3. /\ ServiceMoves(chip["mas"], wm, bridge.done, chip'["mas"])
      /\ \E ack \in BOOLEAN : ServiceMoves(chip["sla"], ws, ack, chip'["sla"])
  BY <1>1, <1>2, ServiceBoth
<1>4. /\ Plain(chip'["mas"]) /\ Plain(chip'["sla"])
      /\ chip'["mas"].spurious = TRUE => chip'["mas"].do = FALSE
      /\ chip'["sla"].spurious = TRUE => chip'["sla"].do = FALSE
  BY <1>3 DEF ServiceMoves
<1>5. wm.op # "icw1" /\ bridge.done = FALSE /\ Wants => Wants'
  BY <1>3 DEF ServiceMoves, Wants
<1>6. cpu'.st # "run" => Wants'
  <2> HAVE cpu'.st # "run"
  <2>1. ~Booting /\ bridge.done = FALSE
    <3>1. ~(cpu.st = "inta2" /\ bridge.ready = TRUE)
      BY CpuMoves
    <3>2. Booting => cpu'.st = "run"
      <4>1. Booting => cpu.st = "run" /\ BootWrite
        BY <1>0, CpuMoves DEF BootPhase
      <4> QED
        BY <1>0, <4>1 DEF BootWrite, CpuType
    <3> QED
      BY <1>0, <3>1, <3>2 DEF BridgePhase, BridgeType
  <2>2. Wants
    <3>1. CASE cpu.st = "run"
      <4>1. TakeInterrupt
        BY <3>1, TakenIs
      <4> QED
        BY <1>0, <4>1 DEF TakeInterrupt, Asking, CpuType, BridgeType
    <3> QED
      BY <3>1 DEF Asking
  <2> QED
    BY <1>1, <1>5, <2>1, <2>2
<1>7. bridge'.intr = TRUE /\ cpu'.enabled = TRUE => Wants'
  <2> HAVE bridge'.intr = TRUE /\ cpu'.enabled = TRUE
  <2>1. Wants
    BY BridgeMoves DEF Wants
  <2>2. ~Booting \/ cpu.boot = 8
    <3>1. ~Booting' /\ cpu'.boot \in 1 .. 9
      BY <1>0 DEF BootPhase, CpuType
    <3>2. Booting => cpu'.boot = cpu.boot + 1 /\ cpu.boot \in 1 .. 9
      BY <1>0, CpuMoves DEF CpuType
    <3> QED
      BY <3>1, <3>2, BootIs DEF Booting
  <2>3. bridge.done = FALSE
    <3>1. cpu.st = "inta2" /\ bridge.ready = TRUE => cpu'.enabled = FALSE
      <4> HAVE cpu.st = "inta2" /\ bridge.ready = TRUE
      <4>1. IntaCycle
        BY CpuMoves
      <4>2. cpu' = [cpu EXCEPT !.st = "run", !.enabled = FALSE, !.handlers = <<Delivered>> \o @]
        BY <4>1 DEF IntaCycle, Inta
      <4> QED
        BY <1>0, <4>2 DEF CpuType
    <3> QED
      BY <1>0, <3>1 DEF BridgePhase, BridgeType
  <2> QED
    BY <1>1, <1>5, <2>1, <2>2, <2>3
<1> QED
  BY <1>4, <1>6, <1>7 DEF Asking

\* Asking holds in every state.
LEMMA AskingAlways ==
  ASSUME OnlyMasks
  PROVE  Spec => []Asking
<1>1. Init => Asking
  <2> SUFFICES ASSUME Init PROVE Asking
    OBVIOUS
  <2>1. chip["mas"] = PowerOn /\ chip["sla"] = PowerOn
    BY DEF Init, Chips
  <2> QED
    BY <2>1 DEF Init, Asking, Plain, PowerOn
<1>2. TypeInv /\ TypeInv' /\ Asking /\ [Next]_vars => Asking'
  <2>1. CASE Next
    BY <2>1, AskingNext
  <2>2. ASSUME Asking, UNCHANGED vars
        PROVE  Asking'
    BY <2>2 DEF vars, Asking, Wants
  <2> QED
    BY <2>1, <2>2
<1> QED
  BY <1>1, <1>2, TypeAlways, PTL DEF Spec

-----------------------------------------------------------------------------
(* The stack of handlers h, innermost first, against the in-service          *)
(* registers mi of the master and si of the slave.                           *)

\* A handler that has a bit in the master's in-service register.
Counted(x) == x.chip = "sla" \/ x.real = TRUE
Open(x) == x.chip = "sla" /\ x.slaveDone = FALSE

Ranked(h, mi, si) ==
  /\ \A l : l \in mi <=> \E i \in 1 .. Len(h) : Counted(h[i]) /\ MasterLevel(h[i]) = l
  /\ \A l : l \in si <=> \E i \in 1 .. Len(h) : Open(h[i]) /\ h[i].lvl = l
  /\ \A i, j \in 1 .. Len(h) : i < j /\ Counted(h[i]) /\ Counted(h[j]) => MasterLevel(h[i]) < MasterLevel(h[j])
  /\ \A i \in 1 .. Len(h) : h[i].chip = "sla" => h[i].real = TRUE

\* g is h with x on top.
Above(g, x, h) ==
  /\ Len(g) = Len(h) + 1 /\ Len(h) \in Nat /\ g[1] = x
  /\ \A i \in 1 .. Len(h) : g[i + 1] = h[i]

\* The places of the longer stack.
LEMMA AbovePlaces ==
  ASSUME NEW g, NEW x, NEW h, Above(g, x, h)
  PROVE  /\ 1 \in 1 .. Len(g) /\ g[1] = x
         /\ \A i \in 1 .. Len(h) : i + 1 \in 1 .. Len(g) /\ g[i + 1] = h[i]
         /\ \A i \in 1 .. Len(g) : i = 1 \/ (i - 1 \in 1 .. Len(h) /\ g[i] = h[i - 1])
<1>1. /\ 1 \in 1 .. Len(g) /\ g[1] = x
      /\ \A i \in 1 .. Len(h) : i + 1 \in 1 .. Len(g) /\ g[i + 1] = h[i]
  BY DEF Above
<1>2. ASSUME NEW i \in 1 .. Len(g), i # 1
      PROVE  i - 1 \in 1 .. Len(h) /\ g[i] = h[i - 1]
  <2>1. i - 1 \in 1 .. Len(h) /\ (i - 1) + 1 = i
    BY <1>2 DEF Above
  <2>2. g[(i - 1) + 1] = h[i - 1]
    BY <2>1 DEF Above
  <2> QED
    BY <2>1, <2>2
<1> QED
  BY <1>1, <1>2

\* A handler on top that the slave does not serve leaves the slave's handlers.
LEMMA AboveOpen ==
  ASSUME NEW g, NEW x, NEW h, Above(g, x, h), ~Open(x), NEW l
  PROVE  (\E i \in 1 .. Len(g) : Open(g[i]) /\ g[i].lvl = l)
         <=> (\E i \in 1 .. Len(h) : Open(h[i]) /\ h[i].lvl = l)
<1>0. /\ g[1] = x
      /\ \A i \in 1 .. Len(h) : i + 1 \in 1 .. Len(g) /\ g[i + 1] = h[i]
      /\ \A i \in 1 .. Len(g) : i = 1 \/ (i - 1 \in 1 .. Len(h) /\ g[i] = h[i - 1])
  BY AbovePlaces
<1>1. ASSUME NEW i \in 1 .. Len(g), Open(g[i]), g[i].lvl = l
      PROVE  \E j \in 1 .. Len(h) : Open(h[j]) /\ h[j].lvl = l
  <2>1. i - 1 \in 1 .. Len(h) /\ g[i] = h[i - 1]
    BY <1>0, <1>1
  <2>2. Open(h[i - 1]) /\ h[i - 1].lvl = l
    BY <1>1, <2>1
  <2> QED
    BY <2>1, <2>2
<1>2. ASSUME NEW i \in 1 .. Len(h), Open(h[i]), h[i].lvl = l
      PROVE  \E j \in 1 .. Len(g) : Open(g[j]) /\ g[j].lvl = l
  <2>1. i + 1 \in 1 .. Len(g) /\ g[i + 1] = h[i]
    BY <1>0
  <2>2. Open(g[i + 1]) /\ g[i + 1].lvl = l
    BY <1>2, <2>1
  <2> QED
    BY <2>1, <2>2
<1> QED
  BY <1>1, <1>2

\* A handler on top that no register knows of changes nothing.
LEMMA RankedSpurious ==
  ASSUME NEW g, NEW x, NEW h, Above(g, x, h), ~Counted(x), NEW mi, NEW si
  PROVE  Ranked(g, mi, si) <=> Ranked(h, mi, si)
<1>0. /\ 1 \in 1 .. Len(g) /\ g[1] = x
      /\ \A i \in 1 .. Len(h) : i + 1 \in 1 .. Len(g) /\ g[i + 1] = h[i]
      /\ \A i \in 1 .. Len(g) : i = 1 \/ (i - 1 \in 1 .. Len(h) /\ g[i] = h[i - 1])
      /\ Len(g) \in Nat /\ Len(h) \in Nat
  <2>1. Len(g) \in Nat /\ Len(h) \in Nat
    BY DEF Above
  <2> QED
    BY <2>1, AbovePlaces
<1>1. ~Open(x) /\ x.chip # "sla"
  BY DEF Counted, Open
<1>2. \A l : (\E i \in 1 .. Len(g) : Counted(g[i]) /\ MasterLevel(g[i]) = l)
             <=> (\E i \in 1 .. Len(h) : Counted(h[i]) /\ MasterLevel(h[i]) = l)
  BY <1>0
<1>3. \A l : (\E i \in 1 .. Len(g) : Open(g[i]) /\ g[i].lvl = l)
             <=> (\E i \in 1 .. Len(h) : Open(h[i]) /\ h[i].lvl = l)
  BY <1>1, AboveOpen
<1>4. ASSUME Ranked(h, mi, si), NEW i \in 1 .. Len(g), NEW j \in 1 .. Len(g), i < j, Counted(g[i]), Counted(g[j])
      PROVE  MasterLevel(g[i]) < MasterLevel(g[j])
  <2>1. i # 1 /\ j # 1
    BY <1>0, <1>4
  <2>2. i - 1 \in 1 .. Len(h) /\ j - 1 \in 1 .. Len(h) /\ g[i] = h[i - 1] /\ g[j] = h[j - 1] /\ i - 1 < j - 1
    BY <1>0, <1>4, <2>1
  <2> QED
    BY <1>4, <2>2 DEF Ranked
<1>5. ASSUME Ranked(g, mi, si), NEW i \in 1 .. Len(h), NEW j \in 1 .. Len(h), i < j, Counted(h[i]), Counted(h[j])
      PROVE  MasterLevel(h[i]) < MasterLevel(h[j])
  <2>1. i + 1 < j + 1
    BY <1>5
  <2>2. i + 1 \in 1 .. Len(g) /\ j + 1 \in 1 .. Len(g) /\ g[i + 1] = h[i] /\ g[j + 1] = h[j]
    BY <1>0
  <2> QED
    BY <1>5, <2>1, <2>2 DEF Ranked
<1>6. (\A i \in 1 .. Len(g) : g[i].chip = "sla" => g[i].real = TRUE)
      <=> (\A i \in 1 .. Len(h) : h[i].chip = "sla" => h[i].real = TRUE)
  BY <1>0, <1>1
<1>7. Ranked(h, mi, si) => Ranked(g, mi, si)
  BY <1>2, <1>3, <1>4, <1>6 DEF Ranked
<1>8. Ranked(g, mi, si) => Ranked(h, mi, si)
  BY <1>2, <1>3, <1>5, <1>6 DEF Ranked
<1> QED
  BY <1>7, <1>8

\* A handler of a level before all in service goes on top.
LEMMA RankedPush ==
  ASSUME NEW g, NEW x, NEW h, Above(g, x, h), Counted(x), NEW mi, NEW si, Ranked(h, mi, si),
         \A k \in mi : MasterLevel(x) < k, x.chip = "sla" => x.real = TRUE /\ x.slaveDone = FALSE
  PROVE  Ranked(g, mi \cup {MasterLevel(x)}, IF x.chip = "sla" THEN si \cup {x.lvl} ELSE si)
<1>0. /\ 1 \in 1 .. Len(g) /\ g[1] = x
      /\ \A i \in 1 .. Len(h) : i + 1 \in 1 .. Len(g) /\ g[i + 1] = h[i]
      /\ \A i \in 1 .. Len(g) : i = 1 \/ (i - 1 \in 1 .. Len(h) /\ g[i] = h[i - 1])
      /\ Len(g) \in Nat /\ Len(h) \in Nat
  <2>1. Len(g) \in Nat /\ Len(h) \in Nat
    BY DEF Above
  <2> QED
    BY <2>1, AbovePlaces
<1>1. x.chip = "sla" <=> Open(x)
  BY DEF Open
<1>2. \A l : l \in mi \cup {MasterLevel(x)}
             <=> \E i \in 1 .. Len(g) : Counted(g[i]) /\ MasterLevel(g[i]) = l
  <2>1. \A l : (\E i \in 1 .. Len(g) : Counted(g[i]) /\ MasterLevel(g[i]) = l)
               <=> l = MasterLevel(x) \/ (\E i \in 1 .. Len(h) : Counted(h[i]) /\ MasterLevel(h[i]) = l)
    BY <1>0
  <2> QED
    BY <2>1 DEF Ranked
<1>3. \A l : l \in (IF x.chip = "sla" THEN si \cup {x.lvl} ELSE si)
             <=> \E i \in 1 .. Len(g) : Open(g[i]) /\ g[i].lvl = l
  <2>1. \A l : (\E i \in 1 .. Len(g) : Open(g[i]) /\ g[i].lvl = l)
               <=> (Open(x) /\ l = x.lvl) \/ (\E i \in 1 .. Len(h) : Open(h[i]) /\ h[i].lvl = l)
    BY <1>0
  <2> QED
    BY <1>1, <2>1 DEF Ranked
<1>4. ASSUME NEW i \in 1 .. Len(g), NEW j \in 1 .. Len(g), i < j, Counted(g[i]), Counted(g[j])
      PROVE  MasterLevel(g[i]) < MasterLevel(g[j])
  <2>1. j - 1 \in 1 .. Len(h) /\ g[j] = h[j - 1]
    BY <1>0, <1>4
  <2>2. CASE i = 1
    <3>1. MasterLevel(h[j - 1]) \in mi
      BY <1>4, <2>1 DEF Ranked
    <3> QED
      BY <1>0, <2>1, <2>2, <3>1
  <2>3. CASE i # 1
    <3>1. i - 1 \in 1 .. Len(h) /\ g[i] = h[i - 1] /\ i - 1 < j - 1
      BY <1>0, <1>4, <2>3
    <3> QED
      BY <1>4, <2>1, <3>1 DEF Ranked
  <2> QED
    BY <2>2, <2>3
<1>5. \A i \in 1 .. Len(g) : g[i].chip = "sla" => g[i].real = TRUE
  BY <1>0 DEF Ranked
<1> QED
  BY <1>2, <1>3, <1>4, <1>5 DEF Ranked

\* The handler on top has the first level in service, and is the only one of its level.
LEMMA RankedTop ==
  ASSUME NEW g, NEW x, NEW h, Above(g, x, h), Counted(x), NEW mi, NEW si, Ranked(g, mi, si),
         \A i \in 1 .. Len(g) : MasterLevel(g[i]) \in Nat
  PROVE  /\ MasterLevel(x) \in mi
         /\ \A k \in mi : MasterLevel(x) <= k
         /\ Open(x) => \A l : l \in si <=> l = x.lvl
         /\ \A i \in 2 .. Len(g) : Counted(g[i]) => MasterLevel(g[i]) # MasterLevel(x)
<1>0. /\ 1 \in 1 .. Len(g) /\ g[1] = x /\ Len(g) \in Nat
      /\ \A i \in 1 .. Len(g) : i = 1 \/ i \in 2 .. Len(g)
  <2>1. Len(g) \in Nat
    BY DEF Above
  <2> QED
    BY <2>1, AbovePlaces
<1>1. MasterLevel(x) \in mi
  BY <1>0 DEF Ranked
<1>2. ASSUME NEW i \in 2 .. Len(g), Counted(g[i])
      PROVE  MasterLevel(x) < MasterLevel(g[i])
  <2>1. i \in 1 .. Len(g) /\ 1 < i
    BY <1>0
  <2> QED
    BY <1>0, <1>2, <2>1 DEF Ranked
<1>3. ASSUME NEW k \in mi
      PROVE  MasterLevel(x) <= k
  <2>1. PICK i \in 1 .. Len(g) : Counted(g[i]) /\ MasterLevel(g[i]) = k
    BY DEF Ranked
  <2>2. CASE i = 1
    BY <1>0, <2>1, <2>2
  <2>3. CASE i # 1
    <3>1. MasterLevel(x) < k /\ MasterLevel(x) \in Nat /\ k \in Nat
      BY <1>0, <1>2, <2>1, <2>3
    <3> QED
      BY <3>1
  <2> QED
    BY <2>2, <2>3
<1>4. ASSUME NEW i \in 2 .. Len(g), Counted(g[i])
      PROVE  MasterLevel(g[i]) # MasterLevel(x)
  <2>1. MasterLevel(x) < MasterLevel(g[i]) /\ MasterLevel(x) \in Nat
    BY <1>0, <1>2, <1>4
  <2> QED
    BY <2>1
<1>5. ASSUME Open(x), NEW l
      PROVE  l \in si <=> l = x.lvl
  <2>1. l = x.lvl => l \in si
    BY <1>0, <1>5 DEF Ranked
  <2>2. ASSUME l \in si
        PROVE  l = x.lvl
    <3>1. PICK i \in 1 .. Len(g) : Open(g[i]) /\ g[i].lvl = l
      BY <2>2 DEF Ranked
    <3>2. i # 1 => FALSE
      <4>1. Counted(g[i]) /\ MasterLevel(g[i]) = Cascade /\ MasterLevel(x) = Cascade
        BY <1>5, <3>1 DEF Open, Counted, MasterLevel
      <4> QED
        BY <1>0, <1>4, <4>1
    <3> QED
      BY <1>0, <3>1, <3>2
  <2> QED
    BY <2>1, <2>2
<1> QED
  BY <1>1, <1>3, <1>4, <1>5

\* When the handler on top goes, its level leaves the master's in-service register.
LEMMA RankedPop ==
  ASSUME NEW g, NEW x, NEW h, Above(g, x, h), Counted(x), ~Open(x), NEW mi, NEW si, Ranked(g, mi, si),
         \A i \in 1 .. Len(g) : MasterLevel(g[i]) \in Nat, NEW mj,
         \A l : l \in mj <=> l \in mi /\ ~(\A k \in mi : l <= k)
  PROVE  Ranked(h, mj, si)
<1>0. /\ 1 \in 1 .. Len(g) /\ g[1] = x
      /\ \A i \in 1 .. Len(h) : i + 1 \in 1 .. Len(g) /\ g[i + 1] = h[i]
      /\ \A i \in 1 .. Len(g) : i = 1 \/ (i - 1 \in 1 .. Len(h) /\ g[i] = h[i - 1])
      /\ Len(g) \in Nat /\ Len(h) \in Nat
  <2>1. Len(g) \in Nat /\ Len(h) \in Nat
    BY DEF Above
  <2> QED
    BY <2>1, AbovePlaces
<1>1. /\ MasterLevel(x) \in mi /\ (\A k \in mi : MasterLevel(x) <= k) /\ MasterLevel(x) \in Nat
      /\ \A i \in 2 .. Len(g) : Counted(g[i]) => MasterLevel(g[i]) # MasterLevel(x)
  BY <1>0, RankedTop
<1>2. mi \subseteq Nat
  BY DEF Ranked
<1>3. ASSUME NEW l
      PROVE  l \in mj <=> l \in mi /\ l # MasterLevel(x)
  <2>1. l \in mi => ((\A k \in mi : l <= k) <=> l = MasterLevel(x))
    <3> HAVE l \in mi
    <3>1. l \in Nat /\ MasterLevel(x) <= l
      BY <1>1, <1>2
    <3>2. l <= MasterLevel(x) => l = MasterLevel(x)
      BY <1>1, <3>1
    <3> QED
      BY <1>1, <3>2
  <2> QED
    BY <2>1
<1>4. \A l : l \in mj <=> \E i \in 1 .. Len(h) : Counted(h[i]) /\ MasterLevel(h[i]) = l
  <2>1. ASSUME NEW l, l \in mj
        PROVE  \E i \in 1 .. Len(h) : Counted(h[i]) /\ MasterLevel(h[i]) = l
    <3>1. l \in mi /\ l # MasterLevel(x)
      BY <1>3, <2>1
    <3>2. PICK i \in 1 .. Len(g) : Counted(g[i]) /\ MasterLevel(g[i]) = l
      BY <3>1 DEF Ranked
    <3>3. i - 1 \in 1 .. Len(h) /\ g[i] = h[i - 1]
      BY <1>0, <3>1, <3>2
    <3> QED
      BY <3>2, <3>3
  <2>2. ASSUME NEW l, NEW i \in 1 .. Len(h), Counted(h[i]), MasterLevel(h[i]) = l
        PROVE  l \in mj
    <3>1. i + 1 \in 2 .. Len(g) /\ i + 1 \in 1 .. Len(g) /\ g[i + 1] = h[i]
      BY <1>0
    <3>2. l \in mi /\ l # MasterLevel(x)
      BY <1>1, <2>2, <3>1 DEF Ranked
    <3> QED
      BY <1>3, <3>2
  <2> QED
    BY <2>1, <2>2
<1>5. \A l : l \in si <=> \E i \in 1 .. Len(h) : Open(h[i]) /\ h[i].lvl = l
  <2>1. \A l : (\E i \in 1 .. Len(g) : Open(g[i]) /\ g[i].lvl = l)
               <=> (\E i \in 1 .. Len(h) : Open(h[i]) /\ h[i].lvl = l)
    BY AboveOpen
  <2> QED
    BY <2>1 DEF Ranked
<1>6. ASSUME NEW i \in 1 .. Len(h), NEW j \in 1 .. Len(h), i < j, Counted(h[i]), Counted(h[j])
      PROVE  MasterLevel(h[i]) < MasterLevel(h[j])
  <2>1. i + 1 < j + 1
    BY <1>6
  <2>2. i + 1 \in 1 .. Len(g) /\ j + 1 \in 1 .. Len(g) /\ g[i + 1] = h[i] /\ g[j + 1] = h[j]
    BY <1>0
  <2> QED
    BY <1>6, <2>1, <2>2 DEF Ranked
<1>7. \A i \in 1 .. Len(h) : h[i].chip = "sla" => h[i].real = TRUE
  BY <1>0 DEF Ranked
<1> QED
  BY <1>4, <1>5, <1>6, <1>7 DEF Ranked

\* When the handler on top has ended its interrupt in the slave, the slave serves nothing.
LEMMA RankedDone ==
  ASSUME NEW g, NEW x, NEW h, Above(g, x, h), Open(x), NEW mi, NEW si, Ranked(g, mi, si),
         \A i \in 1 .. Len(g) : MasterLevel(g[i]) \in Nat, x.lvl \in Nat,
         NEW sj, \A l : l \in sj <=> l \in si /\ ~(\A k \in si : l <= k),
         NEW y, y.chip = x.chip, y.lvl = x.lvl, y.real = x.real, y.slaveDone = TRUE, NEW f, Above(f, y, h)
  PROVE  Ranked(f, mi, sj)
<1>0. /\ 1 \in 1 .. Len(g) /\ g[1] = x /\ f[1] = y /\ Len(f) = Len(g) /\ Len(g) \in Nat
      /\ \A i \in 1 .. Len(g) : i = 1 \/ f[i] = g[i]
  <2>1. Len(f) = Len(g) /\ Len(g) \in Nat
    BY DEF Above
  <2>2. \A i \in 1 .. Len(g) : i = 1 \/ (i - 1 \in 1 .. Len(h) /\ g[i] = h[i - 1])
    BY AbovePlaces
  <2>3. \A i \in 1 .. Len(f) : i = 1 \/ (i - 1 \in 1 .. Len(h) /\ f[i] = h[i - 1])
    BY AbovePlaces
  <2> QED
    BY <2>1, <2>2, <2>3, AbovePlaces
<1>1. Counted(x) /\ Counted(y) /\ MasterLevel(y) = MasterLevel(x) /\ ~Open(y)
  BY DEF Open, Counted, MasterLevel
<1>2. /\ \A l : l \in si <=> l = x.lvl
      /\ \A i \in 2 .. Len(g) : Counted(g[i]) => MasterLevel(g[i]) # MasterLevel(x)
  BY <1>1, RankedTop
<1>3. \A l : l \notin sj
  BY <1>2
<1>4. \A i \in 1 .. Len(g) : (Counted(f[i]) <=> Counted(g[i])) /\ MasterLevel(f[i]) = MasterLevel(g[i])
  BY <1>0, <1>1
<1>5. ASSUME NEW i \in 1 .. Len(f)
      PROVE  ~Open(f[i])
  <2>1. CASE i = 1
    BY <1>0, <1>1, <2>1
  <2>2. CASE i # 1
    <3>1. i \in 2 .. Len(g) /\ f[i] = g[i]
      BY <1>0, <2>2
    <3>2. Open(g[i]) => Counted(g[i]) /\ MasterLevel(g[i]) = Cascade /\ MasterLevel(x) = Cascade
      BY DEF Open, Counted, MasterLevel
    <3> QED
      BY <1>2, <3>1, <3>2
  <2> QED
    BY <2>1, <2>2
<1>6. \A l : l \in mi <=> \E i \in 1 .. Len(f) : Counted(f[i]) /\ MasterLevel(f[i]) = l
  BY <1>0, <1>4 DEF Ranked
<1>7. \A i, j \in 1 .. Len(f) : i < j /\ Counted(f[i]) /\ Counted(f[j]) => MasterLevel(f[i]) < MasterLevel(f[j])
  BY <1>0, <1>4 DEF Ranked
<1>8. \A i \in 1 .. Len(f) : f[i].chip = "sla" => f[i].real = TRUE
  BY <1>0 DEF Ranked
<1> QED
  BY <1>3, <1>5, <1>6, <1>7, <1>8 DEF Ranked

\* The in-service registers and the stack agree as long as no vector has misled the CPU.  Only the handler on
\* top can be of a spurious interrupt: one of the last level of the master that keeps interrupts off.
Odd(x) == x.chip = "mas" /\ x.lvl = N - 1 /\ x.slaveDone = FALSE
Quietly == cpu.st = "run" /\ cpu.enabled = FALSE
OddOnTop == \A i \in 1 .. Len(cpu.handlers) :
              cpu.handlers[i].real = FALSE => i = 1 /\ Odd(cpu.handlers[i]) /\ Quietly
Serving == ~misled => Ranked(cpu.handlers, chip["mas"].isr, chip["sla"].isr) /\ OddOnTop

\* What a write by way of Pic does to the in-service registers.
LEMMA PicServes ==
  ASSUME TypeInv, Asking, NEW to \in Chips, NEW w, Pic(to, w), Suits(chip[to], w), w.op \in PlainOps
  PROVE  \E wm, ws : /\ to = "mas" => wm = w /\ ws = NoWrite
                     /\ to = "sla" => wm = NoWrite /\ ws = w
                     /\ ServiceMoves(chip["mas"], wm, bridge.done, chip'["mas"])
                     /\ \E ack \in BOOLEAN : /\ ack = TRUE <=> SlaSelect /\ bridge.done = TRUE
                                             /\ ServiceMoves(chip["sla"], ws, ack, chip'["sla"])
<1>0. /\ NoWrite.op \in PlainOps /\ (\A c : Suits(c, NoWrite)) /\ Plain(chip["mas"]) /\ Plain(chip["sla"])
  BY DEF NoWrite, Suits, Asking, PlainOps
<1>1. CASE to = "mas"
  <2>1. ClockWith(w, NoWrite)
    BY <1>1, PicEffect DEF ClockWith
  <2>2. /\ ServiceMoves(chip["mas"], w, bridge.done, chip'["mas"])
        /\ \E ack \in BOOLEAN : /\ ack = TRUE <=> SlaSelect /\ bridge.done = TRUE
                                /\ ServiceMoves(chip["sla"], NoWrite, ack, chip'["sla"])
    BY <1>0, <1>1, <2>1, ServiceBoth
  <2> QED
    BY <1>1, <2>2
<1>2. CASE to = "sla"
  <2>1. ClockWith(NoWrite, w)
    BY <1>2, PicEffect DEF ClockWith
  <2>2. /\ ServiceMoves(chip["mas"], NoWrite, bridge.done, chip'["mas"])
        /\ \E ack \in BOOLEAN : /\ ack = TRUE <=> SlaSelect /\ bridge.done = TRUE
                                /\ ServiceMoves(chip["sla"], w, ack, chip'["sla"])
    BY <1>0, <1>2, <2>1, ServiceBoth
  <2> QED
    BY <1>2, <2>2
<1> QED
  BY <1>1, <1>2 DEF Chips

\* What a write to the slave does to the in-service registers.
LEMMA SlaServes ==
  ASSUME TypeInv, Asking, NEW w, Pic("sla", w), Suits(chip["sla"], w), w.op \in PlainOps
  PROVE  /\ ServiceMoves(chip["mas"], NoWrite, bridge.done, chip'["mas"])
         /\ \E ack \in BOOLEAN : ServiceMoves(chip["sla"], w, ack, chip'["sla"])
<1>0. /\ NoWrite.op \in PlainOps /\ (\A c : Suits(c, NoWrite)) /\ Plain(chip["mas"]) /\ Plain(chip["sla"])
  BY DEF NoWrite, Suits, Asking, PlainOps
<1>1. ClockWith(NoWrite, w)
  BY PicEffect DEF ClockWith, Chips
<1> QED
  BY <1>0, <1>1, ServiceBoth

\* Without an acknowledge and an end of interrupt the in-service registers stay, or are cleared by an ICW1.
LEMMA IsrKept ==
  ASSUME TypeInv, Asking, NEW to \in Chips, NEW w, Pic(to, w), Suits(chip[to], w),
         w.op \in {"none", "data", "icw1"}, bridge.done = FALSE
  PROVE  /\ chip'["mas"].isr = chip["mas"].isr \/ (w.op = "icw1" /\ chip'["mas"].isr = {})
         /\ chip'["sla"].isr = chip["sla"].isr \/ (w.op = "icw1" /\ chip'["sla"].isr = {})
<1>1. w.op \in PlainOps /\ NoWrite.op = "none"
  BY DEF PlainOps, NoWrite
<1>2. PICK wm, ws : /\ to = "mas" => wm = w /\ ws = NoWrite
                    /\ to = "sla" => wm = NoWrite /\ ws = w
                    /\ ServiceMoves(chip["mas"], wm, bridge.done, chip'["mas"])
                    /\ \E ack \in BOOLEAN : /\ ack = TRUE <=> SlaSelect /\ bridge.done = TRUE
                                            /\ ServiceMoves(chip["sla"], ws, ack, chip'["sla"])
  BY <1>1, PicServes
<1>3. ServiceMoves(chip["sla"], ws, FALSE, chip'["sla"])
  BY <1>2
<1>4. wm.op \in {"none", w.op} /\ ws.op \in {"none", w.op}
  BY <1>1, <1>2 DEF Chips
<1> QED
  BY <1>2, <1>3, <1>4 DEF ServiceMoves

\* The stack, its top and the rest.
LEMMA StackTypes ==
  ASSUME TypeInv
  PROVE  /\ cpu.handlers \in Seq(HandlerType)
         /\ \A i \in 1 .. Len(cpu.handlers) : /\ cpu.handlers[i] \in HandlerType
                                              /\ MasterLevel(cpu.handlers[i]) \in Nat
                                              /\ cpu.handlers[i].lvl \in Nat
                                              /\ cpu.handlers[i].real \in BOOLEAN
         /\ cpu.handlers # <<>> => /\ Head(cpu.handlers) = cpu.handlers[1] /\ 1 \in 1 .. Len(cpu.handlers)
                                   /\ Above(cpu.handlers, cpu.handlers[1], Tail(cpu.handlers))
<1>1. cpu.handlers \in Seq(HandlerType)
  BY DEF TypeInv, CpuType
<1>2. \A i \in 1 .. Len(cpu.handlers) : cpu.handlers[i] \in HandlerType
  BY <1>1
<1>3. \A x \in HandlerType : MasterLevel(x) \in Nat /\ x.lvl \in Nat /\ x.real \in BOOLEAN
  BY LevelsNat DEF MasterLevel, HandlerType
<1>4. cpu.handlers # <<>> => /\ Head(cpu.handlers) = cpu.handlers[1] /\ 1 \in 1 .. Len(cpu.handlers)
                             /\ Above(cpu.handlers, cpu.handlers[1], Tail(cpu.handlers))
  <2> HAVE cpu.handlers # <<>>
  <2>1. Len(cpu.handlers) \in Nat /\ Len(Tail(cpu.handlers)) = Len(cpu.handlers) - 1 /\ Len(cpu.handlers) # 0
    BY <1>1
  <2>2. \A i \in 1 .. Len(Tail(cpu.handlers)) : Tail(cpu.handlers)[i] = cpu.handlers[i + 1]
    BY <1>1
  <2> QED
    BY <1>1, <2>1, <2>2 DEF Above
<1> QED
  BY <1>1, <1>2, <1>3, <1>4

\* A handler on top knows whether its interrupt was spurious.
LEMMA TopKnows ==
  ASSUME TypeInv, Serving, ~misled, Cascade # N - 1, cpu.handlers # <<>>, NEW x, x = cpu.handlers[1]
  PROVE  /\ x.real = FALSE => SeenSpurious(x)
         /\ x.chip = "mas" /\ x.real = TRUE => ~SeenSpurious(x)
         /\ Open(x) => ~SeenSpurious(x)
<1>0. /\ 1 \in 1 .. Len(cpu.handlers) /\ Above(cpu.handlers, x, Tail(cpu.handlers))
      /\ \A i \in 1 .. Len(cpu.handlers) : /\ MasterLevel(cpu.handlers[i]) \in Nat
                                           /\ cpu.handlers[i].real \in BOOLEAN
      /\ Ranked(cpu.handlers, chip["mas"].isr, chip["sla"].isr) /\ OddOnTop
      /\ x \in HandlerType
  BY StackTypes DEF Serving
<1>1. ASSUME x.real = FALSE
      PROVE  SeenSpurious(x)
  <2>1. x.chip = "mas" /\ x.lvl = N - 1
    BY <1>0, <1>1 DEF OddOnTop, Odd
  <2>2. ASSUME x.lvl \in chip["mas"].isr
        PROVE  Entered(x)
    <3>1. PICK i \in 1 .. Len(cpu.handlers) : Counted(cpu.handlers[i]) /\ MasterLevel(cpu.handlers[i]) = N - 1
      BY <1>0, <2>1, <2>2 DEF Ranked
    <3>2. i # 1
      BY <1>1, <2>1, <3>1 DEF Counted
    <3>3. cpu.handlers[i].chip # "sla" /\ cpu.handlers[i].lvl = N - 1
      BY <3>1 DEF MasterLevel
    <3>4. cpu.handlers[i].chip = "mas"
      BY <3>3, StackTypes DEF HandlerType, Chips
    <3>5. i \in 2 .. Len(cpu.handlers)
      BY <3>1, <3>2
    <3> QED
      BY <2>1, <3>3, <3>4, <3>5 DEF Entered
  <2> QED
    BY <2>1, <2>2 DEF SeenSpurious
<1>2. \A i \in 2 .. Len(cpu.handlers) : cpu.handlers[i].real = TRUE
  BY <1>0 DEF OddOnTop
<1>3. ASSUME x.chip = "mas", x.real = TRUE
      PROVE  ~SeenSpurious(x)
  <2>1. Counted(x) /\ MasterLevel(x) = x.lvl
    BY <1>3 DEF Counted, MasterLevel
  <2>2. /\ MasterLevel(x) \in chip["mas"].isr
        /\ \A i \in 2 .. Len(cpu.handlers) : Counted(cpu.handlers[i]) => MasterLevel(cpu.handlers[i]) # MasterLevel(x)
    BY <1>0, <2>1, RankedTop
  <2>3. ~Entered(x)
    BY <1>2, <1>3, <2>1, <2>2 DEF Entered, Counted, MasterLevel
  <2> QED
    BY <1>3, <2>1, <2>2, <2>3 DEF SeenSpurious
<1>4. ASSUME Open(x)
      PROVE  ~SeenSpurious(x)
  <2>1. Counted(x) /\ MasterLevel(x) = Cascade /\ x.chip = "sla"
    BY <1>4 DEF Counted, MasterLevel, Open
  <2>2. /\ x.lvl \in chip["sla"].isr
        /\ \A i \in 2 .. Len(cpu.handlers) : Counted(cpu.handlers[i]) => MasterLevel(cpu.handlers[i]) # MasterLevel(x)
    BY <1>0, <1>4, <2>1, RankedTop
  <2>3. ~Entered(x)
    BY <2>1, <2>2 DEF Entered, Counted, MasterLevel
  <2> QED
    BY <2>1, <2>2, <2>3 DEF SeenSpurious
<1> QED
  BY <1>1, <1>3, <1>4

\* The end of a handler takes its own level out of service.
LEMMA EndServes ==
  ASSUME TypeInv, Asking, Serving, ~misled, Cascade # N - 1, EndHandler
  PROVE  Ranked(cpu'.handlers, chip'["mas"].isr, chip'["sla"].isr) /\ OddOnTop'
<1> DEFINE h == cpu.handlers
           x == h[1]
           t == Tail(h)
           mi == chip["mas"].isr
           si == chip["sla"].isr
<1>0. /\ h \in Seq(HandlerType) /\ h # <<>> /\ Head(h) = x /\ 1 \in 1 .. Len(h) /\ Above(h, x, t)
      /\ \A i \in 1 .. Len(h) : h[i] \in HandlerType /\ MasterLevel(h[i]) \in Nat /\ h[i].lvl \in Nat /\ h[i].real \in BOOLEAN
      /\ Ranked(h, mi, si) /\ OddOnTop /\ Running
  BY StackTypes DEF Serving, EndHandler
<1>1. CpuType /\ ~Booting /\ cpu.st = "run" /\ bridge.done = FALSE /\ bridge.done \in BOOLEAN
  BY <1>0 DEF TypeInv, Running, BridgePhase, BridgeType
<1>a. chip["mas"].init = FALSE /\ chip["sla"].init = FALSE
  BY <1>1, RunningIs
<1>b. /\ \A c : Suits(c, NoWrite)
      /\ Suits(chip["mas"], [op |-> "eoi"]) /\ Suits(chip["sla"], [op |-> "eoi"])
      /\ "mas" \in Chips /\ "sla" \in Chips /\ NoWrite.op = "none" /\ [op |-> "eoi"].op = "eoi"
      /\ [op |-> "eoi"].op \in PlainOps /\ "none" \in PlainOps
  BY <1>a DEF Suits, NoWrite, Ocws, Chips, PlainOps
<1>c. /\ x.real = FALSE => SeenSpurious(x)
      /\ x.chip = "mas" /\ x.real = TRUE => ~SeenSpurious(x)
      /\ Open(x) => ~SeenSpurious(x)
  BY <1>0, TopKnows
<1>d. \A i \in 2 .. Len(h) : h[i].real = TRUE
  BY <1>0 DEF OddOnTop
<1>e. x.chip = "sla" => x.real = TRUE
  BY <1>0 DEF Ranked
<1>f. x.slaveDone \in BOOLEAN /\ x.chip \in {"mas", "sla"} /\ x.lvl \in Nat /\ x.real \in BOOLEAN
  BY <1>0 DEF HandlerType, Chips
<1>2. CASE x.chip = "sla" /\ x.slaveDone = FALSE
  <2> DEFINE y == [x EXCEPT !.slaveDone = TRUE]
             f == [h EXCEPT ![1] = y]
  <2>1. Open(x) /\ ~SeenSpurious(x) /\ x.real = TRUE
    BY <1>2, <1>c, <1>e DEF Open
  <2>2. Pic("sla", [op |-> "eoi"]) /\ cpu' = [cpu EXCEPT !.handlers[1].slaveDone = TRUE, !.enabled = FALSE]
    BY <1>0, <1>2, <2>1 DEF EndHandler
  <2>3. y.chip = x.chip /\ y.lvl = x.lvl /\ y.real = x.real /\ y.slaveDone = TRUE
    BY <1>0 DEF HandlerType
  <2>4. cpu'.handlers = f
    BY <1>1, <2>2 DEF CpuType
  <2>5. Above(f, y, t)
    <3>1. Len(f) = Len(h) /\ f[1] = y /\ \A i \in 1 .. Len(h) : i # 1 => f[i] = h[i]
      BY <1>0
    <3>2. Len(h) = Len(t) + 1 /\ Len(t) \in Nat /\ \A i \in 1 .. Len(t) : h[i + 1] = t[i]
      BY <1>0 DEF Above
    <3>3. \A i \in 1 .. Len(t) : i + 1 \in 1 .. Len(h) /\ i + 1 # 1
      BY <3>2
    <3> HIDE DEF f, h, t, y
    <3> QED
      BY <3>1, <3>2, <3>3 DEF Above
  <2>11. Pic("sla", [op |-> "eoi"])
    BY <2>2
  <2>6. /\ ServiceMoves(chip["mas"], NoWrite, bridge.done, chip'["mas"])
        /\ \E ack \in BOOLEAN : ServiceMoves(chip["sla"], [op |-> "eoi"], ack, chip'["sla"])
    BY <1>b, <2>11, SlaServes
  <2>7. chip'["mas"].isr = mi
    BY <1>1, <1>b, <2>6 DEF ServiceMoves
  <2>8. \A l : l \in chip'["sla"].isr <=> l \in si /\ ~(\A k \in si : l <= k)
    BY <1>b, <2>6 DEF ServiceMoves
  <2> HIDE DEF f, y, h, t, x, mi, si
  <2>9. Ranked(f, mi, chip'["sla"].isr)
    <3> DEFINE sj == chip'["sla"].isr
    <3>1. \A l : l \in sj <=> l \in si /\ ~(\A k \in si : l <= k)
      BY <2>8
    <3> HIDE DEF sj
    <3>2. /\ Above(h, x, t) /\ Open(x) /\ Ranked(h, mi, si) /\ x.lvl \in Nat
          /\ \A i \in 1 .. Len(h) : MasterLevel(h[i]) \in Nat
      BY <1>0, <1>f, <2>1
    <3>3. Ranked(f, mi, sj)
      BY <2>3, <2>5, <3>1, <3>2, RankedDone
    <3> QED
      BY <3>3 DEF sj
  <2>10. OddOnTop'
    <3>1. ASSUME NEW i \in 1 .. Len(f)
          PROVE  f[i].real = TRUE
      <4>1. Len(f) = Len(h) /\ Len(h) \in Nat
        BY <1>0, <2>5 DEF Above
      <4>2. i = 1 \/ (i \in 2 .. Len(h) /\ f[i] = h[i])
        BY <1>0, <4>1 DEF f
      <4> QED
        BY <1>d, <2>1, <2>3, <2>5, <4>2 DEF Above
    <3> QED
      BY <2>4, <3>1 DEF OddOnTop
  <2> QED
    BY <2>4, <2>7, <2>9, <2>10
<1>3. CASE ~(x.chip = "sla" /\ x.slaveDone = FALSE)
  <2>0. /\ ~Open(x) /\ ~(x.chip = "sla" /\ ~x.slaveDone)
    BY <1>3, <1>f DEF Open
  <2>1. /\ Pic("mas", IF x.chip = "mas" /\ SeenSpurious(x) THEN NoWrite ELSE [op |-> "eoi"])
        /\ cpu' = Return
    BY <1>0, <2>0 DEF EndHandler
  <2>2. cpu'.handlers = t
    BY <1>1, <2>1 DEF Return, CpuType
  <2>3. OddOnTop'
    <3>1. ASSUME NEW i \in 1 .. Len(t)
          PROVE  t[i].real = TRUE
      <4>1. i + 1 \in 2 .. Len(h) /\ h[i + 1] = t[i]
        BY <1>0 DEF Above
      <4> QED
        BY <1>d, <4>1
    <3> HIDE DEF t
    <3> QED
      BY <2>2, <3>1 DEF OddOnTop
  <2>4. CASE x.real = FALSE
    <3>1. x.chip = "mas" /\ SeenSpurious(x) /\ ~Counted(x)
      BY <1>c, <1>e, <1>f, <2>4 DEF Counted
    <3>2. Pic("mas", NoWrite)
      BY <2>1, <3>1
    <3>3. chip'["mas"].isr = mi /\ chip'["sla"].isr = si
      BY <1>1, <1>b, <3>2, IsrKept
    <3> HIDE DEF h, t, x, mi, si
    <3>4. Ranked(t, mi, si)
      BY <1>0, <3>1, RankedSpurious
    <3> QED
      BY <2>2, <2>3, <3>3, <3>4
  <2>5. CASE x.real = TRUE
    <3>1. Counted(x) /\ ~(x.chip = "mas" /\ SeenSpurious(x))
      BY <1>c, <2>5 DEF Counted
    <3>2. Pic("mas", [op |-> "eoi"])
      BY <2>1, <3>1
    <3>3. PICK wm, ws : /\ wm = [op |-> "eoi"] /\ ws = NoWrite
                        /\ ServiceMoves(chip["mas"], wm, bridge.done, chip'["mas"])
                        /\ \E ack \in BOOLEAN : /\ ack = TRUE <=> SlaSelect /\ bridge.done = TRUE
                                                /\ ServiceMoves(chip["sla"], ws, ack, chip'["sla"])
      BY <1>b, <3>2, PicServes
    <3>4. \A l : l \in chip'["mas"].isr <=> l \in mi /\ ~(\A k \in mi : l <= k)
      BY <1>b, <3>3 DEF ServiceMoves
    <3>5. chip'["sla"].isr = si
      <4>1. ServiceMoves(chip["sla"], ws, FALSE, chip'["sla"])
        BY <1>1, <3>3
      <4> QED
        BY <1>b, <3>3, <4>1 DEF ServiceMoves
    <3> HIDE DEF h, t, x, mi, si
    <3>6. Ranked(t, chip'["mas"].isr, si)
      BY <1>0, <2>0, <3>1, <3>4, RankedPop
    <3> QED
      BY <2>2, <2>3, <3>5, <3>6
  <2> QED
    BY <1>f, <2>4, <2>5
<1> QED
  BY <1>2, <1>3

\* A delivered vector puts the handler on the stack and its level in service, or is spurious and does neither
\* to the registers.
LEMMA DeliveryServes ==
  ASSUME TypeInv, Asking, Resting, Serving, ~misled, ~Misleads, Cascade # N - 1, IntaCycle,
         cpu.st = "inta2", bridge.ready = TRUE
  PROVE  Ranked(cpu'.handlers, chip'["mas"].isr, chip'["sla"].isr) /\ OddOnTop'
<1> DEFINE h == cpu.handlers
           x == Delivered
           g == <<x>> \o h
           m == chip["mas"]
           s == chip["sla"]
<1>0. /\ CpuType /\ ChipType(m) /\ ChipType(s) /\ x \in HandlerType /\ h \in Seq(HandlerType)
      /\ Ranked(h, m.isr, s.isr) /\ OddOnTop /\ bridge.done = TRUE /\ bridge.done \in BOOLEAN
  BY DeliveredType DEF TypeInv, ChipTypes, CpuType, Serving, BridgePhase, BridgeType
<1>1. cpu' = [cpu EXCEPT !.st = "run", !.enabled = FALSE, !.handlers = g] /\ Pic("mas", NoWrite)
  BY DEF IntaCycle, Inta
<1>2. cpu'.handlers = g /\ cpu'.st = "run" /\ cpu'.enabled = FALSE
  BY <1>0, <1>1 DEF CpuType
<1>3. Above(g, x, h)
  BY <1>0 DEF Above
<1>4. \A i \in 1 .. Len(h) : h[i].real = TRUE
  BY <1>0, StackTypes DEF OddOnTop, Quietly
<1>5. /\ Settled(s, SlaInput) /\ Settled(m, MasInput) /\ bridge.din = Vector
  BY DEF Resting
<1>6. /\ Plain(m) /\ Plain(s)
      /\ m.spurious = TRUE => m.do = FALSE
      /\ s.spurious = TRUE => s.do = FALSE
      /\ m.do = TRUE \/ m.spurious = TRUE
  BY DEF Asking, Wants
<1>7. /\ ServiceMoves(m, NoWrite, TRUE, chip'["mas"])
      /\ \E ack \in BOOLEAN : /\ ack = TRUE <=> SlaSelect
                              /\ ServiceMoves(s, NoWrite, ack, chip'["sla"])
  <2>1. /\ NoWrite.op \in PlainOps /\ \A c : Suits(c, NoWrite)
    BY DEF NoWrite, Suits, PlainOps
  <2>2. ClockWith(NoWrite, NoWrite)
    BY <1>1, PicEffect DEF ClockWith, Chips
  <2> QED
    BY <1>0, <1>6, <2>1, <2>2, ServiceBoth
<1>8. /\ x.chip = Vector[1] /\ x.lvl = Vector[2] /\ x.slaveDone = FALSE
      /\ x.real = TRUE <=> chip[Vector[1]].spurious = FALSE
  <2>1. chip[Vector[1]].spurious \in BOOLEAN
    BY <1>0 DEF Vector, ChipType
  <2> QED
    BY <1>0, <1>5, <2>1 DEF Delivered, HandlerType
<1>9. NoWrite.op = "none"
  BY DEF NoWrite
<1>a. /\ chip'["mas"].isr = (IF m.spurious = TRUE THEN m.isr ELSE m.isr \cup {m.vec})
      /\ SlaSelect => chip'["sla"].isr = (IF s.spurious = TRUE THEN s.isr ELSE s.isr \cup {s.vec})
      /\ ~SlaSelect => chip'["sla"].isr = s.isr
  BY <1>7, <1>9 DEF ServiceMoves
<1> HIDE DEF g, h, x
<1>b. CASE m.spurious = TRUE
  <2>1. m.vec = N - 1
    BY <1>b DEF Misleads
  <2>2. ~SlaSelect
    BY <2>1 DEF SlaSelect
  <2>3. Vector = <<"mas", N - 1>>
    BY <2>1, <2>2 DEF Vector
  <2>4. x.chip = "mas" /\ x.lvl = N - 1 /\ x.real # TRUE
    BY <1>8, <1>b, <2>3
  <2>5. ~Counted(x)
    BY <2>4 DEF Counted
  <2>6. Ranked(g, m.isr, s.isr)
    BY <1>0, <1>3, <2>5, RankedSpurious
  <2>7. OddOnTop'
    <3>1. ASSUME NEW i \in 1 .. Len(g), g[i].real = FALSE
          PROVE  i = 1 /\ Odd(g[i])
      <4>1. i = 1 \/ (i - 1 \in 1 .. Len(h) /\ g[i] = h[i - 1])
        BY <1>3, AbovePlaces
      <4>2. i = 1
        BY <1>4, <3>1, <4>1
      <4> QED
        BY <1>3, <1>8, <2>4, <4>2 DEF Above, Odd
    <3> QED
      BY <1>2, <3>1 DEF OddOnTop, Quietly
  <2> QED
    BY <1>2, <1>a, <1>b, <2>2, <2>6, <2>7
<1>c. CASE m.spurious # TRUE
  <2>1. Irq(m) /\ m.vec = IrqValue(m)
    BY <1>5, <1>6, <1>c DEF Settled
  <2>2. m.vec \in Selected(m) /\ \A k \in m.isr : m.vec < k
    BY <1>0, <1>6, <2>1, IrqPlain
  <2>3. MasterLevel(x) = m.vec /\ Counted(x) /\ x.real = TRUE
    <3>1. CASE SlaSelect
      <4>1. m.vec = Cascade /\ Vector = <<"sla", s.vec>>
        BY <3>1 DEF SlaSelect, Vector
      <4>2. Cascade \in MasInput
        BY <1>5, <2>2, <4>1 DEF Settled, Stable, Selected
      <4>3. s.do = TRUE
        <5>1. <<"mas", Cascade>> \notin line
          BY PicIntaAssumption DEF TypeInv, LineType
        <5> QED
          BY <1>0, <4>2, <5>1 DEF MasInput, ChipType
      <4>4. s.spurious = FALSE
        BY <1>0, <1>6, <4>3 DEF ChipType
      <4> QED
        BY <1>8, <4>1, <4>4 DEF MasterLevel, Counted
    <3>2. CASE ~SlaSelect
      <4>1. Vector = <<"mas", m.vec>>
        BY <3>2 DEF Vector
      <4>2. m.spurious = FALSE
        BY <1>0, <1>c DEF ChipType
      <4> QED
        BY <1>8, <4>1, <4>2 DEF MasterLevel, Counted
    <3> QED
      BY <3>1, <3>2
  <2>4. /\ SlaSelect => x.chip = "sla" /\ x.lvl = s.vec /\ s.spurious # TRUE
        /\ ~SlaSelect => x.chip = "mas"
    BY <1>8, <2>3 DEF Vector
  <2>5. Ranked(g, m.isr \cup {MasterLevel(x)}, IF x.chip = "sla" THEN s.isr \cup {x.lvl} ELSE s.isr)
    <3>1. /\ \A k \in m.isr : MasterLevel(x) < k
          /\ x.chip = "sla" => x.real = TRUE /\ x.slaveDone = FALSE
      BY <1>8, <2>2, <2>3
    <3> QED
      BY <1>0, <1>3, <2>3, <3>1, RankedPush
  <2>6. /\ chip'["mas"].isr = m.isr \cup {MasterLevel(x)}
        /\ chip'["sla"].isr = (IF x.chip = "sla" THEN s.isr \cup {x.lvl} ELSE s.isr)
    BY <1>a, <1>c, <2>3, <2>4
  <2>7. OddOnTop'
    <3>1. ASSUME NEW i \in 1 .. Len(g)
          PROVE  g[i].real = TRUE
      <4>1. i = 1 \/ (i - 1 \in 1 .. Len(h) /\ g[i] = h[i - 1])
        BY <1>3, AbovePlaces
      <4> QED
        BY <1>3, <1>4, <2>3, <4>1 DEF Above
    <3> QED
      BY <1>2, <3>1 DEF OddOnTop
  <2> QED
    BY <1>2, <2>5, <2>6, <2>7
<1> QED
  BY <1>b, <1>c

\* Serving is inductive with the types, the mode and the rest before a vector.
LEMMA ServingNext ==
  ASSUME OnlyMasks, Cascade # N - 1, TypeInv, Asking, Resting, Serving, Next
  PROVE  Serving'
<1> SUFFICES ASSUME ~misled, ~Misleads
             PROVE  Ranked(cpu'.handlers, chip'["mas"].isr, chip'["sla"].isr) /\ OddOnTop'
  BY DEF Serving, Next, Rest
<1>0. /\ CpuType /\ BridgeType /\ BridgePhase /\ BootPhase /\ OddOnTop
      /\ Ranked(cpu.handlers, chip["mas"].isr, chip["sla"].isr)
      /\ NoWrite.op = "none" /\ (\A c : Suits(c, NoWrite)) /\ "mas" \in Chips /\ "sla" \in Chips
  BY DEF TypeInv, Serving, NoWrite, Suits, Chips
<1>1. cpu.st = "run" => bridge.done = FALSE
  BY <1>0 DEF BridgePhase
\* As long as nothing is acknowledged or ended and the stack stays, only a handler's being on top matters.
<1>2. ASSUME Pic("mas", NoWrite), bridge.done = FALSE, cpu'.handlers = cpu.handlers
      PROVE  Ranked(cpu'.handlers, chip'["mas"].isr, chip'["sla"].isr)
  <2>1. chip'["mas"].isr = chip["mas"].isr /\ chip'["sla"].isr = chip["sla"].isr
    BY <1>0, <1>2, IsrKept
  <2> QED
    BY <1>0, <1>2, <2>1
<1>3. ASSUME cpu.st # "run" \/ cpu.enabled = TRUE
      PROVE  \A i \in 1 .. Len(cpu.handlers) : cpu.handlers[i].real # FALSE
  BY <1>0, <1>3 DEF OddOnTop, Quietly
<1>4. CASE BootWrite
  <2>1. /\ cpu.boot \in 1 .. 8 /\ cpu.handlers = <<>> /\ bridge.done = FALSE
        /\ Pic(Boot[cpu.boot][1], Boot[cpu.boot][2]) /\ cpu'.handlers = <<>>
    BY <1>0, <1>1, <1>4, BootIs DEF BootWrite, Booting, BootPhase, CpuType
  <2>2. \A l : l \notin chip["mas"].isr /\ l \notin chip["sla"].isr
    BY <1>0, <2>1 DEF Ranked
  <2>3. Boot[cpu.boot][2].op \in {"data", "icw1"} /\ Boot[cpu.boot][1] = (IF cpu.boot <= 4 THEN "mas" ELSE "sla")
    BY <2>1, BootIs
  <2>4. Suits(chip[Boot[cpu.boot][1]], Boot[cpu.boot][2])
    <3>1. CASE cpu.boot \in {1, 5}
      BY <3>1, BootIs DEF Suits
    <3>2. CASE cpu.boot \in 2 .. 4
      <4>1. chip["mas"].init = TRUE /\ chip["mas"].expect = cpu.boot
        BY <1>0, <3>2 DEF BootPhase
      <4>2. Boot[cpu.boot][2].op = "data" /\ (cpu.boot = 4 => Boot[cpu.boot][2].v = FALSE)
        BY <3>2, BootIs
      <4> QED
        BY <2>3, <3>2, <4>1, <4>2 DEF Suits
    <3>3. CASE cpu.boot \in 6 .. 8
      <4>1. chip["sla"].init = TRUE /\ chip["sla"].expect = cpu.boot - 4
        BY <1>0, <3>3 DEF BootPhase
      <4>2. Boot[cpu.boot][2].op = "data" /\ (cpu.boot = 8 => Boot[cpu.boot][2].v = FALSE)
        BY <3>3, BootIs
      <4> QED
        BY <2>3, <3>3, <4>1, <4>2 DEF Suits
    <3> QED
      BY <2>1, <3>1, <3>2, <3>3
  <2>5. /\ chip'["mas"].isr = chip["mas"].isr \/ chip'["mas"].isr = {}
        /\ chip'["sla"].isr = chip["sla"].isr \/ chip'["sla"].isr = {}
    <3>1. Boot[cpu.boot][1] \in Chips /\ Boot[cpu.boot][2].op \in {"none", "data", "icw1"}
      BY <1>0, <2>3
    <3> QED
      BY <2>1, <2>4, <3>1, IsrKept
  <2>6. \A l : l \notin chip'["mas"].isr /\ l \notin chip'["sla"].isr
    BY <2>2, <2>5
  <2> QED
    BY <2>1, <2>6 DEF Ranked, OddOnTop
<1>5. CASE Work
  <2>1. OddOnTop'
    BY <1>0, <1>5 DEF Work, OddOnTop, Quietly
  <2> QED
    BY <1>1, <1>2, <1>5, <2>1 DEF Work, Running
<1>6. CASE SoftwareWrite
  <2>1. PICK x \in Writes : Pic(x[1], x[2])
    BY <1>6 DEF SoftwareWrite
  <2>2. x[1] \in Chips /\ x[2] \in Ocws /\ x[2].op = "data"
    BY WritesAssumption DEF OnlyMasks
  <2>3. Running /\ ~Booting /\ cpu.st = "run" /\ cpu' = cpu
    BY <1>6 DEF SoftwareWrite, Running
  <2>4. Suits(chip[x[1]], x[2])
    BY <2>2, <2>3, RunningIs DEF Suits, Chips
  <2>5. chip'["mas"].isr = chip["mas"].isr /\ chip'["sla"].isr = chip["sla"].isr
    BY <1>1, <2>1, <2>2, <2>3, <2>4, IsrKept
  <2>6. OddOnTop'
    BY <1>0, <2>3 DEF OddOnTop, Quietly
  <2> QED
    BY <1>0, <2>3, <2>5, <2>6
<1>7. CASE TakeInterrupt
  <2>1. cpu'.handlers = cpu.handlers /\ cpu.enabled = TRUE /\ cpu.st = "run" /\ Pic("mas", NoWrite)
    BY <1>0, <1>7 DEF TakeInterrupt, CpuType, Running
  <2>2. OddOnTop'
    BY <1>3, <2>1 DEF OddOnTop
  <2> QED
    BY <1>1, <1>2, <2>1, <2>2
<1>8. CASE Enable
  <2>1. cpu'.handlers = cpu.handlers /\ cpu.st = "run" /\ Pic("mas", NoWrite)
    BY <1>0, <1>8 DEF Enable, CpuType, Running
  <2>2. ASSUME NEW i \in 1 .. Len(cpu.handlers), cpu.handlers[i].real = FALSE
        PROVE  FALSE
    <3>1. i = 1 /\ Odd(cpu.handlers[i])
      BY <1>0, <2>2 DEF OddOnTop
    <3>2. cpu.handlers # <<>>
      <4>1. Len(cpu.handlers) # 0
        BY <2>2
      <4> QED
        BY <4>1
    <3>3. Head(cpu.handlers) = cpu.handlers[1]
      BY <3>2, StackTypes
    <3>4. SeenSpurious(cpu.handlers[1])
      BY <2>2, <3>1, <3>2, TopKnows
    <3>5. cpu.handlers[1].slaveDone = FALSE
      BY <3>1 DEF Odd
    <3>6. cpu.handlers[1].slaveDone \/ ~SeenSpurious(cpu.handlers[1])
      BY <1>8, <3>3 DEF Enable
    <3> QED
      BY <3>4, <3>5, <3>6
  <2>3. OddOnTop'
    BY <2>1, <2>2 DEF OddOnTop
  <2> QED
    BY <1>1, <1>2, <2>1, <2>3
<1>9. CASE EndHandler
  BY <1>9, EndServes
<1>a. CASE IntaCycle
  <2>1. cpu.st # "run" /\ Pic("mas", NoWrite)
    BY <1>a DEF IntaCycle
  <2>2. CASE cpu.st = "inta2" /\ bridge.ready = TRUE
    BY <1>a, <2>2, DeliveryServes
  <2>3. CASE ~(cpu.st = "inta2" /\ bridge.ready = TRUE)
    <3>1. bridge.done = FALSE
      BY <1>0, <2>3 DEF BridgePhase
    <3>2. cpu'.handlers = cpu.handlers
      BY <1>0, <1>a, <2>3 DEF IntaCycle, CpuType, BridgeType
    <3>3. OddOnTop'
      BY <1>3, <2>1, <3>2 DEF OddOnTop
    <3> QED
      BY <1>2, <2>1, <3>1, <3>2, <3>3
  <2> QED
    BY <2>2, <2>3
<1> QED
  BY <1>4, <1>5, <1>6, <1>7, <1>8, <1>9, <1>a DEF Next

\* Serving holds in every state.
LEMMA ServingAlways ==
  ASSUME FreeLines = FALSE, OnlyMasks, Cascade # N - 1
  PROVE  Spec => []Serving
<1>1. Init => Serving
  <2> SUFFICES ASSUME Init PROVE Serving
    OBVIOUS
  <2>1. chip["mas"].isr = {} /\ chip["sla"].isr = {} /\ cpu.handlers = <<>>
    BY DEF Init, Chips, PowerOn
  <2> QED
    BY <2>1 DEF Serving, Ranked, OddOnTop
<1>2. TypeInv /\ Asking /\ Resting /\ Serving /\ [Next]_vars => Serving'
  <2>1. CASE Next
    BY <2>1, ServingNext
  <2>2. ASSUME Serving, UNCHANGED vars
        PROVE  Serving'
    BY <2>2 DEF vars, Serving, OddOnTop, Quietly
  <2> QED
    BY <2>1, <2>2
<1> QED
  BY <1>1, <1>2, TypeAlways, AskingAlways, RestingAlways, PTL DEF Spec

\* ServiceMatchesHandlers, for any number of levels, any lines and any depth of nesting, in fully nested mode
\* and with the lines still during the INTA cycles: unless a spurious vector has named a level that waits
\* behind a running handler, the in-service registers name exactly the handlers the CPU runs.
THEOREM ServiceSafe ==
  ASSUME FreeLines = FALSE, OnlyMasks, Cascade # N - 1
  PROVE  Spec => []ServiceMatchesHandlers
<1>1. TypeInv /\ Serving => ServiceMatchesHandlers
  <2> SUFFICES ASSUME TypeInv, Serving, ~Booting, ~misled
               PROVE  /\ chip["mas"].isr = {MasterLevel(x) : x \in {y \in Handlers : y.chip = "sla" \/ y.real}}
                      /\ chip["sla"].isr = {x.lvl : x \in {y \in Handlers : y.chip = "sla" /\ y.real /\ ~y.slaveDone}}
    BY DEF ServiceMatchesHandlers
  <2>1. /\ Ranked(cpu.handlers, chip["mas"].isr, chip["sla"].isr)
        /\ \A i \in 1 .. Len(cpu.handlers) : cpu.handlers[i] \in HandlerType
    BY StackTypes DEF Serving
  <2>2. \A x \in Handlers : x.real \in BOOLEAN /\ x.slaveDone \in BOOLEAN /\ (x.chip = "sla" => x.real = TRUE)
    BY <2>1 DEF Handlers, HandlerType, Ranked
  <2>3. \A l : l \in chip["mas"].isr <=> \E x \in Handlers : Counted(x) /\ MasterLevel(x) = l
    BY <2>1 DEF Ranked, Handlers
  <2>4. \A l : l \in chip["sla"].isr <=> \E x \in Handlers : Open(x) /\ x.lvl = l
    BY <2>1 DEF Ranked, Handlers
  <2>5. \A x \in Handlers : /\ Counted(x) <=> (x.chip = "sla" \/ x.real)
                            /\ Open(x) <=> (x.chip = "sla" /\ x.real /\ ~x.slaveDone)
    BY <2>2 DEF Counted, Open
  <2>6. chip["mas"].isr = {MasterLevel(x) : x \in {y \in Handlers : y.chip = "sla" \/ y.real}}
    BY <2>3, <2>5
  <2>7. chip["sla"].isr = {x.lvl : x \in {y \in Handlers : y.chip = "sla" /\ y.real /\ ~y.slaveDone}}
    BY <2>4, <2>5
  <2> QED
    BY <2>6, <2>7
<1> QED
  BY <1>1, TypeAlways, ServingAlways, PTL

\* NestedByPriority under the same hypotheses: every handler on the stack was interrupted by one of a higher
\* priority.
THEOREM NestingSafe ==
  ASSUME FreeLines = FALSE, OnlyMasks, Cascade # N - 1
  PROVE  Spec => []NestedByPriority
<1>1. TypeInv /\ Asking /\ Serving => NestedByPriority
  <2> SUFFICES ASSUME TypeInv, Asking, Serving, ~misled, NEW i \in 1 .. Len(cpu.handlers) - 1,
                      cpu.handlers[i].chip = "mas" => cpu.handlers[i].real,
                      cpu.handlers[i + 1].chip = "mas" => cpu.handlers[i + 1].real
               PROVE  Rank(chip["mas"], MasterLevel(cpu.handlers[i])) < Rank(chip["mas"], MasterLevel(cpu.handlers[i + 1]))
    BY DEF NestedByPriority
  <2>1. /\ Ranked(cpu.handlers, chip["mas"].isr, chip["sla"].isr)
        /\ \A j \in 1 .. Len(cpu.handlers) : cpu.handlers[j] \in HandlerType
        /\ Len(cpu.handlers) \in Nat
    BY StackTypes DEF Serving
  <2>2. i \in 1 .. Len(cpu.handlers) /\ i + 1 \in 1 .. Len(cpu.handlers) /\ i < i + 1
    BY <2>1
  <2>3. \A x \in HandlerType : /\ MasterLevel(x) \in Levels
                               /\ (x.chip = "mas" => x.real) => Counted(x)
    BY LevelsNat DEF HandlerType, MasterLevel, Counted, Chips
  <2>4. MasterLevel(cpu.handlers[i]) < MasterLevel(cpu.handlers[i + 1])
    BY <2>1, <2>2, <2>3 DEF Ranked
  <2>5. \A l \in Levels : Rank(chip["mas"], l) = l
    BY RankPlain DEF Asking, Plain
  <2> QED
    BY <2>1, <2>2, <2>3, <2>4, <2>5
<1> QED
  BY <1>1, TypeAlways, AskingAlways, ServingAlways, PTL

\* SpuriousIsLast under the same hypotheses: a handler of the slave is never spurious.
THEOREM SpuriousSafe ==
  ASSUME FreeLines = FALSE, OnlyMasks, Cascade # N - 1
  PROVE  Spec => []SpuriousIsLast
<1>1. TypeInv /\ Serving => SpuriousIsLast
  <2> SUFFICES ASSUME TypeInv, Serving, ~misled, NEW i \in 1 .. Len(cpu.handlers), ~cpu.handlers[i].real
               PROVE  cpu.handlers[i].chip = "mas" /\ cpu.handlers[i].lvl = N - 1
    BY DEF SpuriousIsLast, Handlers
  <2>1. cpu.handlers[i].real = FALSE
    BY StackTypes
  <2> QED
    BY <2>1 DEF Serving, OddOnTop, Odd
<1> QED
  BY <1>1, TypeAlways, ServingAlways, PTL
=============================================================================
