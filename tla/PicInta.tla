------------------------------- MODULE PicInta -------------------------------
(***************************************************************************)
(* The interrupt path: the two cascaded 8259s of pic.v, the bridge that    *)
(* turns their handshake into the CPU's two INTA bus cycles                *)
(* (pic_inta_bridge.sv), the interrupt lines and the CPU with its          *)
(* interrupt handlers (external).                                          *)
(*                                                                         *)
(* One clock domain: a step is one edge of clk_sys.  Every register of     *)
(* the code is clocked once per step from the values before it.            *)
(***************************************************************************)
EXTENDS Naturals, Sequences, FiniteSets

CONSTANTS
  N,          \* interrupt levels of a chip (8)
  Cascade,    \* the master's level the slave is wired to (2)
  Lines,      \* device lines in use: a subset of {"mas", "sla"} \X Levels
  FreeLines,  \* TRUE: a line may change in any cycle, as in the hardware
              \* FALSE: the lines stand still during an INTA sequence
  Writes,     \* the OCWs running software may write, beside the EOIs
  MaxNest     \* bound on nested handlers

Levels == 0 .. N - 1
Chips  == {"mas", "sla"}

ASSUME PicIntaAssumption ==
  /\ N \in Nat \ {0} /\ Cascade \in Levels /\ Lines \subseteq Chips \X Levels
  /\ <<"mas", Cascade>> \notin Lines /\ FreeLines \in BOOLEAN /\ MaxNest \in Nat

\* What software may write once the chips are initialised: the mask (OCW1),
\* the ends of interrupt and rotations (OCW2) and the special mask (OCW3).
Ocws == [op : {"data"}, v : SUBSET Levels] \cup [op : {"eoi", "rot_eoi"}]
        \cup [op : {"eoi_level", "rot_level", "set_lowest"}, v : Levels]
        \cup [op : {"rot_aeoi", "special"}, v : BOOLEAN]

ASSUME WritesAssumption == Writes \subseteq Chips \X Ocws

VARIABLES
  line,     \* interrupt_input: the set of lines that are high
  chip,     \* the registers of pic_mas and pic_sla
  bridge,   \* the registers of pic_inta_bridge
  cpu,      \* what the CPU is doing; the handlers it runs, innermost first
  owed,     \* lines that rose and have been neither served nor dropped
  misled    \* the CPU has been misled (see Misleads)

vars == <<line, chip, bridge, cpu, owed, misled>>

-----------------------------------------------------------------------------
(* i8259.  c is the chip before the edge.  The vector's offset (ICW2) only  *)
(* tells the chips apart and is left out.                                  *)

\* The place of a level in the rotating priority, 0 the highest.
Rank(c, l) == (l + N - c.lowest - 1) % N

\* The place of the first level of S; the last place when S is empty.
First(c, S) ==
  IF S = {} THEN N - 1
  ELSE CHOOSE r \in Levels : /\ \E l \in S : Rank(c, l) = r
                             /\ \A l \in S : r <= Rank(c, l)
\* A slip: the level does not wrap round.
AtRankNoWrap(c, r) == c.lowest + r + 1
AtRank(c, r) == (c.lowest + r + 1) % N

Selected(c) == (c.irr \ c.imr) \ c.isr
\* A slip: a request of any priority interrupts a handler.
IrqAny(c) == Selected(c) # {}
\* A slip: the last level never gets through, isr empty counting as that level.
IrqStrict(c) == Selected(c) # {} /\ (c.special \/ First(c, Selected(c)) < First(c, c.isr))
Irq(c) == Selected(c) # {} /\ (c.special \/ First(c, Selected(c)) <= First(c, c.isr))
IrqValue(c) == AtRank(c, First(c, Selected(c)))

\* The role of a write w: address 1 ("data") writes ICW2-4 during the
\* initialisation and the mask (OCW1) afterwards.
Icw1(w) == w.op = "icw1"
Icw(c, w, n) == w.op = "data" /\ c.init /\ c.expect = n
Ocw1(c, w) == w.op = "data" /\ ~c.init

\* A slip: a spurious acknowledge counts like a real one.
AckAny(c, done) == done
AckReal(c, done) == done /\ ~c.spurious

Irr(c, in, w, done) ==
  IF Icw1(w) THEN {}
  ELSE ((c.irr \cap in) \ (IF AckReal(c, done) THEN {c.vec} ELSE {}))
       \cup (IF c.ltim THEN in ELSE in \ c.last)

Isr(c, w, done) ==
  CASE Icw1(w) -> {}
    [] w.op \in {"eoi_level", "rot_level"} -> c.isr \ {w.v}
    [] ~Icw1(w) /\ w.op \notin {"eoi_level", "rot_level"} ->
         IF w.op \in {"eoi", "rot_eoi"}
         THEN c.isr \ {AtRank(c, First(c, c.isr))}
         ELSE IF AckReal(c, done) /\ ~c.aeoi THEN c.isr \cup {c.vec}
         ELSE c.isr

Lowest(c, w, done) ==
  CASE Icw1(w) -> N - 1
    [] w.op = "rot_eoi" -> (c.lowest + 1) % N
    [] w.op \in {"set_lowest", "rot_level"} -> w.v
    [] OTHER -> IF AckReal(c, done) /\ c.aeoi /\ c.rotate THEN (c.lowest + 1) % N
                ELSE c.lowest

\* The request, the vector and the spurious flag, one cycle behind irr.
Spurious(c, w, done) ==
  /\ ~Icw1(w)
  /\ \/ c.do /\ ~done /\ ~Irq(c)
     \/ c.spurious /\ ~done /\ ~Irq(c)

Vec(c, w) == IF Icw1(w) THEN 0 ELSE IF Irq(c) \/ c.do THEN IrqValue(c) ELSE c.vec

\* in: the lines, w: the write, done: interrupt_done.
I8259(c, in, w, done) ==
  [ last     |-> in,
    irr      |-> Irr(c, in, w, done),
    isr      |-> Isr(c, w, done),
    imr      |-> IF Icw1(w) THEN {} ELSE IF Ocw1(c, w) THEN w.v ELSE c.imr,
    lowest   |-> Lowest(c, w, done),
    init     |-> Icw1(w) \/ (c.init /\ ~Icw(c, w, 4) /\ ~(Icw(c, w, 3) /\ ~c.need4)),
    need4    |-> IF Icw1(w) THEN w.v.need4 ELSE c.need4,
    ltim     |-> IF Icw1(w) THEN w.v.ltim ELSE c.ltim,
    expect   |-> IF Icw1(w) THEN 2 ELSE IF Icw(c, w, 2) THEN 3
                 ELSE IF Icw(c, w, 3) /\ c.need4 THEN 4 ELSE c.expect,
    cascade  |-> IF Icw(c, w, 3) THEN w.v ELSE c.cascade,
    aeoi     |-> ~Icw1(w) /\ (IF Icw(c, w, 4) THEN w.v ELSE c.aeoi),
    rotate   |-> ~Icw1(w) /\ (IF w.op = "rot_aeoi" THEN w.v ELSE c.rotate),
    special  |-> ~Icw1(w) /\ (IF w.op = "special" THEN w.v ELSE c.special),
    spurious |-> Spurious(c, w, done),
    do       |-> ~Icw1(w) /\ ~done /\ Irq(c),
    slave    |-> ~Icw1(w) /\ ~done
                 /\ (IF Irq(c) \/ c.do THEN IrqValue(c) \in c.cascade ELSE c.slave),
    vec      |-> Vec(c, w) ]

PowerOn ==
  [ last |-> {}, irr |-> {}, isr |-> {}, imr |-> Levels, lowest |-> N - 1, init |-> FALSE,
    need4 |-> FALSE, ltim |-> FALSE, expect |-> 0, cascade |-> {},
    aeoi |-> FALSE, rotate |-> FALSE, special |-> FALSE,
    spurious |-> FALSE, do |-> FALSE, slave |-> FALSE, vec |-> 0 ]

\* pic.v: the slave's request is the master's Cascade line, and an acknowledge
\* reaches the slave when the master's vector is that of the slave.
SlaSelect == chip["mas"].slave /\ chip["mas"].vec = Cascade
Vector == IF SlaSelect THEN <<"sla", chip["sla"].vec>>
          ELSE <<"mas", chip["mas"].vec>>

MasInput == {l \in Levels : <<"mas", l>> \in line}
            \cup (IF chip["sla"].do THEN {Cascade} ELSE {})
SlaInput == {l \in Levels : <<"sla", l>> \in line}

NoWrite == [op |-> "none"]

\* to: the chip the CPU's write w goes to.
Pic(to, w) ==
  chip' = [mas |-> I8259(chip["mas"], MasInput, IF to = "mas" THEN w ELSE NoWrite,
                         bridge.done),
           sla |-> I8259(chip["sla"], SlaInput, IF to = "sla" THEN w ELSE NoWrite,
                         SlaSelect /\ bridge.done)]

-----------------------------------------------------------------------------
(* pic_inta_bridge                                                         *)

Inta == cpu.st \in {"inta1", "inta2"}

\* A slip: an INTA cycle that lasts is answered again.
BridgeStepNoGuard ==
  LET answer == Inta /\ bridge.st # "INTA1" IN
  [ st   |-> CASE bridge.st = "IDLE"  -> IF answer THEN "INTA1" ELSE "IDLE"
               [] bridge.st = "INTA1" -> IF Inta THEN "INTA1" ELSE "INTA2"
               [] OTHER               -> IF answer THEN "IDLE" ELSE "INTA2",
    intr |-> chip["mas"].do, ready |-> answer,
    done |-> answer /\ bridge.st = "INTA2",
    responded |-> Inta /\ (bridge.responded \/ answer),
    din  |-> IF answer THEN (IF bridge.st = "INTA2" THEN Vector ELSE <<>>) ELSE bridge.din ]
\* A slip: the vector is taken in the first INTA cycle.
BridgeStepEarly ==
  LET answer == Inta /\ ~bridge.responded /\ bridge.st # "INTA1" IN
  [ st   |-> CASE bridge.st = "IDLE"  -> IF answer THEN "INTA1" ELSE "IDLE"
               [] bridge.st = "INTA1" -> IF Inta THEN "INTA1" ELSE "INTA2"
               [] OTHER               -> IF answer THEN "IDLE" ELSE "INTA2",
    intr |-> chip["mas"].do, ready |-> answer,
    done |-> answer /\ bridge.st = "INTA2",
    responded |-> Inta /\ (bridge.responded \/ answer),
    din  |-> IF answer /\ bridge.st = "IDLE" THEN Vector ELSE bridge.din ]
BridgeStep ==
  LET answer == Inta /\ ~bridge.responded /\ bridge.st # "INTA1" IN
  [ st   |-> CASE bridge.st = "IDLE"  -> IF answer THEN "INTA1" ELSE "IDLE"
               [] bridge.st = "INTA1" -> IF Inta THEN "INTA1" ELSE "INTA2"
               [] OTHER               -> IF answer THEN "IDLE" ELSE "INTA2",
    intr |-> chip["mas"].do, ready |-> answer,
    done |-> answer /\ bridge.st = "INTA2",
    responded |-> Inta /\ (bridge.responded \/ answer),
    din  |-> IF answer THEN (IF bridge.st = "INTA2" THEN Vector ELSE <<>>) ELSE bridge.din ]

-----------------------------------------------------------------------------
(* The CPU, external.  It raises inta twice, each time until it sees ready *)
(* (at least two edges), lowered in between.  A handler runs with          *)
(* interrupts off until it enables them, ends with the EOIs its level      *)
(* needs, and knows a spurious interrupt of the last level by its ISR bit  *)
(* or by having been entered already.                                      *)

Boot == << <<"mas", [op |-> "icw1", v |-> [need4 |-> TRUE, ltim |-> FALSE]]>>,
           <<"mas", [op |-> "data", v |-> {}]>>,
           <<"mas", [op |-> "data", v |-> {Cascade}]>>,
           <<"mas", [op |-> "data", v |-> FALSE]>>,
           <<"sla", [op |-> "icw1", v |-> [need4 |-> TRUE, ltim |-> FALSE]]>>,
           <<"sla", [op |-> "data", v |-> {}]>>,
           <<"sla", [op |-> "data", v |-> {}]>>,
           <<"sla", [op |-> "data", v |-> FALSE]>> >>

Booting == cpu.boot <= Len(Boot)
Running == cpu.st = "run" /\ ~Booting

BootWrite ==
  /\ Booting /\ Pic(Boot[cpu.boot][1], Boot[cpu.boot][2])
  /\ cpu' = [cpu EXCEPT !.boot = @ + 1, !.enabled = (cpu.boot = Len(Boot))]

Work == Running /\ Pic("mas", NoWrite) /\ UNCHANGED cpu

SoftwareWrite ==
  /\ Running
  /\ \E x \in Writes : Pic(x[1], x[2])
  /\ UNCHANGED cpu

TakeInterrupt ==
  /\ Running /\ cpu.enabled /\ bridge.intr /\ Len(cpu.handlers) < MaxNest
  /\ Pic("mas", NoWrite) /\ cpu' = [cpu EXCEPT !.st = "inta1"]

\* The handler of this level was interrupted itself.
Entered(x) == \E i \in 2 .. Len(cpu.handlers) : cpu.handlers[i].chip = x.chip
                                              /\ cpu.handlers[i].lvl = x.lvl
SeenSpurious(x) == x.lvl = N - 1 /\ (x.lvl \notin chip[x.chip].isr \/ Entered(x))

\* A handler looks for a spurious interrupt before it enables interrupts.
Enable ==
  /\ Running /\ ~cpu.enabled
  /\ LET x == Head(cpu.handlers) IN x.slaveDone \/ ~SeenSpurious(x)
  /\ Pic("mas", NoWrite) /\ cpu' = [cpu EXCEPT !.enabled = TRUE]

Return == [cpu EXCEPT !.handlers = Tail(@), !.enabled = TRUE]

EndHandler ==
  /\ Running /\ cpu.handlers # <<>>
  /\ LET x == Head(cpu.handlers)
     IN IF x.chip = "sla" /\ ~x.slaveDone
        THEN /\ Pic("sla", IF SeenSpurious(x) THEN NoWrite ELSE [op |-> "eoi"])
             /\ cpu' = [cpu EXCEPT !.handlers[1].slaveDone = TRUE, !.enabled = FALSE]
        ELSE /\ Pic("mas", IF x.chip = "mas" /\ SeenSpurious(x) THEN NoWrite
                           ELSE [op |-> "eoi"])
             /\ cpu' = Return

\* real: the chip that gave the vector did not take it for spurious.
Delivered ==
  [chip |-> bridge.din[1], lvl |-> bridge.din[2], slaveDone |-> FALSE,
   real |-> ~chip[bridge.din[1]].spurious]

IntaCycle ==
  /\ cpu.st \in {"inta1", "gap", "inta2"} /\ Pic("mas", NoWrite)
  /\ \/ cpu.st = "gap" /\ cpu' = [cpu EXCEPT !.st = "inta2"]
     \/ Inta /\ ~bridge.ready /\ UNCHANGED cpu
     \/ cpu.st = "inta1" /\ bridge.ready /\ cpu' = [cpu EXCEPT !.st = "gap"]
     \/ cpu.st = "inta2" /\ bridge.ready
        /\ cpu' = [cpu EXCEPT !.st = "run", !.enabled = FALSE,
                              !.handlers = <<Delivered>> \o @]

Received == IF cpu.st = "inta2" /\ bridge.ready /\ Delivered.real THEN {bridge.din} ELSE {}

\* A request that goes away is served as spurious with the vector of the first
\* level still selected (irq_value).  That is the last level when none is; but
\* one that waits behind a running handler is named as if it were served.
Misleads == /\ cpu.st = "inta2" /\ bridge.ready
            /\ chip["mas"].spurious /\ chip["mas"].vec # N - 1

\* The rest of the edge.
Rest ==
  /\ bridge' = BridgeStep
  /\ line' \in SUBSET Lines
  /\ ~FreeLines /\ ~(cpu.st = "run" /\ cpu'.st = "run") => UNCHANGED line
  /\ owed' = IF Booting THEN {} ELSE ((owed \cup (line' \ line)) \cap line') \ Received
  /\ misled' = (misled \/ Misleads)

Init ==
  /\ line \in SUBSET Lines /\ chip = [c \in Chips |-> PowerOn]
  /\ bridge = [st |-> "IDLE", intr |-> FALSE, ready |-> FALSE, done |-> FALSE,
               responded |-> FALSE, din |-> <<>>]
  /\ cpu = [st |-> "run", boot |-> 1, enabled |-> FALSE, handlers |-> <<>>]
  /\ owed = {} /\ misled = FALSE

Next ==
  /\ \/ BootWrite \/ Work \/ SoftwareWrite \/ TakeInterrupt
     \/ Enable \/ EndHandler \/ IntaCycle
  /\ Rest

Spec == Init /\ [][Next]_vars

\* The clock ticks whatever the lines do (they need never change) and whatever
\* software leaves unwritten, handlers end, and the CPU takes an interrupt that
\* keeps being offered.
FairSpec ==
  /\ Spec /\ WF_vars((BootWrite \/ Work \/ IntaCycle) /\ Rest /\ UNCHANGED line)
  /\ SF_vars(TakeInterrupt /\ Rest) /\ SF_vars(EndHandler /\ Rest)

-----------------------------------------------------------------------------
(* Properties                                                              *)

TypeOK ==
  /\ line \subseteq Lines /\ owed \subseteq line
  /\ \A c \in Chips : /\ chip[c].irr \cup chip[c].isr \cup chip[c].imr \subseteq Levels
                      /\ chip[c].vec \in Levels /\ chip[c].lowest \in Levels
  /\ bridge.st \in {"IDLE", "INTA1", "INTA2"}
  /\ Len(cpu.handlers) <= MaxNest

\* The level of the master a handler occupies.
MasterLevel(x) == IF x.chip = "sla" THEN Cascade ELSE x.lvl
Handlers == {cpu.handlers[i] : i \in 1 .. Len(cpu.handlers)}

\* The in-service registers name exactly the handlers that run: what the CPU
\* was told and what the chips believe drift apart in no other way than by a
\* vector that misleads.
ServiceMatchesHandlers ==
  ~Booting /\ ~misled =>
    /\ chip["mas"].isr = {MasterLevel(x) : x \in {y \in Handlers : y.chip = "sla" \/ y.real}}
    /\ chip["sla"].isr = {x.lvl : x \in {y \in Handlers :
                                          y.chip = "sla" /\ y.real /\ ~y.slaveDone}}

\* A handler is interrupted only by one of a higher priority, unless the CPU
\* was misled.
NestedByPriority ==
  ~misled => \A i \in 1 .. Len(cpu.handlers) - 1 :
    LET x == cpu.handlers[i]  y == cpu.handlers[i + 1] IN
    (x.chip = "mas" => x.real) /\ (y.chip = "mas" => y.real) =>
      Rank(chip["mas"], MasterLevel(x)) < Rank(chip["mas"], MasterLevel(y))

\* A line that rose and stays high is pending in its chip until the CPU has
\* got its vector.
NoRequestLost ==
  \A x \in owed : x[2] \in chip[x[1]].irr \/ x[2] \notin chip[x[1]].last

\* Only the last level of the master is served as spurious: by the time a vector
\* of the slave is taken both chips have settled, so the slave still wants it.
SpuriousIsLast ==
  ~misled => \A x \in Handlers : ~x.real => x.chip = "mas" /\ x.lvl = N - 1

\* "Second INTA cycle: return vector, acknowledge PIC" (pic_inta_bridge.sv):
\* the vector returned is the one the PIC takes as acknowledged.
VectorAcknowledged == bridge.done => bridge.din = Vector

\* y has priority over x while no rotation is in force.
Before(y, x) ==
  LET m(z) == IF z[1] = "sla" THEN Cascade ELSE z[2] IN
  m(y) < m(x) \/ (m(y) = m(x) /\ y[2] < x[2])

\* A line that its own chip or, for the slave, the cascade keeps out.
Masked(x) ==
  x[2] \in chip[x[1]].imr \/ (x[1] = "sla" /\ Cascade \in chip["mas"].imr)

\* The outstanding request that precedes all the others the masks let through
\* is served, withdrawn or masked, or one before it comes: no line that rose is
\* left waiting for ever.
FirstIsServed ==
  \A x \in Lines :
    []<>(x \notin owed \/ Masked(x) \/ \E y \in owed : Before(y, x) /\ ~Masked(y))
==============================================================================
