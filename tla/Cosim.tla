------------------------------- MODULE Cosim -------------------------------
(***************************************************************************)
(* The full-system co-simulation: z486 (external) runs a program, and an   *)
(* instruction set simulator, the reference, runs it after z486 from the   *)
(* taps that cosim_host_cycle reads each clock: issues, reads and their    *)
(* completions, writes, interrupt vectors, DMA and page walker writes.     *)
(*                                                                         *)
(* d is z486, m the reference (cosim86.c) with its host (cosim_host.cpp).  *)
(* A step is one clock with at most one tap; a clock with several taps is  *)
(* the same taps one after the other in the order of the code, for a clock *)
(* without an issue only retries the oldest issue.                         *)
(*                                                                         *)
(* A program is a record: code, a sequence of instructions; irq and flt,   *)
(* the places of the two handlers; cx, the initial count register; left,   *)
(* bounds on interrupts, warm resets, saves, restores, errors and the      *)
(* writes of other bus masters.  An                                        *)
(* instruction has an op, the addresses it reads (rd) and writes (wr), and *)
(*   g    its (last) write is to a page that is present when p is 1;       *)
(*   split  its first byte is on the page before, and is stored first;     *)
(*   ex   bytes that z486 writes back unchanged and the reference does not;*)
(*   twice  z486 may read its device byte twice.                           *)
(***************************************************************************)
EXTENDS Integers, Sequences, FiniteSets, SequencesExt

CONSTANTS
  Programs,     \* the programs to run
  Vals,         \* the values a device may return
  RegPersist,   \* kRegPersist
  X87Persist,   \* kX87Persist
  X87Period,    \* kX87Period
  Errors,       \* what may go wrong in z486: a subset of {"bad", "lost"}
  MaxIssues,    \* bound on the issues that wait, reached after an error only
  AnyPoint      \* TRUE: states are saved whenever the code allows it
                \* FALSE: not while the host holds state it does not save

ASSUME CosimAssumption ==
  /\ {RegPersist, X87Persist, X87Period, MaxIssues} \subseteq Nat
  /\ Errors \subseteq {"bad", "lost"} /\ AnyPoint \in BOOLEAN

Ram   == {"a", "b", "c", "d", "p", "s", "t", "u"}   \* d: DMA, p: page, s and u: frame, t: page table
Dev   == {"v", "w"}
Ports == {"x", "y"}
Regs  == {"reg", "cx"}

VARIABLES prog, d, m, ck, left
vars == <<prog, d, m, ck, left>>

-----------------------------------------------------------------------------
(* The instruction set, the same for both sides.  The state s is the PC,   *)
(* a register, the REP count, a flag, the x87 and the interrupt enable.    *)

Code(pc) == prog.code[pc]
ResetState == [pc |-> 1, reg |-> 0, cx |-> prog.cx, fl |-> 0, fp |-> 0, ie |-> TRUE]

Write(a, v) == [a |-> a, v |-> v]
Put(ram, w) == IF w.a \in Ram THEN [ram EXCEPT ![w.a] = w.v] ELSE ram
PutAll(ram, ws) == FoldLeft(Put, ram, ws)

FetchFaults(i, ram) == i.op = "far" /\ ram["p"] = 0
Faults(i, cx, ram) == i.g /\ ram["p"] = 0 /\ (i.op = "rep" => cx = 1)

\* The state after instruction i with the values read; u: an undefined flag.
Effect(i, s, vals, ram, u) ==
  [s EXCEPT
    !.pc  = IF i.op = "iret" THEN ram["s"] ELSE @ + 1,
    !.reg = IF i.op \in {"ld", "in"} THEN Last(vals) ELSE @,
    !.fl  = CASE i.op = "udf" -> u [] i.op = "setf" -> 1
              [] i.op = "iret" -> ram["u"] % 2 [] OTHER -> @,
    !.fp  = IF i.op = "esc" THEN 1 - @ ELSE @,
    !.ie  = IF i.op = "iret" THEN ram["u"] >= 2 ELSE @]

Stores(i, s) ==
  [k \in DOMAIN i.wr |-> Write(i.wr[k], CASE i.op = "pushf" -> s.fl [] i.op = "fst" -> s.fp
                                          [] i.op = "map" -> 1 [] OTHER -> s.reg)]

\* What a write split across two pages stores before the second page faults.
FirstPage(i, s) == IF i.split THEN <<Stores(i, s)[1]>> ELSE <<>>

\* One element of a REP string, at count s.cx: v is the byte read.
Element(i, s, v) == Write(i.wr[s.cx], IF i.rd = <<>> THEN s.reg ELSE v)

\* real_mode_int: the frame of an interrupt or fault, and its handler.
FrameOf(s) == <<Write("u", s.fl + IF s.ie THEN 2 ELSE 0), Write("s", s.pc)>>
Enter(s, pc) == [s EXCEPT !.pc = pc, !.ie = FALSE]

-----------------------------------------------------------------------------
(* The reference: reading.  x is what a step has consumed so far: the rest *)
(* of the two read queues, dev_last, and the values.                       *)

RdHook(x, a) ==
  LET skips(e) == e.a # a /\ e.a = x.last
      n == Min({k \in 1 .. Len(x.dev) + 1 : k > Len(x.dev) \/ ~skips(x.dev[k])})
  IN  IF n > Len(x.dev) THEN [x EXCEPT !.stall = TRUE, !.vals = Append(@, 0)]
      ELSE [x EXCEPT !.dev = SubSeq(@, n + 1, Len(@)), !.last = a,
                     !.bad = @ \/ x.dev[n].a # a, !.vals = Append(@, x.dev[n].v)]

IoIn(x, a) ==
  IF x.io = <<>> THEN [x EXCEPT !.stall = TRUE, !.vals = Append(@, 0)]
  ELSE [x EXCEPT !.io = Tail(@), !.bad = @ \/ x.io[1].a # a, !.vals = Append(@, x.io[1].v)]

ReadN(x, as, ram) ==
  FoldLeft(LAMBDA y, a : CASE a \in Dev -> RdHook(y, a) [] a \in Ports -> IoIn(y, a)
                           [] OTHER -> [y EXCEPT !.vals = Append(@, ram[a])], x, as)

Unread(h) == [dev |-> h.devRd, io |-> h.ioRd, last |-> h.devLast,
              stall |-> FALSE, bad |-> FALSE, vals |-> <<>>]

-----------------------------------------------------------------------------
(* The reference: matching z486's writes.  exp_w is a sequence of groups,  *)
(* the writes of one instruction each that z486 has not done yet; a silent *)
(* write left the byte as it was.                                          *)

Staged(ram, w) == [a |-> w.a, v |-> w.v, silent |-> w.a \in Ram /\ ram[w.a] = w.v]
StageAll(ram, ws) == [k \in DOMAIN ws |-> Staged(ram, ws[k])]

\* A slip: a group whose last write was matched stays.
MatchedStays(h, k, e) ==
  LET g == h.expW[k]
      n == Min({j \in DOMAIN g : g[j].a = e.a})
  IN  IF g[n].v # e.v THEN [h EXCEPT !.err = TRUE]
      ELSE [h EXCEPT !.expW = <<RemoveAt(g, n)>> \o SubSeq(@, k + 1, Len(@))]
Matched(h, k, e) ==
  LET g == h.expW[k]
      n == Min({j \in DOMAIN g : g[j].a = e.a})
      rest == SubSeq(h.expW, k + 1, Len(h.expW))
  IN  IF g[n].v # e.v THEN [h EXCEPT !.err = TRUE]
      ELSE [h EXCEPT !.expW = IF Len(g) = 1 THEN rest ELSE <<RemoveAt(g, n)>> \o rest]

Hits(g, a) == \E j \in DOMAIN g : g[j].a = a
Live(g, a) == Hits(g, a) \/ \E j \in DOMAIN g : ~g[j].silent

MatchWrite(h, e) ==
  LET live == {k \in DOMAIN h.expW : Live(h.expW[k], e.a)}
  IN  CASE h.expW = <<>> -> [h EXCEPT !.dutW = Append(@, e)]
        [] h.expW # <<>> /\ Hits(h.expW[1], e.a) -> Matched(h, 1, e)
        [] h.expW # <<>> /\ ~Hits(h.expW[1], e.a) /\ e.a \in Ram /\ h.ram[e.a] = e.v -> h
        [] OTHER ->
             IF live = {} THEN [h EXCEPT !.expW = <<>>, !.dutW = Append(@, e)]
             ELSE IF Hits(h.expW[Min(live)], e.a) THEN Matched(h, Min(live), e)
             ELSE [h EXCEPT !.err = TRUE]

MatchIo(h, e) ==
  CASE h.expIo = <<>> -> [h EXCEPT !.dutIo = Append(@, e)]
    [] h.expIo # <<>> /\ h.expIo[1] = e -> [h EXCEPT !.expIo = Tail(@)]
    [] OTHER -> [h EXCEPT !.err = TRUE]

Outcome(h) == [h |-> h, r |-> IF h.err THEN "error" ELSE "ok"]

CommitWrites(h, w, io) ==
  LET h1 == [h EXCEPT !.expW = IF w = <<>> THEN @ ELSE Append(@, w), !.expIo = @ \o io,
                      !.dutW = <<>>, !.dutIo = <<>>]
      h2 == FoldLeft(LAMBDA g, e : IF g.err THEN g ELSE MatchWrite(g, e), h1, h.dutW)
  IN  Outcome(FoldLeft(LAMBDA g, e : IF g.err THEN g ELSE MatchIo(g, e), h2, h.dutIo))

-----------------------------------------------------------------------------
(* The reference: one instruction.  y is the instruction tried: its state, *)
(* RAM and writes.  A step that lacks a read changes nothing but dev_last. *)

Try(h) == [x |-> Unread(h), s |-> h.s, ram |-> h.ram, w |-> <<>>, io |-> <<>>, fault |-> FALSE]

RepElement(i, y) ==
  LET x == ReadN(y.x, i.rd, y.ram)
      w == Element(i, y.s, Last(x.vals))
  IN  CASE y.x.stall \/ y.fault -> y
        [] ~y.x.stall /\ ~y.fault /\ Faults(i, y.s.cx, y.ram) -> [y EXCEPT !.fault = TRUE]
        [] OTHER -> [y EXCEPT !.x = x, !.w = Append(@, Staged(y.ram, w)),
                              !.ram = Put(@, w), !.s.cx = @ - 1]

\* A REP string until the count is stop; 0 completes it.
RepTo(h, i, stop) ==
  LET n == IF stop >= h.s.cx THEN 0 ELSE h.s.cx - stop
  IN  [FoldLeft(LAMBDA z, k : RepElement(i, z), Try(h), [k \in 1 .. n |-> k])
         EXCEPT !.s = IF @.cx = 0 THEN [@ EXCEPT !.pc = @ + 1] ELSE @]

ExecOne(h, i) ==
  LET x  == ReadN(Unread(h), i.rd, h.ram)
      ws == Stores(i, h.s)
      memory == SelectSeq(ws, LAMBDA w : w.a \notin Ports)
  IN  IF FetchFaults(i, h.ram) \/ Faults(i, 0, h.ram) 
      THEN [Try(h) EXCEPT !.fault = TRUE, !.w = StageAll(h.ram, FirstPage(i, h.s)),
                          !.ram = PutAll(@, FirstPage(i, h.s))]
      ELSE [Try(h) EXCEPT
              !.x = x, !.s = Effect(i, @, x.vals, h.ram, 0), !.ram = PutAll(@, ws),
              !.w = StageAll(h.ram, memory),
              !.io = SelectSeq(ws, LAMBDA w : w.a \in Ports)]

\* udf: the flag was left undefined by the last instruction, by the one before.
FlagEffect(i, udf) == IF i.op \in {"udf", "setf"} THEN <<i.op = "udf", FALSE>> ELSE udf

\* Instruction i, tried as y: undone, a fault delivered, or done.
Tried(h, i, y) ==
  LET h0 == [h EXCEPT !.devLast = y.x.last, !.err = y.x.bad, !.fault = FALSE, !.hlt = FALSE]
      ws == FrameOf(y.s)
  IN  CASE y.x.stall -> [h |-> h0, r |-> "stall"]
        [] ~y.x.stall /\ y.fault ->
             CommitWrites([h0 EXCEPT !.s = Enter(y.s, prog.flt), !.ram = PutAll(y.ram, ws), !.fault = TRUE,
                             !.devRd = <<>>, !.ioRd = <<>>, !.last = i.op,
                             !.hist = Append(@, <<"flt", h.s.pc, y.s.cx>>)],
                          y.w \o StageAll(y.ram, ws), <<>>)
        [] OTHER ->
             CommitWrites([h0 EXCEPT !.s = y.s, !.ram = y.ram, !.hlt = i.op = "hlt",
                             !.udf = FlagEffect(i, @), !.devRd = y.x.dev, !.ioRd = y.x.io, !.last = i.op,
                             !.hist = Append(@, <<i.op, h.s.pc, y.s.cx>>)],
                          y.w, y.io)

Run(h, stop) ==
  LET i == Code(h.s.pc)
  IN  IF h.err THEN Outcome(h)
      ELSE Tried(h, i, IF i.op = "rep" THEN RepTo(h, i, stop) ELSE ExecOne(h, i))

Interrupt(h) ==
  LET ws == FrameOf(h.s)
  IN  IF h.err THEN Outcome(h)
      ELSE CommitWrites([h EXCEPT !.s = Enter(@, prog.irq), !.ram = PutAll(@, ws),
                           !.devRd = <<>>, !.ioRd = <<>>, !.hist = Append(@, <<"irq">>)],
                        StageAll(h.ram, ws), <<>>)

\* A slip: the flag is taken at the first issue only.
AdoptFlagsOnce(h, fl) ==
  [h EXCEPT !.udf = <<FALSE, FALSE>>, !.s.fl = IF h.udf[1] THEN fl ELSE @]
AdoptFlags(h, fl) ==
  [h EXCEPT !.udf = <<FALSE, @[1]>>, !.s.fl = IF h.udf[1] \/ h.udf[2] THEN fl ELSE @]

AtRepString(h) == Code(h.s.pc).op = "rep"

-----------------------------------------------------------------------------
(* The host: the queue of issues.  z is the host and whether it goes on    *)
(* with this issue ("go"), drops it ("next"), or leaves it ("stop").       *)

Diverge(h) == [h |-> [h EXCEPT !.failed = TRUE], st |-> "stop"]
Then(z, Op(_)) == IF z.st = "go" THEN Op(z.h) ELSE z

\* A slip: the instruction is run before the handler.
DropNothing(h) == [h |-> h, st |-> "go"]
\* An interrupt inside WAIT: the instruction is run again after the handler.
DropRestarted(h) ==
  [h |-> IF h.haveCur /\ h.cut /\ ~AtRepString(h)
         THEN [h EXCEPT !.haveCur = FALSE, !.cut = FALSE, !.squashOk = FALSE] ELSE h,
   st |-> "go"]

\* o is what became of the step.
Stepped(o, fl) ==
  CASE o.r = "stall" -> [h |-> o.h, st |-> "stop"]
    [] o.r = "error" -> Diverge(o.h)
    [] o.r = "ok" ->
         [h |-> AdoptFlags([o.h EXCEPT !.haveCur = FALSE, !.cut = FALSE, !.squashOk = o.h.fault], fl),
          st |-> "go"]
StepCurrent(h) ==
  LET ev == h.issues[1]
  IN  IF ~h.haveCur THEN [h |-> h, st |-> "go"]
      ELSE Stepped(Run(h, IF h.vectors # <<>> /\ AtRepString(h) THEN ev.cx ELSE 0), ev.fl)

SamePc(h) == h.s.pc = h.issues[1].pc

GoIf(ok, h) == IF ok THEN [h |-> h, st |-> "go"] ELSE Diverge(h)
Entered(o) == GoIf(o.r = "ok", o.h)
TakeVector(h) ==
  IF SamePc(h) \/ h.vectors = <<>> THEN [h |-> h, st |-> "go"]
  ELSE Entered(Interrupt([h EXCEPT !.vectors = Tail(@)]))

Squash(h) ==
  IF SamePc(h) \/ ~h.squashOk THEN [h |-> h, st |-> "go"]
  ELSE [h |-> [h EXCEPT !.squashOk = FALSE], st |-> "next"]

Faulted(o) == GoIf(o.r # "error" /\ o.h.fault /\ SamePc(o.h), o.h)
FetchFault(h) == IF SamePc(h) THEN [h |-> h, st |-> "go"] ELSE Faulted(Run(h, 0))

CheckRegisters(h) ==
  LET miss == [r \in Regs |-> IF h.issues[1].gpr[r] = h.s[r] THEN 0 ELSE h.regMiss[r] + 1]
      h1   == [h EXCEPT !.squashOk = FALSE, !.haveCur = TRUE, !.regMiss = miss]
  IN  IF \E r \in Regs : miss[r] >= RegPersist THEN Diverge(h1) ELSE [h |-> h1, st |-> "go"]

\* fresh: the issue is of this clock; fp and idle are z486's x87.
CheckX87(h, fresh, fp, idle) ==
  LET dirty == h.x87.dirty \/ h.s.fp # h.x87.last
      n     == h.x87.period + 1
      x     == [h.x87 EXCEPT !.dirty = dirty, !.last = h.s.fp, !.period = 0]
  IN  CASE ~dirty /\ n < X87Period -> [h |-> [h EXCEPT !.x87.period = n], st |-> "next"]
        [] (dirty \/ n >= X87Period) /\ ~(fresh /\ idle) -> [h |-> [h EXCEPT !.x87 = x], st |-> "next"]
        [] (dirty \/ n >= X87Period) /\ fresh /\ idle /\ fp = h.s.fp ->
             [h |-> [h EXCEPT !.x87 = [x EXCEPT !.dirty = FALSE, !.miss = 0]], st |-> "next"]
        [] OTHER -> LET h1 == [h EXCEPT !.x87 = [x EXCEPT !.miss = @ + 1]]
                    IN  IF x.miss + 1 < X87Persist THEN [h |-> h1, st |-> "next"] ELSE Diverge(h1)

\* The oldest issue.  issued: this clock has an issue, the youngest.
Popped(z) == IF z.st = "next" THEN [z EXCEPT !.h.issues = Tail(@)] ELSE z
ProcessIssue(h, issued, fp, idle) ==
  LET x87(g) == CheckX87(g, issued /\ Len(g.issues) = 1, fp, idle)
  IN  Popped(Then(Then(Then(Then(Then(Then(DropRestarted(h), StepCurrent), TakeVector), Squash),
                         FetchFault), CheckRegisters), x87))

ProcessIssues(h, issued, fp, idle) ==
  FoldLeft(LAMBDA z, e : IF z.st = "stop" THEN z ELSE ProcessIssue(z.h, issued, fp, idle),
           [h |-> h, st |-> "next"], h.issues).h

-----------------------------------------------------------------------------
(* The host: one clock.                                                    *)

Queues == [issues |-> <<>>, reads |-> <<>>, vectors |-> <<>>]
Matching == [devRd |-> <<>>, ioRd |-> <<>>, expW |-> <<>>, dutW |-> <<>>, expIo |-> <<>>, dutIo |-> <<>>]

\* The first clock out of reset: cosim_reset, and the host's own queues.
OutOfReset(h) ==
  Queues @@ Matching @@
  [h EXCEPT !.running = TRUE, !.haveCur = FALSE, !.squashOk = FALSE, !.ramCopied = FALSE,
            !.s = ResetState, !.fault = FALSE, !.hlt = FALSE, !.udf = <<FALSE, FALSE>>, !.hist = <<>>]

ReadDone(h, v) ==
  LET rq == h.reads[1]
      h1 == [h EXCEPT !.reads = Tail(@)]
  IN  CASE rq.kind = "inta" -> IF rq.a = "4" THEN h1 ELSE [h1 EXCEPT !.vectors = Append(@, v)]
        [] rq.kind = "io"   -> [h1 EXCEPT !.ioRd = Append(@, Write(rq.a, v))]
        [] rq.kind = "dev"  -> [h1 EXCEPT !.devRd = Append(@, Write(rq.a, v))]

\* The taps of a clock in their order; ev is the one that is active.
Tap(h, ev) ==
  CASE ev.k = "dma"  -> [h EXCEPT !.ram = Put(@, ev.w)]
    [] ev.k = "walk" -> [h EXCEPT !.ram = Put(@, ev.w)]
    [] ev.k = "io"   -> MatchIo(h, ev.w)
    [] ev.k = "wr"   -> MatchWrite(h, ev.w)
    [] ev.k = "req"  -> [h EXCEPT !.reads = Append(@, ev.rq)]
    [] ev.k = "done" -> IF h.reads = <<>> THEN [h EXCEPT !.failed = TRUE] ELSE ReadDone(h, ev.v)
    [] ev.k = "rpti" -> [h EXCEPT !.cut = @ \/ (~h.rpti /\ h.haveCur)]
    [] ev.k = "issue" -> [h EXCEPT !.issues = Append(@, ev.issue), !.ramCopied = TRUE,
                                   !.ram = IF h.ramCopied THEN @ ELSE ev.mem]
    [] OTHER -> h

\* g_snap_candidate: this clock issued an instruction, and nothing is under way.
Candidate(h, issued) ==
  IF h.failed THEN h
  ELSE [h EXCEPT !.cand = issued /\ h.haveCur /\ h.issues = <<>> /\ h.reads = <<>> /\ h.vectors = <<>>]

\* A slip: the issues are looked at when there is a new one.
TappedNoRetry(h, ev, fp, idle) ==
  IF h.err \/ h.failed THEN [h EXCEPT !.failed = TRUE]
  ELSE IF ev.k = "issue" THEN Candidate(ProcessIssues(h, TRUE, fp, idle), TRUE) ELSE h
\* After the taps: the issues, those of earlier clocks too.
Tapped(h, ev, fp, idle) ==
  IF h.err \/ h.failed THEN [h EXCEPT !.failed = TRUE]
  ELSE Candidate(ProcessIssues([h EXCEPT !.rpti = ev.k = "rpti"], ev.k = "issue", fp, idle), ev.k = "issue")

HostCycle(h, ev, fp, idle) ==
  CASE h.failed -> h
    [] ~h.failed /\ ev.k = "reset" -> [h EXCEPT !.running = FALSE, !.hist = <<>>]
    [] OTHER -> Tapped(Tap(IF h.running THEN h ELSE OutOfReset(h), ev), ev, fp, idle)

-----------------------------------------------------------------------------
(* Saved states.  A checkpoint keeps the whole simulation, and of the host *)
(* what host_write writes; the rest starts in a new process as the program *)
(* text initialises it.  A snapshot keeps the reference alone.             *)

Statics == [cut |-> FALSE, rpti |-> FALSE, ramCopied |-> TRUE, cand |-> FALSE, devLast |-> "none",
            regMiss |-> [r \in Regs |-> 0],
            x87 |-> [dirty |-> FALSE, last |-> 0, miss |-> 0, period |-> 0]]

HostRead(h) == Statics @@ h

\* A slip: a write of z486 that is still to be compared does not count.
SnapshotOkAhead(h) == h.expW = <<>> /\ h.expIo = <<>> /\ ~h.hlt /\ h.last \notin {"none", "sti"}
SnapshotOk(h) ==
  /\ h.expW = <<>> /\ h.expIo = <<>> /\ h.dutW = <<>> /\ h.dutIo = <<>>
  /\ ~h.hlt /\ h.last \notin {"none", "sti"}
SnapshotReady ==
  /\ m.running /\ ~m.failed /\ m.cand
  /\ ~d.rst /\ d.sb = <<>> /\ Len(d.got) = d.ask
  /\ SnapshotOk(m)

LoadPortable(h) ==
  [Queues @@ HostRead(h) EXCEPT !.haveCur = FALSE, !.squashOk = FALSE, !.running = TRUE, !.failed = FALSE]

Init ==
  /\ prog \in Programs
  /\ d = [s |-> ResetState, pipe |-> <<>>, ask |-> 0, got |-> <<>>, irq |-> 0, sb |-> <<>>,
          mem |-> [a \in Ram |-> 0], busy |-> FALSE, shadow |-> FALSE, rst |-> TRUE, boot |-> TRUE,
          err |-> FALSE, hist |-> <<>>]
  /\ m = Statics @@ Queues @@ Matching @@
         [running |-> FALSE, failed |-> FALSE, haveCur |-> FALSE, squashOk |-> FALSE,
          s |-> ResetState, ram |-> [a \in Ram |-> 0], fault |-> FALSE, hlt |-> FALSE,
          udf |-> <<FALSE, FALSE>>, last |-> "none", err |-> FALSE, hist |-> <<>>]
  /\ ck = [kind |-> "none"]
  /\ left = prog.left

-----------------------------------------------------------------------------
(* z486, external: two instructions in flight, a store buffer, and what    *)
(* the taps show of it.  It is right unless err is set.                    *)

View == FoldLeft(LAMBDA r, g : [c \in Ram |-> IF \E w \in g : w.a = c
                                              THEN (CHOOSE w \in g : w.a = c).v ELSE r[c]], d.mem, d.sb)
None == [k |-> "none"]
Clock(ev) == ~m.failed /\ m' = HostCycle(m, ev, d.s.fp, ~d.busy) /\ UNCHANGED <<prog, ck>>
Serial == {"rep", "hlt", "wait", "pushf", "fst", "far", "iret"}
Cur == Code(d.pipe[1])
Busy == d.pipe # <<>> /\ d.irq = 0
\* The bus reads of the current instruction, or of the current REP element.
Needs == CASE Cur.rd = <<>> \/ Cur.rd[1] \in Ram -> 0
           [] Cur.op = "rep" -> IF d.s.cx = 0 THEN 0 ELSE 1
           [] OTHER -> Len(Cur.rd)
Answered == Len(d.got) = d.ask
Empty == [d EXCEPT !.pipe = <<>>, !.ask = 0, !.got = <<>>]
Note(x, e) == [x EXCEPT !.hist = Append(@, e)]
Push(x, ws) == IF ws = {} THEN x ELSE [x EXCEPT !.sb = Append(@, ws)]

Issue ==
  LET pc == IF d.pipe = <<>> THEN d.s.pc ELSE Last(d.pipe) + 1
  IN  /\ ~d.rst /\ d.irq = 0 /\ Len(d.pipe) < 2 /\ pc \in DOMAIN prog.code
      /\ Len(m.issues) < MaxIssues
      /\ d.pipe # <<>> => Cur.op \notin Serial /\ Code(pc).op \notin Serial
      /\ ~FetchFaults(Code(pc), View)
      /\ d' = [d EXCEPT !.pipe = Append(@, pc), !.boot = FALSE]
      /\ Clock([k |-> "issue", mem |-> d.mem,
                issue |-> [pc |-> pc, cx |-> d.s.cx, fl |-> d.s.fl, gpr |-> [r \in Regs |-> d.s[r]]]])
      /\ UNCHANGED left

Request ==
  /\ Busy /\ Needs > 0
  /\ d.ask < Needs \/ (Cur.twice /\ d.ask = Needs /\ Answered)
  /\ d' = [d EXCEPT !.ask = @ + 1]
  /\ LET a == Cur.rd[IF d.ask < Needs THEN d.ask + 1 ELSE Needs]
     IN  Clock([k |-> "req", rq |-> [kind |-> IF a \in Dev THEN "dev" ELSE "io", a |-> a]])
  /\ UNCHANGED left

Complete ==
  /\ Busy /\ ~Answered
  /\ \E v \in Vals : /\ Len(d.got) >= Needs => v = Last(d.got)
                     /\ d' = [d EXCEPT !.got = Append(@, v)]
                     /\ Clock([k |-> "done", v |-> v])
  /\ UNCHANGED left

Element1 ==
  /\ Busy /\ Cur.op = "rep" /\ d.s.cx > 0 /\ Answered /\ d.ask >= Needs /\ ~Faults(Cur, d.s.cx, View)
  /\ d' = Push([d EXCEPT !.s.cx = @ - 1, !.ask = 0, !.got = <<>>], {Element(Cur, d.s, Last(d.got))})
  /\ Clock(None) /\ UNCHANGED left

Retire ==
  /\ Busy /\ Answered /\ d.ask >= Needs /\ ~Faults(Cur, 0, View)
  /\ Cur.op = "rep" => d.s.cx = 0
  /\ Cur.op # "hlt" /\ (Cur.op \in {"esc", "wait", "fst"} => ~d.busy)
  /\ \E u \in {0, 1} :
       LET vals == IF Needs = 0 THEN [k \in DOMAIN Cur.rd |-> IF Cur.rd[k] \in Ram THEN View[Cur.rd[k]] ELSE 0]
                   ELSE SubSeq(d.got, 1, Needs)
           ws   == IF Cur.op = "rep" THEN {} ELSE ToSet(Stores(Cur, d.s))
       IN  /\ u = 1 => Cur.op = "udf"
           /\ d' = Note(Push([d EXCEPT !.s = Effect(Cur, @, vals, View, u), !.pipe = Tail(@), !.ask = 0,
                                       !.got = <<>>, !.busy = @ \/ Cur.op = "esc", !.shadow = Cur.op = "sti"],
                             ws \cup {Write(c, View[c]) : c \in Cur.ex}),
                        <<Cur.op, d.pipe[1], d.s.cx>>)
  /\ Clock(None) /\ UNCHANGED left

Fault ==
  /\ ~d.rst /\ d.irq = 0 /\ Answered
  /\ IF d.pipe = <<>> THEN d.s.pc \in DOMAIN prog.code /\ FetchFaults(Code(d.s.pc), View)
     ELSE Faults(Cur, d.s.cx, View) /\ (Cur.op = "rep" => d.s.cx > 0)
  /\ LET part == IF d.pipe = <<>> THEN {} ELSE ToSet(FirstPage(Cur, d.s))
     IN  d' = Note(Push(Push([Empty EXCEPT !.s = Enter(@, prog.flt), !.shadow = FALSE], part), ToSet(FrameOf(d.s))),
                   <<"flt", d.s.pc, d.s.cx>>)
  /\ Clock(None) /\ UNCHANGED left

Drain ==
  /\ d.sb # <<>>
  /\ \E w \in d.sb[1], e \in {"no"} \cup (IF left.err > 0 THEN Errors ELSE {}) :
       LET rest == (IF d.sb[1] = {w} THEN <<>> ELSE <<d.sb[1] \ {w}>>) \o Tail(d.sb)
           got  == IF e = "bad" THEN [w EXCEPT !.v = IF w.v = 0 THEN 1 ELSE 0] ELSE w
       IN  /\ d' = [d EXCEPT !.sb = rest, !.mem = IF e = "lost" THEN @ ELSE Put(@, got), !.err = @ \/ e # "no"]
           /\ Clock(IF e = "lost" THEN None ELSE [k |-> IF w.a \in Ports THEN "io" ELSE "wr", w |-> got])
           /\ left' = [left EXCEPT !.err = IF e = "no" THEN @ ELSE @ - 1]

X87Done == d.busy /\ d' = [d EXCEPT !.busy = FALSE] /\ Clock(None) /\ UNCHANGED left

\* An interrupt between instructions, or out of HLT.
TakeIrq ==
  /\ ~d.rst /\ ~d.boot /\ d.irq = 0 /\ d.s.ie /\ ~d.shadow /\ left.irq > 0
  /\ \/ d.pipe = <<>> /\ d' = [d EXCEPT !.irq = 1]
     \/ d.pipe # <<>> /\ Cur.op = "hlt"
        /\ d' = Note([Empty EXCEPT !.irq = 1, !.s.pc = @ + 1], <<"hlt", d.s.pc, d.s.cx>>)
  /\ left' = [left EXCEPT !.irq = @ - 1] /\ Clock(None)

\* RPTI: an interrupt inside a REP string or a WAIT, which runs again later.
Rpti ==
  /\ Busy /\ d.s.ie /\ ~d.shadow /\ left.irq > 0 /\ Answered
  /\ \/ Cur.op = "rep" /\ d.s.cx > 0
        /\ d' = Note([Empty EXCEPT !.irq = 1], <<"rep", d.s.pc, d.s.cx>>)
     \/ Cur.op = "wait" /\ d.busy /\ d' = [Empty EXCEPT !.irq = 1]
  /\ left' = [left EXCEPT !.irq = @ - 1] /\ Clock([k |-> "rpti"])

\* The two acknowledge cycles; the vector comes with the second.
Inta ==
  /\ d.irq # 0
  /\ d' = IF d.irq < 4 THEN [d EXCEPT !.irq = @ + 1]
          ELSE Note(Push([d EXCEPT !.irq = 0, !.s = Enter(@, prog.irq)], ToSet(FrameOf(d.s))), <<"irq">>)
  /\ Clock(IF d.irq \in {2, 4} THEN [k |-> "done", v |-> 1]
           ELSE [k |-> "req", rq |-> [kind |-> "inta", a |-> IF d.irq = 1 THEN "4" ELSE "0"]])
  /\ UNCHANGED left

\* A DMA transfer before its interrupt; the page walker's accessed bit; the
\* last write of the BIOS copy, which has no tap.
BusWrite ==
  /\ ~d.rst
  /\ \E a \in left.bus :
       /\ CASE a = "d" -> d.irq = 0 /\ d.s.ie /\ ~d.boot [] a = "t" -> d.sb = <<>> /\ ~d.boot [] a = "b" -> d.boot
       /\ d' = [d EXCEPT !.mem[a] = 1]
       /\ Clock(IF a = "b" THEN None ELSE [k |-> IF a = "d" THEN "dma" ELSE "walk", w |-> Write(a, 1)])
       /\ left' = [left EXCEPT !.bus = @ \ {a}]

WarmReset ==
  /\ ~d.rst /\ left.rst > 0 /\ (AnyPoint \/ ~m.cut)
  /\ d' = [Empty EXCEPT !.s = ResetState, !.irq = 0, !.sb = <<>>, !.busy = FALSE, !.shadow = FALSE,
                        !.rst = TRUE, !.boot = TRUE, !.err = FALSE, !.hist = <<>>]
  /\ left' = [left EXCEPT !.rst = @ - 1] /\ Clock([k |-> "reset"])
EndReset == d.rst /\ d' = [d EXCEPT !.rst = FALSE] /\ Clock(None) /\ UNCHANGED left

-----------------------------------------------------------------------------
\* What a restore loses is not needed: nothing was cut, RAM was copied, and
\* no byte that was read twice is left over or to come.
Settled == ~m.cut /\ m.ramCopied /\ m.devRd = <<>> /\ (d.pipe # <<>> => d.ask = 0)

SaveCheckpoint ==
  /\ left.save > 0 /\ ~m.failed /\ (AnyPoint \/ Settled)
  /\ ck' = [kind |-> "full", d |-> d, m |-> m]
  /\ left' = [left EXCEPT !.save = @ - 1] /\ UNCHANGED <<prog, d, m>>
SaveSnapshot ==
  /\ left.save > 0 /\ SnapshotReady /\ (AnyPoint \/ m.devRd = <<>>)
  /\ ck' = [kind |-> "snap", m |-> m]
  /\ left' = [left EXCEPT !.save = @ - 1] /\ UNCHANGED <<prog, d, m>>
RestoreCheckpoint ==
  /\ left.load > 0 /\ ~m.failed /\ ck.kind = "full"
  /\ d' = ck.d /\ m' = HostRead(ck.m)
  /\ left' = [left EXCEPT !.load = @ - 1] /\ UNCHANGED <<prog, ck>>
RestoreSnapshot ==
  /\ left.load > 0 /\ ~m.failed /\ ck.kind = "snap"
  /\ m' = LoadPortable(ck.m)
  /\ d' = [Empty EXCEPT !.s = ck.m.s, !.mem = ck.m.ram, !.irq = 0, !.sb = <<>>, !.busy = FALSE,
             !.shadow = FALSE, !.rst = FALSE, !.boot = FALSE, !.err = FALSE, !.hist = ck.m.hist]
  /\ left' = [left EXCEPT !.load = @ - 1] /\ UNCHANGED <<prog, ck>>
\* A clock without a tap.
Idle == Clock(None) /\ UNCHANGED <<d, left>>
Stopped == m.failed /\ UNCHANGED vars

Next ==
  \/ Issue \/ Request \/ Complete \/ Element1 \/ Retire \/ Fault \/ Drain \/ X87Done
  \/ TakeIrq \/ Rpti \/ Inta \/ BusWrite \/ WarmReset \/ EndReset
  \/ SaveCheckpoint \/ SaveSnapshot \/ RestoreCheckpoint \/ RestoreSnapshot \/ Idle \/ Stopped

Spec == Init /\ [][Next]_vars

\* Weak fairness of z486's reads, with what enables them spelled out: a read
\* that an instruction needs is requested, and the bus answers.
Reading == ~m.failed /\ Busy /\ (d.ask < Needs \/ ~Answered)
FairSpec == Spec /\ ([]<>~Reading \/ []<><<Request \/ Complete>>_vars)

-----------------------------------------------------------------------------
(* Properties.                                                             *)

Bytes(q) == \A k \in DOMAIN q : q[k].a \in Ram \cup Dev \cup Ports

\* The fields of both sides keep their types, and the counters of persistent
\* differences stay below their limits (check_registers, check_x87).
TypeOK ==
  /\ m.s.pc \in Nat /\ m.s.cx \in Nat /\ d.irq \in 0 .. 4 /\ Len(d.pipe) <= 2
  /\ \A r \in Regs : m.regMiss[r] \in 0 .. RegPersist
  /\ m.x87.miss \in 0 .. X87Persist /\ m.x87.period \in 0 .. X87Period
  /\ Bytes(m.devRd) /\ Bytes(m.ioRd) /\ Bytes(m.dutW) /\ Bytes(m.dutIo) /\ Bytes(m.expIo)
  /\ \A k \in DOMAIN m.expW : m.expW[k] # <<>> /\ Bytes(m.expW[k])
  /\ Len(m.vectors) <= 1 /\ (Len(m.issues) < MaxIssues \/ d.err)

\* The co-simulation (process_issues, match_write) reports a divergence only
\* if z486 went wrong: no order of issues, late reads, buffered writes,
\* squashed instructions, faults, interrupts and resets makes it report a
\* processor that is right.
NoFalseAlarm == m.failed => d.err

\* cosim_host_snapshot_ready says yes only when the reference is exactly
\* z486: its RAM is the memory, its PC the instruction just issued, its
\* registers z486's.  It holds for a processor that went wrong too, so a
\* snapshot never keeps an error.
SnapshotExact ==
  SnapshotReady =>
    /\ m.ram = d.mem /\ m.s.pc = Last(d.pipe)
    /\ Len(d.pipe) = 1 => m.s = d.s

\* The reference and z486 follow one stream (Lockstep).
L == INSTANCE Lockstep WITH
       hw <- d.hist, rf <- m.hist, broken <- d.err, Lag <- 4,
       saved <- CASE ck.kind = "none" -> <<<<>>, <<>>, FALSE>>
                  [] ck.kind = "full" -> <<ck.d.hist, ck.m.hist, ck.d.err>>
                  [] ck.kind = "snap" -> <<ck.m.hist, ck.m.hist, FALSE>>
FollowsLockstep == L!LSpec

\* An issue that waits for device data is processed in the end, unless a reset
\* comes: process_issues retries it at every clock, and the data it waits for
\* is on its way.  A processor that went wrong may never read what the reference waits for.
IssuesProcessed ==
  m.issues # <<>> ~> (m.issues = <<>> \/ m.failed \/ ~m.running \/ d.err)
=============================================================================
