------------------------------ MODULE MCDmaPath ------------------------------
(* A small instance of DmaPath: the floppy on the slave and the 16-bit      *)
(* Sound Blaster channel on the master, pages of four cells.               *)
EXTENDS DmaPath

MCOrder == <<"floppy", "sb">>
MCChip == [c \in {"floppy", "sb"} |-> IF c = "floppy" THEN "sla" ELSE "mas"]
Block(c, p, b, n, d, a, t) ==
  [ch |-> c, page |-> p, base |-> b, count |-> n, dec |-> d, auto |-> a, transfer |-> t]

\* Blocks that overlap, cross the end of a page, count down and repeat.
MCBlocks ==
  { Block("floppy", 1, 3, 1, FALSE, FALSE, "write"),
    Block("floppy", 1, 0, 0, FALSE, FALSE, "read"),
    Block("sb", 1, 3, 1, FALSE, TRUE, "read"),
    Block("sb", 1, 0, 1, TRUE, FALSE, "write"),
    Block("sb", 0, 1, 0, FALSE, TRUE, "verify") }
==============================================================================
