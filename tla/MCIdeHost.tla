------------------------------ MODULE MCIdeHost ------------------------------
(* Small instances of IdeHost: sectors, CD sectors and packets of two      *)
(* words, three sectors, a geometry of one head and two sectors per track. *)
EXTENDS IdeHost

Task(cmd) == [cmd |-> cmd, dma |-> FALSE, count |-> 1, sec |-> 1, cyl |-> 0,
              lba |-> FALSE, drv |-> 0, head |-> 0]

\* Transfers that cross a track (CHS) and the end of the image (LBA), of one
\* sector and of "zero" = CountBase sectors.
MCTasks ==
  [k \in {"hdd", "cd"} |->
     IF k = "hdd"
     THEN { [Task("READ") EXCEPT !.count = 0, !.sec = 2],
            [Task("READ") EXCEPT !.count = 0, !.lba = TRUE, !.sec = 0, !.cyl = 1],
            [Task("WRITE") EXCEPT !.count = 0, !.sec = 2],
            [Task("WRITE") EXCEPT !.lba = TRUE, !.sec = 0],
            [Task("GEOMETRY") EXCEPT !.count = 1, !.head = 1],
            Task("IDENTIFY"), Task("RECAL"), [Task("READ") EXCEPT !.drv = 1] }
     ELSE { [Task("PACKET") EXCEPT !.cyl = 3], Task("PACKET"),
            [Task("PACKET") EXCEPT !.dma = TRUE],
            Task("IDPKT"), Task("IDENTIFY") }]

\* One write, to see what the host receives.
MCWrites == [k \in {"hdd", "cd"} |-> { [Task("WRITE") EXCEPT !.lba = TRUE] }]

MCPackets ==
  { [op |-> "seek"], [op |-> "sense", n |-> 1], [op |-> "bad"],
    [op |-> "info", n |-> 3], [op |-> "info", n |-> 0], [op |-> "read", lba |-> 0, n |-> 3] }

\* A read beyond the end of the image, and the inquiry about its failure.
MCPacketTasks == [k \in {"hdd", "cd"} |-> { Task("PACKET") }]
MCPacketsBeyond == { [op |-> "sense", n |-> 1], [op |-> "read", lba |-> 3, n |-> 1] }

\* The transfers above are ones the registers can name, and the packets ones
\* that fit; but for those of the run that abandons a read.
ASSUME AddressesFit /\ (CdAborts \/ PacketsFit)
==============================================================================
