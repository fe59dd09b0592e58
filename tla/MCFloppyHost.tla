--------------------------- MODULE MCFloppyHost ----------------------------
EXTENDS FloppyHost

C(cmd, cyl, hd, sec, mt, eot, count, data) ==
  [cmd |-> cmd, cyl |-> cyl, head |-> hd, sec |-> sec, mt |-> mt, eot |-> eot, count |-> count, data |-> data]
MCData(n) == [i \in 1..n |-> 100 + i]
MCCommands ==
  { C("read", 0, 1, 2, TRUE, 2, 4, <<>>),              \* over the side, to the next cylinder
    C("read", 0, 0, 1, FALSE, 1, 4, <<>>),             \* eot inside the track, same side
    C("read", 0, 0, 2, TRUE, 2, 3, <<>>),              \* a count that ends inside a sector
    C("write", 0, 0, 2, TRUE, 2, 4, MCData(4)),
    C("write", 1, 1, 2, FALSE, 2, 3, MCData(3)),       \* off the end of the disk, padded
    C("format", 0, 1, 1, FALSE, 0, 8, <<0, 1, 2, 2, 1, 1, 1, 2>>) }
=============================================================================
