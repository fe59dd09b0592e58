------------------------------ MODULE MCDdrPort ------------------------------
(* A small instance of DdrPort: lines of 0 and 3 words in bursts of 2,  *)
(* mailbox reads of up to 2 dwords, two GUS words of two byte lanes.       *)
EXTENDS DdrPort

Read(w) == [we |-> FALSE, word |-> TRUE, widx |-> w, lane |-> 0, data |-> <<"b0", "b0">>]

MCWidths == {0, 3}
MCGusWords == {0, 1}
MCBytes == {"b0", "b1"}
\* Reads of both words and a byte write to word 0.
MCGusRequests ==
  { Read(0), Read(1),
    [we |-> TRUE, word |-> FALSE, widx |-> 0, lane |-> 1, data |-> <<"b1", "b0">>] }
==============================================================================
