----------------------------- MODULE MCSimHost -----------------------------
EXTENDS SimHost

S(port, lives, kills, end, start, snap, ckpt, fails, writes) ==
  [port |-> port, lives |-> lives, kills |-> kills, end |-> end, start |-> start, snap |-> snap, ckpt |-> ckpt,
   fails |-> fails, writes |-> writes]

MCFlood == <<"flood">>
MCLines == [c \in {"c1", "c2"} |-> IF c = "c1" THEN <<<<"status", "checkpoint">>, <<"key", "quit">>>>
                                   ELSE <<<<"mouse">>, MCFlood>>]
MCFailing == {<<"ckpt", "cosim">>, <<"ckpt", "harness">>, <<"snap", "meta">>}
             \union {<<"snap", s>> : s \in {"state", "cosim", "key", "diff", "harness"}}

MCScenarios ==
  { \* the control port against the loop and its end
    S(TRUE, 1, 0, 3, {}, 0, 1, 0, {{}}),
    \* snapshots of a changing RAM, killed and started again
    S(FALSE, 2, 1, 4, {"snap"}, 4, 0, 0, {{1}, {2, 3}}),
    \* both kinds
    S(FALSE, 2, 1, 3, {"snap", "ckpt"}, 2, 3, 0, {{1}}),
    \* writes that fail
    S(FALSE, 2, 0, 2, {"snap", "ckpt"}, 2, 2, 1, {{1}}),
    \* checkpoints of the control port, failing, and gone back to
    S(TRUE, 1, 0, 1, {}, 0, 1, 1, {{}}),
    S(TRUE, 2, 0, 1, {"ckpt"}, 0, 1, 0, {{}}) }

\* One checkpoint, of the control port or at the end of an iteration, gone
\* back to; every write succeeds.
MCGoBack == { S(TRUE, 2, 0, 2, {"ckpt"}, 0, 1, 0, {{}}) }
=============================================================================
