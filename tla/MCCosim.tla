------------------------------ MODULE MCCosim ------------------------------
(* Small programs for Cosim, each for a few of the hard cases.             *)
EXTENDS Cosim

I(op, rd, wr) == [op |-> op, rd |-> rd, wr |-> wr, g |-> FALSE, split |-> FALSE, ex |-> {}, twice |-> FALSE]
Guarded(i) == [i EXCEPT !.g = TRUE]
Split(i) == [i EXCEPT !.g = TRUE, !.split = TRUE]
Twice(i) == [i EXCEPT !.twice = TRUE]
Also(i, ex) == [i EXCEPT !.ex = ex]
Ld(rd) == I("ld", rd, <<>>)
St(wr) == I("st", <<>>, wr)
Op(op) == I(op, <<>>, <<>>)
Map1 == I("map", <<>>, <<"p">>)
Handler == <<Ld(<<"d">>), Op("iret")>>
Program(code, cx, budget) ==
  [code |-> code \o <<Op("hlt"), Op("hlt")>> \o Handler \o <<Map1, Op("iret")>>,
   irq |-> Len(code) + 3, flt |-> Len(code) + 5, cx |-> cx, left |-> budget]
Left(irq, rst, save, err, bus) ==
  [irq |-> irq, rst |-> rst, save |-> save, load |-> save, err |-> err, bus |-> bus]

MCPrograms ==
  { \* late device reads, stores of their values, rewritten bytes, a wrong z486
    Program(<<Ld(<<"v">>), Also(St(<<"a", "b">>), {"c"}), Twice(Ld(<<"w">>)), Ld(<<"v">>), St(<<"a">>)>>, 0, Left(0, 0, 0, 1, {})),
    Program(<<Ld(<<"v", "w">>), I("out", <<>>, <<"y">>), I("in", <<"x">>, <<>>), St(<<"v">>)>>, 0, Left(1, 0, 0, 0, {"d"})),
    \* faults of a store, of a fetch and inside a REP string
    Program(<<Ld(<<"v">>), Split(St(<<"b", "a">>)), Ld(<<"w">>), Op("far")>>, 0, Left(1, 0, 0, 0, {})),
    Program(<<Guarded(I("rep", <<"v">>, <<"a", "b">>)), St(<<"c">>)>>, 2, Left(1, 0, 0, 1, {})),
    Program(<<Ld(<<"v">>), Op("far"), St(<<"c">>)>>, 0, Left(0, 0, 0, 1, {"t"})),
    \* undefined flags, the x87, an interrupt shadow
    Program(<<Op("udf"), Op("sti"), I("pushf", <<>>, <<"a">>), Op("setf")>>, 0, Left(1, 0, 1, 1, {})),
    Program(<<Op("esc"), Op("wait"), I("fst", <<>>, <<"a">>), Op("esc"), Op("sti")>>, 0, Left(1, 1, 0, 0, {"b"})),
    \* resets and saved states
    Program(<<Ld(<<"v">>), St(<<"a">>)>>, 0, Left(0, 1, 1, 1, {"b"})),
    Program(<<I("rep", <<>>, <<"a", "b">>)>>, 2, Left(1, 0, 1, 0, {})) }
=============================================================================
