----------------------------- MODULE MCPicInta -----------------------------
(* Small instances of PicInta: four levels per chip.                        *)
EXTENDS PicInta

\* The highest line of the master and the lowest of the slave, which software
\* masks and unmasks at the slave and at the cascade: handlers nest over both
\* chips, and the slave's line has the level that no level in service reads as
\* and that a spurious vector names.
MCLines == {<<"mas", 0>>, <<"sla", N - 1>>}
MCWrites == {<<"mas", [op |-> "data", v |-> m]>> : m \in {{}, {Cascade}}}
            \cup {<<"sla", [op |-> "data", v |-> m]>> : m \in {{}, {N - 1}}}

\* A second line of the master, whose vector a higher one can replace.
RaceLines == {<<"mas", 0>>, <<"mas", 1>>, <<"sla", 1>>}
==============================================================================
