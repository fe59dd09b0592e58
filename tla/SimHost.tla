------------------------------ MODULE SimHost ------------------------------
(* The simulator as a process (src/verilator/main.cpp): it starts the control *)
(* server, restores a checkpoint or a snapshot if asked to, runs the loop in  *)
(* which it saves, polls the control port and clocks the machine, and stops   *)
(* the server at the end.  It may be killed at any moment and started again   *)
(* on the same directories.                                                   *)
EXTENDS ControlServer, SnapshotStore

CONSTANTS
  Scenarios,    \* what one behaviour may do: port: with a control server; end: max_cycles;
                \* start: what may be restored; writes: pages a clock may change; lives, kills,
                \* snap, ckpt, fails: how often
  PollCycles,   \* CONTROL_POLL_CYCLES
  SetupClocks   \* clocks made before the loop: two full_steps around the reset, and two for
                \* each register configure_x86_management writes (286)

ASSUME SetupAssumption == SetupClocks \in Nat

VARIABLES
  loop,         \* where the simulation's thread is
  ret,          \* where it goes on after a save
  cycle,        \* current_cycle
  clocks,       \* clocks the machine has made: sim_time / 2
  strayed,      \* this run, or one it goes back to, restored a checkpoint of the control port,
                \* or a cut harness.bin
  ram,          \* the guest's RAM (0: as the loop first finds it)
  ready,        \* the co-simulation is at a snapshot boundary (cosim_host_snapshot_ready)
  running, batch, next_poll,
  done,         \* commands carried out
  scn           \* the scenario, its numbers counting down

main == <<loop, ret, cycle, clocks, strayed, ram, ready, running, batch, next_poll, done>>
vars == <<server, store, main, scn>>

Zero == [p \in Pages |-> 0]

Init ==
  /\ ServerInit /\ StoreInit /\ scn \in Scenarios
  /\ loop = "off" /\ ret = "off" /\ cycle = 0 /\ clocks = 0 /\ strayed = FALSE /\ ram = Zero
  /\ ready = FALSE /\ running = TRUE /\ batch = <<>> /\ next_poll = 0 /\ done = <<>>

Spend(field) == scn[field] > 0 /\ scn' = [scn EXCEPT ![field] = @ - 1]
At(l) == loop = l
To(l) == loop' = l

\* The process is gone: its threads, descriptors and memory with it.
ServerGone ==
  /\ stopping' = FALSE /\ listen_fd' = NoFd /\ client_fd' = NoFd /\ commands' = <<>>
  /\ srv' = Idle /\ stp' = Stopped /\ fds' = <<>> /\ shut' = {} /\ accepted' = <<>>
  /\ peer' = [c \in Clients |-> IF peer[c].at = "away" THEN peer[c] ELSE [at |-> "gone", left |-> <<>>]]
  /\ UNCHANGED misuse
Gone ==
  /\ loop' = "off" /\ ret' = "off" /\ cycle' = 0 /\ clocks' = 0 /\ strayed' = FALSE /\ ram' = Zero
  /\ ready' = FALSE /\ running' = TRUE /\ batch' = <<>> /\ next_poll' = 0 /\ done' = <<>>
  /\ ServerGone /\ key' = NoKey /\ job' = NoJob /\ UNCHANGED <<dirs, latest, keys, spoiled>>

--------------------------------------------------------------------------
(* The start of the program.                                              *)

\* With --control-port a server that cannot start ends the program.
Launch ==
  /\ At("off") /\ Spend("lives")
  /\ \/ scn.port /\ Start /\ To("restore")
     \/ scn.port /\ StartFails /\ To("ended")
     \/ ~scn.port /\ UNCHANGED server /\ To("restore")
  /\ UNCHANGED <<store, ret, cycle, clocks, strayed, ram, ready, running, batch, next_poll, done>>

Begun(start, clk, stray, mem) ==
  /\ To("top") /\ cycle' = start /\ next_poll' = start /\ clocks' = clk /\ strayed' = stray /\ ram' = mem
  /\ ready' = FALSE /\ NewProcess

\* The reset and the management writes clock the machine; sim_time counts that.
Fresh == /\ At("restore") /\ Begun(0, SetupClocks, FALSE, Zero)
         /\ UNCHANGED <<server, ret, running, batch, done, scn>>

\* restore_checkpoint goes on after the iteration the checkpoint names,
\* restore_snapshot at its start.  n: the directory given, or what its
\* latest.txt names.
LoopStartLate(k, m) == m.cycle + 1

LoopStart(k, m) == IF k = "ckpt" THEN m.cycle + 1 ELSE m.cycle

\* What is missing of a cut harness.bin keeps the value the process started
\* with; sim_time and then current_cycle come first.  Cut off before that it
\* is refused.
Cut(k, n) == n \in DOMAIN dirs[k] /\ dirs[k][n].cut
Leftovers(m) == {<<m.cycle, m.clocks>>, <<0, m.clocks>>, <<0, 0>>}

RestoreWhole(k, n) ==
  LET m == dirs[k][n].machine IN
  CanRestore(k, n) /\ Begun(LoopStart(k, m), m.clocks, m.strayed \/ m.early, RestoredRam(k, n))
RestoreCut(k, n) ==
  LET m == dirs[k][n].machine IN
  /\ ~CanRestore(k, n) /\ Cut(k, n)
  /\ \E left \in Leftovers(m) : Begun(LoopStart(k, [m EXCEPT !.cycle = left[1]]), left[2], TRUE, m.ram)
RestoreFails(k, n) ==
  ~CanRestore(k, n) /\ To("ended") /\ UNCHANGED <<store, cycle, clocks, strayed, ram, ready, next_poll>>

\* The clocks that hold the machine in reset before a snapshot is loaded are
\* forgotten: sim_time is the one that was saved.
Restore(k) ==
  /\ At("restore") /\ k \in scn.start
  /\ \E n \in DOMAIN dirs[k] \union {latest[k]} : RestoreWhole(k, n) \/ RestoreCut(k, n) \/ RestoreFails(k, n)
  /\ UNCHANGED <<server, ret, running, batch, done, scn>>

--------------------------------------------------------------------------
(* The loop.                                                              *)

Machine(early) == [ram |-> ram, cycle |-> cycle, clocks |-> clocks, strayed |-> strayed, early |-> early]

\* early: saved before the clocks of its iteration are made.
Save(k, early, back) ==
  /\ Spend(k) /\ Begin(k, cycle, ram, Machine(early))
  /\ To("saving") /\ ret' = back

Top ==
  /\ At("top")
  /\ \/ /\ ~(cycle < scn.end /\ running) /\ To("ended") /\ UNCHANGED <<ret, store, scn>>
     \/ /\ cycle < scn.end /\ running
        /\ \/ To("poll") /\ UNCHANGED <<ret, store, scn>>
           \/ ready /\ Save("snap", FALSE, "poll")
  /\ UNCHANGED <<server, cycle, clocks, strayed, ram, ready, running, batch, next_poll, done>>

\* process_control_commands: the whole queue is one batch, and the commands
\* after a quit are still carried out.
Poll ==
  /\ At("poll")
  /\ IF scn.port /\ cycle >= next_poll
     THEN /\ next_poll' = cycle + PollCycles /\ batch' = commands /\ Drain /\ To("exec")
     ELSE To("step") /\ UNCHANGED <<next_poll, batch, commands>>
  /\ UNCHANGED <<stopping, listen_fd, client_fd, srv, stp, fds, shut, peer, accepted, misuse, store, ret, cycle,
                 clocks, strayed, ram, ready, running, done, scn>>

\* Keys and mouse moves go to the input queues; a screenshot to the next
\* frame; anything else is reported and ignored.
Exec ==
  /\ At("exec")
  /\ IF batch = <<>>
     THEN To(IF running THEN "step" ELSE "ended") /\ UNCHANGED <<ret, running, batch, done, store, scn>>
     ELSE /\ batch' = Tail(batch) /\ done' = Append(done, Head(batch))
          /\ running' = (running /\ Head(batch) # "quit")
          /\ IF Head(batch) = "checkpoint" THEN Save("ckpt", TRUE, "exec")
             ELSE UNCHANGED <<loop, ret, store, scn>>
  /\ UNCHANGED <<server, cycle, clocks, strayed, ram, ready, next_poll>>

\* The two half clocks of step(): the guest changes some pages.
Clock ==
  /\ At("step")
  /\ \E w \in scn.writes : ram' = [p \in Pages |-> IF p \in w THEN 1 - ram[p] ELSE ram[p]]
  /\ clocks' = clocks + 1 /\ ready' = TRUE /\ To("tail")
  /\ UNCHANGED <<server, store, ret, cycle, strayed, running, batch, next_poll, done, scn>>

\* A checkpoint when the interval is over, at the end of the iteration.
IterationEnd ==
  /\ At("tail")
  /\ \/ To("next") /\ UNCHANGED <<ret, store, scn>>
     \/ Save("ckpt", FALSE, "next")
  /\ UNCHANGED <<server, cycle, clocks, strayed, ram, ready, running, batch, next_poll, done>>

NextCycle ==
  /\ At("next") /\ cycle' = cycle + 1 /\ To("top")
  /\ UNCHANGED <<server, store, ret, clocks, strayed, ram, ready, running, batch, next_poll, done, scn>>

Failed(j) == j.at # "none" /\ (j.at = "failed" \/ j.err # "none")
\* A failed save ends the loop, unless the control port asked for it.
Saving ==
  /\ At("saving")
  /\ \/ /\ SaveStep
        /\ IF Failed(job)' /\ ~Failed(job) THEN Spend("fails") ELSE UNCHANGED scn
        /\ UNCHANGED <<loop, ret, running>>
     \/ /\ job.at = "none" /\ To(ret) /\ UNCHANGED <<ret, running, store, scn>>
     \/ /\ job.at = "failed"
        /\ running' = (running /\ ret = "exec") /\ To(IF ret = "poll" THEN "ended" ELSE ret)
        /\ job' = NoJob /\ UNCHANGED <<ret, dirs, latest, keys, key, spoiled, scn>>
  /\ UNCHANGED <<server, cycle, clocks, strayed, ram, ready, batch, next_poll, done>>

\* control_server.stop() and the end of main().
Stopping == At("ended") /\ Stop /\ UNCHANGED <<store, main, scn>>

Return == At("ended") /\ (stp.at = "joined" \/ ~scn.port) /\ Gone /\ UNCHANGED scn

Main == \/ Launch \/ Fresh \/ (\E k \in Kinds : Restore(k)) \/ Top \/ Poll \/ Exec \/ Clock \/ IterationEnd
        \/ NextCycle \/ Saving \/ Stopping \/ Return

ServerThread == Thread /\ UNCHANGED <<store, main, scn>>
Signal == Interrupted /\ UNCHANGED <<store, main, scn>>
Client == (\E c \in Clients : Connect(c) \/ HangUp(c)) /\ UNCHANGED <<store, main, scn>>

\* The process is killed: between any two file operations.
Killed == ~At("off") /\ Spend("kills") /\ Gone

\* Nobody starts it again.
Finished == At("off") /\ scn.lives = 0 /\ UNCHANGED vars

Next == Main \/ ServerThread \/ Signal \/ Client \/ Killed \/ Finished

Spec == Init /\ [][Next]_vars
\* Both threads are scheduled.
FairSpec == Spec /\ WF_vars(Main) /\ WF_vars(ServerThread)

--------------------------------------------------------------------------
\* What clients were told is queued is carried out by the loop in that
\* order, each command once, or still on its way there.
AcknowledgedInOrder == ~At("off") => done \o batch \o commands = accepted

\* At the top of an iteration sim_time is ahead of 2 * cycle by the clocks of
\* the start and by nothing else, after any sequence of checkpoints at the end
\* of an iteration, snapshots at its beginning, kills and restores.  Runs that
\* have strayed are left out: ReplaysCycleForCycle.
ClockExact == At("top") /\ ~strayed => clocks = cycle + SetupClocks

\* "sim_time = 2*cycle" (main.cpp:1296 and 1360, verilator/README.md:124): a
\* fresh start has clocked the machine before cycle 0.
SimTimeIsTwiceCycle == At("top") => clocks = cycle

\* "Use checkpoints when a run must replay cycle for cycle" (verilator/README.md:202):
\* in every run the machine is as far at a cycle number as in any other.  A
\* checkpoint of the control port is saved before the clocks of its cycle, and
\* restore_checkpoint goes on at the next one.
ReplaysCycleForCycle == At("top") => clocks = cycle + SetupClocks

\* Of the two sentences one at least holds throughout.  A behaviour in which
\* this fails breaks both.
TimeAsDocumented == []SimTimeIsTwiceCycle \/ []ReplaysCycleForCycle

\* stop() gets the server thread out of whatever call it is blocked in: once
\* it has begun, the process ends.
StopReturns == stopping ~> At("off")
=============================================================================
