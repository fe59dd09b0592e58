--------------------------- MODULE SimHostProofs ---------------------------
(***************************************************************************)
(* Proofs about SimHost: the process with its control server and its       *)
(* directories, killed and started again any number of times, for any      *)
(* clients and lines, pages, scenarios and numbers of snapshots to keep.   *)
(***************************************************************************)
EXTENDS SimHost, ControlServerProofs, SnapshotStoreProofs

-----------------------------------------------------------------------------
(* The inductive invariant, in parts.  ServerInv, StoreTypes and StoreSafe   *)
(* are those of the components.                                              *)

\* Where the loop is, or will be once the save under way is over.
Phase == IF loop = "saving" THEN ret ELSE loop
LoopPlaces == {"off", "restore", "top", "poll", "exec", "step", "tail", "next", "saving", "ended"}

LoopType ==
  /\ loop \in LoopPlaces /\ (loop = "saving" => ret \in {"poll", "exec", "next"})
  /\ cycle \in Nat /\ clocks \in Int /\ strayed \in BOOLEAN /\ ram \in Rams

\* What was queued is done, in the batch or still in the queue; only process_control_commands has a batch.
QueueInv ==
  /\ batch \in Seq(STRING) /\ done \in Seq(STRING)
  /\ batch # <<>> => Phase = "exec"
  /\ done \o batch \o commands = accepted

\* The machine is clocked between the places "step" and "tail".
PhaseClock ==
  ~strayed =>
    /\ Phase \in {"top", "poll", "exec", "step"} => clocks = cycle + SetupClocks
    /\ Phase \in {"tail", "next"} => clocks = cycle + 1 + SetupClocks

\* What was saved says in which part of its iteration it was saved.
MachineClock(k, m) ==
  /\ k = "snap" => ~m.early
  /\ ~m.strayed /\ (m.early \/ k = "snap") => m.clocks = m.cycle + SetupClocks
  /\ ~m.strayed /\ ~m.early /\ k # "snap" => m.clocks = m.cycle + 1 + SetupClocks
DirClocks == \A k \in Kinds : \A n \in DOMAIN dirs[k] : MachineClock(k, dirs[k][n].machine)
JobClock == job.at # "none" => MachineClock(job.kind, job.entry.machine)

\* A save is under way only while the loop waits for it, and is of this cycle; a snapshot is saved
\* before the poll.
JobPlace ==
  /\ job.at # "none" => loop = "saving" /\ job.cycle = cycle /\ (job.kind = "snap" => ret = "poll")
  /\ key.name <= cycle

LoopInv == /\ LoopType /\ PhaseClock /\ DirClocks /\ JobClock /\ JobPlace
           /\ StoreTypes /\ StoreSafe(loop = "ended")

-----------------------------------------------------------------------------
(* The descriptors.                                                          *)

\* The process is gone, its descriptors with it.
LEMMA ServerGoneInv == ServerInv /\ ServerGone => ServerInv'
<1> SUFFICES ASSUME ServerInv, ServerGone PROVE ServerInv'
  OBVIOUS
<1>1. /\ srv' = Idle /\ stp' = Stopped /\ listen_fd' = NoFd /\ client_fd' = NoFd /\ fds' = <<>> /\ misuse' = misuse
      /\ stopping' = FALSE /\ commands' = <<>> /\ accepted' = <<>>
  BY DEF ServerGone
<1>2. srv'.at = "off" /\ stp'.at = "off" /\ DOMAIN fds' = {}
  BY <1>1 DEF Idle, Stopped
<1>3. SrvType'
  BY <1>1 DEF SrvType, Idle, SrvAt, FdNumber, Serving
<1>4. StpType'
  BY <1>1 DEF StpType, Stopped, FdNumber
<1>5. FdType'
  BY <1>1, <1>2 DEF FdType, FdNumber
<1>6. FdsFunction' /\ QueueType'
  BY <1>1, <1>2 DEF FdsFunction, QueueType
<1>7. PeerType'
  BY DEF ServerGone, ServerInv, PeerType, PeerPlaces
<1>8. HeldExactly'
  BY <1>1, <1>2, NoFdFact DEF HeldExactly, ListenerHeld, ClientHeld, HasClient, HasListener
<1>9. HeldOnce'
  BY <1>1, <1>2 DEF HeldOnce, Serving, HasClient, HasListener
<1>10. StopSaid' /\ ThreadOrder' /\ DescriptorsOnce'
  BY <1>1, <1>2 DEF StopSaid, ThreadOrder, DescriptorsOnce, ServerInv
<1> QED
  BY <1>3, <1>4, <1>5, <1>6, <1>7, <1>8, <1>9, <1>10 DEF ServerInv

\* What the loop does between two calls of the server leaves it alone.
LEMMA ServerIdle == ServerInv /\ UNCHANGED server => ServerInv'
BY SameServer DEF server, ServerInv, PeerType

\* Every step of the system keeps the invariant of the control server.
LEMMA ServerNext == ServerInv /\ [Next]_vars => ServerInv'
<1> SUFFICES ASSUME ServerInv, [Next]_vars PROVE ServerInv'
  OBVIOUS
<1>1. CASE Launch
  BY <1>1, StartInv, StartFailsInv, ServerIdle DEF Launch
<1>2. CASE Fresh \/ (\E k \in Kinds : Restore(k)) \/ Top \/ Exec \/ Clock \/ IterationEnd \/ NextCycle \/ Saving
  BY <1>2, ServerIdle DEF Fresh, Restore, Top, Exec, Clock, IterationEnd, NextCycle, Saving
<1>3. CASE Poll
  <2>1. commands' \in Seq(STRING)
    <3>1. commands \in Seq(STRING) /\ <<>> \in Seq(STRING)
      BY DEF ServerInv, QueueType
    <3>2. commands' = <<>> \/ commands' = commands
      BY <1>3 DEF Poll, Drain
    <3> QED
      BY <3>1, <3>2
  <2> QED
    BY <1>3, <2>1, DrainInv DEF Poll
<1>4. CASE Stopping
  BY <1>4, StopInv DEF Stopping
<1>5. CASE Return \/ Killed
  BY <1>5, ServerGoneInv DEF Return, Killed, Gone
<1>6. CASE ServerThread
  BY <1>6, ThreadInv DEF ServerThread
<1>7. CASE Signal
  BY <1>7, InterruptedInv DEF Signal
<1>8. CASE Client
  BY <1>8, ConnectInv, HangUpInv DEF Client
<1>9. CASE UNCHANGED vars
  BY <1>9, ServerIdle DEF vars
<1> QED
  BY <1>1, <1>2, <1>3, <1>4, <1>5, <1>6, <1>7, <1>8, <1>9 DEF Next, Main, Finished

\* Whatever the clients, the signals and the loop do and wherever the process dies: every descriptor
\* of the control server is closed once, by the thread that took its number, no call goes to a number
\* that stands for another socket, and stop() leaves none open (control_server.cpp).
THEOREM DescriptorsSafe == Spec => []DescriptorsOnce
<1>1. Init => ServerInv
  BY ServerInitInv DEF Init
<1>2. ServerInv => DescriptorsOnce
  BY DEF ServerInv
<1> QED
  BY <1>1, <1>2, ServerNext, PTL DEF Spec

-----------------------------------------------------------------------------
(* The queue.                                                                *)

\* The head of the batch is done, and the batch goes on without it.
LEMMA BatchStep ==
  ASSUME NEW S, NEW d \in Seq(S), NEW b \in Seq(S), b # <<>>, NEW c \in Seq(S)
  PROVE  Append(d, Head(b)) \o Tail(b) \o c = d \o b \o c
<1>1. b = <<Head(b)>> \o Tail(b) /\ Head(b) \in S /\ Tail(b) \in Seq(S)
  OBVIOUS
<1>2. Append(d, Head(b)) \o Tail(b) = d \o b
  BY <1>1
<1> QED
  BY <1>2

\* A line added at the end of the queue is added at the end of all that was accepted.
LEMMA QueueStep ==
  ASSUME NEW S, NEW d \in Seq(S), NEW b \in Seq(S), NEW c \in Seq(S), NEW e \in S
  PROVE  d \o b \o Append(c, e) = Append(d \o b \o c, e)
OBVIOUS

\* An empty batch, or an empty queue, leaves nothing out.
LEMMA BatchEmpty ==
  ASSUME NEW S, NEW d \in Seq(S), NEW c \in Seq(S)
  PROVE  d \o <<>> \o c = d \o c \o <<>>
OBVIOUS

\* Every step keeps the queue in order.
LEMMA QueueNext == LoopType /\ ServerInv /\ QueueInv /\ [Next]_vars => QueueInv'
<1> SUFFICES ASSUME LoopType, ServerInv, QueueInv, [Next]_vars PROVE QueueInv'
  OBVIOUS
<1>0. /\ commands \in Seq(STRING) /\ accepted \in Seq(STRING) /\ batch \in Seq(STRING) /\ done \in Seq(STRING)
      /\ done \o batch \o commands = accepted
  BY DEF ServerInv, QueueType, QueueInv
<1>a. loop \in {"off", "restore", "top", "poll", "step", "tail", "next", "ended"} => batch = <<>>
  BY DEF QueueInv, Phase
<1>1. ASSUME UNCHANGED <<batch, done, commands, accepted>>, batch # <<>> => Phase' = "exec"
      PROVE  QueueInv'
  BY <1>0, <1>1 DEF QueueInv
<1>2. CASE Launch
  BY <1>1, <1>2, <1>a DEF Launch, At, Start, StartFails, server
<1>3. CASE Fresh \/ (\E k \in Kinds : Restore(k)) \/ Top \/ Clock \/ IterationEnd \/ NextCycle
  <2>1. batch = <<>> /\ UNCHANGED <<batch, done, commands, accepted>>
    BY <1>3, <1>a DEF Fresh, Restore, Top, Clock, IterationEnd, NextCycle, At, server
  <2> QED
    BY <2>1, <1>1
<1>4. CASE Poll
  <2>1. batch = <<>> /\ UNCHANGED <<done, accepted>>
    BY <1>4, <1>a DEF Poll, At
  <2>2. CASE batch' = commands /\ commands' = <<>> /\ loop' = "exec"
    <3>1. done \o commands \o <<>> = accepted
      BY <1>0, <2>1, BatchEmpty
    <3> QED
      BY <1>0, <2>1, <2>2, <3>1 DEF QueueInv, Phase
  <2>3. CASE UNCHANGED <<batch, commands>>
    BY <1>1, <2>1, <2>3
  <2> QED
    BY <1>4, <2>2, <2>3 DEF Poll, Drain, To
<1>5. CASE Exec
  <2>1. loop = "exec" /\ UNCHANGED <<commands, accepted>>
    BY <1>5 DEF Exec, At, server
  <2>2. CASE batch = <<>>
    BY <1>1, <1>5, <2>1, <2>2 DEF Exec
  <2>3. CASE batch # <<>>
    <3>1. batch' = Tail(batch) /\ done' = Append(done, Head(batch))
      BY <1>5, <2>3 DEF Exec
    <3>2. Head(batch) \in STRING /\ Tail(batch) \in Seq(STRING) /\ Append(done, Head(batch)) \in Seq(STRING)
      BY <1>0, <2>3, HeadTail, SeqTypes
    <3>3. done' \o batch' \o commands' = accepted'
      <4>1. Append(done, Head(batch)) \o Tail(batch) \o commands = done \o batch \o commands
        BY <1>0, <2>3, BatchStep
      <4>2. commands' = commands /\ accepted' = accepted
        BY <2>1
      <4> QED
        BY <1>0, <3>1, <4>1, <4>2
    <3>4. Phase' = "exec"
      BY <1>5, <2>1, <2>3 DEF Exec, Save, To, Phase
    <3> QED
      BY <3>1, <3>2, <3>3, <3>4 DEF QueueInv
  <2> QED
    BY <2>2, <2>3
<1>6. CASE Saving
  <2>1. loop = "saving" /\ UNCHANGED <<batch, done, commands, accepted>>
    BY <1>6 DEF Saving, At, server
  <2>2. batch # <<>> => ret = "exec"
    BY <2>1 DEF QueueInv, Phase
  <2>3. batch # <<>> => Phase' = "exec"
    BY <1>6, <2>1, <2>2 DEF Saving, To, Phase
  <2> QED
    BY <1>1, <2>1, <2>3
<1>7. CASE Stopping \/ Signal \/ Client
  <2>1. UNCHANGED <<batch, done, commands, accepted, loop, ret>>
    BY <1>7 DEF Stopping, Stop, StopFlag, TakeFd, ShutFd, CloseFd, Join, Signal, Interrupted, Others, Client, Connect,
                HangUp, main
  <2> QED
    BY <1>1, <2>1 DEF QueueInv, Phase
<1>8. CASE ServerThread
  <2>1. UNCHANGED <<batch, done, loop, ret>> /\ Thread
    BY <1>8 DEF ServerThread, main
  <2>2. CASE UNCHANGED <<commands, accepted>>
    BY <1>1, <2>1, <2>2 DEF QueueInv, Phase
  <2>3. CASE \E line \in STRING : commands' = Append(commands, line) /\ accepted' = Append(accepted, line)
    <3>1. PICK line : /\ line \in STRING
                      /\ commands' = Append(commands, line) /\ accepted' = Append(accepted, line)
      BY <2>3
    <3>2. done \o batch \o Append(commands, line) = Append(done \o batch \o commands, line)
      <4> DEFINE S == STRING
      <4>1. done \in Seq(S) /\ batch \in Seq(S) /\ commands \in Seq(S) /\ line \in S
        BY <1>0, <3>1
      <4> HIDE DEF S
      <4> QED
        BY <4>1, QueueStep
    <3> QED
      BY <1>0, <2>1, <3>1, <3>2 DEF QueueInv, Phase
  <2> QED
    BY <2>1, <2>2, <2>3, ThreadQueues
<1>9. CASE Return \/ Killed
  <2>1. batch' = <<>> /\ done' = <<>> /\ commands' = <<>> /\ accepted' = <<>>
    BY <1>9 DEF Return, Killed, Gone, ServerGone
  <2> QED
    BY <2>1 DEF QueueInv
<1>10. CASE UNCHANGED vars
  BY <1>1, <1>10 DEF vars, server, main, QueueInv, Phase
<1> QED
  BY <1>2, <1>3, <1>4, <1>5, <1>6, <1>7, <1>8, <1>9, <1>10 DEF Next, Main, Finished

-----------------------------------------------------------------------------
(* The loop and the directories.                                             *)

\* No save is under way outside the place "saving".
LEMMA NotSaving ==
  ASSUME LoopInv, loop # "saving"
  PROVE  job.at = "none" /\ job = NoJob
BY DEF LoopInv, JobPlace, StoreTypes, JobType, Jobs, Places, CkptBefore, CkptAfter, SnapBefore, SnapAfter

\* A step that only moves the loop and its numbers.
LEMMA MoveInv ==
  ASSUME LoopInv, UNCHANGED store, LoopType', PhaseClock', loop # "saving", loop # "ended", cycle' >= cycle
  PROVE  LoopInv'
<1>1. StoreTypes' /\ StoreSafe(loop = "ended")'
  <2>1. StoreTypes /\ StoreSafe(FALSE)
    BY DEF LoopInv
  <2>2. PICK dead \in BOOLEAN : dead = (loop' = "ended")
    OBVIOUS
  <2>3. StoreTypes' /\ StoreSafe(dead)'
    BY <2>1, <2>2, DeadInv
  <2> QED
    BY <2>2, <2>3 DEF StoreSafe, KeySound
<1>2. DirClocks' /\ JobClock'
  BY DEF LoopInv, store, DirClocks, JobClock, MachineClock
<1>3. key.name \in Int /\ cycle \in Nat /\ cycle' \in Nat
  BY DEF LoopInv, StoreTypes, KeyType, LoopType
<1>4. JobPlace'
  BY <1>3, NotSaving DEF LoopInv, JobPlace, store
<1> QED
  BY <1>1, <1>2, <1>4 DEF LoopInv

\* A save begins, of the machine as it is.
LEMMA SaveInv ==
  ASSUME LoopInv, loop \in {"top", "exec", "tail"}, NEW k \in Kinds, NEW early \in BOOLEAN,
         NEW back \in {"poll", "exec", "next"}, Save(k, early, back), UNCHANGED <<cycle, clocks, strayed, ram>>,
         k = "snap" => back = "poll", PhaseClock', MachineClock(k, Machine(early))
  PROVE  LoopInv'
<1>0. /\ job.at = "none" /\ StoreTypes /\ StoreSafe(FALSE) /\ key.name <= cycle /\ cycle \in Nat /\ ram \in Rams
      /\ clocks \in Int /\ strayed \in BOOLEAN /\ DirClocks
  BY NotSaving DEF LoopInv, JobPlace, LoopType
<1>1. Begin(k, cycle, ram, Machine(early)) /\ loop' = "saving" /\ ret' = back
  BY DEF Save, To
<1>2. Machine(early) \in Machines /\ Machine(early).ram = ram
  BY <1>0 DEF Machine, Machines
<1>3. /\ StoreTypes' /\ StoreSafe(FALSE)'
      /\ job'.at # "none" /\ job'.kind = k /\ job'.cycle = cycle /\ job'.entry.machine = Machine(early)
  BY <1>0, <1>1, <1>2, BeginInv
<1>4. StoreSafe(loop = "ended")'
  BY <1>1, <1>3 DEF StoreSafe, KeySound
<1>5. LoopType'
  BY <1>0, <1>1 DEF LoopType, LoopPlaces
<1>6. JobClock'
  BY <1>3 DEF JobClock, MachineClock
<1>7. DirClocks'
  BY <1>0, <1>1 DEF DirClocks, MachineClock, Begin
<1>8. JobPlace'
  BY <1>0, <1>1, <1>3 DEF JobPlace, Begin
<1> QED
  BY <1>3, <1>4, <1>5, <1>6, <1>7, <1>8 DEF LoopInv

\* The condition of the loop, and a snapshot before anything of the iteration is done.
LEMMA TopInv == LoopInv /\ Top => LoopInv'
<1> SUFFICES ASSUME LoopInv, Top PROVE LoopInv'
  OBVIOUS
<1>0. /\ loop = "top" /\ UNCHANGED <<cycle, clocks, strayed, ram>> /\ LoopType
      /\ ~strayed => clocks = cycle + SetupClocks
  BY DEF Top, At, LoopInv, PhaseClock, Phase
<1>1. CASE UNCHANGED store /\ loop' \in {"ended", "poll"}
  <2>1. LoopType' /\ PhaseClock'
    BY <1>0, <1>1 DEF LoopType, LoopPlaces, PhaseClock, Phase
  <2> QED
    BY <1>0, <1>1, <2>1, MoveInv DEF LoopType
<1>2. CASE Save("snap", FALSE, "poll")
  <2>1. PhaseClock'
    BY <1>0, <1>2 DEF Save, To, PhaseClock, Phase
  <2>2. MachineClock("snap", Machine(FALSE))
    BY <1>0 DEF MachineClock, Machine
  <2> QED
    BY <1>0, <1>2, <2>1, <2>2, SaveInv DEF Kinds
<1> QED
  BY <1>1, <1>2 DEF Top, To

\* process_control_commands takes the queue, or it is not yet time.
LEMMA PollInv == LoopInv /\ Poll => LoopInv'
<1> SUFFICES ASSUME LoopInv, Poll PROVE LoopInv'
  OBVIOUS
<1>0. /\ loop = "poll" /\ UNCHANGED <<cycle, clocks, strayed, ram, store>> /\ LoopType
      /\ ~strayed => clocks = cycle + SetupClocks
      /\ loop' \in {"exec", "step"}
  BY DEF Poll, At, To, LoopInv, PhaseClock, Phase
<1>1. LoopType' /\ PhaseClock'
  BY <1>0 DEF LoopType, LoopPlaces, PhaseClock, Phase
<1> QED
  BY <1>0, <1>1, MoveInv DEF LoopType

\* One command, which may be a checkpoint before the clocks of the iteration.
LEMMA ExecInv == LoopInv /\ Exec => LoopInv'
<1> SUFFICES ASSUME LoopInv, Exec PROVE LoopInv'
  OBVIOUS
<1>0. /\ loop = "exec" /\ UNCHANGED <<cycle, clocks, strayed, ram>> /\ LoopType
      /\ ~strayed => clocks = cycle + SetupClocks
  BY DEF Exec, At, LoopInv, PhaseClock, Phase
<1>1. CASE UNCHANGED store /\ loop' \in {"ended", "step", "exec"}
  <2>1. LoopType' /\ PhaseClock'
    BY <1>0, <1>1 DEF LoopType, LoopPlaces, PhaseClock, Phase
  <2> QED
    BY <1>0, <1>1, <2>1, MoveInv DEF LoopType
<1>2. CASE Save("ckpt", TRUE, "exec")
  <2>1. PhaseClock'
    BY <1>0, <1>2 DEF Save, To, PhaseClock, Phase
  <2>2. MachineClock("ckpt", Machine(TRUE))
    BY <1>0 DEF MachineClock, Machine
  <2> QED
    BY <1>0, <1>2, <2>1, <2>2, SaveInv DEF Kinds
<1> QED
  BY <1>0, <1>1, <1>2 DEF Exec, To

\* The machine is clocked.
LEMMA ClockInv == LoopInv /\ Clock => LoopInv'
<1> SUFFICES ASSUME LoopInv, Clock PROVE LoopInv'
  OBVIOUS
<1>0. /\ loop = "step" /\ UNCHANGED <<cycle, strayed, store>> /\ LoopType
      /\ ~strayed => clocks = cycle + SetupClocks
      /\ loop' = "tail" /\ clocks' = clocks + 1
  BY DEF Clock, At, To, LoopInv, PhaseClock, Phase
<1>1. ram' \in Rams
  <2>1. PICK w : ram' = [p \in Pages |-> IF p \in w THEN 1 - ram[p] ELSE ram[p]]
    BY DEF Clock
  <2>2. \A p \in Pages : ram[p] \in {0, 1}
    BY <1>0 DEF LoopType, Rams, Contents
  <2> QED
    BY <2>1, <2>2 DEF Rams, Contents
<1>2. LoopType'
  BY <1>0, <1>1 DEF LoopType, LoopPlaces
<1>3. PhaseClock'
  <2>1. cycle' = cycle /\ strayed' = strayed /\ clocks' = clocks + 1 /\ loop' = "tail"
    BY <1>0
  <2>2. ~strayed' => clocks' = cycle' + 1 + SetupClocks
    BY <1>0, <2>1, SetupAssumption DEF LoopType
  <2> QED
    BY <2>1, <2>2 DEF PhaseClock, Phase
<1> QED
  BY <1>0, <1>2, <1>3, MoveInv DEF LoopType

\* The end of the iteration, perhaps with a checkpoint.
LEMMA IterationEndInv == LoopInv /\ IterationEnd => LoopInv'
<1> SUFFICES ASSUME LoopInv, IterationEnd PROVE LoopInv'
  OBVIOUS
<1>0. /\ loop = "tail" /\ UNCHANGED <<cycle, clocks, strayed, ram>> /\ LoopType
      /\ ~strayed => clocks = cycle + 1 + SetupClocks
  BY DEF IterationEnd, At, LoopInv, PhaseClock, Phase
<1>1. CASE UNCHANGED store /\ loop' = "next"
  <2>1. LoopType' /\ PhaseClock'
    BY <1>0, <1>1 DEF LoopType, LoopPlaces, PhaseClock, Phase
  <2> QED
    BY <1>0, <1>1, <2>1, MoveInv DEF LoopType
<1>2. CASE Save("ckpt", FALSE, "next")
  <2>1. PhaseClock'
    BY <1>0, <1>2 DEF Save, To, PhaseClock, Phase
  <2>2. MachineClock("ckpt", Machine(FALSE))
    BY <1>0 DEF MachineClock, Machine
  <2> QED
    BY <1>0, <1>2, <2>1, <2>2, SaveInv DEF Kinds
<1> QED
  BY <1>1, <1>2 DEF IterationEnd, To

\* The number of the next iteration.
LEMMA NextCycleInv == LoopInv /\ NextCycle => LoopInv'
<1> SUFFICES ASSUME LoopInv, NextCycle PROVE LoopInv'
  OBVIOUS
<1>0. /\ loop = "next" /\ UNCHANGED <<clocks, strayed, ram, store>> /\ LoopType
      /\ ~strayed => clocks = cycle + 1 + SetupClocks
      /\ loop' = "top" /\ cycle' = cycle + 1
  BY DEF NextCycle, At, To, LoopInv, PhaseClock, Phase
<1>1. LoopType' /\ PhaseClock'
  BY <1>0 DEF LoopType, LoopPlaces, PhaseClock, Phase
<1> QED
  BY <1>0, <1>1, MoveInv DEF LoopType

\* A file operation of the save, the end of the save, or its failure.
LEMMA SavingInv == LoopInv /\ Saving => LoopInv'
<1> SUFFICES ASSUME LoopInv, Saving PROVE LoopInv'
  OBVIOUS
<1>0. /\ loop = "saving" /\ UNCHANGED <<cycle, clocks, strayed, ram, ret>> /\ LoopType /\ PhaseClock
      /\ StoreTypes /\ StoreSafe(FALSE) /\ ret \in {"poll", "exec", "next"} /\ JobPlace /\ JobClock /\ DirClocks
  BY DEF Saving, At, LoopInv, LoopType
<1>1. CASE SaveStep /\ UNCHANGED loop
  <2>1. StoreTypes' /\ StoreSafe(FALSE)'
    BY <1>0, <1>1, SaveStepInv
  <2>2. StoreSafe(loop = "ended")'
    BY <1>0, <1>1, <2>1 DEF StoreSafe, KeySound
  <2>3. LoopType' /\ PhaseClock'
    BY <1>0, <1>1 DEF LoopType, PhaseClock, Phase
  <2>4. /\ job \in Jobs /\ job.at # "none" /\ job.kind \in Kinds
        /\ job' # NoJob => /\ job'.kind = job.kind /\ job'.cycle = job.cycle
                           /\ job'.entry.machine = job.entry.machine
    BY <1>0, <1>1, JobKept DEF Jobs
  <2>5. job'.at # "none" => job' # NoJob
    BY DEF NoJob
  <2>6. JobClock'
    BY <1>0, <2>4, <2>5 DEF JobClock, MachineClock
  <2>7. DirClocks'
    <3>1. MachineClock(job.kind, job.entry.machine)
      BY <1>0, <2>4 DEF JobClock
    <3>2. ASSUME NEW k \in Kinds, NEW n \in DOMAIN dirs'[k]
          PROVE  MachineClock(k, dirs'[k][n].machine)
      <4>1. CASE n \in DOMAIN dirs[k] /\ dirs'[k][n].machine = dirs[k][n].machine
        BY <1>0, <4>1 DEF DirClocks
      <4>2. CASE k = job.kind /\ dirs'[k][n].machine = job.entry.machine
        BY <3>1, <4>2
      <4> QED
        BY <1>0, <1>1, <4>1, <4>2, DirsKept
    <3> QED
      BY <3>2 DEF DirClocks, MachineClock
  <2>8. JobPlace'
    <3>1. key'.name = key.name \/ key'.name = job.cycle
      BY <1>0, <1>1, KeyKept
    <3> QED
      BY <1>0, <1>1, <2>4, <2>5, <3>1 DEF JobPlace, LoopType
  <2> QED
    BY <2>1, <2>2, <2>3, <2>6, <2>7, <2>8 DEF LoopInv
<1>2. CASE job.at = "none" /\ loop' = ret /\ UNCHANGED store
  <2>1. LoopType' /\ PhaseClock'
    BY <1>0, <1>2 DEF LoopType, LoopPlaces, PhaseClock, Phase
  <2>2. StoreTypes' /\ StoreSafe(FALSE)'
    BY <1>0, <1>2, DeadInv
  <2>3. StoreSafe(loop = "ended")'
    BY <1>0, <1>2, <2>2 DEF StoreSafe, KeySound
  <2>4. DirClocks' /\ JobClock' /\ JobPlace'
    BY <1>0, <1>2 DEF store, DirClocks, JobClock, JobPlace, MachineClock
  <2> QED
    BY <2>1, <2>2, <2>3, <2>4 DEF LoopInv
<1>3. CASE /\ job.at = "failed" /\ job' = NoJob /\ UNCHANGED <<dirs, latest, keys, key, spoiled>>
           /\ loop' = IF ret = "poll" THEN "ended" ELSE ret
  <2>1. LoopType' /\ PhaseClock'
    BY <1>0, <1>3 DEF LoopType, LoopPlaces, PhaseClock, Phase
  <2>2. PICK dead \in BOOLEAN : dead = (loop' = "ended")
    OBVIOUS
  <2>3. Underway("snap") => dead
    BY <1>0, <1>3, <2>2 DEF Underway, JobPlace
  <2>4. StoreTypes' /\ StoreSafe(dead)'
    BY <1>0, <1>3, <2>3, OverInv
  <2>5. StoreSafe(loop = "ended")'
    BY <2>2, <2>4 DEF StoreSafe, KeySound
  <2>6. job'.at = "none"
    BY <1>3 DEF NoJob
  <2>7. DirClocks' /\ JobClock' /\ JobPlace'
    BY <1>0, <1>3, <2>6 DEF DirClocks, JobClock, JobPlace, MachineClock
  <2> QED
    BY <2>1, <2>4, <2>5, <2>7 DEF LoopInv
<1> QED
  BY <1>1, <1>2, <1>3 DEF Saving, To

\* A process begins, or ends: nothing in memory, the directories as they are.
LEMMA NewProcessInv ==
  ASSUME LoopInv, NewProcess, loop' \in {"off", "top"}, cycle' \in Nat, clocks' \in Int,
         strayed' \in BOOLEAN, ram' \in Rams,
         loop' = "top" /\ ~strayed' => clocks' = cycle' + SetupClocks
  PROVE  LoopInv'
<1>0. job' = NoJob /\ key' = NoKey /\ UNCHANGED <<dirs, latest, keys, spoiled>>
  BY DEF NewProcess
<1>1. job'.at = "none" /\ key'.name = -1
  BY <1>0 DEF NoJob, NoKey, None
<1>2. PICK dead \in BOOLEAN : dead = (loop = "ended")
  OBVIOUS
<1>3. StoreTypes /\ StoreSafe(dead)
  BY <1>2 DEF LoopInv
<1>4. StoreTypes' /\ StoreSafe(FALSE)'
  BY <1>0, <1>3, GoneInv
<1>5. StoreSafe(loop = "ended")'
  BY <1>4 DEF StoreSafe, KeySound
<1>6. LoopType' /\ PhaseClock'
  BY DEF LoopType, LoopPlaces, PhaseClock, Phase
<1>7. DirClocks' /\ JobClock' /\ JobPlace'
  BY <1>0, <1>1 DEF LoopInv, DirClocks, JobClock, JobPlace, MachineClock
<1> QED
  BY <1>4, <1>5, <1>6, <1>7 DEF LoopInv

\* The guest's RAM before the first clock.
LEMMA ZeroType == Zero \in Rams
BY DEF Zero, Rams, Contents

\* A run goes back to a directory, or ends because it cannot.
LEMMA RestoreInv ==
  ASSUME LoopInv, NEW k \in Kinds, Restore(k)
  PROVE  LoopInv'
<1>0. loop = "restore" /\ LoopType /\ StoreTypes /\ DirClocks
  BY DEF Restore, At, LoopInv
<1>1. PICK n \in DOMAIN dirs[k] \union {latest[k]} : RestoreWhole(k, n) \/ RestoreCut(k, n) \/ RestoreFails(k, n)
  BY DEF Restore
<1> DEFINE m == dirs[k][n].machine
<1>2. ASSUME n \in DOMAIN dirs[k]
      PROVE  /\ m \in Machines /\ m.cycle \in Nat /\ m.clocks \in Int /\ m.strayed \in BOOLEAN
             /\ m.early \in BOOLEAN /\ m.ram \in Rams /\ MachineClock(k, m)
  <2>1. m \in Machines
    BY <1>0, <1>2 DEF StoreTypes, DirsType, Entries
  <2>2. MachineClock(k, m)
    BY <1>0, <1>2 DEF DirClocks
  <2> QED
    BY <2>1, <2>2 DEF Machines
<1>3. CASE RestoreWhole(k, n)
  <2>1. CanRestore(k, n) /\ Begun(LoopStart(k, m), m.clocks, m.strayed \/ m.early, RestoredRam(k, n))
    BY <1>3 DEF RestoreWhole
  <2>2. n \in DOMAIN dirs[k] /\ RestoredRam(k, n) \in Rams
    BY <1>0, <2>1, RestoredType DEF CanRestore
  <2> HIDE DEF m
  <2>3. /\ loop' = "top" /\ cycle' = LoopStart(k, m) /\ clocks' = m.clocks
        /\ strayed' = (m.strayed \/ m.early) /\ ram' = RestoredRam(k, n) /\ NewProcess
    BY <2>1 DEF Begun, To
  <2>4. m.cycle \in Nat /\ m.clocks \in Int /\ m.strayed \in BOOLEAN /\ m.early \in BOOLEAN /\ MachineClock(k, m)
    BY <1>2, <2>2
  <2>5. cycle' \in Nat /\ strayed' \in BOOLEAN /\ (~strayed' => clocks' = cycle' + SetupClocks)
    BY <2>3, <2>4, SetupAssumption DEF MachineClock, LoopStart, Kinds
  <2> QED
    BY <2>2, <2>3, <2>4, <2>5, NewProcessInv
<1>4. CASE RestoreCut(k, n)
  <2>1. PICK left \in Leftovers(m) : Begun(LoopStart(k, [m EXCEPT !.cycle = left[1]]), left[2], TRUE, m.ram)
    BY <1>4 DEF RestoreCut
  <2>2. n \in DOMAIN dirs[k]
    BY <1>4 DEF RestoreCut, Cut
  <2> HIDE DEF m
  <2>3. m \in Machines /\ m.cycle \in Nat /\ m.clocks \in Int /\ m.ram \in Rams
    BY <1>2, <2>2
  <2>4. left[1] \in Nat /\ left[2] \in Int
    BY <2>3 DEF Leftovers
  <2>5. [m EXCEPT !.cycle = left[1]].cycle = left[1]
    BY <2>3 DEF Machines
  <2>6. /\ loop' = "top" /\ cycle' \in Nat /\ clocks' \in Int /\ strayed' = TRUE /\ ram' \in Rams /\ NewProcess
    BY <2>1, <2>3, <2>4, <2>5 DEF Begun, To, LoopStart
  <2> QED
    BY <2>6, NewProcessInv
<1>5. CASE RestoreFails(k, n)
  <2>1. loop' = "ended" /\ UNCHANGED <<store, cycle, clocks, strayed, ram>>
    BY <1>5 DEF RestoreFails, To
  <2>2. LoopType' /\ PhaseClock'
    BY <1>0, <2>1 DEF LoopType, LoopPlaces, PhaseClock, Phase
  <2> QED
    BY <1>0, <2>1, <2>2, MoveInv DEF LoopType
<1> QED
  BY <1>1, <1>3, <1>4, <1>5

\* Every step of the system keeps the invariant of the loop.
LEMMA LoopNext == LoopInv /\ [Next]_vars => LoopInv'
<1> SUFFICES ASSUME LoopInv, [Next]_vars PROVE LoopInv'
  OBVIOUS
<1>1. CASE Launch
  <2>1. /\ loop = "off" /\ loop' \in {"restore", "ended"} /\ LoopType
        /\ UNCHANGED <<store, cycle, clocks, strayed, ram>>
    BY <1>1 DEF Launch, At, To, LoopInv
  <2>2. LoopType' /\ PhaseClock'
    BY <2>1 DEF LoopType, LoopPlaces, PhaseClock, Phase
  <2> QED
    BY <2>1, <2>2, MoveInv DEF LoopType
<1>2. CASE Fresh
  <2>1. /\ loop' = "top" /\ cycle' = 0 /\ clocks' = SetupClocks /\ strayed' = FALSE /\ ram' = Zero
        /\ NewProcess
    BY <1>2 DEF Fresh, Begun, To
  <2>2. cycle' \in Nat /\ clocks' \in Int /\ clocks' = cycle' + SetupClocks
    BY <2>1, SetupAssumption
  <2>3. strayed' \in BOOLEAN /\ ram' \in Rams
    BY <2>1, ZeroType
  <2> QED
    BY <2>1, <2>2, <2>3, NewProcessInv
<1>3. CASE \E k \in Kinds : Restore(k)
  BY <1>3, RestoreInv
<1>4. CASE Top \/ Poll \/ Exec \/ Clock \/ IterationEnd \/ NextCycle \/ Saving
  BY <1>4, TopInv, PollInv, ExecInv, ClockInv, IterationEndInv, NextCycleInv, SavingInv
<1>5. CASE Return \/ Killed
  <2>1. /\ loop' = "off" /\ cycle' = 0 /\ clocks' = 0 /\ strayed' = FALSE /\ ram' = Zero
        /\ NewProcess
    BY <1>5 DEF Return, Killed, Gone, NewProcess
  <2>2. cycle' \in Nat /\ clocks' \in Int
    BY <2>1
  <2>3. strayed' \in BOOLEAN /\ ram' \in Rams
    BY <2>1, ZeroType
  <2> QED
    BY <2>1, <2>2, <2>3, NewProcessInv
<1>6. CASE UNCHANGED <<store, main>>
  <2>1. UNCHANGED <<loop, ret, cycle, clocks, strayed, ram, dirs, latest, keys, key, job, spoiled>>
    BY <1>6 DEF store, main
  <2>2. LoopType' /\ PhaseClock' /\ DirClocks' /\ JobClock' /\ JobPlace'
    BY <2>1 DEF LoopInv, LoopType, PhaseClock, Phase, DirClocks, JobClock, JobPlace, MachineClock
  <2>3. StoreTypes'
    BY <2>1 DEF LoopInv, StoreTypes, DirsType, LatestType, KeysType, KeyType, SpoiledType, JobType
  <2>4. WholeRestores' /\ KeySound(loop = "ended")' /\ JobKey'
    BY <2>1 DEF LoopInv, StoreSafe, WholeRestores, Restores, Rebuilt, KeySound, Underway, JobKey
  <2>5. \A k \in Kinds : LatestWhole(k)' /\ JobOrder(k)'
    BY <2>1 DEF LoopInv, StoreSafe, LatestWhole, JobOrder, Underway
  <2> QED
    BY <2>2, <2>3, <2>4, <2>5 DEF LoopInv, StoreSafe
<1>7. CASE Stopping \/ ServerThread \/ Signal \/ Client
  BY <1>6, <1>7 DEF Stopping, ServerThread, Signal, Client
<1>8. CASE UNCHANGED vars
  BY <1>6, <1>8 DEF vars
<1> QED
  BY <1>1, <1>2, <1>3, <1>4, <1>5, <1>7, <1>8 DEF Next, Main, Finished

\* The invariant holds before the program is first started.
LEMMA LoopInit == Init => LoopInv
<1> SUFFICES ASSUME Init PROVE LoopInv
  OBVIOUS
<1>1. StoreTypes /\ StoreSafe(FALSE)
  BY StoreInitInv DEF Init
<1>2. /\ loop = "off" /\ cycle = 0 /\ clocks = 0 /\ strayed = FALSE /\ ram \in Rams
      /\ job.at = "none" /\ key.name = -1
      /\ \A k \in Kinds : DOMAIN dirs[k] = {}
  BY ZeroType DEF Init, StoreInit, NoJob, NoKey, None
<1>3. StoreSafe(loop = "ended")
  BY <1>1, <1>2 DEF StoreSafe, KeySound
<1>4. LoopType
  <2>1. cycle \in Nat /\ clocks \in Int /\ loop \in LoopPlaces
    BY <1>2 DEF LoopPlaces
  <2>2. strayed \in BOOLEAN
    BY <1>2
  <2> QED
    BY <1>2, <2>1, <2>2 DEF LoopType
<1>5. PhaseClock
  BY <1>2 DEF PhaseClock, Phase
<1>6. DirClocks /\ JobClock /\ JobPlace
  BY <1>2 DEF DirClocks, JobClock, JobPlace
<1> QED
  BY <1>1, <1>3, <1>4, <1>5, <1>6 DEF LoopInv

-----------------------------------------------------------------------------
\* At the top of every iteration, through any sequence of checkpoints at the end of an iteration,
\* snapshots at its beginning, kills and restores, the machine has made as many clocks as the cycle
\* number says and the SetupClocks of a fresh start (main.cpp, sim_time and loop_start_cycle).  Not so
\* once a run went back to a checkpoint of the control port or to a harness.bin cut off unnoticed.
THEOREM ClockSafe == Spec => []ClockExact
<1>1. LoopInv => ClockExact
  BY DEF LoopInv, PhaseClock, Phase, ClockExact, At
<1> QED
  BY <1>1, LoopInit, LoopNext, PTL DEF Spec

\* Wherever the process is killed: a directory that is whole restores to exactly the RAM it was saved
\* from, and latest.txt is empty or names such a directory (main.cpp save_checkpoint, save_snapshot;
\* cosim_host.cpp cosim_host_save_portable, cosim_host_load_portable).
THEOREM SnapshotsSafe == Spec => []SnapshotRestores
<1>1. LoopInv => SnapshotRestores
  <2> SUFFICES ASSUME LoopInv PROVE SnapshotRestores
    OBVIOUS
  <2>1. PICK dead \in BOOLEAN : dead = (loop = "ended")
    OBVIOUS
  <2>2. StoreTypes /\ StoreSafe(dead)
    BY <2>1 DEF LoopInv
  <2> QED
    BY <2>2, StoreRestores
<1> QED
  BY <1>1, LoopInit, LoopNext, PTL DEF Spec

\* What clients were told is queued is carried out in that order, each command once, or is still in the
\* batch or in the queue, also while a checkpoint interrupts the batch (main.cpp
\* process_control_commands; control_server.cpp).
THEOREM QueueSafe == Spec => []AcknowledgedInOrder
<1>1. Init => LoopInv /\ ServerInv /\ QueueInv
  <2>1. Init => ServerInv
    BY ServerInitInv DEF Init
  <2>2. Init => QueueInv
    BY DEF Init, ServerInit, QueueInv
  <2> QED
    BY <2>1, <2>2, LoopInit
<1>2. LoopInv /\ ServerInv /\ QueueInv /\ [Next]_vars => LoopInv' /\ ServerInv' /\ QueueInv'
  BY LoopNext, ServerNext, QueueNext DEF LoopInv
<1>3. QueueInv => AcknowledgedInOrder
  BY DEF QueueInv, AcknowledgedInOrder
<1> QED
  BY <1>1, <1>2, <1>3, PTL DEF Spec
=============================================================================
