--------------------------- MODULE ControlServer ---------------------------
(* The control port of the simulator (src/verilator/control_server.cpp): a   *)
(* thread of its own accepts one client at a time and queues its lines; the  *)
(* simulation's thread drains the queue and, in the end, calls stop(), which *)
(* takes the descriptors away from the thread and joins it.  Descriptors are *)
(* numbers the kernel hands out again, lowest first, so the model tells a    *)
(* number from the socket it stands for.                                     *)
EXTENDS Integers, Sequences, FiniteSets

CONSTANTS
  Clients,      \* who may connect, each once
  Lines,        \* Lines[c]: the chunks of lines client c sends, in order
  MaxQueued,    \* MAX_QUEUED_COMMANDS
  Flood         \* a chunk longer than MAX_PENDING_INPUT, without a newline

ASSUME LinesAssumption == Lines \in [Clients -> Seq(Seq(STRING))] /\ MaxQueued \in Nat

VARIABLES
  stopping, listen_fd, client_fd,   \* the atomics shared by both threads
  commands,     \* commands_, under its mutex
  srv,          \* the server thread: where it is and its local variables
  stp,          \* the thread in start() and stop(): likewise
  fds,          \* descriptor number -> the socket it stands for
  shut,         \* sockets that were shut down
  peer,         \* each client's side of its connection
  accepted,     \* every line answered "OK queued", in order
  misuse        \* a descriptor was used for a socket it no longer stands for

server == <<stopping, listen_fd, client_fd, commands, srv, stp, fds, shut, peer, accepted, misuse>>

NoFd == -1
Listener == "listener"

\* Socket numbers: the lowest one that is free.
NewFd(open) == CHOOSE n \in 1..3 : n \notin DOMAIN open /\ \A m \in 1..(n - 1) : m \in DOMAIN open
Opened(n, s) == [m \in DOMAIN fds \union {n} |-> IF m = n THEN s ELSE fds[m]]
Closed(n) == [m \in DOMAIN fds \ {n} |-> fds[m]]
Stands(n, s) == n \in DOMAIN fds /\ fds[n] = s
\* A call on number n by a thread that means socket s is wrong when n now
\* stands for another one.
Wrong(n, s) == n \in DOMAIN fds /\ fds[n] # s
Dead(n, s) == ~Stands(n, s) \/ s \in shut

Idle == [at |-> "off", listener |-> NoFd, client |-> NoFd, sock |-> Listener, pending |-> <<>>]
Stopped == [at |-> "off", fd |-> NoFd, sock |-> Listener]
PeerInit == [c \in Clients |-> [at |-> "away", left |-> Lines[c]]]

ServerInit ==
  /\ stopping = FALSE /\ listen_fd = NoFd /\ client_fd = NoFd /\ commands = <<>>
  /\ srv = Idle /\ stp = Stopped /\ fds = <<>> /\ shut = {} /\ peer = PeerInit
  /\ accepted = <<>> /\ misuse = FALSE

\* start(): refused while a thread is running; on a failure of bind() or
\* listen() the new socket is closed again.
Start ==
  /\ stp.at = "off" /\ srv.at = "off"
  /\ stopping' = FALSE /\ listen_fd' = NewFd(fds) /\ fds' = Opened(NewFd(fds), Listener)
  /\ srv' = [srv EXCEPT !.at = "loop"] /\ stp' = [stp EXCEPT !.at = "run"]
  /\ UNCHANGED <<client_fd, commands, shut, peer, accepted, misuse>>

StartFails ==
  /\ stp.at = "off" /\ srv.at = "off"
  /\ stp' = [stp EXCEPT !.at = "joined"]
  /\ UNCHANGED <<stopping, listen_fd, client_fd, commands, srv, fds, shut, peer, accepted, misuse>>

--------------------------------------------------------------------------
(* The server thread.                                                     *)

Go(at) == srv' = [srv EXCEPT !.at = at]
Others == UNCHANGED <<stopping, commands, stp, shut, accepted>>

\* run(): the loop's condition, then the load of listen_fd_.
RunLoop ==
  /\ \/ srv.at = "loop" /\ Go(IF stopping THEN "exit" ELSE "load")
     \/ srv.at = "load" /\ srv' = [srv EXCEPT !.at = IF listen_fd < 0 THEN "exit" ELSE "accept",
                                              !.listener = listen_fd]
  /\ Others /\ UNCHANGED <<listen_fd, client_fd, fds, peer, misuse>>

\* A blocking call looks its descriptor up when it begins; from then on it
\* holds the socket, and closing the number does not wake it: data, a client
\* or shutdown() does.
BlockingCall ==
  /\ \/ /\ srv.at = "accept"
        /\ misuse' = (misuse \/ Wrong(srv.listener, Listener))
        /\ Go(IF Stands(srv.listener, Listener) THEN "accepting" ELSE "refused")
     \/ /\ srv.at = "recv"
        /\ misuse' = (misuse \/ Wrong(srv.client, srv.sock))
        /\ Go(IF Stands(srv.client, srv.sock) THEN "receiving" ELSE "leave")
  /\ Others /\ UNCHANGED <<listen_fd, client_fd, fds, peer>>

Accept ==
  /\ \/ /\ srv.at = "accepting" /\ Listener \notin shut
        /\ \E c \in Clients :
             /\ peer[c].at = "waiting"
             /\ peer' = [peer EXCEPT ![c].at = "served"]
             /\ fds' = Opened(NewFd(fds), c)
             /\ srv' = [srv EXCEPT !.at = "publish", !.client = NewFd(fds), !.sock = c]
     \/ /\ srv.at = "refused" \/ (srv.at = "accepting" /\ Listener \in shut)
        /\ Go(IF stopping THEN "exit" ELSE "loop")
        /\ UNCHANGED <<fds, peer>>
  /\ Others /\ UNCHANGED <<listen_fd, client_fd, misuse>>

\* EINTR: either call is made again, after the loop's condition.
Interrupted ==
  /\ srv.at \in {"accepting", "receiving"} /\ Go(IF srv.at = "accepting" THEN "loop" ELSE "handle")
  /\ Others /\ UNCHANGED <<listen_fd, client_fd, fds, peer, misuse>>

Publish ==
  /\ srv.at = "publish"
  /\ client_fd' = srv.client
  /\ srv' = [srv EXCEPT !.at = "handle", !.pending = <<>>]
  /\ Others /\ UNCHANGED <<listen_fd, fds, peer, misuse>>

\* handle_client(): the loop's condition, then recv().
Handle ==
  /\ srv.at = "handle" /\ Go(IF stopping THEN "leave" ELSE "recv")
  /\ Others /\ UNCHANGED <<listen_fd, client_fd, fds, peer, misuse>>

Receive ==
  LET c == srv.sock IN
  /\ srv.at = "receiving"
  /\ \/ /\ c \notin shut /\ peer[c].left # <<>>
        /\ peer' = [peer EXCEPT ![c].left = Tail(@)]
        /\ srv' = IF Head(peer[c].left) = Flood THEN [srv EXCEPT !.at = "leave"]
                  ELSE [srv EXCEPT !.at = "line", !.pending = @ \o Head(peer[c].left)]
     \/ /\ c \in shut \/ (peer[c].left = <<>> /\ peer[c].at = "gone")
        /\ Go("leave") /\ UNCHANGED peer
  /\ Others /\ UNCHANGED <<listen_fd, client_fd, fds, misuse>>

Asks(line) == line \in {"status", "help"}
Queued == Len(commands) < MaxQueued

\* One complete line: status and help are answered at once, anything else is
\* queued, under the mutex, if there is room.
TakeLine ==
  /\ srv.at = "line"
  /\ IF srv.pending = <<>> THEN Go("handle") /\ UNCHANGED <<commands, accepted>>
     ELSE LET line == Head(srv.pending) IN
          /\ srv' = [srv EXCEPT !.at = "reply", !.pending = Tail(@)]
          /\ IF ~Asks(line) /\ Queued
             THEN commands' = Append(commands, line) /\ accepted' = Append(accepted, line)
             ELSE UNCHANGED <<commands, accepted>>
  /\ UNCHANGED <<stopping, stp, shut, listen_fd, client_fd, fds, peer, misuse>>

\* send_all(): fails on a dead socket; to a client that hung up it may still
\* succeed.
Reply ==
  LET c == srv.sock IN
  /\ srv.at = "reply"
  /\ \/ ~Dead(srv.client, c) /\ Go("line")
     \/ (Dead(srv.client, c) \/ peer[c].at = "gone") /\ Go("leave")
  /\ misuse' = (misuse \/ Wrong(srv.client, c))
  /\ Others /\ UNCHANGED <<listen_fd, client_fd, fds, peer>>

\* The client is closed by whoever takes its number out of client_fd_.
LeaveTwice ==
  /\ srv.at = "leave"
  /\ client_fd' = NoFd
  /\ Go("close")
  /\ Others /\ UNCHANGED <<listen_fd, fds, peer, misuse>>

Leave ==
  /\ srv.at = "leave"
  /\ client_fd' = NoFd
  /\ Go(IF client_fd = srv.client THEN "close" ELSE "loop")
  /\ Others /\ UNCHANGED <<listen_fd, fds, peer, misuse>>

CloseClient ==
  /\ srv.at = "close"
  /\ misuse' = (misuse \/ ~Stands(srv.client, srv.sock))
  /\ fds' = Closed(srv.client)
  /\ peer' = [peer EXCEPT ![srv.sock].at = "cut"]
  /\ Go("loop")
  /\ Others /\ UNCHANGED <<listen_fd, client_fd>>

\* The end of run(): the listener, unless stop() took it.
Exit ==
  /\ \/ /\ srv.at = "exit"
        /\ srv' = [srv EXCEPT !.at = IF listen_fd >= 0 THEN "unlisten" ELSE "done", !.listener = listen_fd]
        /\ listen_fd' = NoFd /\ UNCHANGED <<fds, misuse>>
     \/ /\ srv.at = "unlisten" /\ Go("done")
        /\ misuse' = (misuse \/ ~Stands(srv.listener, Listener))
        /\ fds' = Closed(srv.listener) /\ UNCHANGED listen_fd
  /\ Others /\ UNCHANGED <<client_fd, peer>>

Thread == RunLoop \/ BlockingCall \/ Accept \/ Publish \/ Handle \/ Receive \/ TakeLine \/ Reply \/ Leave \/ CloseClient \/ Exit

--------------------------------------------------------------------------
(* The simulation's thread.                                               *)

\* drain_commands(): the queue as one batch.
DrainKeeps == UNCHANGED commands

Drain == commands' = <<>>

\* stop(), one shared access at a time: the flag, then each descriptor is
\* taken, shut down and closed, then the thread is joined.
StopFlag ==
  /\ stp.at = "run" /\ stopping' = TRUE /\ stp' = [stp EXCEPT !.at = "take client"]
  /\ UNCHANGED <<listen_fd, client_fd, commands, srv, fds, shut, peer, accepted, misuse>>

TakeFd ==
  /\ \/ /\ stp.at = "take client" /\ client_fd' = NoFd
        /\ stp' = IF client_fd >= 0 THEN [at |-> "shut client", fd |-> client_fd, sock |-> srv.sock]
                  ELSE [stp EXCEPT !.at = "take listener"]
        /\ UNCHANGED listen_fd
     \/ /\ stp.at = "take listener" /\ listen_fd' = NoFd
        /\ stp' = IF listen_fd >= 0 THEN [at |-> "shut listener", fd |-> listen_fd, sock |-> Listener]
                  ELSE [stp EXCEPT !.at = "join"]
        /\ UNCHANGED client_fd
  /\ UNCHANGED <<stopping, commands, srv, fds, shut, peer, accepted, misuse>>

ShutFdMissing ==
  /\ stp.at \in {"shut client", "shut listener"}
  /\ stp' = [stp EXCEPT !.at = IF @ = "shut client" THEN "close client" ELSE "close listener"]
  /\ UNCHANGED <<stopping, listen_fd, client_fd, commands, srv, fds, shut, peer, accepted, misuse>>

\* A thread blocked on the socket wakes when it is shut down.
ShutFd ==
  /\ stp.at \in {"shut client", "shut listener"}
  /\ stp' = [stp EXCEPT !.at = IF @ = "shut client" THEN "close client" ELSE "close listener"]
  /\ shut' = shut \union {stp.sock} /\ misuse' = (misuse \/ Wrong(stp.fd, stp.sock))
  /\ UNCHANGED <<stopping, listen_fd, client_fd, commands, srv, fds, peer, accepted>>

CloseFd ==
  /\ stp.at \in {"close client", "close listener"}
  /\ stp' = [stp EXCEPT !.at = IF @ = "close client" THEN "take listener" ELSE "join"]
  /\ misuse' = (misuse \/ ~Stands(stp.fd, stp.sock))
  /\ fds' = Closed(stp.fd)
  /\ peer' = IF stp.sock \in Clients THEN [peer EXCEPT ![stp.sock].at = "cut"] ELSE peer
  /\ UNCHANGED <<stopping, listen_fd, client_fd, commands, srv, shut, accepted>>

Join ==
  /\ stp.at = "join" /\ srv.at = "done"
  /\ stp' = [stp EXCEPT !.at = "joined"]
  /\ UNCHANGED <<stopping, listen_fd, client_fd, commands, srv, fds, shut, peer, accepted, misuse>>

Stop == StopFlag \/ TakeFd \/ ShutFd \/ CloseFd \/ Join

--------------------------------------------------------------------------
(* The clients.                                                           *)

\* A client sends its lines at any pace and may hang up before or after the
\* rest was sent.
Connect(c) ==
  /\ peer[c].at = "away" /\ \E n \in DOMAIN fds : fds[n] = Listener
  /\ peer' = [peer EXCEPT ![c].at = "waiting"]
  /\ UNCHANGED <<stopping, listen_fd, client_fd, commands, srv, stp, fds, shut, accepted, misuse>>

HangUp(c) ==
  /\ peer[c].at = "served"
  /\ \E rest \in {peer[c].left, <<>>} : peer' = [peer EXCEPT ![c] = [at |-> "gone", left |-> rest]]
  /\ UNCHANGED <<stopping, listen_fd, client_fd, commands, srv, stp, fds, shut, accepted, misuse>>

\* Every descriptor is closed once, by the thread that took its number, and
\* no call goes to a number that stands for another socket; after the join
\* none is left open.
DescriptorsOnce == ~misuse /\ (stp.at = "joined" => fds = <<>>)
=============================================================================
