--------------------------- MODULE ControlServerProofs ---------------------------
(***************************************************************************)
(* Proofs about ControlServer: what every step of the server thread, of    *)
(* stop() and of the clients keeps, for any clients, lines and queue       *)
(* length.                                                                 *)
(***************************************************************************)
EXTENDS ControlServer, TLAPS

-----------------------------------------------------------------------------
(* The control server's descriptors.                                         *)

FdNumber == 1..3 \union {NoFd}
\* Where the server thread serves a client it has published, and the rest of its places.
Serving == {"handle", "recv", "receiving", "line", "reply", "leave"}
SrvAt == Serving \union {"off", "loop", "load", "accept", "accepting", "refused", "publish", "close",
                         "exit", "unlisten", "done"}
\* Where stop() holds the client's descriptor, and the listener's.
HasClient == {"shut client", "close client"}
HasListener == {"shut listener", "close listener"}
StopAt == {"take client", "take listener", "join"} \union HasClient \union HasListener

\* The types of the server's variables.
SrvType == srv \in [at : SrvAt, listener : FdNumber, client : FdNumber, sock : Clients \union {Listener},
                    pending : Seq(STRING)]
StpType == stp \in [at : StopAt \union {"off", "run", "joined"}, fd : FdNumber, sock : Clients \union {Listener}]
FdType == DOMAIN fds \subseteq 1..3 /\ listen_fd \in FdNumber /\ client_fd \in FdNumber
FdsFunction == fds = [n \in DOMAIN fds |-> fds[n]]
PeerPlaces == {"away", "waiting", "served", "gone", "cut"}
PeerType == peer \in [Clients -> [at : PeerPlaces, left : Seq(Seq(STRING))]]
QueueType == commands \in Seq(STRING) /\ accepted \in Seq(STRING)

\* Whose duty it is to close number n.
ListenerHeld(n) == \/ n = listen_fd
                   \/ srv.at = "unlisten" /\ n = srv.listener
                   \/ stp.at \in HasListener /\ n = stp.fd
ClientHeld(n) == \/ n = client_fd
                 \/ srv.at \in {"publish", "close"} /\ n = srv.client
                 \/ stp.at \in HasClient /\ n = stp.fd

\* An open number is held by someone, and stands for what its holder means.
HeldExactly ==
  \A n \in 1..3 : /\ ListenerHeld(n) => Stands(n, Listener) /\ ~ClientHeld(n)
                  /\ ClientHeld(n) => Stands(n, srv.sock) /\ n = srv.client
                  /\ n \in DOMAIN fds => ListenerHeld(n) \/ ClientHeld(n)

\* Nobody holds a number twice, and the number a client is served on is not the listener's.
HeldOnce ==
  /\ listen_fd # NoFd => /\ srv.at \notin {"off", "unlisten", "done"}
                         /\ stp.at \in {"run", "take client", "take listener"} \union HasClient
  /\ client_fd # NoFd => srv.at \in Serving /\ stp.at \notin HasClient
  /\ srv.at = "unlisten" => srv.listener # NoFd /\ stp.at \notin HasListener
  /\ srv.at \in {"publish", "close"} => srv.client # NoFd /\ stp.at \notin HasClient
  /\ stp.at \in HasClient => /\ srv.at \in Serving \union {"loop", "exit", "unlisten", "done"}
                             /\ stp.fd # NoFd /\ stp.sock = srv.sock
  /\ stp.at \in HasListener => stp.fd # NoFd /\ stp.sock = Listener
  /\ srv.at \in Serving => srv.client # NoFd /\ ~ListenerHeld(srv.client)
  /\ srv.at \in Serving \union {"publish", "close"} => srv.sock \in Clients

\* The two threads' places against each other.
StopSaid == stp.at \notin {"off", "run", "joined"} => stopping = TRUE
ThreadOrder ==
  /\ stp.at = "off" => srv.at = "off"
  /\ srv.at = "off" => stp.at \in {"off", "joined"}
  /\ stp.at = "joined" => srv.at \in {"off", "done"}

ServerInv == /\ SrvType /\ StpType /\ FdType /\ FdsFunction /\ PeerType /\ QueueType
             /\ HeldExactly /\ HeldOnce /\ StopSaid /\ ThreadOrder /\ DescriptorsOnce
-----------------------------------------------------------------------------
\* Sequences: what the steps need.
LEMMA HeadTail ==
  ASSUME NEW S, NEW s \in Seq(S), s # <<>>
  PROVE  Head(s) \in S /\ Tail(s) \in Seq(S)
OBVIOUS

\* Longer sequences, of the same elements.
LEMMA SeqTypes ==
  ASSUME NEW S, NEW s \in Seq(S), NEW t \in Seq(S), NEW e \in S
  PROVE  s \o t \in Seq(S) /\ Append(s, e) \in Seq(S) /\ <<>> \in Seq(S)
OBVIOUS

\* A number is a descriptor's, or NoFd.
LEMMA FdChoice ==
  ASSUME NEW n \in FdNumber
  PROVE  /\ n >= 0 <=> n \in 1..3
         /\ n # NoFd <=> n \in 1..3
BY DEF FdNumber, NoFd

\* -1 is no descriptor's number.
LEMMA NoFdFact == NoFd \notin 1..3
BY DEF NoFd

\* What Go leaves of the server thread's variables.
LEMMA GoFields ==
  ASSUME SrvType, NEW a, Go(a)
  PROVE  /\ srv'.at = a /\ srv'.listener = srv.listener /\ srv'.client = srv.client
         /\ srv'.sock = srv.sock /\ srv'.pending = srv.pending
BY DEF SrvType, Go

\* A step that passes no descriptor on, opens none and closes none.
LEMMA SameHolders ==
  ASSUME HeldExactly, UNCHANGED fds, srv'.client = srv.client, srv'.sock = srv.sock,
         \A n \in 1..3 : (ListenerHeld(n)' <=> ListenerHeld(n)) /\ (ClientHeld(n)' <=> ClientHeld(n))
  PROVE  HeldExactly'
BY DEF HeldExactly, Stands

\* A step of the server thread between two calls that concern a descriptor.
LEMMA QuietStep ==
  ASSUME HeldExactly, UNCHANGED <<fds, stp, listen_fd, client_fd>>, srv'.client = srv.client,
         srv'.sock = srv.sock, srv.at \notin {"unlisten", "publish", "close"},
         srv'.at \notin {"unlisten", "publish", "close"}
  PROVE  HeldExactly'
<1>1. \A n \in 1..3 : (ListenerHeld(n)' <=> ListenerHeld(n)) /\ (ClientHeld(n)' <=> ClientHeld(n))
  BY DEF ListenerHeld, ClientHeld
<1> QED
  BY <1>1, SameHolders

\* A number is closed by the one who holds it.
LEMMA ClosedHolders ==
  ASSUME HeldExactly, NEW k \in 1..3, fds' = Closed(k), srv'.client = srv.client, srv'.sock = srv.sock,
         \A n \in 1..3 : /\ ListenerHeld(n)' <=> ListenerHeld(n) /\ n # k
                         /\ ClientHeld(n)' <=> ClientHeld(n) /\ n # k
  PROVE  HeldExactly'
<1>1. \A n \in 1..3 : (n \in DOMAIN fds' <=> n \in DOMAIN fds /\ n # k) /\ (n \in DOMAIN fds' => fds'[n] = fds[n])
  BY DEF Closed
<1> QED
  BY <1>1 DEF HeldExactly, Stands

\* The number a client is served on stands for that client, if it is open at all.
LEMMA ServingFd ==
  ASSUME ServerInv, srv.at \in Serving
  PROVE  ~Wrong(srv.client, srv.sock)
<1>1. srv.client \in DOMAIN fds => srv.client \in 1..3 /\ ~ListenerHeld(srv.client)
  BY DEF ServerInv, FdType, HeldOnce
<1> QED
  BY <1>1 DEF ServerInv, HeldExactly, Wrong, Stands

\* Between clients every open number is the listener's.
LEMMA AcceptFd ==
  ASSUME ServerInv, srv.at \in {"accept", "accepting", "refused"}
  PROVE  \A n \in DOMAIN fds : n \in 1..3 /\ ListenerHeld(n) /\ fds[n] = Listener
<1>1. client_fd = NoFd /\ stp.at \notin HasClient
  BY DEF ServerInv, HeldOnce, Serving
<1>2. \A n \in 1..3 : ~ClientHeld(n)
  BY <1>1 DEF ClientHeld, NoFd
<1> QED
  BY <1>2 DEF ServerInv, FdType, HeldExactly, Stands

\* socket() and accept() find a number.
LEMMA NewFdFree ==
  ASSUME \E n \in 1..3 : n \notin DOMAIN fds
  PROVE  NewFd(fds) \in 1..3 /\ NewFd(fds) \notin DOMAIN fds
<1>1. \E n \in 1..3 : n \notin DOMAIN fds /\ \A m \in 1..(n - 1) : m \in DOMAIN fds
  <2>1. CASE 1 \notin DOMAIN fds
    BY <2>1
  <2>2. CASE 1 \in DOMAIN fds /\ 2 \notin DOMAIN fds
    <3>1. \A m \in 1..(2 - 1) : m = 1
      OBVIOUS
    <3> QED
      BY <2>2, <3>1
  <2>3. CASE 1 \in DOMAIN fds /\ 2 \in DOMAIN fds
    <3>1. \A m \in 1..(3 - 1) : m = 1 \/ m = 2
      OBVIOUS
    <3>2. 3 \notin DOMAIN fds
      BY <2>3
    <3> QED
      BY <2>3, <3>1, <3>2
  <2> QED
    BY <2>1, <2>2, <2>3
<1> QED
  BY <1>1 DEF NewFd

\* A client's side of the connection goes to another place.
LEMMA PeerAt ==
  ASSUME PeerType, NEW c \in Clients, NEW a \in PeerPlaces, peer' = [peer EXCEPT ![c].at = a]
  PROVE  PeerType'
BY DEF PeerType

\* What the clients do changes nothing but their side of the connections.
LEMMA SameServer ==
  ASSUME ServerInv, PeerType',
         UNCHANGED <<stopping, listen_fd, client_fd, commands, srv, stp, fds, shut, accepted, misuse>>
  PROVE  ServerInv'
<1>1. SrvType' /\ StpType' /\ FdType' /\ FdsFunction' /\ QueueType'
  BY DEF ServerInv, SrvType, StpType, FdType, FdsFunction, QueueType
<1>2. HeldExactly'
  BY SameHolders DEF ServerInv, ListenerHeld, ClientHeld
<1>3. HeldOnce'
  BY DEF ServerInv, HeldOnce, ListenerHeld
<1>4. StopSaid' /\ ThreadOrder' /\ DescriptorsOnce'
  BY DEF ServerInv, StopSaid, ThreadOrder, DescriptorsOnce
<1> QED
  BY <1>1, <1>2, <1>3, <1>4 DEF ServerInv

\* The loop's condition and the load of listen_fd_.
LEMMA RunLoopInv == ServerInv /\ RunLoop => ServerInv'
<1> SUFFICES ASSUME ServerInv, RunLoop PROVE ServerInv'
  OBVIOUS
<1> USE DEF ServerInv
<1>1. SrvType' /\ QueueType'
  BY DEF RunLoop, SrvType, SrvAt, Serving, Go, Others, FdType, PeerType, HeldOnce, QueueType
<1>2. StpType' /\ FdType'
  BY DEF RunLoop, StpType, StopAt, HasClient, HasListener, FdType, FdNumber, NoFd, SrvType, Others, Closed
<1>3. FdsFunction' /\ PeerType'
  BY DEF RunLoop, FdsFunction, Closed, PeerType, SrvType, HeldOnce, Serving, Others
<1>4. HeldExactly'
  <2>1. srv'.client = srv.client /\ srv'.sock = srv.sock
    BY DEF RunLoop, SrvType, Go
  <2>2. {srv.at, srv'.at} \intersect {"unlisten", "publish", "close"} = {}
    BY DEF RunLoop, SrvType, Go
  <2> QED
    BY <2>1, <2>2, QuietStep DEF RunLoop, Others
<1>5. HeldOnce'
  BY DEF RunLoop, SrvType, StpType, HeldOnce, StopSaid, Go, Others, ListenerHeld, HasClient, HasListener, Serving
<1>6. StopSaid' /\ ThreadOrder'
  BY DEF RunLoop, StopSaid, SrvType, StpType, ThreadOrder, SrvAt, Serving, Go, Others
<1>7. DescriptorsOnce'
  BY DEF RunLoop, DescriptorsOnce, Others
<1> QED
  BY <1>1, <1>2, <1>3, <1>4, <1>5, <1>6, <1>7

\* A signal.
LEMMA InterruptedInv == ServerInv /\ Interrupted => ServerInv'
<1> SUFFICES ASSUME ServerInv, Interrupted PROVE ServerInv'
  OBVIOUS
<1> USE DEF ServerInv
<1>1. SrvType' /\ QueueType'
  BY DEF Interrupted, SrvType, SrvAt, Serving, Go, Others, FdType, PeerType, HeldOnce, QueueType
<1>2. StpType' /\ FdType'
  BY DEF Interrupted, StpType, StopAt, HasClient, HasListener, FdType, FdNumber, NoFd, SrvType, Others, Closed
<1>3. FdsFunction' /\ PeerType'
  BY DEF Interrupted, FdsFunction, Closed, PeerType, SrvType, HeldOnce, Serving, Others
<1>4. HeldExactly'
  <2>1. srv'.client = srv.client /\ srv'.sock = srv.sock
    BY DEF Interrupted, SrvType, Go
  <2>2. {srv.at, srv'.at} \intersect {"unlisten", "publish", "close"} = {}
    BY DEF Interrupted, SrvType, Go
  <2> QED
    BY <2>1, <2>2, QuietStep DEF Interrupted, Others
<1>5. HeldOnce'
  BY DEF Interrupted, SrvType, StpType, HeldOnce, StopSaid, Go, Others, ListenerHeld, HasClient, HasListener, Serving
<1>6. StopSaid' /\ ThreadOrder'
  BY DEF Interrupted, StopSaid, SrvType, StpType, ThreadOrder, SrvAt, Serving, Go, Others
<1>7. DescriptorsOnce'
  BY DEF Interrupted, DescriptorsOnce, Others
<1> QED
  BY <1>1, <1>2, <1>3, <1>4, <1>5, <1>6, <1>7

\* handle_client's condition.
LEMMA HandleInv == ServerInv /\ Handle => ServerInv'
<1> SUFFICES ASSUME ServerInv, Handle PROVE ServerInv'
  OBVIOUS
<1> USE DEF ServerInv
<1>1. SrvType' /\ QueueType'
  BY DEF Handle, SrvType, SrvAt, Serving, Go, Others, FdType, PeerType, HeldOnce, QueueType
<1>2. StpType' /\ FdType'
  BY DEF Handle, StpType, StopAt, HasClient, HasListener, FdType, FdNumber, NoFd, SrvType, Others, Closed
<1>3. FdsFunction' /\ PeerType'
  BY DEF Handle, FdsFunction, Closed, PeerType, SrvType, HeldOnce, Serving, Others
<1>4. HeldExactly'
  <2>1. srv'.client = srv.client /\ srv'.sock = srv.sock
    BY DEF Handle, SrvType, Go
  <2>2. {srv.at, srv'.at} \intersect {"unlisten", "publish", "close"} = {}
    BY DEF Handle, SrvType, Go
  <2> QED
    BY <2>1, <2>2, QuietStep DEF Handle, Others
<1>5. HeldOnce'
  BY DEF Handle, SrvType, StpType, HeldOnce, StopSaid, Go, Others, ListenerHeld, HasClient, HasListener, Serving
<1>6. StopSaid' /\ ThreadOrder'
  BY DEF Handle, StopSaid, SrvType, StpType, ThreadOrder, SrvAt, Serving, Go, Others
<1>7. DescriptorsOnce'
  BY DEF Handle, DescriptorsOnce, Others
<1> QED
  BY <1>1, <1>2, <1>3, <1>4, <1>5, <1>6, <1>7

\* recv() returns.
LEMMA ReceiveInv == ServerInv /\ Receive => ServerInv'
<1> SUFFICES ASSUME ServerInv, Receive PROVE ServerInv'
  OBVIOUS
<1> USE DEF ServerInv
<1>1. SrvType' /\ QueueType'
  <2>1. srv.sock \in Clients
    BY DEF Receive, HeldOnce, Serving
  <2>2. QueueType'
    BY DEF Receive, QueueType, Others
  <2>3. ASSUME peer[srv.sock].left # <<>>
        PROVE  Head(peer[srv.sock].left) \in Seq(STRING)
    BY <2>1, <2>3, HeadTail DEF PeerType
  <2>4. ASSUME peer[srv.sock].left # <<>>
        PROVE  srv.pending \o Head(peer[srv.sock].left) \in Seq(STRING)
    BY <2>3, <2>4, SeqTypes DEF SrvType
  <2> QED
    BY <2>2, <2>4 DEF Receive, SrvType, SrvAt, Serving, Go
<1>2. StpType' /\ FdType'
  BY DEF Receive, StpType, StopAt, HasClient, HasListener, FdType, FdNumber, NoFd, SrvType, Others, Closed
<1>3. FdsFunction' /\ PeerType'
  <2>1. srv.sock \in Clients
    BY DEF Receive, HeldOnce, Serving
  <2>2. FdsFunction'
    BY DEF Receive, FdsFunction
  <2>3. ASSUME peer[srv.sock].left # <<>>
        PROVE  Tail(peer[srv.sock].left) \in Seq(Seq(STRING))
    <3>1. peer[srv.sock].left \in Seq(Seq(STRING))
      BY <2>1 DEF PeerType
    <3> QED
      BY <2>3, <3>1, HeadTail
  <2> QED
    BY <2>1, <2>2, <2>3 DEF Receive, PeerType, Go
<1>4. HeldExactly'
  <2>1. srv'.client = srv.client /\ srv'.sock = srv.sock
    BY DEF Receive, SrvType, Go
  <2>2. {srv.at, srv'.at} \intersect {"unlisten", "publish", "close"} = {}
    BY DEF Receive, SrvType, Go
  <2> QED
    BY <2>1, <2>2, QuietStep DEF Receive, Others
<1>5. HeldOnce'
  BY DEF Receive, SrvType, StpType, HeldOnce, StopSaid, Go, Others, ListenerHeld, HasClient, HasListener, Serving
<1>6. StopSaid' /\ ThreadOrder'
  BY DEF Receive, StopSaid, SrvType, StpType, ThreadOrder, SrvAt, Serving, Go, Others
<1>7. DescriptorsOnce'
  BY DEF Receive, DescriptorsOnce, Others
<1> QED
  BY <1>1, <1>2, <1>3, <1>4, <1>5, <1>6, <1>7

\* A line is answered or queued.
LEMMA TakeLineInv == ServerInv /\ TakeLine => ServerInv'
<1> SUFFICES ASSUME ServerInv, TakeLine PROVE ServerInv'
  OBVIOUS
<1> USE DEF ServerInv
<1>1. SrvType' /\ QueueType'
  <2>1. CASE srv.pending = <<>>
    BY <2>1 DEF TakeLine, SrvType, SrvAt, Serving, Go, QueueType
  <2>2. CASE srv.pending # <<>>
    <3>1. Head(srv.pending) \in STRING /\ Tail(srv.pending) \in Seq(STRING)
      BY <2>2 DEF SrvType
    <3>2. SrvType'
      BY <2>2, <3>1 DEF TakeLine, SrvType, SrvAt, Serving
    <3>3. QueueType'
      <4>1. Append(commands, Head(srv.pending)) \in Seq(STRING) /\ Append(accepted, Head(srv.pending)) \in Seq(STRING)
        BY <3>1, SeqTypes DEF QueueType
      <4> QED
        BY <2>2, <4>1 DEF TakeLine, QueueType
    <3> QED
      BY <3>2, <3>3
  <2> QED
    BY <2>1, <2>2
<1>2. StpType' /\ FdType'
  BY DEF TakeLine, StpType, StopAt, HasClient, HasListener, FdType, FdNumber, NoFd, SrvType, Others, Closed
<1>3. FdsFunction' /\ PeerType'
  BY DEF TakeLine, FdsFunction, Closed, PeerType, SrvType, HeldOnce, Serving, Others
<1>4. HeldExactly'
  <2>1. srv'.client = srv.client /\ srv'.sock = srv.sock
    BY DEF TakeLine, SrvType, Go
  <2>2. {srv.at, srv'.at} \intersect {"unlisten", "publish", "close"} = {}
    BY DEF TakeLine, SrvType, Go
  <2> QED
    BY <2>1, <2>2, QuietStep DEF TakeLine, Others
<1>5. HeldOnce'
  BY DEF TakeLine, SrvType, StpType, HeldOnce, StopSaid, Go, Others, ListenerHeld, HasClient, HasListener, Serving
<1>6. StopSaid' /\ ThreadOrder'
  BY DEF TakeLine, StopSaid, SrvType, StpType, ThreadOrder, SrvAt, Serving, Go, Others
<1>7. DescriptorsOnce'
  BY DEF TakeLine, DescriptorsOnce, Others
<1> QED
  BY <1>1, <1>2, <1>3, <1>4, <1>5, <1>6, <1>7

\* A call looks its descriptor up: the listener's, or the client's if it was not taken away.
LEMMA BlockingCallInv == ServerInv /\ BlockingCall => ServerInv'
<1> SUFFICES ASSUME ServerInv, BlockingCall PROVE ServerInv'
  OBVIOUS
<1> USE DEF ServerInv
<1>1. SrvType' /\ QueueType'
  BY DEF BlockingCall, SrvType, SrvAt, Serving, Go, Others, FdType, PeerType, HeldOnce, QueueType
<1>2. StpType' /\ FdType'
  BY DEF BlockingCall, StpType, StopAt, HasClient, HasListener, FdType, FdNumber, NoFd, SrvType, Others, Closed
<1>3. FdsFunction' /\ PeerType'
  BY DEF BlockingCall, FdsFunction, Closed, PeerType, SrvType, HeldOnce, Serving, Others
<1>4. HeldExactly'
  <2>1. srv'.client = srv.client /\ srv'.sock = srv.sock
    BY DEF BlockingCall, SrvType, Go
  <2>2. {srv.at, srv'.at} \intersect {"unlisten", "publish", "close"} = {}
    BY DEF BlockingCall, SrvType, Go
  <2> QED
    BY <2>1, <2>2, QuietStep DEF BlockingCall, Others
<1>5. HeldOnce'
  BY DEF BlockingCall, SrvType, StpType, HeldOnce, StopSaid, Go, Others, ListenerHeld, HasClient, HasListener, Serving
<1>6. StopSaid' /\ ThreadOrder'
  BY DEF BlockingCall, StopSaid, SrvType, StpType, ThreadOrder, SrvAt, Serving, Go, Others
<1>7. DescriptorsOnce'
  <2>1. srv.at = "accept" => ~Wrong(srv.listener, Listener)
    BY AcceptFd DEF Wrong
  <2>2. srv.at = "recv" => ~Wrong(srv.client, srv.sock)
    BY ServingFd DEF Serving
  <2> QED
    BY <2>1, <2>2 DEF BlockingCall, DescriptorsOnce, Others
<1> QED
  BY <1>1, <1>2, <1>3, <1>4, <1>5, <1>6, <1>7

\* An answer is sent.
LEMMA ReplyInv == ServerInv /\ Reply => ServerInv'
<1> SUFFICES ASSUME ServerInv, Reply PROVE ServerInv'
  OBVIOUS
<1> USE DEF ServerInv
<1>1. SrvType' /\ QueueType'
  BY DEF Reply, SrvType, SrvAt, Serving, Go, Others, FdType, PeerType, HeldOnce, QueueType
<1>2. StpType' /\ FdType'
  BY DEF Reply, StpType, StopAt, HasClient, HasListener, FdType, FdNumber, NoFd, SrvType, Others, Closed
<1>3. FdsFunction' /\ PeerType'
  BY DEF Reply, FdsFunction, Closed, PeerType, SrvType, HeldOnce, Serving, Others
<1>4. HeldExactly'
  <2>1. srv'.client = srv.client /\ srv'.sock = srv.sock
    BY DEF Reply, SrvType, Go
  <2>2. {srv.at, srv'.at} \intersect {"unlisten", "publish", "close"} = {}
    BY DEF Reply, SrvType, Go
  <2> QED
    BY <2>1, <2>2, QuietStep DEF Reply, Others
<1>5. HeldOnce'
  BY DEF Reply, SrvType, StpType, HeldOnce, StopSaid, Go, Others, ListenerHeld, HasClient, HasListener, Serving
<1>6. StopSaid' /\ ThreadOrder'
  BY DEF Reply, StopSaid, SrvType, StpType, ThreadOrder, SrvAt, Serving, Go, Others
<1>7. DescriptorsOnce'
  <2>1. ~Wrong(srv.client, srv.sock)
    BY ServingFd DEF Reply, Serving
  <2> QED
    BY <2>1 DEF Reply, DescriptorsOnce, Others
<1> QED
  BY <1>1, <1>2, <1>3, <1>4, <1>5, <1>6, <1>7

\* client_fd_ takes the new client's number.
LEMMA PublishInv == ServerInv /\ Publish => ServerInv'
<1> SUFFICES ASSUME ServerInv, Publish PROVE ServerInv'
  OBVIOUS
<1> USE DEF ServerInv
<1>0. /\ srv'.at = "handle" /\ srv'.client = srv.client /\ srv'.sock = srv.sock
      /\ client_fd = NoFd /\ client_fd' = srv.client
  BY DEF Publish, SrvType, HeldOnce, Serving
<1>1. SrvType' /\ QueueType'
  <2>1. <<>> \in Seq(STRING)
    OBVIOUS
  <2> QED
    BY <2>1 DEF Publish, SrvType, SrvAt, Serving, Others, QueueType
<1>2. StpType' /\ FdType'
  BY DEF Publish, StpType, StopAt, HasClient, HasListener, FdType, FdNumber, NoFd, SrvType, Others, Closed
<1>3. FdsFunction' /\ PeerType'
  BY DEF Publish, FdsFunction, Closed, PeerType, SrvType, HeldOnce, Serving, Others
<1>4. HeldExactly'
  <2>1. srv'.client = srv.client /\ srv'.sock = srv.sock
    BY DEF Publish, SrvType, Go
  <2>2. \A n \in 1..3 : (ListenerHeld(n)' <=> ListenerHeld(n)) /\ (ClientHeld(n)' <=> ClientHeld(n))
    BY <1>0 DEF Publish, ListenerHeld, ClientHeld, Others, NoFd
  <2> QED
    BY <2>1, <2>2, SameHolders DEF Publish, Others
<1>5. HeldOnce'
  <2>1. srv.client \in 1..3 /\ ClientHeld(srv.client)
    BY DEF Publish, HeldOnce, ClientHeld, SrvType, FdNumber
  <2>2. ~ListenerHeld(srv.client)
    BY <2>1 DEF HeldExactly
  <2>3. ~ListenerHeld(srv.client)'
    BY <1>0, <2>2 DEF Publish, ListenerHeld, Others
  <2> QED
    BY <1>0, <2>3 DEF Publish, HeldOnce, Others, Serving, HasClient
<1>6. StopSaid' /\ ThreadOrder'
  BY DEF Publish, StopSaid, SrvType, StpType, ThreadOrder, SrvAt, Serving, Go, Others
<1>7. DescriptorsOnce'
  BY DEF Publish, DescriptorsOnce, Others
<1> QED
  BY <1>1, <1>2, <1>3, <1>4, <1>5, <1>6, <1>7

\* The thread takes the number back, if stop() has not.
LEMMA LeaveInv == ServerInv /\ Leave => ServerInv'
<1> SUFFICES ASSUME ServerInv, Leave PROVE ServerInv'
  OBVIOUS
<1> USE DEF ServerInv
<1>1. SrvType' /\ QueueType'
  BY DEF Leave, SrvType, SrvAt, Serving, Go, Others, FdType, PeerType, HeldOnce, QueueType
<1>2. StpType' /\ FdType'
  BY DEF Leave, StpType, StopAt, HasClient, HasListener, FdType, FdNumber, NoFd, SrvType, Others, Closed
<1>3. FdsFunction' /\ PeerType'
  BY DEF Leave, FdsFunction, Closed, PeerType, SrvType, HeldOnce, Serving, Others
<1>4. HeldExactly'
  <2>1. srv'.client = srv.client /\ srv'.sock = srv.sock
    BY DEF Leave, SrvType, Go
  <2>2. \A n \in 1..3 : (ListenerHeld(n)' <=> ListenerHeld(n)) /\ (ClientHeld(n)' <=> ClientHeld(n))
    <3>1. client_fd \in {NoFd, srv.client}
      BY DEF HeldExactly, FdType, FdNumber, ClientHeld
    <3>2. srv'.at = IF client_fd = srv.client THEN "close" ELSE "loop"
      BY DEF Leave, Go, SrvType
    <3>3. srv.at = "leave" /\ srv.client # NoFd /\ client_fd' = NoFd /\ UNCHANGED <<listen_fd, stp>>
      BY DEF Leave, Others, HeldOnce, Serving
    <3> QED
      BY <2>1, <3>1, <3>2, <3>3 DEF ListenerHeld, ClientHeld, NoFd
  <2> QED
    BY <2>1, <2>2, SameHolders DEF Leave, Others
<1>5. HeldOnce'
  BY DEF Leave, SrvType, StpType, HeldOnce, StopSaid, Go, Others, ListenerHeld, HasClient, HasListener, Serving
<1>6. StopSaid' /\ ThreadOrder'
  BY DEF Leave, StopSaid, SrvType, StpType, ThreadOrder, SrvAt, Serving, Go, Others
<1>7. DescriptorsOnce'
  BY DEF Leave, DescriptorsOnce, Others
<1> QED
  BY <1>1, <1>2, <1>3, <1>4, <1>5, <1>6, <1>7

\* stop() begins.
LEMMA StopFlagInv == ServerInv /\ StopFlag => ServerInv'
<1> SUFFICES ASSUME ServerInv, StopFlag PROVE ServerInv'
  OBVIOUS
<1> USE DEF ServerInv
<1>1. SrvType' /\ QueueType'
  BY DEF StopFlag, SrvType, SrvAt, Serving, Go, Others, FdType, PeerType, HeldOnce, QueueType
<1>2. StpType' /\ FdType'
  BY DEF StopFlag, StpType, StopAt, HasClient, HasListener, FdType, FdNumber, NoFd, SrvType, Others, Closed
<1>3. FdsFunction' /\ PeerType'
  BY DEF StopFlag, FdsFunction, Closed, PeerType, SrvType, HeldOnce, Serving, Others
<1>4. HeldExactly'
  <2>1. srv'.client = srv.client /\ srv'.sock = srv.sock
    BY DEF StopFlag, SrvType, Go
  <2>2. \A n \in 1..3 : (ListenerHeld(n)' <=> ListenerHeld(n)) /\ (ClientHeld(n)' <=> ClientHeld(n))
    BY DEF StopFlag, StpType, ListenerHeld, ClientHeld, HasClient, HasListener
  <2> QED
    BY <2>1, <2>2, SameHolders DEF StopFlag, Others
<1>5. HeldOnce'
  BY DEF StopFlag, SrvType, StpType, HeldOnce, StopSaid, Go, Others, ListenerHeld, HasClient, HasListener, Serving
<1>6. StopSaid' /\ ThreadOrder'
  BY DEF StopFlag, StopSaid, SrvType, StpType, ThreadOrder, SrvAt, Serving, Go, Others
<1>7. DescriptorsOnce'
  <2>1. ~misuse'
    BY DEF StopFlag, DescriptorsOnce
  <2>2. stp'.at # "joined"
    BY DEF StopFlag, StpType
  <2> QED
    BY <2>1, <2>2 DEF DescriptorsOnce
<1> QED
  BY <1>1, <1>2, <1>3, <1>4, <1>5, <1>6, <1>7

\* stop() shuts a socket down.
LEMMA ShutFdInv == ServerInv /\ ShutFd => ServerInv'
<1> SUFFICES ASSUME ServerInv, ShutFd PROVE ServerInv'
  OBVIOUS
<1> USE DEF ServerInv
<1>1. SrvType' /\ QueueType'
  BY DEF ShutFd, SrvType, SrvAt, Serving, Go, Others, FdType, PeerType, HeldOnce, QueueType
<1>2. StpType' /\ FdType'
  BY DEF ShutFd, StpType, StopAt, HasClient, HasListener, FdType, FdNumber, NoFd, SrvType, Others, Closed
<1>3. FdsFunction' /\ PeerType'
  BY DEF ShutFd, FdsFunction, Closed, PeerType, SrvType, HeldOnce, Serving, Others
<1>4. HeldExactly'
  <2>1. srv'.client = srv.client /\ srv'.sock = srv.sock
    BY DEF ShutFd, SrvType, Go
  <2>2. \A n \in 1..3 : (ListenerHeld(n)' <=> ListenerHeld(n)) /\ (ClientHeld(n)' <=> ClientHeld(n))
    BY DEF ShutFd, StpType, ListenerHeld, ClientHeld, HasClient, HasListener
  <2> QED
    BY <2>1, <2>2, SameHolders DEF ShutFd, Others
<1>5. HeldOnce'
  BY DEF ShutFd, SrvType, StpType, HeldOnce, StopSaid, Go, Others, ListenerHeld, HasClient, HasListener, Serving
<1>6. StopSaid' /\ ThreadOrder'
  BY DEF ShutFd, StopSaid, SrvType, StpType, ThreadOrder, SrvAt, Serving, Go, Others
<1>7. DescriptorsOnce'
  <2>1. ~misuse'
    <3>1. stp.fd \in 1..3 /\ Stands(stp.fd, stp.sock)
      <4>1. stp.fd \in 1..3
        BY DEF ShutFd, StpType, FdNumber, HeldOnce, HasClient, HasListener
      <4>2. CASE stp.at = "shut client"
        BY <4>1, <4>2 DEF HeldExactly, ClientHeld, HasClient, HeldOnce
      <4>3. CASE stp.at = "shut listener"
        BY <4>1, <4>3 DEF HeldExactly, ListenerHeld, HasListener, HeldOnce
      <4> QED
        BY <4>1, <4>2, <4>3 DEF ShutFd
    <3> QED
      BY <3>1 DEF ShutFd, DescriptorsOnce, Wrong, Stands
  <2>2. stp'.at # "joined"
    BY DEF ShutFd, StpType
  <2> QED
    BY <2>1, <2>2 DEF DescriptorsOnce
<1> QED
  BY <1>1, <1>2, <1>3, <1>4, <1>5, <1>6, <1>7

\* The thread has ended: nobody holds a number any more.
LEMMA JoinInv == ServerInv /\ Join => ServerInv'
<1> SUFFICES ASSUME ServerInv, Join PROVE ServerInv'
  OBVIOUS
<1> USE DEF ServerInv
<1>1. SrvType' /\ QueueType'
  BY DEF Join, SrvType, SrvAt, Serving, Go, Others, FdType, PeerType, HeldOnce, QueueType
<1>2. StpType' /\ FdType'
  BY DEF Join, StpType, StopAt, HasClient, HasListener, FdType, FdNumber, NoFd, SrvType, Others, Closed
<1>3. FdsFunction' /\ PeerType'
  BY DEF Join, FdsFunction, Closed, PeerType, SrvType, HeldOnce, Serving, Others
<1>4. HeldExactly'
  <2>1. srv'.client = srv.client /\ srv'.sock = srv.sock
    BY DEF Join, SrvType, Go
  <2>2. \A n \in 1..3 : (ListenerHeld(n)' <=> ListenerHeld(n)) /\ (ClientHeld(n)' <=> ClientHeld(n))
    BY DEF Join, StpType, ListenerHeld, ClientHeld, HasClient, HasListener
  <2> QED
    BY <2>1, <2>2, SameHolders DEF Join, Others
<1>5. HeldOnce'
  BY DEF Join, SrvType, StpType, HeldOnce, StopSaid, Go, Others, ListenerHeld, HasClient, HasListener, Serving
<1>6. StopSaid' /\ ThreadOrder'
  BY DEF Join, StopSaid, SrvType, StpType, ThreadOrder, SrvAt, Serving, Go, Others
<1>7. DescriptorsOnce'
  <2>1. listen_fd = NoFd /\ client_fd = NoFd
    BY DEF Join, HeldOnce, Serving, HasClient
  <2>2. \A n \in 1..3 : ~ListenerHeld(n) /\ ~ClientHeld(n)
    BY <2>1 DEF Join, ListenerHeld, ClientHeld, HasClient, HasListener, NoFd
  <2>3. DOMAIN fds = {}
    BY <2>2 DEF HeldExactly, FdType
  <2>4. fds = <<>>
    BY <2>3 DEF FdsFunction
  <2> QED
    BY <2>4 DEF Join, DescriptorsOnce
<1> QED
  BY <1>1, <1>2, <1>3, <1>4, <1>5, <1>6, <1>7

\* stop() takes a number away.
LEMMA TakeFdInv == ServerInv /\ TakeFd => ServerInv'
<1> SUFFICES ASSUME ServerInv, TakeFd PROVE ServerInv'
  OBVIOUS
<1> USE DEF ServerInv
<1> DEFINE TakesClient == /\ stp.at = "take client" /\ client_fd \in 1..3
                          /\ client_fd' = NoFd /\ listen_fd' = listen_fd
                          /\ stp'.at = "shut client" /\ stp'.fd = client_fd /\ stp'.sock = srv.sock
                          /\ srv' = srv /\ stp' = [at |-> stp'.at, fd |-> stp'.fd, sock |-> stp'.sock]
           TakesListener == /\ stp.at = "take listener" /\ listen_fd \in 1..3
                            /\ listen_fd' = NoFd /\ client_fd' = client_fd
                            /\ stp'.at = "shut listener" /\ stp'.fd = listen_fd /\ stp'.sock = Listener
                            /\ srv' = srv /\ stp' = [at |-> stp'.at, fd |-> stp'.fd, sock |-> stp'.sock]
           Nothing == /\ \/ stp.at = "take client" /\ stp'.at = "take listener" /\ client_fd = NoFd
                         \/ stp.at = "take listener" /\ stp'.at = "join" /\ listen_fd = NoFd
                      /\ client_fd' = client_fd /\ listen_fd' = listen_fd
                      /\ stp'.fd = stp.fd /\ stp'.sock = stp.sock
                      /\ srv' = srv /\ stp' = [at |-> stp'.at, fd |-> stp'.fd, sock |-> stp'.sock]
<1>0. TakesClient \/ TakesListener \/ Nothing
  <2>1. CASE stp.at = "take client" /\ client_fd >= 0
    <3>1. stp' = [at |-> "shut client", fd |-> client_fd, sock |-> srv.sock]
      BY <2>1 DEF TakeFd
    <3>2. client_fd' = NoFd /\ listen_fd' = listen_fd /\ srv' = srv
      BY <2>1, Zenon DEF TakeFd
    <3>3. client_fd \in 1..3
      BY <2>1, FdChoice, Zenon DEF FdType
    <3> QED
      BY <2>1, <3>1, <3>2, <3>3
  <2>2. CASE stp.at = "take client" /\ ~(client_fd >= 0)
    <3>1. stp' = [stp EXCEPT !.at = "take listener"]
      BY <2>2 DEF TakeFd
    <3>2. client_fd' = NoFd /\ listen_fd' = listen_fd /\ srv' = srv
      BY <2>2, Zenon DEF TakeFd
    <3>3. client_fd = NoFd
      BY <2>2, FdChoice, Zenon DEF FdType
    <3> QED
      BY <2>2, <3>1, <3>2, <3>3 DEF StpType
  <2>3. CASE stp.at = "take listener" /\ listen_fd >= 0
    <3>1. stp' = [at |-> "shut listener", fd |-> listen_fd, sock |-> Listener]
      BY <2>3 DEF TakeFd
    <3>2. listen_fd' = NoFd /\ client_fd' = client_fd /\ srv' = srv
      BY <2>3, Zenon DEF TakeFd
    <3>3. listen_fd \in 1..3
      BY <2>3, FdChoice, Zenon DEF FdType
    <3> QED
      BY <2>3, <3>1, <3>2, <3>3
  <2>4. CASE stp.at = "take listener" /\ ~(listen_fd >= 0)
    <3>1. stp' = [stp EXCEPT !.at = "join"]
      BY <2>4 DEF TakeFd
    <3>2. listen_fd' = NoFd /\ client_fd' = client_fd /\ srv' = srv
      BY <2>4, Zenon DEF TakeFd
    <3>3. listen_fd = NoFd
      BY <2>4, FdChoice, Zenon DEF FdType
    <3> QED
      BY <2>4, <3>1, <3>2, <3>3 DEF StpType
  <2> QED
    BY <2>1, <2>2, <2>3, <2>4 DEF TakeFd
<1>1. SrvType' /\ QueueType'
  BY DEF TakeFd, SrvType, SrvAt, Serving, Go, Others, FdType, PeerType, HeldOnce, QueueType
<1>2. StpType' /\ FdType'
  <2>1. FdType'
    BY <1>0 DEF TakeFd, FdType, FdNumber, NoFd
  <2>2. StpType'
    <3>1. stp'.fd \in FdNumber /\ stp'.sock \in Clients \union {Listener}
      BY <1>0 DEF StpType, FdType, SrvType
    <3> QED
      BY <1>0, <3>1 DEF StpType, StopAt, HasClient, HasListener
  <2> QED
    BY <2>1, <2>2
<1>3. FdsFunction' /\ PeerType'
  BY DEF TakeFd, FdsFunction, Closed, PeerType, SrvType, HeldOnce, Serving, Others
<1>4. HeldExactly'
  <2>1. \A n \in 1..3 : (ListenerHeld(n)' <=> ListenerHeld(n)) /\ (ClientHeld(n)' <=> ClientHeld(n))
    <3>1. CASE TakesClient
      BY <3>1, NoFdFact DEF ListenerHeld, ClientHeld, HasClient, HasListener
    <3>2. CASE TakesListener
      BY <3>2, NoFdFact DEF ListenerHeld, ClientHeld, HasClient, HasListener
    <3>3. CASE Nothing
      BY <3>3, NoFdFact DEF ListenerHeld, ClientHeld, HasClient, HasListener
    <3> QED
      BY <1>0, <3>1, <3>2, <3>3
  <2> QED
    BY <2>1, SameHolders DEF TakeFd
<1>5. HeldOnce'
  <2>1. CASE TakesClient
    <3>1. srv.at \in Serving
      BY <2>1, NoFdFact DEF HeldOnce
    <3> QED
      BY <2>1, <3>1, NoFdFact DEF HeldOnce, ListenerHeld, Serving, HasClient, HasListener
  <2>2. CASE TakesListener
    BY <2>2, NoFdFact DEF HeldOnce, ListenerHeld, Serving, HasClient, HasListener
  <2>3. CASE Nothing
    BY <2>3, NoFdFact DEF HeldOnce, ListenerHeld, Serving, HasClient, HasListener
  <2> QED
    BY <1>0, <2>1, <2>2, <2>3
<1>6. StopSaid' /\ ThreadOrder'
  BY <1>0 DEF TakeFd, StopSaid, ThreadOrder
<1>7. DescriptorsOnce'
  BY <1>0 DEF TakeFd, DescriptorsOnce
<1> QED
  BY <1>1, <1>2, <1>3, <1>4, <1>5, <1>6, <1>7

\* The thread closes the client's number.
LEMMA CloseClientInv == ServerInv /\ CloseClient => ServerInv'
<1> SUFFICES ASSUME ServerInv, CloseClient PROVE ServerInv'
  OBVIOUS
<1> USE DEF ServerInv
<1>0. srv'.at = "loop" /\ srv'.client = srv.client /\ srv'.sock = srv.sock /\ srv.at = "close"
  BY GoFields DEF CloseClient
<1>b. client_fd = NoFd /\ stp.at \notin HasClient /\ UNCHANGED <<listen_fd, client_fd, stp>>
  BY <1>0 DEF CloseClient, HeldOnce, Serving, Others
<1>c. fds' = Closed(srv.client) /\ srv.client \in 1..3 /\ srv.sock \in Clients
  BY <1>0 DEF CloseClient, HeldOnce, SrvType, FdNumber
<1>d. Stands(srv.client, srv.sock) /\ ~ListenerHeld(srv.client)
  <2>1. ClientHeld(srv.client)
    BY <1>0 DEF ClientHeld
  <2> QED
    BY <1>c, <2>1 DEF HeldExactly
<1>1. SrvType' /\ QueueType'
  BY DEF CloseClient, SrvType, SrvAt, Serving, Go, Others, FdType, PeerType, HeldOnce, QueueType
<1>2. StpType' /\ FdType'
  BY DEF CloseClient, StpType, StopAt, HasClient, HasListener, FdType, FdNumber, NoFd, SrvType, Others, Closed
<1>3. FdsFunction' /\ PeerType'
  <2>1. FdsFunction'
    BY DEF CloseClient, FdsFunction, Closed
  <2>2. PeerType'
    <3>1. peer' = [peer EXCEPT ![srv.sock].at = "cut"]
      BY DEF CloseClient
    <3>2. "cut" \in PeerPlaces
      BY DEF PeerPlaces
    <3> QED
      BY <1>c, <3>1, <3>2, PeerAt
  <2> QED
    BY <2>1, <2>2
<1>4. HeldExactly'
  <2>1. ASSUME NEW n \in 1..3
        PROVE  ListenerHeld(n)' <=> ListenerHeld(n) /\ n # srv.client
    BY <1>0, <1>b, <1>d DEF ListenerHeld
  <2>2. ASSUME NEW n \in 1..3
        PROVE  ClientHeld(n)' <=> ClientHeld(n) /\ n # srv.client
    BY <1>0, <1>b, NoFdFact DEF ClientHeld
  <2> QED
    BY <1>0, <1>c, <2>1, <2>2, ClosedHolders
<1>5. HeldOnce'
  BY DEF CloseClient, SrvType, StpType, HeldOnce, StopSaid, Go, Others, ListenerHeld, HasClient, HasListener, Serving
<1>6. StopSaid' /\ ThreadOrder'
  BY DEF CloseClient, StopSaid, SrvType, StpType, ThreadOrder, SrvAt, Serving, Go, Others
<1>7. DescriptorsOnce'
  <2>1. ~misuse'
    BY <1>d DEF CloseClient, DescriptorsOnce
  <2>2. stp'.at # "joined"
    BY <1>0, <1>b DEF ThreadOrder
  <2> QED
    BY <2>1, <2>2 DEF DescriptorsOnce
<1> QED
  BY <1>1, <1>2, <1>3, <1>4, <1>5, <1>6, <1>7

\* stop() closes the number it took.
LEMMA CloseFdInv == ServerInv /\ CloseFd => ServerInv'
<1> SUFFICES ASSUME ServerInv, CloseFd PROVE ServerInv'
  OBVIOUS
<1> USE DEF ServerInv
<1>0. \/ stp.at = "close client" /\ stp'.at = "take listener"
      \/ stp.at = "close listener" /\ stp'.at = "join"
  BY DEF CloseFd, StpType
<1>b. UNCHANGED <<listen_fd, client_fd, srv>> /\ stp'.fd = stp.fd /\ stp'.sock = stp.sock
  BY DEF CloseFd, StpType
<1>c. fds' = Closed(stp.fd) /\ stp.fd \in 1..3
  BY <1>0 DEF CloseFd, HeldOnce, StpType, FdNumber, HasClient, HasListener
<1>d. /\ Stands(stp.fd, stp.sock)
      /\ stp.at = "close client" => ~ListenerHeld(stp.fd)
      /\ stp.at = "close listener" => ~ClientHeld(stp.fd)
  <2>1. CASE stp.at = "close client"
    <3>1. ClientHeld(stp.fd)
      BY <2>1 DEF ClientHeld, HasClient
    <3> QED
      BY <1>c, <2>1, <3>1 DEF HeldExactly, HeldOnce, HasClient
  <2>2. CASE stp.at = "close listener"
    <3>1. ListenerHeld(stp.fd)
      BY <2>2 DEF ListenerHeld, HasListener
    <3> QED
      BY <1>c, <2>2, <3>1 DEF HeldExactly, HeldOnce, HasListener
  <2> QED
    BY <1>0, <2>1, <2>2
<1>1. SrvType' /\ QueueType'
  BY DEF CloseFd, SrvType, SrvAt, Serving, Go, Others, FdType, PeerType, HeldOnce, QueueType
<1>2. StpType' /\ FdType'
  BY DEF CloseFd, StpType, StopAt, HasClient, HasListener, FdType, FdNumber, NoFd, SrvType, Others, Closed
<1>3. FdsFunction' /\ PeerType'
  <2>1. FdsFunction'
    BY DEF CloseFd, FdsFunction, Closed
  <2>2. PeerType'
    <3>1. CASE stp.sock \in Clients
      <4>1. peer' = [peer EXCEPT ![stp.sock].at = "cut"]
        BY <3>1 DEF CloseFd
      <4>2. "cut" \in PeerPlaces
        BY DEF PeerPlaces
      <4> QED
        BY <3>1, <4>1, <4>2, PeerAt
    <3>2. CASE stp.sock \notin Clients
      BY <3>2 DEF CloseFd, PeerType
    <3> QED
      BY <3>1, <3>2
  <2> QED
    BY <2>1, <2>2
<1>4. HeldExactly'
  <2>1. ASSUME NEW n \in 1..3
        PROVE  ListenerHeld(n)' <=> ListenerHeld(n) /\ n # stp.fd
    BY <1>b, <1>0, <1>d DEF ListenerHeld, HasClient, HasListener, HeldOnce
  <2>2. ASSUME NEW n \in 1..3
        PROVE  ClientHeld(n)' <=> ClientHeld(n) /\ n # stp.fd
    BY <1>b, <1>0, <1>d DEF ClientHeld, HasClient, HasListener, HeldOnce
  <2> QED
    BY <1>b, <1>c, <2>1, <2>2, ClosedHolders
<1>5. HeldOnce'
  BY DEF CloseFd, SrvType, StpType, HeldOnce, StopSaid, Go, Others, ListenerHeld, HasClient, HasListener, Serving
<1>6. StopSaid' /\ ThreadOrder'
  BY DEF CloseFd, StopSaid, SrvType, StpType, ThreadOrder, SrvAt, Serving, Go, Others
<1>7. DescriptorsOnce'
  <2>1. ~misuse'
    BY <1>d DEF CloseFd, DescriptorsOnce
  <2> QED
    BY <1>0, <2>1 DEF DescriptorsOnce
<1> QED
  BY <1>1, <1>2, <1>3, <1>4, <1>5, <1>6, <1>7

\* The end of run(): the listener, unless stop() took it.
LEMMA ExitInv == ServerInv /\ Exit => ServerInv'
<1> SUFFICES ASSUME ServerInv, Exit PROVE ServerInv'
  OBVIOUS
<1> USE DEF ServerInv
<1> DEFINE Takes == /\ srv.at = "exit" /\ srv'.at = (IF listen_fd >= 0 THEN "unlisten" ELSE "done")
                    /\ srv'.listener = listen_fd /\ listen_fd' = NoFd /\ fds' = fds /\ misuse' = misuse
           Closes == /\ srv.at = "unlisten" /\ srv'.at = "done" /\ fds' = Closed(srv.listener)
                     /\ misuse' = (misuse \/ ~Stands(srv.listener, Listener)) /\ listen_fd' = listen_fd
<1>0. Takes \/ Closes
  BY DEF Exit, SrvType, Go
<1>b. UNCHANGED <<client_fd, stp>> /\ srv'.client = srv.client /\ srv'.sock = srv.sock
  BY DEF Exit, SrvType, Go, Others
<1>c. ASSUME Closes
      PROVE  /\ srv.listener \in 1..3 /\ listen_fd = NoFd /\ stp.at \notin HasListener
             /\ Stands(srv.listener, Listener) /\ ~ClientHeld(srv.listener)
  <2>1. srv.listener \in 1..3 /\ listen_fd = NoFd /\ stp.at \notin HasListener
    BY <1>c, FdChoice DEF HeldOnce, SrvType
  <2>2. ListenerHeld(srv.listener)
    BY <1>c DEF ListenerHeld
  <2> QED
    BY <2>1, <2>2 DEF HeldExactly
<1>1. SrvType' /\ QueueType'
  BY DEF Exit, SrvType, SrvAt, Serving, Go, Others, FdType, PeerType, HeldOnce, QueueType
<1>2. StpType' /\ FdType'
  BY DEF Exit, StpType, StopAt, HasClient, HasListener, FdType, FdNumber, NoFd, SrvType, Others, Closed
<1>3. FdsFunction' /\ PeerType'
  <2>1. FdsFunction'
    BY <1>0 DEF FdsFunction, Closed
  <2>2. PeerType'
    BY DEF Exit, PeerType
  <2> QED
    BY <2>1, <2>2
<1>4. HeldExactly'
  <2>1. CASE Takes
    <3>1. ASSUME NEW n \in 1..3
          PROVE  (ListenerHeld(n)' <=> ListenerHeld(n)) /\ (ClientHeld(n)' <=> ClientHeld(n))
      <4>1. listen_fd = NoFd \/ stp.at \notin HasListener
        BY DEF HeldOnce, HasListener, HasClient
      <4> QED
        BY <1>b, <2>1, <4>1, NoFdFact, FdChoice DEF ListenerHeld, ClientHeld, FdType
    <3> QED
      BY <1>b, <2>1, <3>1, SameHolders
  <2>2. CASE Closes
    <3>1. ASSUME NEW n \in 1..3
          PROVE  ListenerHeld(n)' <=> ListenerHeld(n) /\ n # srv.listener
      BY <1>b, <1>c, <2>2, NoFdFact DEF ListenerHeld
    <3>2. ASSUME NEW n \in 1..3
          PROVE  ClientHeld(n)' <=> ClientHeld(n) /\ n # srv.listener
      BY <1>b, <1>c, <2>2 DEF ClientHeld
    <3> QED
      BY <1>b, <1>c, <2>2, <3>1, <3>2, ClosedHolders
  <2> QED
    BY <1>0, <2>1, <2>2
<1>5. HeldOnce'
  <2>1. CASE Takes
    <3>1. listen_fd >= 0 => listen_fd # NoFd
      BY FdChoice DEF FdType
    <3> QED
      BY <1>b, <2>1, <3>1 DEF HeldOnce, Serving, HasClient, HasListener
  <2>2. CASE Closes
    BY <1>b, <1>c, <2>2 DEF HeldOnce, Serving
  <2> QED
    BY <1>0, <2>1, <2>2
<1>6. StopSaid' /\ ThreadOrder'
  BY <1>0, <1>b DEF Exit, Others, StopSaid, ThreadOrder
<1>7. DescriptorsOnce'
  <2>1. ~misuse'
    BY <1>0, <1>c DEF DescriptorsOnce
  <2>2. stp'.at # "joined"
    BY <1>0, <1>b DEF ThreadOrder
  <2> QED
    BY <2>1, <2>2 DEF DescriptorsOnce
<1> QED
  BY <1>1, <1>2, <1>3, <1>4, <1>5, <1>6, <1>7

\* accept() returns: a client on a new number, or a failure.
LEMMA AcceptInv == ServerInv /\ Accept => ServerInv'
<1> SUFFICES ASSUME ServerInv, Accept PROVE ServerInv'
  OBVIOUS
<1> USE DEF ServerInv
<1> DEFINE Opens == \E c \in Clients :
                      /\ srv.at = "accepting" /\ srv'.at = "publish" /\ srv'.client = NewFd(fds) /\ srv'.sock = c
                      /\ fds' = Opened(NewFd(fds), c) /\ peer' = [peer EXCEPT ![c].at = "served"]
           Fails == /\ srv'.at = (IF stopping THEN "exit" ELSE "loop") /\ srv.at \in {"accepting", "refused"}
                    /\ srv'.client = srv.client /\ srv'.sock = srv.sock
                    /\ fds' = fds /\ peer' = peer
<1>0. Opens \/ Fails
  BY DEF Accept, SrvType, Go
<1>b. UNCHANGED <<client_fd, listen_fd, stp, stopping, misuse>>
  BY DEF Accept, Others
<1>c. client_fd = NoFd /\ stp.at \notin HasClient /\ NewFd(fds) \in 1..3 /\ NewFd(fds) \notin DOMAIN fds
  <2>1. client_fd = NoFd /\ stp.at \notin HasClient
    BY <1>0 DEF HeldOnce, Serving
  <2>2. \A m, n \in DOMAIN fds : m = n
    <3>1. \A n \in DOMAIN fds : ListenerHeld(n) /\ n \in 1..3
      BY <1>0, AcceptFd
    <3>2. listen_fd = NoFd \/ stp.at \notin HasListener
      BY DEF HeldOnce, HasListener, HasClient
    <3>3. srv.at # "unlisten"
      BY <1>0
    <3> QED
      BY <3>1, <3>2, <3>3, NoFdFact DEF ListenerHeld
  <2>3. \E n \in 1..3 : n \notin DOMAIN fds
    BY <2>2
  <2> QED
    BY <2>1, <2>3, NewFdFree
<1>1. SrvType' /\ QueueType'
  <2>1. QueueType'
    BY DEF Accept, QueueType, Others
  <2>2. NewFd(fds) \in FdNumber
    BY <1>c DEF FdNumber
  <2> QED
    BY <2>1, <2>2 DEF Accept, SrvType, SrvAt, Go
<1>2. StpType' /\ FdType'
  <2>1. StpType'
    BY <1>b DEF StpType
  <2>2. DOMAIN fds' \subseteq 1..3
    BY <1>0, <1>c DEF FdType, Opened
  <2> QED
    BY <1>b, <2>1, <2>2 DEF FdType
<1>3. FdsFunction' /\ PeerType'
  <2>1. FdsFunction'
    BY <1>0 DEF FdsFunction, Opened
  <2>2. "served" \in PeerPlaces
    BY DEF PeerPlaces
  <2>3. PeerType'
    BY <1>0, <2>2, PeerAt DEF PeerType
  <2> QED
    BY <2>1, <2>3
<1>4. HeldExactly'
  <2>1. CASE Fails
    BY <1>b, <2>1, QuietStep
  <2>2. CASE Opens
    <3>1. ASSUME NEW n \in 1..3
          PROVE  (ListenerHeld(n)' <=> ListenerHeld(n)) /\ (ClientHeld(n)' <=> n = NewFd(fds))
      BY <1>b, <1>c, <2>2, NoFdFact DEF ListenerHeld, ClientHeld
    <3>2. ASSUME NEW n \in 1..3
          PROVE  /\ n \in DOMAIN fds' <=> n \in DOMAIN fds \/ n = NewFd(fds)
                 /\ n \in DOMAIN fds => fds'[n] = fds[n]
                 /\ fds'[NewFd(fds)] = srv'.sock
      BY <1>c, <2>2 DEF Opened
    <3>3. ASSUME NEW n \in 1..3
          PROVE  ListenerHeld(n) => Stands(n, Listener)
      BY DEF HeldExactly
    <3>4. ASSUME NEW n \in 1..3
          PROVE  ~ClientHeld(n)
      BY <1>c, NoFdFact DEF Accept, ClientHeld
    <3> QED
      BY <1>c, <2>2, <3>1, <3>2, <3>3, <3>4 DEF HeldExactly, Stands
  <2> QED
    BY <1>0, <2>1, <2>2
<1>5. HeldOnce'
  <2>1. CASE Fails
    BY <1>b, <1>c, <2>1 DEF HeldOnce, Serving, HasClient, HasListener
  <2>2. CASE Opens
    BY <1>b, <1>c, <2>2, NoFdFact DEF HeldOnce, Serving, HasClient, HasListener
  <2> QED
    BY <1>0, <2>1, <2>2
<1>6. StopSaid' /\ ThreadOrder'
  BY <1>0, <1>b DEF StopSaid, ThreadOrder
<1>7. DescriptorsOnce'
  <2>1. stp'.at # "joined"
    BY <1>0, <1>b DEF ThreadOrder
  <2> QED
    BY <1>b, <2>1 DEF DescriptorsOnce
<1> QED
  BY <1>1, <1>2, <1>3, <1>4, <1>5, <1>6, <1>7

\* start(): the listener's socket is opened.
LEMMA StartInv == ServerInv /\ Start => ServerInv'
<1> SUFFICES ASSUME ServerInv, Start PROVE ServerInv'
  OBVIOUS
<1> USE DEF ServerInv
<1>0. /\ stp.at = "off" /\ srv.at = "off" /\ srv'.at = "loop" /\ stp'.at = "run"
      /\ UNCHANGED <<client_fd, misuse, peer>>
  BY DEF Start, SrvType, StpType
<1>b. listen_fd' = NewFd(fds) /\ fds' = Opened(NewFd(fds), Listener)
  BY DEF Start
<1>c. client_fd = NoFd /\ DOMAIN fds = {} /\ NewFd(fds) \in 1..3
  <2>1. listen_fd = NoFd /\ client_fd = NoFd
    BY <1>0 DEF HeldOnce, Serving
  <2>2. \A n \in 1..3 : ~ListenerHeld(n) /\ ~ClientHeld(n)
    BY <1>0, <2>1, NoFdFact DEF ListenerHeld, ClientHeld, HasClient, HasListener
  <2>3. DOMAIN fds = {}
    BY <2>2 DEF HeldExactly, FdType
  <2> QED
    BY <2>1, <2>3, NewFdFree
<1>1. SrvType' /\ QueueType'
  BY DEF Start, SrvType, SrvAt, Serving, Go, Others, FdType, PeerType, HeldOnce, QueueType
<1>2. StpType' /\ FdType'
  <2>1. StpType'
    BY DEF Start, StpType
  <2>2. DOMAIN fds' \subseteq 1..3
    BY <1>b, <1>c DEF Opened
  <2> QED
    BY <1>0, <1>b, <1>c, <2>1, <2>2 DEF FdType, FdNumber
<1>3. FdsFunction' /\ PeerType'
  BY <1>0, <1>b DEF FdsFunction, Opened, PeerType
<1>4. HeldExactly'
  <2>1. ASSUME NEW n \in 1..3
        PROVE  (ListenerHeld(n)' <=> n = NewFd(fds)) /\ ~ClientHeld(n)'
    BY <1>0, <1>b, <1>c, NoFdFact DEF ListenerHeld, ClientHeld, HasClient, HasListener
  <2>2. ASSUME NEW n \in 1..3
        PROVE  (n \in DOMAIN fds' <=> n = NewFd(fds)) /\ fds'[NewFd(fds)] = Listener
    BY <1>b, <1>c DEF Opened
  <2> QED
    BY <2>1, <2>2 DEF HeldExactly, Stands
<1>5. HeldOnce'
  BY <1>0, <1>c, NoFdFact DEF HeldOnce, Serving, HasClient, HasListener
<1>6. StopSaid' /\ ThreadOrder'
  BY <1>0 DEF StopSaid, ThreadOrder
<1>7. DescriptorsOnce'
  BY <1>0 DEF DescriptorsOnce
<1> QED
  BY <1>1, <1>2, <1>3, <1>4, <1>5, <1>6, <1>7

\* start() fails.
LEMMA StartFailsInv == ServerInv /\ StartFails => ServerInv'
<1> SUFFICES ASSUME ServerInv, StartFails PROVE ServerInv'
  OBVIOUS
<1> USE DEF ServerInv
<1>0. /\ stp.at = "off" /\ srv.at = "off" /\ stp'.at = "joined" /\ stp'.fd = stp.fd /\ stp'.sock = stp.sock
      /\ UNCHANGED <<listen_fd, client_fd, srv, fds, misuse, peer>>
  BY DEF StartFails, StpType
<1>1. SrvType' /\ QueueType'
  BY DEF StartFails, SrvType, SrvAt, Serving, Go, Others, FdType, PeerType, HeldOnce, QueueType
<1>2. StpType' /\ FdType'
  BY DEF StartFails, StpType, StopAt, HasClient, HasListener, FdType, FdNumber, NoFd, SrvType, Others, Closed
<1>3. FdsFunction' /\ PeerType'
  BY DEF StartFails, FdsFunction, Closed, PeerType, SrvType, HeldOnce, Serving, Others
<1>4. HeldExactly'
  <2>1. ASSUME NEW n \in 1..3
        PROVE  (ListenerHeld(n)' <=> ListenerHeld(n)) /\ (ClientHeld(n)' <=> ClientHeld(n))
    BY <1>0 DEF ListenerHeld, ClientHeld, HasClient, HasListener
  <2> QED
    BY <1>0, <2>1, SameHolders
<1>5. HeldOnce'
  BY <1>0 DEF HeldOnce, ListenerHeld, Serving, HasClient, HasListener
<1>6. StopSaid' /\ ThreadOrder'
  BY <1>0 DEF StopSaid, ThreadOrder
<1>7. DescriptorsOnce'
  <2>1. listen_fd = NoFd /\ client_fd = NoFd
    BY <1>0 DEF HeldOnce, Serving
  <2>2. \A n \in 1..3 : ~ListenerHeld(n) /\ ~ClientHeld(n)
    BY <1>0, <2>1, NoFdFact DEF ListenerHeld, ClientHeld, HasClient, HasListener
  <2>3. DOMAIN fds = {}
    BY <2>2 DEF HeldExactly, FdType
  <2>4. fds = <<>>
    BY <2>3 DEF FdsFunction
  <2> QED
    BY <1>0, <2>4 DEF DescriptorsOnce
<1> QED
  BY <1>1, <1>2, <1>3, <1>4, <1>5, <1>6, <1>7

\* A client connects to the open listener.
LEMMA ConnectInv ==
  ASSUME ServerInv, NEW c \in Clients, Connect(c)
  PROVE  ServerInv'
<1>1. UNCHANGED <<stopping, listen_fd, client_fd, commands, srv, stp, fds, shut, accepted, misuse>>
  BY DEF Connect
<1>2. PeerType'
  <2>1. peer' = [peer EXCEPT ![c].at = "waiting"] /\ "waiting" \in PeerPlaces
    BY DEF Connect, PeerPlaces
  <2> QED
    BY <2>1, PeerAt DEF ServerInv
<1> QED
  BY <1>1, <1>2, SameServer DEF ServerInv

\* A client hangs up, before or after it sent the rest of its lines.
LEMMA HangUpInv ==
  ASSUME ServerInv, NEW c \in Clients, HangUp(c)
  PROVE  ServerInv'
<1>1. UNCHANGED <<stopping, listen_fd, client_fd, commands, srv, stp, fds, shut, accepted, misuse>>
  BY DEF HangUp
<1>2. PeerType'
  <2>1. PICK rest \in {peer[c].left, <<>>} : peer' = [peer EXCEPT ![c] = [at |-> "gone", left |-> rest]]
    BY DEF HangUp
  <2>2. <<>> \in Seq(Seq(STRING)) /\ "gone" \in PeerPlaces
    BY DEF PeerPlaces
  <2>3. peer[c].left \in Seq(Seq(STRING))
    BY DEF ServerInv, PeerType
  <2> QED
    BY <2>1, <2>2, <2>3 DEF ServerInv, PeerType
<1> QED
  BY <1>1, <1>2, SameServer DEF ServerInv

-----------------------------------------------------------------------------
\* The server before it was ever started.
LEMMA ServerInitInv == ServerInit => ServerInv
<1> SUFFICES ASSUME ServerInit PROVE ServerInv
  OBVIOUS
<1>1. /\ srv.at = "off" /\ stp.at = "off" /\ listen_fd = NoFd /\ client_fd = NoFd /\ DOMAIN fds = {} /\ fds = <<>>
  BY DEF ServerInit, Idle, Stopped
<1>2. SrvType
  BY DEF ServerInit, SrvType, Idle, SrvAt, FdNumber, Serving
<1>3. StpType
  BY DEF ServerInit, StpType, Stopped, FdNumber
<1>4. FdType
  BY <1>1 DEF FdType, FdNumber
<1>5. FdsFunction
  BY <1>1 DEF FdsFunction
<1>6. PeerType /\ QueueType
  BY LinesAssumption DEF ServerInit, PeerInit, PeerType, PeerPlaces, QueueType
<1>7. HeldExactly
  BY <1>1, NoFdFact DEF HeldExactly, ListenerHeld, ClientHeld, HasClient, HasListener
<1>8. HeldOnce
  BY <1>1 DEF HeldOnce, Serving, HasClient, HasListener
<1>9. StopSaid /\ ThreadOrder /\ DescriptorsOnce
  BY <1>1 DEF StopSaid, ThreadOrder, DescriptorsOnce, ServerInit
<1> QED
  BY <1>2, <1>3, <1>4, <1>5, <1>6, <1>7, <1>8, <1>9 DEF ServerInv

\* Every step of the server thread.
LEMMA ThreadInv == ServerInv /\ Thread => ServerInv'
BY RunLoopInv, BlockingCallInv, AcceptInv, PublishInv, HandleInv, ReceiveInv, TakeLineInv, ReplyInv, LeaveInv,
   CloseClientInv, ExitInv DEF Thread

\* Every step of stop().
LEMMA StopInv == ServerInv /\ Stop => ServerInv'
BY StopFlagInv, TakeFdInv, ShutFdInv, CloseFdInv, JoinInv DEF Stop

\* drain_commands() leaves the descriptors alone.
LEMMA DrainInv ==
  ASSUME ServerInv, commands' \in Seq(STRING),
         UNCHANGED <<stopping, listen_fd, client_fd, srv, stp, fds, shut, peer, accepted, misuse>>
  PROVE  ServerInv'
<1>1. SrvType' /\ StpType' /\ FdType' /\ FdsFunction' /\ QueueType' /\ PeerType'
  BY DEF ServerInv, SrvType, StpType, FdType, FdsFunction, QueueType, PeerType
<1>2. HeldExactly'
  BY SameHolders DEF ServerInv, ListenerHeld, ClientHeld
<1>3. HeldOnce'
  BY DEF ServerInv, HeldOnce, ListenerHeld
<1>4. StopSaid' /\ ThreadOrder' /\ DescriptorsOnce'
  BY DEF ServerInv, StopSaid, ThreadOrder, DescriptorsOnce
<1> QED
  BY <1>1, <1>2, <1>3, <1>4 DEF ServerInv

\* The thread puts a line into the queue when it says so, and at its end.
LEMMA ThreadQueues ==
  ASSUME ServerInv, Thread
  PROVE  \/ UNCHANGED <<commands, accepted>>
         \/ \E line \in STRING : commands' = Append(commands, line) /\ accepted' = Append(accepted, line)
<1>1. CASE TakeLine
  <2>1. srv.pending \in Seq(STRING)
    BY DEF ServerInv, SrvType
  <2>2. srv.pending # <<>> => Head(srv.pending) \in STRING
    BY <2>1
  <2> QED
    BY <1>1, <2>2 DEF TakeLine
<1>2. CASE ~TakeLine
  BY <1>2 DEF Thread, RunLoop, BlockingCall, Accept, Publish, Handle, Receive, Reply, Leave, CloseClient, Exit, Others
<1> QED
  BY <1>1, <1>2

=============================================================================
