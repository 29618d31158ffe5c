---------------------------- MODULE ReactorServer ----------------------------
(***************************************************************************)
(* The server loop of src/src/epollReactorServer.cpp: one thread,          *)
(* edge-triggered epoll, blocking sockets, and a table of EVENT_SIZE slots *)
(* for connections with the listening socket in the slot after them.       *)
(*                                                                         *)
(* A callback is one step: it makes one system call whose outcome the      *)
(* clients can influence.  A callback that would block is not enabled.     *)
(* The kernel and the clients are external.  A message is a client's       *)
(* command; TCP may deliver several to one recv.                           *)
(***************************************************************************)
EXTENDS Integers, Sequences, FiniteSetsExt

CONSTANTS Conns, Listener, NoFd,
          EventSize,   \* EVENT_SIZE
          BufSize,     \* how many messages erStruct's buf holds
          MaxMsgs,     \* bound: messages of all clients together
          MayFail      \* may clients reset their connections, and accept and recv fail

ASSUME ReactorAssumption ==
  /\ EventSize \in Nat \ {0} /\ BufSize \in Nat \ {0} /\ MaxMsgs \in Nat
  /\ MayFail \in BOOLEAN
  /\ Listener \notin Conns /\ NoFd \notin Conns \cup {Listener} /\ NoFd \notin Nat

Slots == 0..EventSize
Fds == Conns \cup {Listener}

VARIABLES
  patient,   \* do the clients of this run wait for the server before each thing they do, and
             \* does nothing fail
  peer,      \* each client: "away", "open", "closed", "reset", or "gone" once released
  backlog,   \* connections not yet accepted, oldest first
  inbox,     \* messages in each socket's receive buffer
  sent, handled,
  ready,     \* descriptors with an edge that epoll_wait has not reported
  ptr,       \* the slot registered with epoll for a descriptor, or NoFd
  slot,      \* epollevents[i].fd; NoFd where the slot is free
  batch,     \* events[] not yet handled: descriptors with their data.ptr
  server     \* "up", "exited", or "spinning" in a loop that cannot end

clients == <<patient, peer, sent>>
vars == <<clients, backlog, inbox, handled, ready, ptr, slot, batch, server>>

Readable(fd) ==
  IF fd = Listener THEN backlog # <<>> ELSE inbox[fd] > 0 \/ peer[fd] \in {"closed", "reset"}

\* startServer, up to its loop.
Init ==
  /\ patient \in BOOLEAN
  /\ peer = [c \in Conns |-> "away"] /\ backlog = <<>>
  /\ inbox = [c \in Conns |-> 0] /\ sent = [c \in Conns |-> 0] /\ handled = [c \in Conns |-> 0]
  /\ ready = {} /\ batch = {}
  /\ ptr = [fd \in Fds |-> IF fd = Listener THEN EventSize ELSE NoFd]
  /\ slot = [i \in Slots |-> IF i = EventSize THEN Listener ELSE NoFd]
  /\ server = "up"
-----------------------------------------------------------------------------
(* Clients and kernel *)

\* Nothing is left for the server to notice.
Quiet == batch = {} /\ \A fd \in Fds : ~Readable(fd)

\* Mutant: EPOLLONESHOT, never armed again.
Edge_OneShot(fd) ==
  ready' = IF ptr[fd] # NoFd /\ (fd = Listener \/ handled[fd] = 0) THEN ready \cup {fd} ELSE ready

\* An edge (EPOLLET): epoll hears of it if the descriptor is registered.
Edge(fd) == ready' = IF ptr[fd] # NoFd THEN ready \cup {fd} ELSE ready

Connect(c) ==
  /\ peer[c] = "away" /\ server = "up"
  /\ patient => Quiet /\ \E i \in Slots : slot[i] = NoFd
  /\ peer' = [peer EXCEPT ![c] = "open"]
  /\ backlog' = Append(backlog, c)
  /\ Edge(Listener)
  /\ UNCHANGED <<patient, sent, inbox, handled, ptr, slot, batch, server>>

Send(c) ==
  /\ peer[c] = "open" /\ server = "up" /\ (patient => Quiet)
  /\ MapThenSumSet(LAMBDA x : sent[x], Conns) < MaxMsgs
  /\ sent' = [sent EXCEPT ![c] = @ + 1]
  /\ inbox' = [inbox EXCEPT ![c] = @ + 1]
  /\ Edge(c)
  /\ UNCHANGED <<patient, peer, backlog, handled, ptr, slot, batch, server>>

Close(c) ==
  /\ peer[c] = "open" /\ server = "up" /\ (patient => Quiet)
  /\ peer' = [peer EXCEPT ![c] = "closed"]
  /\ Edge(c)
  /\ UNCHANGED <<patient, sent, backlog, inbox, handled, ptr, slot, batch, server>>

Reset(c) ==
  /\ MayFail /\ ~patient /\ peer[c] = "open" /\ server = "up"
  /\ peer' = [peer EXCEPT ![c] = "reset"]
  /\ inbox' = [inbox EXCEPT ![c] = 0]
  /\ Edge(c)
  /\ UNCHANGED <<patient, sent, backlog, handled, ptr, slot, batch, server>>
-----------------------------------------------------------------------------
(* The server *)

EpollWait ==
  /\ server = "up" /\ batch = {}
  /\ \E fd \in ready : Readable(fd)
  /\ batch' = {<<fd, ptr[fd]>> : fd \in {x \in ready : Readable(x)}}
  /\ ready' = {}
  /\ UNCHANGED <<clients, backlog, inbox, handled, ptr, slot, server>>

\* Mutants: the search stops one short of the end, or one past it.
FreeSlot_OneShort ==
  CHOOSE i \in Slots : /\ i = EventSize - 1 \/ slot[i] = NoFd
                       /\ \A j \in 0..i-1 : slot[j] # NoFd
FreeSlot_PastEnd ==
  CHOOSE i \in 0..EventSize+1 : /\ i = EventSize + 1 \/ slot[i] = NoFd
                                /\ \A j \in 0..i-1 : slot[j] # NoFd

\* The first free slot; if there is none, the index after the last, which is the listener's.
FreeSlot ==
  CHOOSE i \in Slots : /\ i = EventSize \/ slot[i] = NoFd
                       /\ \A j \in 0..i-1 : slot[j] # NoFd

\* accept or recv fails.  After EINTR, and ECONNABORTED for accept, a goto tests the same result
\* again, for ever; after anything else, EMFILE for instance, syserror ends the program.
Fails ==
  /\ MayFail /\ ~patient
  /\ server' \in {"spinning", "exited"}
  /\ UNCHANGED <<clients, backlog, inbox, handled, ready, ptr, slot>>

\* The connection gets a slot and is registered.
Accept ==
  LET c == Head(backlog) IN
  /\ backlog' = Tail(backlog)
  /\ slot' = [slot EXCEPT ![FreeSlot] = c]
  /\ ptr' = [ptr EXCEPT ![c] = FreeSlot]
  /\ ready' = IF Readable(c) THEN ready \cup {c} ELSE ready
  /\ UNCHANGED <<clients, inbox, handled, server>>

\* initAccept: one connection per event.
initAccept == backlog # <<>> /\ (Accept \/ Fails)

PeerGone(c) == inbox[c] = 0 /\ peer[c] = "closed"

\* Mutant: the slot is not marked as free.
eventdel_KeepsSlot(c, i) == ptr' = [ptr EXCEPT ![c] = NoFd] /\ UNCHANGED slot

eventdel(c, i) == ptr' = [ptr EXCEPT ![c] = NoFd] /\ slot' = [slot EXCEPT ![i] = NoFd]

\* readData, called with slot i: one recv.  Only the first message of the buffer is handled.
readData(c, i) ==
  \/ /\ inbox[c] > 0
     /\ inbox' = [inbox EXCEPT ![c] = IF @ > BufSize THEN @ - BufSize ELSE 0]
     /\ handled' = [handled EXCEPT ![c] = @ + 1]
     /\ UNCHANGED <<clients, backlog, ready, ptr, slot, server>>
  \/ /\ PeerGone(c)
     /\ peer' = [peer EXCEPT ![c] = "gone"]
     /\ eventdel(c, i) /\ ready' = ready \ {c}
     /\ UNCHANGED <<patient, sent, backlog, inbox, handled, server>>
  \/ /\ inbox[c] = 0 /\ peer[c] = "reset"
     /\ server' = "exited"
     /\ UNCHANGED <<clients, backlog, inbox, handled, ready, ptr, slot>>
  \/ Fails

\* One turn of the loop over events[]: the callback of whatever the slot holds by now.
Dispatch ==
  \E e \in batch :
    LET fd == slot[e[2]] IN
    /\ server = "up"
    /\ batch' = batch \ {e}
    /\ \/ fd = NoFd /\ UNCHANGED <<clients, backlog, inbox, handled, ready, ptr, slot, server>>
       \/ fd = Listener /\ initAccept
       \/ fd \in Conns /\ readData(fd, e[2])

Next == \/ \E c \in Conns : Connect(c) \/ Send(c) \/ Close(c) \/ Reset(c)
        \/ EpollWait \/ Dispatch

Spec == Init /\ [][Next]_vars

\* The server's thread runs; clients need do nothing.
FairSpec == Spec /\ WF_vars(EpollWait \/ Dispatch)
-----------------------------------------------------------------------------
(* Properties *)

\* The types of epollevents and of what the kernel keeps.
TypeOK ==
  /\ patient \in BOOLEAN /\ server \in {"up", "exited", "spinning"}
  /\ peer \in [Conns -> {"away", "open", "closed", "reset", "gone"}]
  /\ backlog \in Seq(Conns) /\ {inbox, sent, handled} \subseteq [Conns -> Nat]
  /\ ready \subseteq Fds /\ ptr \in [Fds -> Slots \cup {NoFd}]
  /\ slot \in [Slots -> Fds \cup {NoFd}] /\ batch \subseteq Fds \X Slots

ListenerKept == slot[EventSize] = Listener

\* As long as the table has not overflowed into the listener's slot, every event reaches the
\* slot of the descriptor it is for, whatever was released and accepted earlier in the same
\* batch, and registered descriptors and used slots correspond one to one.
EventsReachOwners ==
  ListenerKept =>
    /\ \A e \in batch : slot[e[2]] = e[1]
    /\ \A fd \in Fds : ptr[fd] # NoFd => slot[ptr[fd]] = fd
    /\ \A i \in Slots : slot[i] # NoFd => ptr[slot[i]] = i

\* ... and no callback blocks the only thread: each event of the batch still has something
\* to accept or to receive when its turn comes.
NeverBlocks ==
  ListenerKept => \A e \in batch : slot[e[2]] # NoFd => Readable(slot[e[2]])

\* The table overflows into the listener's slot only when as many connections as it has slots are
\* accepted and not released, all at the same time: no release leaves a slot behind, and no
\* connection takes two.  (One whose end of stream was missed counts: see ClosedIsReleased.)
OverflowWhenFull ==
  [][ListenerKept /\ ~ListenerKept' => Cardinality({c \in Conns : ptr[c] # NoFd}) = EventSize]_vars

\* A patient client's messages are all handled, and when it closes it gives its slot back.
PatientServed ==
  \A c \in Conns :
    /\ \A n \in 1..MaxMsgs : patient /\ sent[c] >= n ~> handled[c] >= n
    /\ patient /\ peer[c] = "closed" ~> ptr[c] = NoFd

\* Comment at L106: a connection the peer has closed is closed and its slot freed.
ClosedIsReleased == \A c \in Conns : peer[c] = "closed" ~> peer[c] = "gone"
=============================================================================
