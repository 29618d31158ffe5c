---------------------------- MODULE ReactorProofs ----------------------------
(***************************************************************************)
(* The reactor's table of slots and the events under way, for every number *)
(* of slots and clients: types, events that reach the slot of their        *)
(* descriptor, and callbacks that do not block the only thread.            *)
(***************************************************************************)
EXTENDS ReactorServer, WellFoundedInduction, FiniteSetTheorems, TLAPS

Stops == {i \in Slots : i = EventSize \/ slot[i] = NoFd}

\* The search of initAccept ends in the first free slot, or in the listener's.
LEMMA SearchEnds ==
  /\ FreeSlot \in Slots /\ (FreeSlot = EventSize \/ slot[FreeSlot] = NoFd)
  /\ \A j \in 0..FreeSlot-1 : slot[j] # NoFd
<1>1. Stops \subseteq Nat /\ EventSize \in Stops
  BY ReactorAssumption DEF Stops, Slots
<1>2. PICK i \in Stops : \A j \in Stops : ~(<<j, i>> \in OpToRel(<, Nat))
  BY <1>1, NatLessThanWellFounded, WFMin
<1>3. \A j \in Stops : ~(j < i)
  BY <1>1, <1>2 DEF OpToRel
<1>4. \A j \in 0..i-1 : slot[j] # NoFd
  BY <1>1, <1>3, ReactorAssumption DEF Stops, Slots
<1>5. \E k \in Slots : /\ k = EventSize \/ slot[k] = NoFd
                       /\ \A j \in 0..k-1 : slot[j] # NoFd
  BY <1>4 DEF Stops
<1> QED BY <1>5 DEF FreeSlot

(* Types *)

\* epoll reports a descriptor only while it is registered.
Registered == \A fd \in ready : ptr[fd] # NoFd

TypeInv == TypeOK /\ Registered

LEMMA TypesInit == Init => TypeInv
  BY ReactorAssumption DEF Init, TypeInv, TypeOK, Registered, Slots, Fds

LEMMA TypesClient ==
  ASSUME TypeInv, NEW c \in Conns, Connect(c) \/ Send(c) \/ Close(c) \/ Reset(c)
  PROVE  TypeInv'
<1> USE DEF TypeInv, TypeOK, Registered, Edge, clients, Fds
<1>1. CASE Connect(c)
  BY <1>1 DEF Connect
<1>2. CASE Send(c)
  BY <1>2 DEF Send
<1>3. CASE Close(c)
  BY <1>3 DEF Close
<1>4. CASE Reset(c)
  BY <1>4 DEF Reset
<1> QED BY <1>1, <1>2, <1>3, <1>4

LEMMA TypesWait == ASSUME TypeInv, EpollWait PROVE TypeInv'
<1>1. \A fd \in ready : fd \in Fds /\ ptr[fd] \in Slots
  BY DEF TypeInv, TypeOK, Registered
<1>2. batch' \subseteq Fds \X Slots
  BY <1>1 DEF EpollWait
<1> QED BY <1>2 DEF EpollWait, TypeInv, TypeOK, Registered, clients

\* A callback that changes nothing that clients or kernel keep, though it may end the server.
Idle == /\ server' \in {"up", "exited", "spinning"}
        /\ UNCHANGED <<clients, backlog, inbox, handled, ready, ptr, slot>>

\* recv returns messages, or the end of the stream.
Message(c) ==
  /\ inbox[c] > 0
  /\ inbox' = [inbox EXCEPT ![c] = IF @ > BufSize THEN @ - BufSize ELSE 0]
  /\ handled' = [handled EXCEPT ![c] = @ + 1]
  /\ UNCHANGED <<clients, backlog, ready, ptr, slot, server>>
Release(c, i) ==
  /\ peer' = [peer EXCEPT ![c] = "gone"]
  /\ ptr' = [ptr EXCEPT ![c] = NoFd] /\ ready' = ready \ {c}
  /\ slot' = [slot EXCEPT ![i] = NoFd]
  /\ UNCHANGED <<patient, sent, backlog, inbox, handled, server>>

\* The callback of one event of the batch.
Callback(e) ==
  \/ Idle
  \/ slot[e[2]] = Listener /\ backlog # <<>> /\ Accept
  \/ slot[e[2]] \in Conns /\ (Message(slot[e[2]]) \/ Release(slot[e[2]], e[2]))

LEMMA DispatchIs ==
  ASSUME Dispatch PROVE \E e \in batch : batch' = batch \ {e} /\ Callback(e)
<1>1. PICK e \in batch :
        /\ server = "up" /\ batch' = batch \ {e}
        /\ \/ slot[e[2]] = NoFd
                /\ UNCHANGED <<clients, backlog, inbox, handled, ready, ptr, slot, server>>
           \/ slot[e[2]] = Listener /\ initAccept
           \/ slot[e[2]] \in Conns /\ readData(slot[e[2]], e[2])
  BY DEF Dispatch
<1>2. CASE Fails \/ UNCHANGED <<clients, backlog, inbox, handled, ready, ptr, slot, server>>
  BY <1>1, <1>2 DEF Fails, Idle, Callback
<1>3. CASE slot[e[2]] = Listener /\ initAccept /\ ~Fails
  BY <1>1, <1>3 DEF initAccept, Callback
<1>4. CASE slot[e[2]] \in Conns /\ readData(slot[e[2]], e[2]) /\ ~Fails
  BY <1>1, <1>4 DEF readData, eventdel, Message, Release, Idle, Callback
<1> QED BY <1>1, <1>2, <1>3, <1>4

LEMMA TypesAccept ==
  ASSUME TypeInv, backlog # <<>>, Accept, batch' \subseteq batch PROVE TypeInv'
<1> DEFINE c == Head(backlog)
<1>1. c \in Conns /\ backlog' \in Seq(Conns)
  BY DEF TypeInv, TypeOK, Accept
<1>2. FreeSlot \in Slots /\ FreeSlot # NoFd
  BY SearchEnds, ReactorAssumption DEF Slots
<1> QED BY <1>1, <1>2 DEF Accept, TypeInv, TypeOK, Registered, clients, Fds

LEMMA TypesRead ==
  ASSUME TypeInv, NEW c \in Conns, NEW i \in Slots, Message(c) \/ Release(c, i), batch' \subseteq batch
  PROVE  TypeInv'
<1> USE DEF TypeInv, TypeOK, Registered, clients, Fds
<1>1. CASE Message(c)
  <2>1. inbox[c] > BufSize => inbox[c] - BufSize \in Nat
    BY <1>1, ReactorAssumption
  <2>2. inbox' \in [Conns -> Nat] /\ handled' \in [Conns -> Nat]
    BY <1>1, <2>1 DEF Message
  <2> QED BY <1>1, <2>2 DEF Message
<1>2. CASE Release(c, i)
  <2>1. Registered'
    BY <1>2 DEF Release
  <2>2. TypeOK'
    BY <1>2 DEF Release
  <2> QED BY <2>1, <2>2
<1> QED BY <1>1, <1>2

LEMMA TypesNext == TypeInv /\ [Next]_vars => TypeInv'
<1> SUFFICES ASSUME TypeInv, [Next]_vars PROVE TypeInv'
  OBVIOUS
<1>1. CASE Dispatch
  <2>1. PICK e \in batch : batch' = batch \ {e} /\ Callback(e)
    BY <1>1, DispatchIs
  <2>2. e[2] \in Slots /\ batch' \subseteq batch
    BY <2>1 DEF TypeInv, TypeOK
  <2>3. CASE Idle
    BY <2>2, <2>3 DEF Idle, TypeInv, TypeOK, Registered, clients
  <2> QED BY <2>1, <2>2, <2>3, TypesAccept, TypesRead DEF Callback
<1>2. CASE UNCHANGED vars
  BY <1>2 DEF vars, clients, TypeInv, TypeOK, Registered
<1> QED BY <1>1, <1>2, TypesClient, TypesWait DEF Next

\* The types of epollevents and of what the kernel keeps for it, for tables of every size:
\* the search for a free slot never leaves the table, and epoll never reports a descriptor
\* without a slot.
THEOREM ReactorTyped == Spec => []TypeOK
<1>1. TypeInv => TypeOK
  BY DEF TypeInv
<1> QED BY TypesInit, TypesNext, <1>1, PTL DEF Spec
-----------------------------------------------------------------------------
(* Owners *)

\* A connection waits in the backlog once, and has no slot until it is accepted.
Newcomers ==
  /\ \A c \in Conns : peer[c] = "away" =>
       ptr[c] = NoFd /\ \A k \in DOMAIN backlog : backlog[k] # c
  /\ \A k, l \in DOMAIN backlog : ptr[backlog[k]] = NoFd /\ (backlog[k] = backlog[l] => k = l)

OwnerInv == TypeInv /\ Newcomers /\ EventsReachOwners

LEMMA OwnersInit == Init => Newcomers /\ EventsReachOwners
  BY ReactorAssumption DEF Init, Newcomers, EventsReachOwners, Slots, Fds

LEMMA OwnersClient ==
  ASSUME OwnerInv, NEW c \in Conns, Connect(c) \/ Send(c) \/ Close(c) \/ Reset(c)
  PROVE  Newcomers' /\ EventsReachOwners'
<1>1. UNCHANGED <<ptr, slot, batch>>
  BY DEF Connect, Send, Close, Reset
<1>2. EventsReachOwners'
  BY <1>1 DEF OwnerInv, EventsReachOwners, ListenerKept
<1>3. CASE Connect(c)
  <2>1. backlog \in Seq(Conns) /\ backlog' = Append(backlog, c) /\ peer[c] = "away"
    BY <1>3 DEF Connect, OwnerInv, TypeInv, TypeOK
  <2>2. \A d \in Conns : peer'[d] = "away" => d # c /\ peer[d] = "away"
    BY <1>3 DEF Connect, OwnerInv, TypeInv, TypeOK
  <2>3. \A k \in DOMAIN backlog' : \/ k \in DOMAIN backlog /\ backlog'[k] = backlog[k]
                                   \/ k = Len(backlog) + 1 /\ backlog'[k] = c
    BY <2>1
  <2>4. \A k, l \in DOMAIN backlog' : backlog'[k] = backlog'[l] => k = l
    BY <2>1, <2>3 DEF OwnerInv, Newcomers
  <2> QED BY <1>1, <1>2, <2>1, <2>2, <2>3, <2>4 DEF OwnerInv, Newcomers
<1>4. CASE Send(c) \/ Close(c) \/ Reset(c)
  <2>1. UNCHANGED backlog /\ \A d \in Conns : peer'[d] = "away" => peer[d] = "away"
    BY <1>4 DEF Send, Close, Reset, OwnerInv, TypeInv, TypeOK
  <2> QED BY <1>1, <1>2, <2>1 DEF OwnerInv, Newcomers
<1> QED BY <1>2, <1>3, <1>4

LEMMA OwnersWait == ASSUME OwnerInv, EpollWait PROVE Newcomers' /\ EventsReachOwners'
<1>1. Newcomers'
  BY DEF EpollWait, OwnerInv, Newcomers, clients
<1>2. \A e \in batch' : e[1] \in ready /\ e[2] = ptr[e[1]]
  BY DEF EpollWait
<1>3. ready \subseteq Fds
  BY DEF OwnerInv, TypeInv, TypeOK
<1>4. EventsReachOwners'
  BY <1>2, <1>3 DEF EpollWait, OwnerInv, TypeInv, Registered, EventsReachOwners, ListenerKept
<1> QED BY <1>1, <1>4

\* An accepted connection gets a slot that nobody owns, unless the table is full.
LEMMA OwnersAccept ==
  ASSUME OwnerInv, backlog # <<>>, Accept, batch' \subseteq batch
  PROVE  Newcomers' /\ EventsReachOwners'
<1> DEFINE c == Head(backlog)
<1>1. /\ backlog \in Seq(Conns) /\ backlog # <<>> /\ backlog' = Tail(backlog)
      /\ ptr' = [ptr EXCEPT ![c] = FreeSlot] /\ slot' = [slot EXCEPT ![FreeSlot] = c]
      /\ UNCHANGED peer
  BY DEF Accept, OwnerInv, TypeInv, TypeOK, clients
<1>2. c \in Conns /\ ptr[c] = NoFd
  BY <1>1 DEF OwnerInv, Newcomers
<1>3. \A k \in DOMAIN backlog' : k + 1 \in DOMAIN backlog /\ backlog'[k] = backlog[k + 1]
  BY <1>1
<1>4. \A k \in DOMAIN backlog' : backlog'[k] # c
  BY <1>1, <1>3 DEF OwnerInv, Newcomers
<1>5. \A d \in Conns : peer[d] = "away" => d # c
  BY <1>1 DEF OwnerInv, Newcomers
<1>6. ptr \in [Fds -> Slots \cup {NoFd}] /\ slot \in [Slots -> Fds \cup {NoFd}]
  BY DEF OwnerInv, TypeInv, TypeOK
<1>7. Newcomers'
  <2>1. \A d \in Fds : d # c => ptr'[d] = ptr[d]
    BY <1>1, <1>6
  <2>2. \A d \in Conns : peer'[d] = "away" =>
          ptr'[d] = NoFd /\ \A k \in DOMAIN backlog' : backlog'[k] # d
    BY <1>1, <1>3, <1>5, <2>1 DEF OwnerInv, Newcomers, Fds
  <2>3. \A k, l \in DOMAIN backlog' : backlog'[k] = backlog'[l] => k = l
    BY <1>1, <1>3 DEF OwnerInv, Newcomers
  <2>4. \A k \in DOMAIN backlog' : backlog'[k] \in Conns /\ ptr[backlog'[k]] = NoFd
    BY <1>1, <1>3 DEF OwnerInv, Newcomers
  <2>5. \A k \in DOMAIN backlog' : ptr'[backlog'[k]] = NoFd
    BY <1>4, <2>1, <2>4 DEF Fds
  <2> QED BY <2>2, <2>3, <2>5 DEF Newcomers
<1>8. EventsReachOwners'
  <2> SUFFICES ASSUME ListenerKept'
               PROVE  /\ \A e \in batch' : slot'[e[2]] = e[1]
                      /\ \A fd \in Fds : ptr'[fd] # NoFd => slot'[ptr'[fd]] = fd
                      /\ \A i \in Slots : slot'[i] # NoFd => ptr'[slot'[i]] = i
    BY DEF EventsReachOwners
  <2>1. FreeSlot \in Slots /\ slot[FreeSlot] = NoFd /\ ListenerKept
    BY <1>1, <1>2, <1>6, SearchEnds, ReactorAssumption DEF ListenerKept, Slots
  <2>2. \A e \in batch' : e[2] \in Slots /\ e[1] \in Fds /\ slot[e[2]] = e[1]
    BY <2>1 DEF OwnerInv, TypeInv, TypeOK, EventsReachOwners
  <2>3. \A e \in batch' : slot'[e[2]] = e[1]
    BY <1>1, <1>6, <2>1, <2>2, ReactorAssumption DEF Fds
  <2>4. \A fd \in Fds : ptr[fd] # NoFd => slot[ptr[fd]] = fd
    BY <2>1 DEF OwnerInv, EventsReachOwners
  <2>5. \A i \in Slots : slot[i] # NoFd => ptr[slot[i]] = i
    BY <2>1 DEF OwnerInv, EventsReachOwners
  <2>6. \A fd \in Fds : ptr'[fd] # NoFd => slot'[ptr'[fd]] = fd
    BY <1>1, <1>2, <1>6, <2>1, <2>4, ReactorAssumption DEF Fds
  <2>7. \A i \in Slots : slot'[i] # NoFd => ptr'[slot'[i]] = i
    <3> SUFFICES ASSUME NEW i \in Slots, slot'[i] # NoFd PROVE ptr'[slot'[i]] = i
      OBVIOUS
    <3>1. CASE i = FreeSlot
      BY <3>1, <1>1, <1>2, <1>6 DEF Fds
    <3>2. CASE i # FreeSlot
      <4>1. slot'[i] = slot[i] /\ slot[i] \in Fds /\ ptr[slot[i]] = i /\ i # NoFd
        BY <3>2, <1>1, <1>6, <2>5, ReactorAssumption DEF Slots
      <4> QED BY <4>1, <1>1, <1>2, <1>6
    <3> QED BY <3>1, <3>2
  <2> QED BY <2>3, <2>6, <2>7
<1> QED BY <1>7, <1>8

\* A slot is released by the event of its own descriptor, and no other event of the batch
\* is for that slot.
LEMMA OwnersRead ==
  ASSUME OwnerInv, NEW e \in batch, batch' = batch \ {e}, slot[e[2]] \in Conns,
         Message(slot[e[2]]) \/ Release(slot[e[2]], e[2])
  PROVE  Newcomers' /\ EventsReachOwners'
<1> DEFINE c == slot[e[2]]
<1>1. /\ e \in Fds \X Slots /\ slot \in [Slots -> Fds \cup {NoFd}]
      /\ ptr \in [Fds -> Slots \cup {NoFd}] /\ DOMAIN peer = Conns
      /\ backlog \in Seq(Conns)
  BY DEF OwnerInv, TypeInv, TypeOK
<1>2. CASE UNCHANGED <<peer, backlog, ptr, slot>>
  BY <1>2 DEF OwnerInv, Newcomers, EventsReachOwners, ListenerKept
<1>3. CASE /\ peer' = [peer EXCEPT ![c] = "gone"] /\ UNCHANGED backlog
           /\ ptr' = [ptr EXCEPT ![c] = NoFd] /\ slot' = [slot EXCEPT ![e[2]] = NoFd]
  <2>1. Newcomers'
    BY <1>1, <1>3 DEF OwnerInv, Newcomers, Fds
  <2>2. EventsReachOwners'
    <3> SUFFICES ASSUME ListenerKept'
                 PROVE  /\ \A f \in batch' : slot'[f[2]] = f[1]
                        /\ \A fd \in Fds : ptr'[fd] # NoFd => slot'[ptr'[fd]] = fd
                        /\ \A i \in Slots : slot'[i] # NoFd => ptr'[slot'[i]] = i
      BY DEF EventsReachOwners
    <3>1. ListenerKept
      BY <1>1, <1>3, ReactorAssumption DEF ListenerKept, Slots
    <3>2. /\ \A f \in batch : f \in Fds \X Slots /\ slot[f[2]] = f[1]
          /\ \A fd \in Fds : ptr[fd] # NoFd => slot[ptr[fd]] = fd
          /\ \A i \in Slots : slot[i] # NoFd => ptr[slot[i]] = i
      BY <3>1 DEF OwnerInv, TypeInv, TypeOK, EventsReachOwners
    <3>3. \A f \in batch' : f[2] # e[2]
      BY <1>1, <3>2
    <3>4. \A f \in batch' : slot'[f[2]] = f[1]
      BY <1>1, <1>3, <3>2, <3>3
    <3>5. \A fd \in Fds : ptr'[fd] # NoFd => slot'[ptr'[fd]] = fd
      BY <1>1, <1>3, <3>2 DEF Fds
    <3>6. \A i \in Slots : slot'[i] # NoFd => ptr'[slot'[i]] = i
      <4> SUFFICES ASSUME NEW i \in Slots, slot'[i] # NoFd PROVE ptr'[slot'[i]] = i
        OBVIOUS
      <4>1. i # e[2] /\ slot'[i] = slot[i] /\ slot[i] \in Fds /\ ptr[slot[i]] = i
        BY <1>1, <1>3, <3>2
      <4> QED BY <4>1, <1>1, <1>3, <3>2
    <3> QED BY <3>4, <3>5, <3>6
  <2> QED BY <2>1, <2>2
<1> QED BY <1>2, <1>3 DEF Message, Release, clients

LEMMA OwnersNext == OwnerInv /\ [Next]_vars => OwnerInv'
<1> SUFFICES ASSUME OwnerInv, [Next]_vars PROVE OwnerInv'
  OBVIOUS
<1>0. TypeInv'
  BY TypesNext DEF OwnerInv
<1>1. CASE Dispatch
  <2>1. PICK e \in batch : batch' = batch \ {e} /\ Callback(e)
    BY <1>1, DispatchIs
  <2>2. CASE Idle
    BY <1>0, <2>1, <2>2 DEF Idle, OwnerInv, Newcomers, EventsReachOwners, ListenerKept, clients
  <2> QED BY <1>0, <2>1, <2>2, OwnersAccept, OwnersRead DEF OwnerInv, Callback
<1>2. CASE UNCHANGED vars
  BY <1>0, <1>2 DEF vars, clients, OwnerInv, Newcomers, EventsReachOwners, ListenerKept
<1> QED BY <1>0, <1>1, <1>2, OwnersClient, OwnersWait DEF Next, OwnerInv

\* For every number of clients and slots, as long as the table has not overflowed, each
\* event of a batch is handled by the slot of its own descriptor, though earlier events of
\* the same batch release slots and accept connections into them.
THEOREM OwnersReached == Spec => []EventsReachOwners
<1>1. Init => OwnerInv
  BY TypesInit, OwnersInit DEF OwnerInv
<1>2. OwnerInv => EventsReachOwners
  BY DEF OwnerInv
<1> QED BY OwnersNext, <1>1, <1>2, PTL DEF Spec
-----------------------------------------------------------------------------
(* Blocking *)

\* What epoll_wait has reported stays true until the event's turn comes.
StillReady == ListenerKept => \A e \in batch : Readable(e[1])

ReadyInv == OwnerInv /\ StillReady

\* Clients only add: an unread message or connection, or the end of the stream.
LEMMA ReadyClient ==
  ASSUME ReadyInv, NEW c \in Conns, Connect(c) \/ Send(c) \/ Close(c) \/ Reset(c)
  PROVE  StillReady'
<1>1. UNCHANGED <<slot, batch>>
  BY DEF Connect, Send, Close, Reset
<1>2. /\ peer \in [Conns -> {"away", "open", "closed", "reset", "gone"}]
      /\ backlog \in Seq(Conns) /\ inbox \in [Conns -> Nat]
  BY DEF ReadyInv, OwnerInv, TypeInv, TypeOK
<1>3. ASSUME NEW fd \in Fds, Readable(fd) PROVE Readable(fd)'
  <2>1. CASE Connect(c)
    <3>1. backlog' = Append(backlog, c) /\ backlog' # <<>> /\ UNCHANGED inbox
      BY <1>2, <2>1 DEF Connect
    <3>2. \A d \in Conns : peer[d] # "away" => peer'[d] = peer[d]
      BY <1>2, <2>1 DEF Connect
    <3> QED BY <1>2, <1>3, <3>1, <3>2 DEF Readable, Fds
  <2>2. CASE Send(c)
    BY <1>2, <1>3, <2>2 DEF Send, Readable, Fds
  <2>3. CASE Close(c)
    BY <1>2, <1>3, <2>3 DEF Close, Readable, Fds
  <2>4. CASE Reset(c)
    BY <1>2, <1>3, <2>4 DEF Reset, Readable, Fds
  <2> QED BY <2>1, <2>2, <2>3, <2>4
<1>4. ListenerKept' = ListenerKept /\ batch \subseteq Fds \X Slots
  BY <1>1 DEF ListenerKept, ReadyInv, OwnerInv, TypeInv, TypeOK
<1> QED BY <1>1, <1>3, <1>4 DEF ReadyInv, StillReady

LEMMA ReadyWait == ASSUME ReadyInv, EpollWait PROVE StillReady'
<1>1. \A e \in batch' : Readable(e[1])
  BY DEF EpollWait
<1>2. \A fd : Readable(fd)' = Readable(fd)
  BY DEF EpollWait, Readable, clients
<1> QED BY <1>1, <1>2 DEF StillReady

\* A callback takes from its own descriptor only.
LEMMA ReadyDispatch ==
  ASSUME ReadyInv, NEW e \in batch, batch' = batch \ {e}, Callback(e)
  PROVE  StillReady'
<1> DEFINE fd == slot[e[2]]
<1> SUFFICES ASSUME ListenerKept', NEW f \in batch' PROVE Readable(f[1])'
  BY DEF StillReady
<1>1. /\ slot \in [Slots -> Fds \cup {NoFd}] /\ batch \subseteq Fds \X Slots
      /\ peer \in [Conns -> {"away", "open", "closed", "reset", "gone"}]
      /\ backlog \in Seq(Conns) /\ inbox \in [Conns -> Nat] /\ Listener \notin Conns
  BY ReactorAssumption DEF ReadyInv, OwnerInv, TypeInv, TypeOK
<1>2. ListenerKept
  <2>1. CASE UNCHANGED slot
    BY <2>1 DEF ListenerKept
  <2>2. CASE backlog # <<>> /\ Accept
    <3>1. Head(backlog) \in Conns /\ slot' = [slot EXCEPT ![FreeSlot] = Head(backlog)]
      BY <1>1, <2>2 DEF Accept
    <3> QED BY <1>1, <3>1, SearchEnds DEF ListenerKept
  <2>3. CASE slot' = [slot EXCEPT ![e[2]] = NoFd]
    BY <1>1, <2>3, ReactorAssumption DEF ListenerKept, Slots
  <2> QED BY <2>1, <2>2, <2>3 DEF Callback, Idle, Message, Release
<1>3. /\ e[2] \in Slots /\ f \in Fds \X Slots /\ f # e
      /\ slot[f[2]] = f[1] /\ slot[e[2]] = e[1] /\ Readable(f[1])
      /\ \A i \in Slots : slot[i] # NoFd => ptr[slot[i]] = i
  BY <1>1, <1>2 DEF ReadyInv, OwnerInv, EventsReachOwners, StillReady
<1>4. f[1] # fd /\ f[1] \in Fds
  <2>1. e \in Fds \X Slots /\ e = <<e[1], e[2]>> /\ f = <<f[1], f[2]>> /\ f[1] \in Fds /\ f[2] \in Slots
    BY <1>1, <1>3
  <2>2. f[1] # NoFd
    BY <2>1, ReactorAssumption DEF Fds
  <2>3. ASSUME f[1] = e[1] PROVE FALSE
    <3>1. ptr[f[1]] = f[2] /\ ptr[f[1]] = e[2]
      BY <1>3, <2>1, <2>2, <2>3
    <3> QED BY <1>3, <2>1, <2>3, <3>1
  <2> QED BY <1>3, <2>1, <2>3
<1>5. CASE UNCHANGED <<clients, backlog, inbox>>
  BY <1>3, <1>5 DEF Readable, clients
<1>6. CASE fd = Listener /\ Accept
  BY <1>3, <1>4, <1>6 DEF Accept, Readable, clients, Fds
<1>7. CASE fd \in Conns /\ (Message(fd) \/ Release(fd, e[2]))
  <2>1. \A d \in Conns \ {fd} : inbox'[d] = inbox[d] /\ peer'[d] = peer[d]
    BY <1>1, <1>7 DEF Message, Release, clients
  <2>2. UNCHANGED backlog
    BY <1>7 DEF Message, Release
  <2> QED BY <1>3, <1>4, <2>1, <2>2 DEF Readable, Fds
<1> QED BY <1>5, <1>6, <1>7 DEF Callback, Idle

LEMMA ReadyNext == ReadyInv /\ [Next]_vars => ReadyInv'
<1> SUFFICES ASSUME ReadyInv, [Next]_vars PROVE StillReady'
  BY OwnersNext DEF ReadyInv
<1>1. CASE Dispatch
  <2> QED BY <1>1, DispatchIs, ReadyDispatch
<1>2. CASE UNCHANGED vars
  BY <1>2 DEF vars, clients, ReadyInv, StillReady, ListenerKept, Readable
<1> QED BY <1>1, <1>2, ReadyClient, ReadyWait DEF Next

\* As long as the table has not overflowed, accept and recv are only called when there is
\* something to accept or to receive: no client can stop the thread that serves them all,
\* by a close or reset between epoll_wait and the callback for instance.
THEOREM ReactorNeverBlocks == Spec => []NeverBlocks
<1>1. Init => ReadyInv
  BY TypesInit, OwnersInit DEF Init, ReadyInv, OwnerInv, StillReady
<1>2. ReadyInv => NeverBlocks
  BY DEF ReadyInv, OwnerInv, StillReady, EventsReachOwners, NeverBlocks
<1> QED BY ReadyNext, <1>1, <1>2, PTL DEF Spec
-----------------------------------------------------------------------------
(* Capacity *)

\* Accepted, and not released.
Open == {c \in Conns : ptr[c] # NoFd}

\* When the search ends in the listener's slot, each of the others is an open connection's, and each
\* open connection has one of them.
LEMMA OverflowTakesAll ==
  ASSUME OwnerInv, backlog # <<>>, Accept, ListenerKept, ~ListenerKept'
  PROVE  Cardinality(Open) = EventSize
<1> DEFINE c == Head(backlog)
           Places == 0..EventSize-1
<1>1. /\ slot \in [Slots -> Fds \cup {NoFd}] /\ ptr \in [Fds -> Slots \cup {NoFd}]
      /\ slot' = [slot EXCEPT ![FreeSlot] = c]
      /\ \A i \in Slots : slot[i] # NoFd => ptr[slot[i]] = i
      /\ \A fd \in Fds : ptr[fd] # NoFd => slot[ptr[fd]] = fd
      /\ slot[EventSize] = Listener
  BY DEF Accept, OwnerInv, TypeInv, TypeOK, EventsReachOwners, ListenerKept
<1>2. FreeSlot = EventSize
  BY <1>1, SearchEnds, ReactorAssumption DEF ListenerKept, Slots
<1>3. \A i \in Places : i \in Slots /\ i # EventSize /\ i # NoFd /\ slot[i] # NoFd
  BY <1>2, SearchEnds, ReactorAssumption DEF Slots
<1>4. \A i \in Places : slot[i] \in Open
  BY <1>1, <1>3, ReactorAssumption DEF Fds, Open, Slots
<1>5. \A i, j \in Places : slot[i] = slot[j] => i = j
  BY <1>1, <1>3
<1>6. \A d \in Open : ptr[d] \in Places /\ slot[ptr[d]] = d
  BY <1>1, ReactorAssumption DEF Open, Fds, Slots
<1>7. ExistsBijection(Places, Open)
  <2> DEFINE f == [i \in Places |-> slot[i]]
  <2>1. f \in [Places -> Open] /\ \A i \in Places : f[i] = slot[i]
    BY <1>4
  <2>2. \A i, j \in Places : f[i] = f[j] => i = j
    BY <1>5, <2>1
  <2>3. \A d \in Open : \E i \in Places : f[i] = d
    BY <1>6, <2>1
  <2> HIDE DEF f
  <2>4. f \in Bijection(Places, Open)
    BY <2>1, <2>2, <2>3 DEF Bijection, Injection, Surjection, IsInjective
  <2> QED BY <2>4 DEF ExistsBijection
<1>8. IsFiniteSet(Places) /\ Cardinality(Places) = EventSize
  BY FS_Interval, ReactorAssumption
<1> QED BY <1>7, <1>8, FS_Bijection

\* For any number of clients, one after another or at a time, and any number of slots: the table
\* overflows into the listener's slot only by accepting a connection while as many as it has slots
\* are open, so that the two theorems above hold of a server that never has more open at once.
THEOREM TableSuffices == Spec => OverflowWhenFull
<1>1. Init => OwnerInv
  BY TypesInit, OwnersInit DEF OwnerInv
<1>2. OwnerInv /\ [Next]_vars
        => [ListenerKept /\ ~ListenerKept' => Cardinality({c \in Conns : ptr[c] # NoFd}) = EventSize]_vars
  <2> SUFFICES ASSUME OwnerInv, ListenerKept, ~ListenerKept', Next PROVE Cardinality(Open) = EventSize
    BY DEF Open
  <2>1. Dispatch
    BY DEF Next, Connect, Send, Close, Reset, EpollWait, ListenerKept
  <2>2. PICK e \in batch : Callback(e)
    BY <2>1, DispatchIs
  <2>4. CASE Release(slot[e[2]], e[2]) /\ slot[e[2]] \in Conns
    <3>1. EventSize \in Slots /\ slot \in [Slots -> Fds \cup {NoFd}] /\ e[2] # EventSize
      BY <2>4, ReactorAssumption DEF Slots, OwnerInv, TypeInv, TypeOK, ListenerKept
    <3> QED BY <2>4, <3>1 DEF Release, ListenerKept
  <2>3. CASE Idle \/ Message(slot[e[2]])
    BY <2>3 DEF Idle, Message, ListenerKept
  <2> QED BY <2>2, <2>3, <2>4, OverflowTakesAll DEF Callback
<1> QED BY <1>1, <1>2, OwnersNext, PTL DEF Spec, OverflowWhenFull
=============================================================================
