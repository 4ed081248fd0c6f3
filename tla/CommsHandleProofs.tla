-------------------------- MODULE CommsHandleProofs --------------------------
(***************************************************************************)
(* Theorems about CommsHandle, for every set of handles, every choice of   *)
(* the TCP clients among them and every number of sockets.                 *)
(***************************************************************************)
EXTENDS CommsHandle, TLAPS

-----------------------------------------------------------------------------
(* The inductive invariant. *)

IsClosing(h) == apc \in Closing /\ job = h
IsClosed(h) == apc \in Closing \ {"close", "destroy"} /\ job = h
IsStoring(h) == apc \in {"store_ip", "store_port"} /\ job = h
KindOf(h) == IF h \in Tcp THEN "tcp" ELSE "udp"

\* What the application's thread is in the middle of.
JobInv == /\ job = NoHandle <=> apc \in {"idle", "crashed"}
          /\ apc \in Closing => alive[job]
          /\ apc \in {"wait", "count", "store_ip", "store_port"} =>
                 job \in Tcp /\ opened[job] = "yes"
          /\ apc \in {"wait", "count"} => client_count[job] = 0
          /\ apc \in {"store_ip", "store_port"} => client_count[job] > 0
          /\ apc = "count" => sock[fd[job]].link = "connected"

\* A number that a handle holds is that of an open socket of its kind, and of no
\* other handle; also after a close that left the socket open.
SocketInv ==
    /\ \A h \in Handles : fd[h] \in Sockets => sock[fd[h]].kind = KindOf(h)
    /\ \A g, h \in Handles : fd[g] = fd[h] /\ fd[g] \in Sockets => g = h
    /\ \A h \in Handles : opened[h] = "yes" /\ ~IsClosed(h) => fd[h] \in Sockets

\* A listener lives within the time between opening and joining, and holds the
\* number of the handle's socket, or while the handle is being closed of none.
ListenerInv == \A h \in Handles :
    /\ lpc[h] \notin {"none", "joined"} =>
           /\ alive[h] /\ opened[h] = "yes"
           /\ lpc[h] = "exited" \/ ~running[h] => apc \in {"join", "join_free"} /\ job = h
    /\ lpc[h] = "recv" => /\ lfd[h] \in Sockets
                          /\ \/ lfd[h] = fd[h]
                             \/ sock[lfd[h]].kind = "free" /\ IsClosing(h)
    /\ lpc[h] = "set_count" => h \notin Tcp

\* A remote that counts has been named, once CommsConnect has stored it, and the socket
\* of a TCP client that counts is connected: connect is never called on it again.
RemoteInv == \A h \in Handles :
    /\ opened[h] = "yes" /\ client_count[h] > 0 =>
           /\ ~IsClosing(h) /\ ~IsStoring(h) => remote[h] = Named
           /\ h \in Tcp /\ fd[h] \in Sockets => sock[fd[h]].link = "connected"
    /\ apc = "store_port" /\ job = h => remote[h].ip = "named"
    /\ lpc[h] = "set_count" => remote[h] = Named \/ IsClosing(h)

\* What a TCP client stores of its remote is gone when its sockets have been closed.
ClientInv == \A h \in Tcp :
    /\ remote[h].ip # "old" /\ remote[h].port # "old"
    /\ remote[h] # Unset => opened[h] = "yes" /\ client_count[h] > 0 /\ ~IsClosed(h)

IInv == /\ TypeOK /\ SentToNamed
        /\ JobInv /\ SocketInv /\ ListenerInv /\ RemoteInv /\ ClientInv

-----------------------------------------------------------------------------
(* Types, in three parts. *)

Links == {"idle", "connecting", "refused", "established", "connected"}
SocketRecords == [kind : {"free", "udp", "tcp"}, nonblock : BOOLEAN, link : Links,
                  data : BOOLEAN]

HandleTypes == /\ alive \in [Handles -> BOOLEAN]
               /\ opened \in [Handles -> {"no", "failed", "yes", "closed"}]
               /\ fd \in [Handles -> Sockets \cup {-1, 0}]
               /\ client_count \in [Handles -> 0..1]
               /\ running \in [Handles -> BOOLEAN]
ThreadTypes ==
    /\ lpc \in [Handles -> {"none", "start", "top", "recv", "copy", "callback", "set_count",
                            "exited", "joined"}]
    /\ lfd \in [Handles -> Sockets \cup {0}]
    /\ apc \in {"idle", "wait", "count", "store_ip", "store_port", "crashed"} \cup Closing
    /\ job \in Handles \cup {NoHandle}
RemoteTypes == remote \in [Handles -> Addresses] /\ told \in [Handles -> Addresses]
SocketTypes == sock \in [Sockets -> SocketRecords]

LEMMA NamedAddress == Named \in Addresses
  BY DEF Addresses, Parts, Named

LEMMA TypeParts ==
  TypeOK /\ SentToNamed
    <=> HandleTypes /\ ThreadTypes /\ RemoteTypes /\ SocketTypes /\ to = Named
  BY NamedAddress DEF TypeOK, SentToNamed, HandleTypes, ThreadTypes, RemoteTypes, SocketTypes,
     SocketRecords, Links

\* Every change of a socket leaves a socket.
LEMMA SocketUpdates ==
  ASSUME SocketTypes, NEW f \in Sockets
  PROVE  /\ \A b \in BOOLEAN : /\ [sock EXCEPT ![f].data = b] \in [Sockets -> SocketRecords]
                               /\ [sock EXCEPT ![f].nonblock = b] \in [Sockets -> SocketRecords]
         /\ \A l \in Links : [sock EXCEPT ![f].link = l] \in [Sockets -> SocketRecords]
         /\ [sock EXCEPT ![f] = Free] \in [Sockets -> SocketRecords]
         /\ \A h : [sock EXCEPT ![f] = NewSocket(h)] \in [Sockets -> SocketRecords]
<1>1. \A s \in SocketRecords :
         /\ \A b \in BOOLEAN : /\ [s EXCEPT !.data = b] \in SocketRecords
                               /\ [s EXCEPT !.nonblock = b] \in SocketRecords
         /\ \A l \in Links : [s EXCEPT !.link = l] \in SocketRecords
  BY DEF SocketRecords
<1>2. Free \in SocketRecords /\ \A h : NewSocket(h) \in SocketRecords
  BY DEF SocketRecords, Free, NewSocket, Links
<1>3. sock[f] \in SocketRecords
  BY DEF SocketTypes
<1> QED
  BY <1>1, <1>2, <1>3 DEF SocketTypes

\* Data and O_NONBLOCK leave a socket's kind and connection alone.
LEMMA SocketKept ==
  ASSUME SocketTypes, NEW f \in Sockets, NEW g \in Sockets, NEW b \in BOOLEAN
  PROVE  /\ [sock EXCEPT ![f].data = b][g].kind = sock[g].kind
         /\ [sock EXCEPT ![f].data = b][g].link = sock[g].link
         /\ [sock EXCEPT ![f].nonblock = b][g].kind = sock[g].kind
         /\ [sock EXCEPT ![f].nonblock = b][g].link = sock[g].link
  BY DEF SocketTypes, SocketRecords

\* Naming a remote, or a part of it, leaves an address; so do closing and opening.
LEMMA RemoteUpdates ==
  ASSUME RemoteTypes, NEW h \in Handles
  PROVE  /\ [remote EXCEPT ![h] = Named] \in [Handles -> Addresses]
         /\ [remote EXCEPT ![h] = Unset] \in [Handles -> Addresses]
         /\ [told EXCEPT ![h] = Unset] \in [Handles -> Addresses]
         /\ [told EXCEPT ![h] = remote[h]] \in [Handles -> Addresses]
         /\ [remote EXCEPT ![h].ip = "named"] \in [Handles -> Addresses]
         /\ [remote EXCEPT ![h].port = "named"] \in [Handles -> Addresses]
         /\ [remote EXCEPT ![h] = [ip |-> Aged(@.ip), port |-> Aged(@.port)]]
                \in [Handles -> Addresses]
         /\ [remote EXCEPT ![h] = [@ EXCEPT !.port = "named"]] \in [Handles -> Addresses]
         /\ [remote EXCEPT ![h] = [@ EXCEPT !.ip = "named"]] \in [Handles -> Addresses]
<1>1. remote[h] \in Addresses
  BY DEF RemoteTypes
<1>2. \A r \in Addresses : /\ [ip |-> Aged(r.ip), port |-> Aged(r.port)] \in Addresses
                         /\ [r EXCEPT !.port = "named"] \in Addresses
                         /\ [r EXCEPT !.ip = "named"] \in Addresses
  BY DEF Addresses, Parts, Aged
<1>3. Named \in Addresses /\ Unset \in Addresses
  BY DEF Addresses, Parts, Named, Unset
<1> QED
  BY <1>1, <1>2, <1>3 DEF RemoteTypes

\* The numbers of sockets are those above 0.
LEMMA SocketNumbers == \A n \in Sockets \cup {-1, 0} : n > 0 <=> n \in Sockets
  BY ConstantsAssumption DEF Sockets

-----------------------------------------------------------------------------
(* Every action keeps the invariant. *)

LEMMA SocketFailsStep ==
  ASSUME IInv, NEW h \in Handles, SocketFails(h)
  PROVE  IInv'
<1> USE DEF IInv, IsClosing, IsClosed, IsStoring, Closing, handles, listeners
<1>1. TypeOK' /\ SentToNamed'
  <2>1. HandleTypes'
    BY TypeParts DEF HandleTypes, JobInv, SocketFails, CanOpen
  <2>2. ThreadTypes'
    BY TypeParts, SocketNumbers DEF ThreadTypes, HandleTypes, JobInv, SocketFails, CanOpen
  <2>3. RemoteTypes'
    BY TypeParts DEF RemoteTypes, SocketFails, CanOpen
  <2>4. SocketTypes'
    BY TypeParts DEF SocketTypes, SocketFails
  <2>5. to' = Named
    BY TypeParts DEF SocketFails
  <2> QED
    BY <2>1, <2>2, <2>3, <2>4, <2>5, NamedAddress
       DEF TypeOK, SentToNamed, HandleTypes, ThreadTypes, RemoteTypes, SocketTypes,
           SocketRecords, Links
<1>2. JobInv'
  BY DEF JobInv, SocketFails, CanOpen
<1>3. SocketInv'
  BY DEF SocketInv, SocketFails
<1>4. ListenerInv'
  BY DEF ListenerInv, SocketFails, CanOpen
<1>5. RemoteInv'
  BY DEF RemoteInv, SocketFails
<1>6. ClientInv'
  BY ConstantsAssumption DEF TypeOK, ClientInv, CanOpen, SocketFails
<1> QED
  BY <1>1, <1>2, <1>3, <1>4, <1>5, <1>6

LEMMA BindFailsStep ==
  ASSUME IInv, NEW h \in Handles, BindFails(h)
  PROVE  IInv'
<1> USE DEF IInv, IsClosing, IsClosed, IsStoring, Closing, handles, listeners
<1>1. PICK f \in Sockets : /\ sock[f].kind = "free"
                          /\ sock' = [sock EXCEPT ![f] = NewSocket(h)]
  BY DEF BindFails, IsNext
<1>2. SocketTypes' /\ \A g \in Sockets \ {f} : sock'[g] = sock[g]
  BY <1>1, TypeParts, SocketUpdates DEF SocketTypes
<1>3. TypeOK' /\ SentToNamed'
  <2>1. HandleTypes'
    BY TypeParts DEF HandleTypes, BindFails
  <2>2. ThreadTypes'
    BY TypeParts DEF ThreadTypes, BindFails
  <2>3. RemoteTypes'
    BY TypeParts DEF RemoteTypes, BindFails
  <2>4. SocketTypes'
    BY <1>2
  <2>5. to' = Named
    BY TypeParts DEF BindFails
  <2> QED
    BY <2>1, <2>2, <2>3, <2>4, <2>5, NamedAddress
       DEF TypeOK, SentToNamed, HandleTypes, ThreadTypes, RemoteTypes, SocketTypes,
           SocketRecords, Links
<1>4. JobInv'
  <2>1. CASE h \in Tcp
    BY ConstantsAssumption DEF JobInv, CanOpen, BindFails
  <2>2. CASE h \notin Tcp
    BY <2>2 DEF JobInv, CanOpen, BindFails
  <2> QED
    BY <2>1, <2>2
<1>5. SocketInv'
  BY <1>1, SocketNumbers DEF SocketInv, KindOf, CanOpen, BindFails
<1>6. ListenerInv'
  BY DEF ListenerInv, CanOpen, BindFails
<1>7. RemoteInv'
  BY <1>1 DEF RemoteInv, SocketInv, KindOf, CanOpen, BindFails
<1>8. ClientInv'
  BY ConstantsAssumption DEF TypeOK, ClientInv, CanOpen, BindFails
<1> QED
  BY <1>3, <1>4, <1>5, <1>6, <1>7, <1>8

LEMMA OpenSucceedsStep ==
  ASSUME IInv, NEW h \in Handles, NEW thread \in {"created", "fails", "unwanted"},
         OpenSucceeds(h, thread)
  PROVE  IInv'
<1> USE DEF IInv, IsClosing, IsClosed, IsStoring, Closing, handles, listeners
<1>1. PICK f \in Sockets : /\ sock[f].kind = "free"
                          /\ sock' = [sock EXCEPT ![f] = NewSocket(h)]
                          /\ fd' = [fd EXCEPT ![h] = f]
  BY DEF OpenSucceeds, IsNext
<1>2. /\ SocketTypes' /\ \A g \in Sockets \ {f} : sock'[g] = sock[g]
      /\ sock'[f].kind = KindOf(h)
  BY <1>1, TypeParts, SocketUpdates DEF SocketTypes, NewSocket, KindOf
<1>3. TypeOK' /\ SentToNamed'
  <2>1. HandleTypes'
    BY TypeParts DEF HandleTypes, CountAtOpen, OpenSucceeds
  <2>2. ThreadTypes'
    BY TypeParts DEF ThreadTypes, OpenSucceeds
  <2>3. RemoteTypes'
    BY TypeParts, RemoteUpdates DEF RemoteTypes, OpenSucceeds
  <2>4. SocketTypes'
    BY <1>2
  <2>5. to' = Named
    BY TypeParts DEF OpenSucceeds
  <2> QED
    BY <2>1, <2>2, <2>3, <2>4, <2>5, NamedAddress
       DEF TypeOK, SentToNamed, HandleTypes, ThreadTypes, RemoteTypes, SocketTypes,
           SocketRecords, Links
<1>4. JobInv'
  BY DEF JobInv, CanOpen, OpenSucceeds
<1>5. SocketInv'
  <2>1. fd'[h] = f /\ \A g \in Handles : g # h => fd'[g] = fd[g] /\ fd[g] # f
    BY <1>1 DEF TypeOK, SocketInv, KindOf
  <2>2. \A g \in Handles : fd'[g] \in Sockets => sock'[fd'[g]].kind = KindOf(g)
    BY <1>2, <2>1 DEF SocketInv
  <2>3. \A g, k \in Handles : fd'[g] = fd'[k] /\ fd'[g] \in Sockets => g = k
    BY <2>1 DEF SocketInv
  <2>4. \A g \in Handles : opened'[g] = "yes" /\ ~IsClosed(g)' => fd'[g] \in Sockets
    <3>1. \A g \in Handles : g # h => opened'[g] = opened[g]
      BY DEF TypeOK, OpenSucceeds
    <3>2. \A g : IsClosed(g)' <=> IsClosed(g)
      BY DEF OpenSucceeds
    <3> QED
      BY <2>1, <3>1, <3>2 DEF SocketInv
  <2> QED
    BY <2>2, <2>3, <2>4 DEF SocketInv
<1>6. ListenerInv'
  BY DEF TypeOK, ListenerInv, CanOpen, OpenSucceeds
<1>7. RemoteInv'
  <2>1. ASSUME NEW g \in Handles, g # h
        PROVE  /\ remote'[g] = remote[g]
               /\ opened'[g] = opened[g]
               /\ client_count'[g] = client_count[g]
               /\ lpc'[g] = lpc[g]
               /\ fd'[g] = fd[g]
    BY <1>1, <2>1 DEF TypeOK, OpenSucceeds
  <2>2. ASSUME NEW g \in Handles, g # h, fd[g] \in Sockets
        PROVE  sock'[fd[g]] = sock[fd[g]]
    BY <1>1, <1>2, <2>2 DEF SocketInv, KindOf
  <2>3. /\ client_count'[h] = 0 /\ lpc'[h] # "set_count"
        /\ apc = "idle" /\ apc' = apc /\ job' = job
    BY DEF TypeOK, ListenerInv, CanOpen, CountAtOpen, OpenSucceeds
  <2>4. ASSUME NEW g \in Handles, g # h
        PROVE  /\ opened'[g] = "yes" /\ client_count'[g] > 0 =>
                      /\ remote'[g] = Named
                      /\ g \in Tcp /\ fd'[g] \in Sockets => sock'[fd'[g]].link = "connected"
               /\ lpc'[g] = "set_count" => remote'[g] = Named
    <3>1. /\ opened[g] = "yes" /\ client_count[g] > 0 =>
                 /\ remote[g] = Named
                 /\ g \in Tcp /\ fd[g] \in Sockets => sock[fd[g]].link = "connected"
          /\ lpc[g] = "set_count" => remote[g] = Named
      BY <2>3 DEF RemoteInv
    <3> HIDE DEF IInv
    <3> QED
      BY <2>1, <2>2, <2>4, <3>1
  <2> HIDE DEF IInv
  <2> QED
    BY <2>3, <2>4 DEF RemoteInv
<1>8. ClientInv'
  <2>1. ASSUME NEW g \in Handles, g # h
        PROVE  /\ remote'[g] = remote[g]
               /\ opened'[g] = opened[g]
               /\ client_count'[g] = client_count[g]
               /\ IsClosed(g)' <=> IsClosed(g)
    BY <2>1 DEF TypeOK, OpenSucceeds
  <2>2. h \in Tcp => remote'[h] = Unset
    <3>1. h \in Tcp => remote[h] = Unset
      BY DEF ClientInv, CanOpen, OpenSucceeds
    <3>2. remote'[h] = [ip |-> Aged(remote[h].ip), port |-> Aged(remote[h].port)]
      BY DEF TypeOK, OpenSucceeds
    <3> QED
      BY <3>1, <3>2 DEF Unset, Aged
  <2>3. ASSUME NEW g \in Tcp
        PROVE  /\ remote'[g].ip # "old" /\ remote'[g].port # "old"
               /\ remote'[g] # Unset => /\ opened'[g] = "yes" /\ client_count'[g] > 0
                                         /\ ~IsClosed(g)'
    <3>1. g \in Handles
      BY ConstantsAssumption
    <3>2. CASE g = h
      BY <2>2, <3>2 DEF Unset
    <3>3. CASE g # h
      <4>1. /\ remote[g].ip # "old" /\ remote[g].port # "old"
            /\ remote[g] # Unset => opened[g] = "yes" /\ client_count[g] > 0 /\ ~IsClosed(g)
        BY DEF ClientInv
      <4> HIDE DEF IInv, IsClosed
      <4> QED
        BY <2>1, <3>1, <3>3, <4>1
    <3> QED
      BY <3>2, <3>3
  <2> QED
    BY <2>3 DEF ClientInv
<1> QED
  BY <1>3, <1>4, <1>5, <1>6, <1>7, <1>8

LEMMA AppConnectsUdpStep ==
  ASSUME IInv, NEW h \in Handles, AppConnectsUdp(h)
  PROVE  IInv'
<1> USE DEF IInv, IsClosing, IsClosed, IsStoring, Closing, handles, listeners
<1>1. TypeOK' /\ SentToNamed'
  <2>1. HandleTypes'
    BY TypeParts DEF HandleTypes, AppConnectsUdp, CountRemote
  <2>2. ThreadTypes'
    BY TypeParts DEF ThreadTypes, AppConnectsUdp
  <2>3. RemoteTypes'
    BY TypeParts, RemoteUpdates DEF RemoteTypes, AppConnectsUdp, CountRemote
  <2>4. SocketTypes'
    BY TypeParts DEF SocketTypes, AppConnectsUdp
  <2>5. to' = Named
    BY TypeParts DEF AppConnectsUdp
  <2> QED
    BY <2>1, <2>2, <2>3, <2>4, <2>5, NamedAddress
       DEF TypeOK, SentToNamed, HandleTypes, ThreadTypes, RemoteTypes, SocketTypes,
           SocketRecords, Links
<1>2. JobInv'
  BY DEF JobInv, AppConnectsUdp
<1>3. SocketInv'
  BY DEF SocketInv, AppConnectsUdp
<1>4. ListenerInv'
  BY DEF ListenerInv, AppConnectsUdp
<1>5. RemoteInv'
  BY DEF TypeOK, RemoteInv, AppConnectsUdp, CountRemote
<1>6. ClientInv'
  BY ConstantsAssumption DEF TypeOK, ClientInv, AppConnectsUdp, CountRemote
<1> QED
  BY <1>1, <1>2, <1>3, <1>4, <1>5, <1>6

LEMMA ConnectTcpStep ==
  ASSUME IInv, NEW h \in Handles, ConnectTcp(h)
  PROVE  IInv'
<1> USE DEF IInv, IsClosing, IsClosed, IsStoring, Closing, handles, listeners
<1>1. fd[h] \in Sockets /\ h \in Handles
  BY DEF ConnectTcp, SocketInv
<1>2. PICK l \in Links : /\ sock' = [sock EXCEPT ![fd[h]].link = l]
                         /\ \/ UNCHANGED <<apc, job>>
                            \/ apc' = "wait" /\ job' = h
                            \/ apc' = "count" /\ job' = h /\ l = "connected"
  BY DEF ConnectTcp, Links
<1>3. /\ SocketTypes' /\ \A g \in Sockets \ {fd[h]} : sock'[g] = sock[g]
      /\ sock'[fd[h]].kind = sock[fd[h]].kind /\ sock'[fd[h]].link = l
  BY <1>1, <1>2, TypeParts, SocketUpdates DEF SocketTypes
<1>4. TypeOK' /\ SentToNamed'
  <2>1. HandleTypes'
    BY TypeParts DEF HandleTypes, ConnectTcp
  <2>2. ThreadTypes'
    BY TypeParts DEF ThreadTypes, ConnectTcp
  <2>3. RemoteTypes'
    BY TypeParts DEF RemoteTypes, ConnectTcp
  <2>4. SocketTypes'
    BY <1>3
  <2>5. to' = Named
    BY TypeParts DEF ConnectTcp
  <2> QED
    BY <2>1, <2>2, <2>3, <2>4, <2>5, NamedAddress
       DEF TypeOK, SentToNamed, HandleTypes, ThreadTypes, RemoteTypes, SocketTypes,
           SocketRecords, Links
<1>5. JobInv'
  <2>1. sock[fd[h]].link # "connected" /\ client_count[h] = 0
    BY <1>1, TypeParts DEF ConnectTcp, RemoteInv, HandleTypes
  <2> QED
    BY <1>3, <1>2, <2>1, ConstantsAssumption DEF JobInv, ConnectTcp
<1>6. SocketInv'
  BY <1>2 DEF SocketInv, ConnectTcp
<1>7. ListenerInv'
  BY DEF ListenerInv, ConnectTcp
<1>8. RemoteInv'
  BY <1>2 DEF RemoteInv, ConnectTcp
<1>9. ClientInv'
  BY ConstantsAssumption DEF TypeOK, ClientInv, ConnectTcp
<1> QED
  BY <1>4, <1>5, <1>6, <1>7, <1>8, <1>9

LEMMA ConnectReturnsStep ==
  ASSUME IInv, ConnectReturns
  PROVE  IInv'
<1> USE DEF IInv, IsClosing, IsClosed, IsStoring, Closing, handles, listeners
<1>1. fd[job] \in Sockets /\ job \in Handles
  BY TypeParts DEF ConnectReturns, SocketInv, JobInv, ThreadTypes
<1>2. PICK l \in Links : sock' = [sock EXCEPT ![fd[job]].link = l]
  BY DEF ConnectReturns, Links
<1>3. /\ SocketTypes' /\ \A g \in Sockets \ {fd[job]} : sock'[g] = sock[g]
      /\ sock'[fd[job]].kind = sock[fd[job]].kind /\ sock'[fd[job]].link = l
  BY <1>1, <1>2, TypeParts, SocketUpdates DEF SocketTypes
<1>4. TypeOK' /\ SentToNamed'
  <2>1. HandleTypes'
    BY TypeParts DEF HandleTypes, ConnectReturns
  <2>2. ThreadTypes'
    BY TypeParts DEF ThreadTypes, ConnectReturns
  <2>3. RemoteTypes'
    BY TypeParts DEF RemoteTypes, ConnectReturns
  <2>4. SocketTypes'
    BY <1>3
  <2>5. to' = Named
    BY TypeParts DEF ConnectReturns
  <2> QED
    BY <2>1, <2>2, <2>3, <2>4, <2>5, NamedAddress
       DEF TypeOK, SentToNamed, HandleTypes, ThreadTypes, RemoteTypes, SocketTypes,
           SocketRecords, Links
<1>5. JobInv'
  BY <1>1 DEF TypeOK, JobInv, ConnectReturns
<1>6. SocketInv'
  BY <1>2 DEF SocketInv, ConnectReturns
<1>7. ListenerInv'
  BY DEF ListenerInv, ConnectReturns
<1>8. RemoteInv'
  BY <1>2 DEF RemoteInv, ConnectReturns
<1>9. ClientInv'
  BY ConstantsAssumption DEF TypeOK, ClientInv, ConnectReturns
<1> QED
  BY <1>4, <1>5, <1>6, <1>7, <1>8, <1>9

LEMMA CountConnectionStep ==
  ASSUME IInv, CountConnection
  PROVE  IInv'
<1> USE DEF IInv, IsClosing, IsClosed, IsStoring, Closing, handles, listeners
<1>1. TypeOK' /\ SentToNamed'
  <2>1. HandleTypes'
    BY TypeParts, ConstantsAssumption DEF HandleTypes, JobInv, CountConnection, CountRemote
  <2>2. ThreadTypes'
    BY TypeParts DEF ThreadTypes, CountConnection
  <2>3. RemoteTypes'
    BY TypeParts DEF RemoteTypes, CountConnection
  <2>4. SocketTypes'
    BY TypeParts DEF SocketTypes, CountConnection
  <2>5. to' = Named
    BY TypeParts DEF CountConnection
  <2> QED
    BY <2>1, <2>2, <2>3, <2>4, <2>5, NamedAddress
       DEF TypeOK, SentToNamed, HandleTypes, ThreadTypes, RemoteTypes, SocketTypes,
           SocketRecords, Links
<1>2. JobInv'
  BY ConstantsAssumption DEF TypeOK, JobInv, CountConnection, CountRemote
<1>3. SocketInv'
  BY DEF SocketInv, CountConnection
<1>4. ListenerInv'
  BY DEF ListenerInv, CountConnection
<1>5. RemoteInv'
  BY DEF TypeOK, RemoteInv, JobInv, CountConnection, CountRemote
<1>6. ClientInv'
  BY ConstantsAssumption DEF TypeOK, ClientInv, JobInv, CountConnection, CountRemote
<1> QED
  BY <1>1, <1>2, <1>3, <1>4, <1>5, <1>6

LEMMA StoresIpStep ==
  ASSUME IInv, ConnectStoresIp
  PROVE  IInv'
<1> USE DEF IInv, IsClosing, IsClosed, IsStoring, Closing, handles, listeners
<1>1. TypeOK' /\ SentToNamed'
  <2>1. HandleTypes'
    BY TypeParts DEF HandleTypes, ConnectStoresIp
  <2>2. ThreadTypes'
    BY TypeParts DEF ThreadTypes, ConnectStoresIp
  <2>3. RemoteTypes'
    BY TypeParts, RemoteUpdates, ConstantsAssumption
       DEF RemoteTypes, JobInv, ConnectStoresIp, StoreIp
  <2>4. SocketTypes'
    BY TypeParts DEF SocketTypes, ConnectStoresIp
  <2>5. to' = Named
    BY TypeParts DEF ConnectStoresIp
  <2> QED
    BY <2>1, <2>2, <2>3, <2>4, <2>5, NamedAddress
       DEF TypeOK, SentToNamed, HandleTypes, ThreadTypes, RemoteTypes, SocketTypes,
           SocketRecords, Links
<1>2. JobInv'
  BY DEF JobInv, ConnectStoresIp
<1>3. SocketInv'
  BY DEF SocketInv, ConnectStoresIp
<1>4. ListenerInv'
  BY DEF ListenerInv, ConnectStoresIp
<1>5. RemoteInv'
  <2>1. job \in Handles /\ job \in Tcp /\ \A g : IsStoring(g)' <=> IsStoring(g)
    BY ConstantsAssumption DEF JobInv, ConnectStoresIp
  <2>2. /\ \A g \in Handles \ {job} : remote'[g] = remote[g]
        /\ remote'[job].ip = "named"
    BY <2>1 DEF TypeOK, Addresses, ConnectStoresIp, StoreIp
  <2> QED
    BY <2>1, <2>2 DEF RemoteInv, ListenerInv, ConnectStoresIp
<1>6. ClientInv'
  BY ConstantsAssumption DEF TypeOK, Addresses, ClientInv, JobInv, ConnectStoresIp, StoreIp
<1> QED
  BY <1>1, <1>2, <1>3, <1>4, <1>5, <1>6

LEMMA StoresPortStep ==
  ASSUME IInv, ConnectStoresPort
  PROVE  IInv'
<1> USE DEF IInv, IsClosing, IsClosed, IsStoring, Closing, handles, listeners
<1>1. TypeOK' /\ SentToNamed'
  <2>1. HandleTypes'
    BY TypeParts DEF HandleTypes, ConnectStoresPort
  <2>2. ThreadTypes'
    BY TypeParts DEF ThreadTypes, ConnectStoresPort
  <2>3. RemoteTypes'
    BY TypeParts, RemoteUpdates, ConstantsAssumption
       DEF RemoteTypes, JobInv, ConnectStoresPort, StorePort
  <2>4. SocketTypes'
    BY TypeParts DEF SocketTypes, ConnectStoresPort
  <2>5. to' = Named
    BY TypeParts DEF ConnectStoresPort
  <2> QED
    BY <2>1, <2>2, <2>3, <2>4, <2>5, NamedAddress
       DEF TypeOK, SentToNamed, HandleTypes, ThreadTypes, RemoteTypes, SocketTypes,
           SocketRecords, Links
<1>2. JobInv'
  BY DEF JobInv, ConnectStoresPort
<1>3. SocketInv'
  BY DEF SocketInv, ConnectStoresPort
<1>4. ListenerInv'
  BY DEF ListenerInv, ConnectStoresPort
<1>5. RemoteInv'
  BY DEF TypeOK, Addresses, Named, RemoteInv, JobInv, ConnectStoresPort, StorePort
<1>6. ClientInv'
  BY ConstantsAssumption DEF TypeOK, Addresses, ClientInv, JobInv, ConnectStoresPort, StorePort
<1> QED
  BY <1>1, <1>2, <1>3, <1>4, <1>5, <1>6

LEMMA SendStep ==
  ASSUME IInv, NEW h \in Handles, NEW ip \in BOOLEAN, NEW port \in BOOLEAN, Send(h, ip, port)
  PROVE  IInv'
<1> USE DEF IInv, IsClosing, IsClosed, IsStoring, Closing, handles, listeners
<1>1. TypeOK' /\ SentToNamed'
  <2>1. HandleTypes'
    BY TypeParts DEF HandleTypes, Send
  <2>2. ThreadTypes'
    BY TypeParts DEF ThreadTypes, Send
  <2>3. RemoteTypes'
    BY TypeParts, RemoteUpdates DEF RemoteTypes, Send
  <2>4. SocketTypes'
    BY TypeParts DEF SocketTypes, Send
  <2>5. to' = Named
    <3>1. client_count[h] \in 0..1 /\ (client_count[h] > 0 => remote[h] = Named)
      BY TypeParts DEF HandleTypes, RemoteInv, Send
    <3>2. remote'[h] = Named
      BY <3>1, TypeParts DEF Send, Named, RemoteTypes
    <3> QED
      BY <3>2 DEF Send
  <2> QED
    BY <2>1, <2>2, <2>3, <2>4, <2>5, NamedAddress
       DEF TypeOK, SentToNamed, HandleTypes, ThreadTypes, RemoteTypes, SocketTypes,
           SocketRecords, Links
<1>2. JobInv'
  BY DEF JobInv, Send
<1>3. SocketInv'
  BY DEF SocketInv, Send
<1>4. ListenerInv'
  BY DEF ListenerInv, Send
<1>5. RemoteInv'
  BY DEF RemoteInv, Named, Send
<1>6. ClientInv'
  BY ConstantsAssumption DEF TypeOK, ClientInv, Send
<1> QED
  BY <1>1, <1>2, <1>3, <1>4, <1>5, <1>6

LEMMA CloseStep ==
  ASSUME IInv, NEW h \in Handles, Close(h)
  PROVE  IInv'
<1> USE DEF IInv, IsClosing, IsClosed, IsStoring, Closing, handles, listeners
<1>1. TypeOK' /\ SentToNamed'
  <2>1. HandleTypes'
    BY TypeParts DEF HandleTypes, Close
  <2>2. ThreadTypes'
    BY TypeParts DEF ThreadTypes, Close
  <2>3. RemoteTypes'
    BY TypeParts DEF RemoteTypes, Close
  <2>4. SocketTypes'
    BY TypeParts DEF SocketTypes, Close
  <2>5. to' = Named
    BY TypeParts DEF Close
  <2> QED
    BY <2>1, <2>2, <2>3, <2>4, <2>5, NamedAddress
       DEF TypeOK, SentToNamed, HandleTypes, ThreadTypes, RemoteTypes, SocketTypes,
           SocketRecords, Links
<1>2. JobInv'
  BY ConstantsAssumption DEF JobInv, Close
<1>3. SocketInv'
  BY DEF SocketInv, Close
<1>4. ListenerInv'
  BY DEF ListenerInv, Close
<1>5. RemoteInv'
  BY DEF RemoteInv, Close
<1>6. ClientInv'
  BY ConstantsAssumption DEF TypeOK, ClientInv, Close
<1> QED
  BY <1>1, <1>2, <1>3, <1>4, <1>5, <1>6

LEMMA CloseSocketsStep ==
  ASSUME IInv, CloseSockets
  PROVE  IInv'
<1> USE DEF IInv, IsClosing, IsClosed, IsStoring, Closing, handles, listeners
<1>1. job \in Handles
  BY TypeParts DEF CloseSockets, JobInv, ThreadTypes
<1>2. /\ SocketTypes' /\ RemoteTypes' /\ HandleTypes'
      /\ \A g \in Handles \ {job} : fd'[g] = fd[g] /\ remote'[g] = remote[g]
      /\ \/ UNCHANGED <<sock, fd>>
         \/ /\ fd[job] \in Sockets /\ fd'[job] = -1
            /\ sock'[fd[job]].kind = "free"
            /\ \A g \in Sockets \ {fd[job]} : sock'[g] = sock[g]
  <2>1. CASE ~MustCloseSocket(job)
    BY <2>1, TypeParts DEF CloseSockets, SocketTypes, RemoteTypes, HandleTypes
  <2>2. CASE MustCloseSocket(job)
    <3>1. fd[job] \in Sockets
      BY <1>1, <2>2, TypeParts DEF MustCloseSocket, HandleTypes
    <3>2. /\ sock' = [sock EXCEPT ![fd[job]] = Free]
          /\ fd' = [fd EXCEPT ![job] = -1]
          /\ remote' = [remote EXCEPT ![job] = Unset]
      BY <2>2 DEF CloseSockets
    <3>3. SocketTypes' /\ RemoteTypes'
      BY <1>1, <3>1, <3>2, TypeParts, SocketUpdates, RemoteUpdates
         DEF SocketTypes, RemoteTypes, CloseSockets
    <3>4. HandleTypes'
      BY TypeParts DEF CloseSockets, HandleTypes
    <3> QED
      BY <3>2, <3>3, <3>4 DEF SocketTypes, HandleTypes, Free
  <2> QED
    BY <2>1, <2>2
<1>3. TypeOK' /\ SentToNamed'
  <2>1. HandleTypes'
    BY <1>2
  <2>2. ThreadTypes'
    BY TypeParts DEF ThreadTypes, CloseSockets
  <2>3. RemoteTypes'
    BY <1>2
  <2>4. SocketTypes'
    BY <1>2
  <2>5. to' = Named
    BY TypeParts DEF CloseSockets
  <2> QED
    BY <2>1, <2>2, <2>3, <2>4, <2>5, NamedAddress
       DEF TypeOK, SentToNamed, HandleTypes, ThreadTypes, RemoteTypes, SocketTypes,
           SocketRecords, Links
<1>4. JobInv'
  BY DEF JobInv, CloseSockets
<1>5. SocketInv'
  <2>1. -1 \notin Sockets
    BY DEF Sockets
  <2>2. IsClosing(job) /\ IsClosing(job)'
    BY DEF CloseSockets
  <2> QED
    BY <1>2, <1>1, <2>1 DEF SocketInv, CloseSockets
<1>6. ListenerInv'
  BY <1>2 DEF ListenerInv, CloseSockets
<1>7. RemoteInv'
  BY <1>2, <1>1, SocketNumbers DEF RemoteInv, SocketInv, CloseSockets
<1>8. ClientInv'
  <2>1. \A g \in Handles \ {job} : remote'[g] = remote[g] /\ ~IsClosed(g)'
    BY <1>2 DEF CloseSockets
  <2>2. job \in Tcp => remote'[job] = Unset
    <3>1. CASE MustCloseSocket(job)
      BY <1>1, <3>1 DEF CloseSockets, TypeOK
    <3>2. CASE ~MustCloseSocket(job)
      <4>1. opened[job] = "yes" => fd[job] \in Sockets
        BY <1>1 DEF CloseSockets, SocketInv
      <4>2. job \in Tcp => remote[job] = Unset
        BY <1>1, <3>2, <4>1, SocketNumbers DEF ClientInv, MustCloseSocket
      <4> QED
        BY <3>2, <4>2 DEF CloseSockets
    <3> QED
      BY <3>1, <3>2
  <2> QED
    BY <2>1, <2>2, ConstantsAssumption DEF ClientInv, Unset, CloseSockets
<1> QED
  BY <1>3, <1>4, <1>5, <1>6, <1>7, <1>8

LEMMA StopListenerStep ==
  ASSUME IInv, StopListener
  PROVE  IInv'
<1> USE DEF IInv, IsClosing, IsClosed, IsStoring, Closing, handles, listeners
<1>1. TypeOK' /\ SentToNamed'
  <2>1. HandleTypes'
    BY TypeParts DEF HandleTypes, StopListener
  <2>2. ThreadTypes'
    BY TypeParts DEF ThreadTypes, StopListener
  <2>3. RemoteTypes'
    BY TypeParts DEF RemoteTypes, StopListener
  <2>4. SocketTypes'
    BY TypeParts DEF SocketTypes, StopListener
  <2>5. to' = Named
    BY TypeParts DEF StopListener
  <2> QED
    BY <2>1, <2>2, <2>3, <2>4, <2>5, NamedAddress
       DEF TypeOK, SentToNamed, HandleTypes, ThreadTypes, RemoteTypes, SocketTypes,
           SocketRecords, Links
<1>2. JobInv'
  BY DEF JobInv, StopListener
<1>3. SocketInv'
  BY DEF SocketInv, StopListener
<1>4. ListenerInv'
  BY DEF ListenerInv, StopListener
<1>5. RemoteInv'
  BY DEF RemoteInv, StopListener
<1>6. ClientInv'
  BY ConstantsAssumption DEF TypeOK, ClientInv, StopListener
<1> QED
  BY <1>1, <1>2, <1>3, <1>4, <1>5, <1>6

LEMMA JoinStep ==
  ASSUME IInv, Join
  PROVE  IInv'
<1> USE DEF IInv, IsClosing, IsClosed, IsStoring, Closing, handles, listeners
<1>1. TypeOK' /\ SentToNamed'
  <2>1. HandleTypes'
    BY TypeParts DEF HandleTypes, Join
  <2>2. ThreadTypes'
    BY TypeParts DEF ThreadTypes, Join
  <2>3. RemoteTypes'
    BY TypeParts DEF RemoteTypes, Join
  <2>4. SocketTypes'
    BY TypeParts DEF SocketTypes, Join
  <2>5. to' = Named
    BY TypeParts DEF Join
  <2> QED
    BY <2>1, <2>2, <2>3, <2>4, <2>5, NamedAddress
       DEF TypeOK, SentToNamed, HandleTypes, ThreadTypes, RemoteTypes, SocketTypes,
           SocketRecords, Links
<1>2. JobInv'
  BY DEF JobInv, Join
<1>3. SocketInv'
  BY DEF TypeOK, SocketInv, Join
<1>4. ListenerInv'
  BY DEF TypeOK, ListenerInv, Join, ThreadIsOver
<1>5. RemoteInv'
  <2>1. lpc[job] # "set_count" /\ \A g \in Handles : g # job => lpc'[g] = lpc[g]
    BY DEF TypeOK, Join, ThreadIsOver
  <2>2. /\ \A g \in Handles : opened'[g] = "yes" => opened[g] = "yes" /\ g # job
        /\ \A g \in Handles : lpc'[g] = "set_count" => lpc[g] = "set_count" /\ g # job
    BY <2>1 DEF TypeOK, Join
  <2> QED
    BY <2>2 DEF RemoteInv, Join
<1>6. ClientInv'
  BY ConstantsAssumption DEF TypeOK, ClientInv, Join
<1> QED
  BY <1>1, <1>2, <1>3, <1>4, <1>5, <1>6

LEMMA ListenerStartsStep ==
  ASSUME IInv, NEW h \in Handles, ListenerStarts(h)
  PROVE  IInv'
<1> USE DEF IInv, IsClosing, IsClosed, IsStoring, Closing, handles, listeners
<1>1. /\ SocketTypes'
      /\ \A g \in Sockets : sock'[g].kind = sock[g].kind /\ sock'[g].link = sock[g].link
  <2>1. CASE fd[h] > 0
    <3>1. fd[h] \in Sockets /\ sock' = [sock EXCEPT ![fd[h]].nonblock = TRUE]
      BY <2>1, TypeParts DEF HandleTypes, ListenerStarts, MakeNonblocking
    <3> QED
      BY <3>1, TypeParts, SocketUpdates, SocketKept DEF SocketTypes
  <2>2. CASE ~(fd[h] > 0)
    BY <2>2, TypeParts DEF ListenerStarts, SocketTypes
  <2> QED
    BY <2>1, <2>2
<1>2. TypeOK' /\ SentToNamed'
  <2>1. HandleTypes'
    BY TypeParts DEF HandleTypes, ListenerStarts
  <2>2. ThreadTypes'
    BY TypeParts DEF ThreadTypes, ListenerStarts
  <2>3. RemoteTypes'
    BY TypeParts DEF RemoteTypes, ListenerStarts
  <2>4. SocketTypes'
    BY <1>1
  <2>5. to' = Named
    BY TypeParts DEF ListenerStarts
  <2> QED
    BY <2>1, <2>2, <2>3, <2>4, <2>5, NamedAddress
       DEF TypeOK, SentToNamed, HandleTypes, ThreadTypes, RemoteTypes, SocketTypes,
           SocketRecords, Links
<1>3. JobInv'
  BY DEF JobInv, ListenerStarts, MakeNonblocking
<1>4. SocketInv'
  BY <1>1 DEF SocketInv, ListenerStarts
<1>5. ListenerInv'
  BY <1>1 DEF ListenerInv, ListenerStarts
<1>6. RemoteInv'
  BY <1>1 DEF RemoteInv, ListenerStarts
<1>7. ClientInv'
  BY ConstantsAssumption DEF TypeOK, ClientInv, ListenerStarts
<1> QED
  BY <1>2, <1>3, <1>4, <1>5, <1>6, <1>7

LEMMA ReadFdStep ==
  ASSUME IInv, NEW h \in Handles, ReadFd(h)
  PROVE  IInv'
<1> USE DEF IInv, IsClosing, IsClosed, IsStoring, Closing, handles, listeners
<1>1. TypeOK' /\ SentToNamed'
  <2>1. HandleTypes'
    BY TypeParts DEF HandleTypes, ReadFd
  <2>2. ThreadTypes'
    BY TypeParts DEF ThreadTypes, HandleTypes, ReadFd
  <2>3. RemoteTypes'
    BY TypeParts DEF RemoteTypes, ReadFd
  <2>4. SocketTypes'
    BY TypeParts DEF SocketTypes, ReadFd
  <2>5. to' = Named
    BY TypeParts DEF ReadFd
  <2> QED
    BY <2>1, <2>2, <2>3, <2>4, <2>5, NamedAddress
       DEF TypeOK, SentToNamed, HandleTypes, ThreadTypes, RemoteTypes, SocketTypes,
           SocketRecords, Links
<1>2. JobInv'
  BY DEF JobInv, ReadFd
<1>3. SocketInv'
  BY DEF SocketInv, ReadFd
<1>4. ListenerInv'
  <2>1. \A g \in Handles : g # h => lpc'[g] = lpc[g] /\ lfd'[g] = lfd[g]
    BY DEF TypeOK, ReadFd
  <2>2. CASE running[h]
    <3>1. fd[h] \in Sockets
      BY <2>2, SocketNumbers DEF TypeOK, ReadFd
    <3>2. lpc[h] = "top" /\ lpc'[h] = "recv" /\ lfd'[h] = fd[h]
      BY <2>2 DEF TypeOK, ReadFd
    <3> QED
      BY <2>1, <3>1, <3>2 DEF ListenerInv, ReadFd
  <2>3. CASE ~running[h]
    <3>1. lpc[h] = "top" /\ lpc'[h] = "exited" /\ lfd' = lfd
      BY <2>3 DEF TypeOK, ReadFd
    <3> QED
      BY <2>1, <2>3, <3>1 DEF ListenerInv, ReadFd
  <2> QED
    BY <2>2, <2>3
<1>5. RemoteInv'
  BY DEF TypeOK, RemoteInv, ReadFd
<1>6. ClientInv'
  BY ConstantsAssumption DEF TypeOK, ClientInv, ReadFd
<1> QED
  BY <1>1, <1>2, <1>3, <1>4, <1>5, <1>6

LEMMA ReceiveStep ==
  ASSUME IInv, NEW h \in Handles, Receive(h)
  PROVE  IInv'
<1> USE DEF IInv, IsClosing, IsClosed, IsStoring, Closing, handles, listeners
<1>1. lfd[h] \in Sockets
  BY DEF Receive, ListenerInv
<1>2. sock' = sock \/ sock' = [sock EXCEPT ![lfd[h]].data = FALSE]
  BY DEF Receive
<1>3. /\ SocketTypes'
      /\ \A g \in Sockets : sock'[g].kind = sock[g].kind /\ sock'[g].link = sock[g].link
  <2>1. CASE sock' = sock
    BY <2>1, TypeParts DEF SocketTypes
  <2>2. CASE sock' = [sock EXCEPT ![lfd[h]].data = FALSE]
    BY <1>1, <2>2, TypeParts, SocketUpdates, SocketKept DEF SocketTypes
  <2> QED
    BY <1>2, <2>1, <2>2
<1>4. TypeOK' /\ SentToNamed'
  <2>1. HandleTypes'
    BY TypeParts DEF HandleTypes, Receive
  <2>2. ThreadTypes'
    BY TypeParts DEF ThreadTypes, Receive, NothingReceived
  <2>3. RemoteTypes'
    BY TypeParts DEF RemoteTypes, Receive
  <2>4. SocketTypes'
    BY <1>3
  <2>5. to' = Named
    BY TypeParts DEF Receive
  <2> QED
    BY <2>1, <2>2, <2>3, <2>4, <2>5, NamedAddress
       DEF TypeOK, SentToNamed, HandleTypes, ThreadTypes, RemoteTypes, SocketTypes,
           SocketRecords, Links
<1>5. JobInv'
  BY <1>3 DEF TypeOK, JobInv, SocketInv, Receive
<1>6. SocketInv'
  BY <1>3 DEF SocketInv, Receive
<1>7. ListenerInv'
  <2>1. /\ lpc[h] = "recv" /\ lpc'[h] \in {"top", "copy", "callback"}
        /\ \A g \in Handles \ {h} : lpc'[g] = lpc[g] /\ lfd'[g] = lfd[g]
    BY DEF TypeOK, Receive, NothingReceived
  <2> QED
    BY <1>3, <2>1 DEF ListenerInv, Receive
<1>8. RemoteInv'
  <2>1. \A g \in Handles : lpc'[g] = "set_count" => lpc[g] = "set_count"
    BY DEF TypeOK, Receive, NothingReceived
  <2> QED
    BY <1>3, <2>1 DEF RemoteInv, Receive
<1>9. ClientInv'
  BY ConstantsAssumption DEF TypeOK, ClientInv, Receive
<1> QED
  BY <1>4, <1>5, <1>6, <1>7, <1>8, <1>9

LEMMA CopyAddressStep ==
  ASSUME IInv, NEW h \in Handles, CopyAddress(h)
  PROVE  IInv'
<1> USE DEF IInv, IsClosing, IsClosed, IsStoring, Closing, handles, listeners
<1>1. TypeOK' /\ SentToNamed'
  <2>1. HandleTypes'
    BY TypeParts DEF HandleTypes, CopyAddress
  <2>2. ThreadTypes'
    BY TypeParts DEF ThreadTypes, CopyAddress
  <2>3. RemoteTypes'
    BY TypeParts, RemoteUpdates DEF RemoteTypes, CopyAddress
  <2>4. SocketTypes'
    BY TypeParts DEF SocketTypes, CopyAddress
  <2>5. to' = Named
    BY TypeParts DEF CopyAddress
  <2> QED
    BY <2>1, <2>2, <2>3, <2>4, <2>5, NamedAddress
       DEF TypeOK, SentToNamed, HandleTypes, ThreadTypes, RemoteTypes, SocketTypes,
           SocketRecords, Links
<1>2. JobInv'
  BY DEF JobInv, CopyAddress
<1>3. SocketInv'
  BY DEF SocketInv, CopyAddress
<1>4. ListenerInv'
  BY DEF ListenerInv, CopyAddress
<1>5. RemoteInv'
  BY DEF RemoteInv, CopyAddress
<1>6. ClientInv'
  BY DEF ClientInv, CopyAddress
<1> QED
  BY <1>1, <1>2, <1>3, <1>4, <1>5, <1>6

LEMMA CallbackStep ==
  ASSUME IInv, NEW h \in Handles, Callback(h)
  PROVE  IInv'
<1> USE DEF IInv, IsClosing, IsClosed, IsStoring, Closing, handles, listeners
<1>1. TypeOK' /\ SentToNamed'
  <2>1. HandleTypes'
    BY TypeParts DEF HandleTypes, Callback
  <2>2. ThreadTypes'
    BY TypeParts DEF ThreadTypes, Callback
  <2>3. RemoteTypes'
    <3>1. RemoteTypes /\ told' = [told EXCEPT ![h] = Unset]
      BY TypeParts DEF Callback
    <3>2. remote' = remote \/ remote' = [remote EXCEPT ![h] = Named]
      BY DEF Callback
    <3> QED
      BY <3>1, <3>2, RemoteUpdates DEF RemoteTypes
  <2>4. SocketTypes'
    BY TypeParts DEF SocketTypes, Callback
  <2>5. to' = Named
    BY TypeParts DEF Callback
  <2> QED
    BY <2>1, <2>2, <2>3, <2>4, <2>5, NamedAddress
       DEF TypeOK, SentToNamed, HandleTypes, ThreadTypes, RemoteTypes, SocketTypes,
           SocketRecords, Links
<1>2. JobInv'
  BY DEF JobInv, Callback
<1>3. SocketInv'
  BY DEF SocketInv, Callback
<1>4. /\ lpc[h] = "callback" /\ lpc'[h] \in {"top", "set_count"}
      /\ \A g \in Handles \ {h} : lpc'[g] = lpc[g] /\ remote'[g] = remote[g]
      /\ \/ lpc'[h] = "top" /\ remote'[h] = remote[h]
         \/ h \notin Tcp /\ remote'[h] = Named
      /\ UNCHANGED <<alive, opened, fd, client_count, running, lfd, sock, apc, job>>
  <2>1. CASE lpc' = [lpc EXCEPT ![h] = "top"] /\ UNCHANGED remote
    BY <2>1 DEF TypeOK, Callback
  <2>2. CASE /\ h \notin Tcp /\ remote' = [remote EXCEPT ![h] = Named]
             /\ lpc' = [lpc EXCEPT ![h] = "set_count"]
    BY <2>2 DEF TypeOK, Callback
  <2> QED
    BY <2>1, <2>2 DEF Callback
<1>5. ListenerInv'
  BY <1>4 DEF ListenerInv
<1>6. RemoteInv'
  <2>1. \A g \in Handles : remote'[g] = remote[g] \/ remote'[g] = Named
    BY <1>4
  <2>2. Named.ip = "named"
    BY DEF Named
  <2> QED
    BY <1>4, <2>1, <2>2 DEF RemoteInv
<1>7. ClientInv'
  BY <1>4, ConstantsAssumption DEF ClientInv
<1> QED
  BY <1>1, <1>2, <1>3, <1>5, <1>6, <1>7

LEMMA CallbackCountsStep ==
  ASSUME IInv, NEW h \in Handles, CallbackCounts(h)
  PROVE  IInv'
<1> USE DEF IInv, IsClosing, IsClosed, IsStoring, Closing, handles, listeners
<1>1. TypeOK' /\ SentToNamed'
  <2>1. HandleTypes'
    BY TypeParts DEF HandleTypes, ListenerInv, CallbackCounts, CountRemote
  <2>2. ThreadTypes'
    BY TypeParts DEF ThreadTypes, CallbackCounts
  <2>3. RemoteTypes'
    BY TypeParts DEF RemoteTypes, CallbackCounts
  <2>4. SocketTypes'
    BY TypeParts DEF SocketTypes, CallbackCounts
  <2>5. to' = Named
    BY TypeParts DEF CallbackCounts
  <2> QED
    BY <2>1, <2>2, <2>3, <2>4, <2>5, NamedAddress
       DEF TypeOK, SentToNamed, HandleTypes, ThreadTypes, RemoteTypes, SocketTypes,
           SocketRecords, Links
<1>2. JobInv'
  <2>1. /\ h \notin Tcp /\ UNCHANGED <<alive, opened, fd, sock, apc, job>>
        /\ \A g \in Handles \ {h} : client_count'[g] = client_count[g]
    BY DEF TypeOK, ListenerInv, CallbackCounts, CountRemote
  <2> QED
    BY <2>1, ConstantsAssumption DEF JobInv
<1>3. SocketInv'
  BY DEF SocketInv, CallbackCounts
<1>4. ListenerInv'
  BY DEF ListenerInv, CallbackCounts
<1>5. RemoteInv'
  BY DEF TypeOK, RemoteInv, ListenerInv, CallbackCounts, CountRemote
<1>6. ClientInv'
  BY DEF TypeOK, ClientInv, CallbackCounts, CountRemote
<1> QED
  BY <1>1, <1>2, <1>3, <1>4, <1>5, <1>6

LEMMA ArriveStep ==
  ASSUME IInv, NEW f \in Sockets, Arrive(f)
  PROVE  IInv'
<1> USE DEF IInv, IsClosing, IsClosed, IsStoring, Closing, handles, listeners
<1>1. /\ SocketTypes'
      /\ \A g \in Sockets : sock'[g].kind = sock[g].kind /\ sock'[g].link = sock[g].link
  <2>1. sock' = [sock EXCEPT ![f].data = TRUE]
    BY DEF Arrive
  <2> QED
    BY <2>1, TypeParts, SocketUpdates, SocketKept DEF SocketTypes
<1>2. TypeOK' /\ SentToNamed'
  <2>1. HandleTypes'
    BY TypeParts DEF HandleTypes, Arrive
  <2>2. ThreadTypes'
    BY TypeParts DEF ThreadTypes, Arrive
  <2>3. RemoteTypes'
    BY TypeParts DEF RemoteTypes, Arrive
  <2>4. SocketTypes'
    BY <1>1
  <2>5. to' = Named
    BY TypeParts DEF Arrive
  <2> QED
    BY <2>1, <2>2, <2>3, <2>4, <2>5, NamedAddress
       DEF TypeOK, SentToNamed, HandleTypes, ThreadTypes, RemoteTypes, SocketTypes,
           SocketRecords, Links
<1>3. JobInv'
  BY DEF JobInv, Arrive
<1>4. SocketInv'
  BY DEF SocketInv, Arrive
<1>5. ListenerInv'
  BY DEF ListenerInv, Arrive
<1>6. RemoteInv'
  BY DEF RemoteInv, Arrive
<1>7. ClientInv'
  BY ConstantsAssumption DEF TypeOK, ClientInv, Arrive
<1> QED
  BY <1>2, <1>3, <1>4, <1>5, <1>6, <1>7

LEMMA AnswerStep ==
  ASSUME IInv, NEW f \in Sockets, Answer(f)
  PROVE  IInv'
<1> USE DEF IInv, IsClosing, IsClosed, IsStoring, Closing, handles, listeners
<1>1. PICK l \in Links : sock' = [sock EXCEPT ![f].link = l]
  BY DEF Answer, Links
<1>2. /\ SocketTypes'
      /\ \A g \in Sockets : /\ sock'[g].kind = sock[g].kind
                             /\ sock[g].link = "connected" => sock'[g].link = "connected"
  BY <1>1, TypeParts, SocketUpdates DEF Answer, SocketTypes
<1>3. TypeOK' /\ SentToNamed'
  <2>1. HandleTypes'
    BY TypeParts DEF HandleTypes, Answer
  <2>2. ThreadTypes'
    BY TypeParts DEF ThreadTypes, Answer
  <2>3. RemoteTypes'
    BY TypeParts DEF RemoteTypes, Answer
  <2>4. SocketTypes'
    BY <1>2
  <2>5. to' = Named
    BY TypeParts DEF Answer
  <2> QED
    BY <2>1, <2>2, <2>3, <2>4, <2>5, NamedAddress
       DEF TypeOK, SentToNamed, HandleTypes, ThreadTypes, RemoteTypes, SocketTypes,
           SocketRecords, Links
<1>4. JobInv'
  BY DEF JobInv, Answer
<1>5. SocketInv'
  BY DEF SocketInv, Answer
<1>6. ListenerInv'
  BY DEF ListenerInv, Answer
<1>7. RemoteInv'
  BY DEF RemoteInv, Answer
<1>8. ClientInv'
  BY ConstantsAssumption DEF TypeOK, ClientInv, Answer
<1> QED
  BY <1>3, <1>4, <1>5, <1>6, <1>7, <1>8

LEMMA ResetStep ==
  ASSUME IInv, NEW f \in Sockets, Reset(f)
  PROVE  IInv'
<1> USE DEF IInv, IsClosing, IsClosed, IsStoring, Closing, handles, listeners
<1>1. sock' = [sock EXCEPT ![f].link = "refused"] /\ "refused" \in Links
  BY DEF Reset, Links
<1>2. /\ SocketTypes'
      /\ \A g \in Sockets : /\ sock'[g].kind = sock[g].kind
                             /\ sock[g].link = "connected" => sock'[g].link = "connected"
  BY <1>1, TypeParts, SocketUpdates DEF Reset, SocketTypes
<1>3. TypeOK' /\ SentToNamed'
  <2>1. HandleTypes'
    BY TypeParts DEF HandleTypes, Reset
  <2>2. ThreadTypes'
    BY TypeParts DEF ThreadTypes, Reset
  <2>3. RemoteTypes'
    BY TypeParts DEF RemoteTypes, Reset
  <2>4. SocketTypes'
    BY <1>2
  <2>5. to' = Named
    BY TypeParts DEF Reset
  <2> QED
    BY <2>1, <2>2, <2>3, <2>4, <2>5, NamedAddress
       DEF TypeOK, SentToNamed, HandleTypes, ThreadTypes, RemoteTypes, SocketTypes,
           SocketRecords, Links
<1>4. JobInv'
  BY DEF JobInv, Reset
<1>5. SocketInv'
  BY DEF SocketInv, Reset
<1>6. ListenerInv'
  BY DEF ListenerInv, Reset
<1>7. RemoteInv'
  BY DEF RemoteInv, Reset
<1>8. ClientInv'
  BY ConstantsAssumption DEF TypeOK, ClientInv, Reset
<1> QED
  BY <1>3, <1>4, <1>5, <1>6, <1>7, <1>8

-----------------------------------------------------------------------------
(* The theorems. *)

\* Nothing is open, and nobody is in the middle of anything, at first.
LEMMA InitInv == Init => IInv
<1> SUFFICES ASSUME Init PROVE IInv
  OBVIOUS
<1>1. HandleTypes
  BY DEF Init, HandleTypes
<1>2. ThreadTypes
  BY DEF Init, ThreadTypes
<1>3. RemoteTypes
  BY DEF Init, RemoteTypes, Addresses, Parts, Unset
<1>4. SocketTypes
  BY DEF Init, SocketTypes, SocketRecords, Links, Free
<1>5. TypeOK /\ SentToNamed
  BY <1>1, <1>2, <1>3, <1>4, TypeParts DEF Init
<1>6. JobInv /\ SocketInv
  BY ConstantsAssumption DEF Init, JobInv, SocketInv, Sockets, Closing
<1>7. ListenerInv /\ RemoteInv /\ ClientInv
  BY ConstantsAssumption DEF Init, ListenerInv, RemoteInv, ClientInv, Unset
<1> QED
  BY <1>5, <1>6, <1>7 DEF IInv

\* Every step of the application, the listeners and the network keeps the invariant.
LEMMA StepInv == IInv /\ [Next]_vars => IInv'
<1> SUFFICES ASSUME IInv, [Next]_vars PROVE IInv'
  OBVIOUS
<1>1. CASE Continue
  BY <1>1, ConnectReturnsStep, CountConnectionStep, StoresIpStep, StoresPortStep,
     CloseSocketsStep, StopListenerStep, JoinStep DEF Continue, ConnectStores
<1>2. ASSUME NEW h \in Handles, Open(h) PROVE IInv'
  BY <1>2, SocketFailsStep, BindFailsStep, OpenSucceedsStep DEF Open
<1>3. ASSUME NEW h \in Handles, AppConnectsUdp(h) \/ ConnectTcp(h) \/ Close(h) PROVE IInv'
  BY <1>3, AppConnectsUdpStep, ConnectTcpStep, CloseStep
<1>4. ASSUME NEW h \in Handles, NEW ip \in BOOLEAN, NEW port \in BOOLEAN, Send(h, ip, port)
      PROVE  IInv'
  BY <1>4, SendStep
<1>5. ASSUME NEW h \in Handles, Listener(h) PROVE IInv'
  BY <1>5, ListenerStartsStep, ReadFdStep, ReceiveStep, CopyAddressStep, CallbackStep,
     CallbackCountsStep DEF Listener
<1>6. ASSUME NEW f \in Sockets, Arrive(f) \/ Answer(f) \/ Reset(f) PROVE IInv'
  BY <1>6, ArriveStep, AnswerStep, ResetStep
<1>7. CASE UNCHANGED vars
  BY <1>7 DEF vars, handles, listeners, IInv, TypeOK, SentToNamed, JobInv, SocketInv,
     ListenerInv, RemoteInv, ClientInv, IsClosing, IsClosed, IsStoring
<1> QED
  BY <1>1, <1>2, <1>3, <1>4, <1>5, <1>6, <1>7 DEF Next

\* IInv holds in every reachable state.
THEOREM Invariant == Spec => []IInv
  BY InitInv, StepInv, PTL DEF Spec

\* Types hold for every set of handles and number of sockets; one connection at most
\* is ever counted.
THEOREM TypeCorrect == Spec => []TypeOK
<1>1. IInv => TypeOK
  BY DEF IInv
<1> QED
  BY <1>1, Invariant, PTL

\* A listener never reads the socket of another handle, though CommsClose may have
\* closed the number it has read, and it is over when CommsClose returns or
\* DestroyCommsHandle frees its handle.
THEOREM ListenersStayOnTheirOwn == Spec => []OnlyItsOwn
<1>1. IInv => OnlyItsOwn
  <2> SUFFICES ASSUME IInv, NEW h \in Handles
               PROVE  /\ lpc[h] = "recv" => lfd[h] = fd[h] \/ sock[lfd[h]].kind = "free"
                      /\ opened[h] = "closed" \/ ~alive[h] => lpc[h] \in {"none", "joined"}
    BY DEF OnlyItsOwn
  <2> QED
    BY DEF IInv, ListenerInv
<1> QED
  BY <1>1, Invariant, PTL

\* No handle's socket has the number of another handle's, and none is a number that the
\* kernel would give out again.
SocketsApart == /\ \A g, h \in Handles : fd[g] = fd[h] /\ fd[g] \in Sockets => g = h
                /\ \A h \in Handles : fd[h] \in Sockets => ~IsNext(fd[h])

\* Two handles never share a socket, however often they are opened and closed.
THEOREM SocketsAreNotShared == Spec => []SocketsApart
<1>1. IInv => SocketsApart
  BY DEF IInv, SocketInv, SocketsApart, IsNext, KindOf
<1> QED
  BY <1>1, Invariant, PTL

\* Every datagram goes to an ip and a port that were named since the handle was opened.
THEOREM DatagramsGoWhereNamed == Spec => []SentToNamed
<1>1. IInv => SentToNamed
  BY DEF IInv, TypeOK, SentToNamed
<1> QED
  BY <1>1, Invariant, PTL

\* Only the copying step takes a listener to its callback with an address.
LEMMA CopiesOnly ==
  ASSUME TypeOK, [Next]_vars, NEW h \in Handles, lpc[h] = "copy", lpc'[h] = "callback"
  PROVE  told'[h] = remote[h]
<1>1. ASSUME NEW g \in Handles, Listener(g)
      PROVE  told'[h] = remote[h]
  <2>1. CASE CopyAddress(g)
    BY <2>1 DEF CopyAddress, TypeOK
  <2>2. CASE ListenerStarts(g)
    BY <2>2 DEF ListenerStarts, TypeOK
  <2>3. CASE ReadFd(g)
    BY <2>3 DEF ReadFd, TypeOK
  <2>4. CASE Receive(g)
    BY <2>4 DEF Receive, NothingReceived, TypeOK
  <2>5. CASE Callback(g) \/ CallbackCounts(g)
    BY <2>5 DEF Callback, CallbackCounts, TypeOK
  <2> QED
    BY <1>1, <2>1, <2>2, <2>3, <2>4, <2>5 DEF Listener
<1>2. ASSUME ~(\E g \in Handles : Listener(g))
      PROVE  FALSE
  <2>1. Continue => lpc'[h] = lpc[h]
    BY DEF Continue, ConnectReturns, ConnectStores, CountConnection, ConnectStoresIp,
       ConnectStoresPort, CloseSockets, StopListener, Join, listeners, TypeOK
  <2>2. ASSUME NEW g \in Handles, Open(g)
        PROVE  lpc'[h] # "callback"
    BY <2>2 DEF Open, SocketFails, BindFails, OpenSucceeds, listeners, TypeOK
  <2>3. ASSUME NEW g \in Handles,
               \/ AppConnectsUdp(g) \/ ConnectTcp(g) \/ Close(g)
               \/ \E ip, port \in BOOLEAN : Send(g, ip, port)
        PROVE  lpc' = lpc
    BY <2>3 DEF AppConnectsUdp, ConnectTcp, Close, Send, listeners
  <2>4. ASSUME NEW f \in Sockets, Arrive(f) \/ Answer(f) \/ Reset(f)
        PROVE  lpc' = lpc
    BY <2>4 DEF Arrive, Answer, Reset, listeners
  <2>5. UNCHANGED vars => lpc' = lpc
    BY DEF vars, listeners
  <2> QED
    BY <1>2, <2>1, <2>2, <2>3, <2>4, <2>5 DEF Next
<1> QED
  BY <1>1, <1>2

\* Once CommsConnect has returned true, and until the handle is being closed, what the
\* listener copies for its callback is the whole address it was connected to; and never
\* any part of an earlier one.
THEOREM CallbackKnowsTheRemote == Spec => CopiesTheRemote
<1> DEFINE Copy(h) == lpc[h] = "copy" /\ lpc'[h] = "callback"
           Right(h) == /\ Connected(h) /\ ~Over(h) => told'[h] = Named
                       /\ told'[h].ip # "old" /\ told'[h].port # "old"
<1>1. ASSUME IInv, [Next]_vars, NEW h \in Tcp, Copy(h)
      PROVE  Right(h)
  <2>1. h \in Handles /\ opened[h] = "yes" /\ TypeOK
    BY <1>1, ConstantsAssumption DEF IInv, ListenerInv
  <2>2. told'[h] = remote[h]
    BY <1>1, <2>1, CopiesOnly
  <2>3. remote[h].ip # "old" /\ remote[h].port # "old"
    BY <1>1 DEF IInv, ClientInv
  <2>4. Connected(h) /\ ~Over(h) => remote[h] = Named
    BY <1>1, <2>1 DEF IInv, RemoteInv, Connected, Over, IsClosing, IsStoring
  <2> QED
    BY <2>2, <2>3, <2>4
<1>2. IInv /\ [Next]_vars => [\A h \in Tcp : Copy(h) => Right(h)]_vars
  BY <1>1
<1> QED
  BY <1>2, Invariant, PTL DEF Spec, CopiesTheRemote

-----------------------------------------------------------------------------
(* What liveness needs besides. *)

InLoop == {"top", "recv", "copy", "callback", "set_count"}

\* A running listener is one of an open handle, and CommsClose has stopped it before
\* it joins it.
RunInv == /\ \A h \in Handles : running[h] => /\ opened[h] = "yes"
                                              /\ lpc[h] \in {"start"} \cup InLoop
          /\ apc \in {"join", "join_free"} => ~running[job]

\* A listener in its loop never blocks in recv.
NonblockInv == \A h \in Handles :
    lpc[h] \in InLoop /\ fd[h] \in Sockets => sock[fd[h]].nonblock

\* A blocking connect waits for an answer, or has one.
AwaitInv == apc = "wait" => sock[fd[job]].link \in {"connecting", "established", "refused"}

LiveInv == RunInv /\ NonblockInv /\ AwaitInv

LEMMA RunStep == ASSUME IInv, RunInv, [Next]_vars PROVE RunInv'
<1> USE DEF RunInv, InLoop, IInv, TypeOK, handles, listeners
<1>1. CASE Continue
  <2>1. CASE ConnectReturns \/ ConnectStores
    BY <2>1 DEF ConnectReturns, ConnectStores, CountConnection, ConnectStoresIp, ConnectStoresPort
  <2>2. CASE CloseSockets
    BY <2>2 DEF CloseSockets
  <2>3. CASE StopListener
    BY <2>3 DEF StopListener, JobInv, Closing
  <2>4. CASE Join
    BY <2>4 DEF Join, ThreadIsOver
  <2> QED
    BY <1>1, <2>1, <2>2, <2>3, <2>4 DEF Continue
<1>2. ASSUME NEW h \in Handles, Open(h) PROVE RunInv'
  <2>1. CASE SocketFails(h) \/ BindFails(h)
    BY <2>1 DEF SocketFails, BindFails, CanOpen
  <2>2. CASE \E thread \in {"created", "fails", "unwanted"} : OpenSucceeds(h, thread)
    BY <2>2 DEF OpenSucceeds, CanOpen
  <2> QED
    BY <1>2, <2>1, <2>2 DEF Open
<1>3. ASSUME NEW h \in Handles, AppConnectsUdp(h) \/ ConnectTcp(h) \/ Close(h) PROVE RunInv'
  BY <1>3 DEF AppConnectsUdp, ConnectTcp, Close
<1>4. ASSUME NEW h \in Handles, NEW ip \in BOOLEAN, NEW port \in BOOLEAN, Send(h, ip, port)
      PROVE  RunInv'
  BY <1>4 DEF Send
<1>5. ASSUME NEW h \in Handles, Listener(h) PROVE RunInv'
  <2>1. CASE ListenerStarts(h)
    BY <2>1 DEF ListenerStarts
  <2>2. CASE ReadFd(h)
    BY <2>2 DEF ReadFd
  <2>3. CASE Receive(h)
    BY <2>3 DEF Receive, NothingReceived
  <2>4. CASE CopyAddress(h) \/ Callback(h) \/ CallbackCounts(h)
    BY <2>4 DEF CopyAddress, Callback, CallbackCounts
  <2> QED
    BY <1>5, <2>1, <2>2, <2>3, <2>4 DEF Listener
<1>6. ASSUME NEW f \in Sockets, Arrive(f) \/ Answer(f) \/ Reset(f) PROVE RunInv'
  BY <1>6 DEF Arrive, Answer, Reset
<1>7. CASE UNCHANGED vars
  BY <1>7 DEF vars
<1> QED
  BY <1>1, <1>2, <1>3, <1>4, <1>5, <1>6, <1>7 DEF Next

LEMMA NonblockStep == ASSUME IInv, NonblockInv, [Next]_vars PROVE NonblockInv'
<1> USE DEF NonblockInv, InLoop, handles, listeners
<1>0. TypeOK /\ SocketTypes /\ SocketInv
  BY TypeParts DEF IInv
<1>1. CASE Continue
  <2>1. CASE ConnectReturns
    <3>1. PICK l \in Links : sock' = [sock EXCEPT ![fd[job]].link = l]
      BY <2>1 DEF ConnectReturns, Links
    <3>2. \A f \in Sockets : sock'[f].nonblock = sock[f].nonblock
      BY <1>0, <3>1 DEF SocketTypes, SocketRecords
    <3> QED
      BY <2>1, <3>2 DEF ConnectReturns
  <2>2. CASE ConnectStores \/ StopListener
    BY <2>2 DEF ConnectStores, CountConnection, ConnectStoresIp, ConnectStoresPort, StopListener
  <2>3. CASE CloseSockets
    <3>1. /\ lpc' = lpc /\ job \in Handles
          /\ \/ sock' = sock /\ fd' = fd
             \/ /\ sock' = [sock EXCEPT ![fd[job]] = Free] /\ fd' = [fd EXCEPT ![job] = -1]
                /\ fd[job] \in Sockets
      BY <1>0, <2>3, SocketNumbers
         DEF CloseSockets, MustCloseSocket, IInv, JobInv, TypeOK, Closing
    <3>2. CASE /\ sock' = [sock EXCEPT ![fd[job]] = Free] /\ fd' = [fd EXCEPT ![job] = -1]
               /\ fd[job] \in Sockets
      <4>1. \A h \in Handles : h # job => fd'[h] = fd[h] /\ fd[h] # fd[job]
        BY <1>0, <3>1, <3>2 DEF SocketInv, TypeOK
      <4>2. fd'[job] \notin Sockets
        BY <1>0, <3>1, <3>2, ConstantsAssumption DEF TypeOK, Sockets
      <4> QED
        BY <1>0, <3>1, <3>2, <4>1, <4>2 DEF TypeOK
    <3> QED
      BY <3>1, <3>2
  <2>4. CASE Join
    BY <1>0, <2>4 DEF Join, TypeOK
  <2> QED
    BY <1>1, <2>1, <2>2, <2>3, <2>4 DEF Continue
<1>2. ASSUME NEW h \in Handles, Open(h) PROVE NonblockInv'
  <2>1. CASE SocketFails(h)
    BY <2>1 DEF SocketFails
  <2>2. CASE BindFails(h)
    <3>1. PICK f \in Sockets : sock[f].kind = "free" /\ sock' = [sock EXCEPT ![f] = NewSocket(h)]
      BY <2>2 DEF BindFails, IsNext
    <3>2. lpc' = lpc /\ fd' = [fd EXCEPT ![h] = -1]
      BY <2>2 DEF BindFails
    <3>3. \A g \in Handles : fd'[g] \in Sockets => fd'[g] = fd[g] /\ fd[g] # f
      BY <1>0, <3>1, <3>2, ConstantsAssumption DEF SocketInv, KindOf, TypeOK, Sockets
    <3> QED
      BY <1>0, <3>1, <3>2, <3>3 DEF TypeOK
  <2>3. ASSUME NEW thread \in {"created", "fails", "unwanted"}, OpenSucceeds(h, thread)
        PROVE  NonblockInv'
    <3>1. PICK f \in Sockets : /\ sock[f].kind = "free" /\ sock' = [sock EXCEPT ![f] = NewSocket(h)]
                               /\ fd' = [fd EXCEPT ![h] = f]
      BY <2>3 DEF OpenSucceeds, IsNext
    <3>2. /\ lpc' = [lpc EXCEPT ![h] = IF thread = "created" THEN "start" ELSE @]
          /\ opened[h] # "yes"
      BY <2>3 DEF OpenSucceeds, CanOpen
    <3>3. \A g \in Handles : g # h => fd'[g] = fd[g] /\ fd[g] # f /\ lpc'[g] = lpc[g]
      BY <1>0, <3>1, <3>2 DEF SocketInv, KindOf, TypeOK
    <3>4. lpc'[h] \notin InLoop
      BY <1>0, <3>2 DEF IInv, ListenerInv, TypeOK
    <3> QED
      BY <1>0, <3>1, <3>3, <3>4 DEF TypeOK
  <2> QED
    BY <1>2, <2>1, <2>2, <2>3 DEF Open
<1>3. ASSUME NEW h \in Handles, AppConnectsUdp(h) \/ ConnectTcp(h) \/ Close(h)
      PROVE  NonblockInv'
  <2>1. CASE AppConnectsUdp(h) \/ Close(h)
    BY <2>1 DEF AppConnectsUdp, Close
  <2>2. CASE ConnectTcp(h)
    <3>1. PICK l \in Links : sock' = [sock EXCEPT ![fd[h]].link = l]
      BY <2>2 DEF ConnectTcp, Links
    <3>2. \A f \in Sockets : sock'[f].nonblock = sock[f].nonblock
      BY <1>0, <3>1 DEF SocketTypes, SocketRecords
    <3> QED
      BY <2>2, <3>2 DEF ConnectTcp
  <2> QED
    BY <1>3, <2>1, <2>2
<1>4. ASSUME NEW h \in Handles, NEW ip \in BOOLEAN, NEW port \in BOOLEAN, Send(h, ip, port)
      PROVE  NonblockInv'
  BY <1>4 DEF Send
<1>5. ASSUME NEW h \in Handles, Listener(h) PROVE NonblockInv'
  <2>1. CASE ListenerStarts(h)
    <3>1. fd' = fd /\ lpc' = [lpc EXCEPT ![h] = "top"]
      BY <2>1 DEF ListenerStarts
    <3>2. \A g \in Handles :
             g # h /\ fd[g] \in Sockets => sock'[fd[g]].nonblock = sock[fd[g]].nonblock
      BY <1>0, <2>1 DEF ListenerStarts, MakeNonblocking, SocketInv, SocketTypes, SocketRecords
    <3>3. fd[h] \in Sockets => sock'[fd[h]].nonblock
      BY <1>0, <2>1, SocketNumbers DEF ListenerStarts, MakeNonblocking, SocketTypes, SocketRecords
    <3> QED
      BY <1>0, <3>1, <3>2, <3>3 DEF TypeOK
  <2>2. CASE ReadFd(h)
    BY <1>0, <2>2 DEF ReadFd, TypeOK
  <2>3. CASE Receive(h)
    <3>1. /\ lpc[h] = "recv" /\ \E p \in {"top", "copy", "callback"} : lpc' = [lpc EXCEPT ![h] = p]
          /\ fd' = fd
          /\ sock' = sock \/ sock' = [sock EXCEPT ![lfd[h]].data = FALSE]
      BY <2>3 DEF Receive, NothingReceived
    <3>2. \A f \in Sockets : sock'[f].nonblock = sock[f].nonblock
      BY <1>0, <3>1 DEF SocketTypes, SocketRecords
    <3> QED
      BY <1>0, <3>1, <3>2 DEF TypeOK
  <2>4. CASE CopyAddress(h) \/ Callback(h) \/ CallbackCounts(h)
    BY <1>0, <2>4 DEF CopyAddress, Callback, CallbackCounts, TypeOK
  <2> QED
    BY <1>5, <2>1, <2>2, <2>3, <2>4 DEF Listener
<1>6. ASSUME NEW f \in Sockets, Arrive(f) \/ Answer(f) \/ Reset(f) PROVE NonblockInv'
  <2>1. \A g \in Sockets : sock'[g].nonblock = sock[g].nonblock
    BY <1>0, <1>6 DEF Arrive, Answer, Reset, SocketTypes, SocketRecords
  <2> QED
    BY <1>6, <2>1 DEF Arrive, Answer, Reset
<1>7. CASE UNCHANGED vars
  BY <1>7 DEF vars
<1> QED
  BY <1>1, <1>2, <1>3, <1>4, <1>5, <1>6, <1>7 DEF Next

\* Only connect, its return and the remote's answer change a connection, and a close.
LEMMA LinksStay ==
  ASSUME IInv, NEW h \in Handles, NEW f \in Sockets,
         Listener(h) \/ Arrive(f)
  PROVE  \A g \in Sockets : sock'[g].link = sock[g].link /\ sock'[g].kind = sock[g].kind
<1>1. SocketTypes
  BY TypeParts DEF IInv
<1> QED
  BY <1>1 DEF Listener, ListenerStarts, ReadFd, Receive, NothingReceived, CopyAddress, Callback,
     CallbackCounts, MakeNonblocking, Arrive, SocketTypes, SocketRecords

LEMMA AwaitStep == ASSUME IInv, AwaitInv, [Next]_vars PROVE AwaitInv'
<1> USE DEF AwaitInv, handles, listeners
<1>0. /\ SocketTypes
      /\ apc = "wait" => job \in Handles /\ fd[job] \in Sockets
  <2>1. SocketTypes /\ (apc = "wait" => job \in Handles /\ opened[job] = "yes")
    BY TypeParts, ConstantsAssumption DEF IInv, JobInv, TypeOK
  <2> QED
    BY <2>1 DEF IInv, SocketInv, IsClosed, Closing
<1>1. CASE Continue
  BY <1>1 DEF Continue, ConnectReturns, ConnectStores, CountConnection, ConnectStoresIp,
     ConnectStoresPort, CloseSockets, StopListener, Join
<1>2. ASSUME NEW h \in Handles, Open(h) PROVE AwaitInv'
  BY <1>2 DEF Open, CanOpen, SocketFails, BindFails, OpenSucceeds
<1>3. ASSUME NEW h \in Handles, AppConnectsUdp(h) \/ ConnectTcp(h) \/ Close(h)
      PROVE  AwaitInv'
  <2>1. CASE AppConnectsUdp(h) \/ Close(h)
    BY <2>1 DEF AppConnectsUdp, Close
  <2>2. CASE ConnectTcp(h)
    <3>1. fd' = fd /\ fd[h] \in Sockets /\ apc = "idle"
      BY <2>2 DEF ConnectTcp, IInv, SocketInv, IsClosed, Closing
    <3>2. apc' = "wait" => job' = h /\ sock' = [sock EXCEPT ![fd[h]].link = "connecting"]
      BY <2>2, <3>1 DEF ConnectTcp
    <3> QED
      BY <1>0, <3>1, <3>2 DEF SocketTypes, SocketRecords
  <2> QED
    BY <1>3, <2>1, <2>2
<1>4. ASSUME NEW h \in Handles, NEW ip \in BOOLEAN, NEW port \in BOOLEAN, Send(h, ip, port)
      PROVE  AwaitInv'
  BY <1>4 DEF Send
<1>5. ASSUME NEW h \in Handles, Listener(h) PROVE AwaitInv'
  <2>1. apc' = apc /\ job' = job /\ fd' = fd
    BY <1>5 DEF Listener, ListenerStarts, ReadFd, Receive, CopyAddress, Callback,
       CallbackCounts
  <2>2. \A f \in Sockets : sock'[f].link = sock[f].link
    BY <1>5, LinksStay
  <2> QED
    BY <1>0, <2>1, <2>2
<1>6. ASSUME NEW f \in Sockets, Arrive(f) \/ Answer(f) \/ Reset(f) PROVE AwaitInv'
  <2>1. apc' = apc /\ job' = job /\ fd' = fd
    BY <1>6 DEF Arrive, Answer, Reset
  <2>2. \A g \in Sockets : sock'[g].link \in {sock[g].link, "established", "refused"}
    BY <1>0, <1>6 DEF Arrive, Answer, Reset, SocketTypes, SocketRecords
  <2> QED
    BY <1>0, <2>1, <2>2
<1>7. CASE UNCHANGED vars
  BY <1>7 DEF vars
<1> QED
  BY <1>1, <1>2, <1>3, <1>4, <1>5, <1>6, <1>7 DEF Next

LEMMA SpecLiveInv == Spec => []LiveInv
<1>1. Init => LiveInv
  BY DEF Init, LiveInv, RunInv, NonblockInv, InLoop, AwaitInv
<1>2. IInv /\ LiveInv /\ [Next]_vars => LiveInv'
  BY RunStep, NonblockStep, AwaitStep DEF LiveInv
<1> QED
  BY <1>1, <1>2, Invariant, PTL DEF Spec

-----------------------------------------------------------------------------
(* Liveness.  The provers cannot expand ENABLED: what they lack about it is  *)
(* said by HandlesEnabled, which the theorems have as their hypothesis.      *)

\* Where each fair action can be taken.
ContinueCanStep == \/ apc = "wait" /\ sock[fd[job]].link \in {"established", "refused"}
                   \/ apc \in {"count", "store_ip", "store_port"}
                   \/ apc \in {"close", "stop", "destroy", "stop_free"}
                   \/ apc \in {"join", "join_free"} /\ ThreadIsOver
ListenerCanStep(h) == \/ lpc[h] \in {"start", "copy", "callback", "set_count"}
                      \/ lpc[h] = "top" /\ (running[h] => fd[h] > 0)
                      \/ /\ lpc[h] = "recv"
                         /\ LET s == sock[lfd[h]]
                            IN  \/ s.data \/ s.nonblock \/ s.kind = "free"
                                \/ s.kind = "tcp" /\ s.link \in {"idle", "refused"}
ConnectCanStep(h) == /\ apc = "idle" /\ opened[h] = "yes" /\ h \in Tcp
                     /\ sock[fd[h]].link \in {"idle", "refused", "established"}

ContinueEnabled == ContinueCanStep => ENABLED <<Continue>>_vars
ListenerEnabled(h) == ListenerCanStep(h) => ENABLED <<Listener(h)>>_vars
ConnectEnabled(h) == ConnectCanStep(h) => ENABLED <<ConnectTcp(h)>>_vars
AnswerEnabled(f) == sock[f].link = "connecting" => ENABLED <<Answer(f)>>_vars
HandlesEnabled == /\ ContinueEnabled
                  /\ \A h \in Handles : ListenerEnabled(h) /\ ConnectEnabled(h)
                  /\ \A f \in Sockets : AnswerEnabled(f)

Runs == []IInv /\ []LiveInv /\ [][Next]_vars
ListenerRuns(h) == Runs /\ WF_vars(Listener(h)) /\ []ListenerEnabled(h)

LEMMA SpecListenerRuns ==
  ASSUME NEW h \in Handles
  PROVE  FairSpec /\ []HandlesEnabled => []ListenerRuns(h)
<1>1. HandlesEnabled => ListenerEnabled(h)
  BY DEF HandlesEnabled
<1>2. ListenersAreFair => ListenerIsFair(h)
  BY DEF ListenersAreFair
<1>3. FairSpec => []Runs
  BY Invariant, SpecLiveInv, PTL DEF FairSpec, Spec, Runs
<1> QED
  BY <1>1, <1>2, <1>3, PTL DEF FairSpec, ListenerIsFair, ListenerRuns

\* Only its own listener moves a handle's, until it is joined, and only the closing of
\* the handle stops it.
LEMMA ListenerAlone ==
  ASSUME NEW h \in Handles, IInv, [Next]_vars, opened[h] = "yes" \/ apc # "idle"
  PROVE  /\ Listener(h) \/ lpc'[h] = lpc[h] \/ (Join /\ job = h)
         /\ running'[h] = running[h] \/ IsClosing(h)
<1> USE DEF handles, listeners
<1>0. TypeOK /\ (apc \in Closing => job \in Handles)
  BY ConstantsAssumption DEF IInv, JobInv, TypeOK, Closing
<1>1. CASE Continue
  <2>1. CASE ConnectReturns \/ ConnectStores \/ CloseSockets
    BY <2>1 DEF ConnectReturns, ConnectStores, CountConnection, ConnectStoresIp,
       ConnectStoresPort, CloseSockets
  <2>2. CASE StopListener
    BY <1>0, <2>2 DEF StopListener, TypeOK, IsClosing, Closing
  <2>3. CASE Join
    <3>1. running' = running /\ lpc' = [lpc EXCEPT ![job] = IF @ = "exited" THEN "joined" ELSE @]
      BY <2>3 DEF Join
    <3> QED
      BY <1>0, <2>3, <3>1 DEF TypeOK
  <2> QED
    BY <1>1, <2>1, <2>2, <2>3 DEF Continue
<1>2. ASSUME NEW g \in Handles, Open(g)
      PROVE  lpc'[h] = lpc[h] /\ running'[h] = running[h]
  <2>1. CASE SocketFails(g) \/ BindFails(g)
    BY <2>1 DEF SocketFails, BindFails
  <2>2. CASE \E thread \in {"created", "fails", "unwanted"} : OpenSucceeds(g, thread)
    <3>1. g # h
      BY <2>2 DEF OpenSucceeds, CanOpen
    <3> QED
      BY <1>0, <2>2, <3>1 DEF OpenSucceeds, TypeOK
  <2> QED
    BY <1>2, <2>1, <2>2 DEF Open
<1>3. ASSUME NEW g \in Handles, AppConnectsUdp(g) \/ ConnectTcp(g) \/ Close(g)
      PROVE  lpc'[h] = lpc[h] /\ running'[h] = running[h]
  BY <1>3 DEF AppConnectsUdp, ConnectTcp, Close
<1>4. ASSUME NEW g \in Handles, NEW ip \in BOOLEAN, NEW port \in BOOLEAN, Send(g, ip, port)
      PROVE  lpc'[h] = lpc[h] /\ running'[h] = running[h]
  BY <1>4 DEF Send
<1>5. ASSUME NEW g \in Handles, Listener(g)
      PROVE  running' = running /\ (g # h => lpc'[h] = lpc[h])
  <2>1. running' = running
    BY <1>5 DEF Listener, ListenerStarts, ReadFd, Receive, CopyAddress, Callback,
       CallbackCounts
  <2>2. \E p : lpc' = [lpc EXCEPT ![g] = p]
    BY <1>5 DEF Listener, ListenerStarts, ReadFd, Receive, NothingReceived, CopyAddress, Callback,
       CallbackCounts
  <2> QED
    BY <1>0, <2>1, <2>2 DEF TypeOK
<1>6. ASSUME NEW f \in Sockets, Arrive(f) \/ Answer(f) \/ Reset(f)
      PROVE  lpc'[h] = lpc[h] /\ running'[h] = running[h]
  BY <1>6 DEF Arrive, Answer, Reset
<1>7. CASE UNCHANGED vars
  BY <1>7 DEF vars
<1> QED
  BY <1>1, <1>2, <1>3, <1>4, <1>5, <1>6, <1>7 DEF Next

-----------------------------------------------------------------------------
(* What arrives is read. *)

\* A listener runs, and there is something for it to read.
Reading(h) == running[h] /\ SockOf(h).data /\ ~Over(h)
ReadingStep(h) == IInv /\ LiveInv /\ [Next]_vars /\ Reading(h)
                  /\ SockOf(h)'.data /\ ~Over(h)'
In(h, place) == lpc[h] = place

\* Where the next step of a listener in its loop takes it, and of one that starts.
LEMMA ListenerPlaces ==
  ASSUME TypeOK, NEW h \in Handles, Listener(h)
  PROVE  \/ lpc[h] \in {"start", "set_count"} /\ lpc'[h] = "top"
         \/ lpc[h] = "copy" /\ lpc'[h] = "callback"
         \/ lpc[h] = "callback" /\ lpc'[h] \in {"set_count", "top"}
         \/ ReadFd(h) /\ lpc[h] = "top" /\ lpc'[h] = IF running[h] THEN "recv" ELSE "exited"
         \/ Receive(h) /\ lpc[h] = "recv" /\ lpc'[h] \in {"copy", "callback", "top"}
<1>1. ListenerStarts(h) => lpc[h] = "start" /\ lpc'[h] = "top"
  BY DEF ListenerStarts, TypeOK
<1>2. CallbackCounts(h) => lpc[h] = "set_count" /\ lpc'[h] = "top"
  BY DEF CallbackCounts, TypeOK
<1>3. CopyAddress(h) => lpc[h] = "copy" /\ lpc'[h] = "callback"
  BY DEF CopyAddress, TypeOK
<1>4. Callback(h) => lpc[h] = "callback" /\ lpc'[h] \in {"set_count", "top"}
  BY DEF Callback, TypeOK
<1>5. ReadFd(h) => lpc[h] = "top" /\ lpc'[h] = IF running[h] THEN "recv" ELSE "exited"
  BY DEF ReadFd, TypeOK
<1>6. Receive(h) => lpc[h] = "recv" /\ lpc'[h] \in {"copy", "callback", "top"}
  BY DEF Receive, NothingReceived, TypeOK
<1> QED
  BY <1>1, <1>2, <1>3, <1>4, <1>5, <1>6 DEF Listener

LEMMA ListenerReads ==
  ASSUME NEW h \in Handles, ReadingStep(h)
  PROVE  /\ Reading(h)' /\ ListenerCanStep(h)
         /\ lpc[h] \in {"start"} \cup InLoop
         /\ Listener(h) \/ lpc'[h] = lpc[h]
         /\ Listener(h) => \/ lpc[h] \in {"start", "set_count"} /\ lpc'[h] = "top"
                           \/ lpc[h] = "copy" /\ lpc'[h] = "callback"
                           \/ lpc[h] = "callback" /\ lpc'[h] \in {"set_count", "top"}
                           \/ lpc[h] = "top" /\ lpc'[h] = "recv"
<1> USE DEF ReadingStep, Reading, handles, listeners
<1>1. /\ TypeOK /\ opened[h] = "yes" /\ running[h]
      /\ lpc[h] \in {"start"} \cup InLoop
      /\ fd[h] \in Sockets /\ sock[fd[h]].data /\ ~IsClosing(h) /\ ~(Join /\ job = h)
  <2>1. TypeOK /\ opened[h] = "yes" /\ lpc[h] \in {"start"} \cup InLoop
    BY DEF IInv, LiveInv, RunInv
  <2>2. fd[h] \in Sockets /\ sock[fd[h]].data
    BY DEF SockOf, Free
  <2>3. ~IsClosing(h) /\ ~(Join /\ job = h)
    BY DEF IsClosing, Over, Join, Closing
  <2> QED
    BY <2>1, <2>2, <2>3
<1>2. /\ Listener(h) \/ lpc'[h] = lpc[h]
      /\ running'[h] = running[h]
  BY <1>1, ListenerAlone
<1>3. lpc[h] = "recv" => lfd[h] = fd[h]
  BY <1>1 DEF IInv, ListenerInv
<1>4. ~Receive(h)
  <2> SUFFICES ASSUME Receive(h)
               PROVE  FALSE
    OBVIOUS
  <2>1. sock' = [sock EXCEPT ![fd[h]].data = FALSE] /\ fd' = fd
    BY <1>1, <1>3 DEF Receive
  <2>2. ~sock'[fd[h]].data
    BY <1>1, <2>1 DEF TypeOK
  <2> QED
    BY <1>1, <2>1, <2>2 DEF SockOf
<1>5. ListenerCanStep(h)
  BY <1>1, <1>3, SocketNumbers DEF ListenerCanStep, InLoop
<1> QED
  BY <1>1, <1>2, <1>4, <1>5, ListenerPlaces

\* What has arrived for a handle with a listener is read, or the handle is closed:
\* no listener stays in recv, or waits for a socket it was not given.
THEOREM DataIsRead == FairSpec /\ []HandlesEnabled => DataEventuallyRead
<1> SUFFICES ASSUME NEW h \in Handles
             PROVE  FairSpec /\ []HandlesEnabled
                      => (running[h] /\ SockOf(h).data ~> Over(h) \/ ~SockOf(h).data)
  BY DEF DataEventuallyRead
<1> DEFINE Data == SockOf(h).data /\ ~Over(h)
           Step == IInv /\ LiveInv /\ [Next]_vars /\ Reading(h) /\ Data'
           BeforeTop == lpc[h] \in {"start", "set_count"}
<1>1. /\ Step => Reading(h)' /\ ListenerCanStep(h)
      /\ Step => \/ In(h, "copy") \/ In(h, "callback") \/ BeforeTop
                 \/ In(h, "top") \/ In(h, "recv")
      /\ Step /\ In(h, "copy") => In(h, "copy")' \/ In(h, "callback")'
      /\ Step /\ In(h, "copy") /\ <<Listener(h)>>_vars => In(h, "callback")'
      /\ Step /\ In(h, "callback") => In(h, "callback")' \/ BeforeTop' \/ In(h, "top")'
      /\ Step /\ In(h, "callback") /\ <<Listener(h)>>_vars => BeforeTop' \/ In(h, "top")'
      /\ Step /\ BeforeTop => BeforeTop' \/ In(h, "top")'
      /\ Step /\ BeforeTop /\ <<Listener(h)>>_vars => In(h, "top")'
      /\ Step /\ In(h, "top") => In(h, "top")' \/ In(h, "recv")'
      /\ Step /\ In(h, "top") /\ <<Listener(h)>>_vars => In(h, "recv")'
      /\ Step /\ In(h, "recv") => In(h, "recv")' /\ ~<<Listener(h)>>_vars
  BY ListenerReads DEF ReadingStep, In, InLoop
<1>2. /\ Reading(h) <=> running[h] /\ Data
      /\ Data <=> ~(Over(h) \/ ~SockOf(h).data)
  BY DEF Reading
<1> HIDE DEF Data, BeforeTop
<1>3. ListenerRuns(h) => (running[h] => ~[]Data)
  BY <1>1, <1>2, PTL DEF ListenerRuns, Runs, ListenerEnabled
<1> QED
  BY <1>2, <1>3, SpecListenerRuns, PTL

-----------------------------------------------------------------------------
(* CommsClose and DestroyCommsHandle return. *)

\* The application's thread is in a call about a handle, at one of these steps.
Doing(h, steps) == job = h /\ apc \in steps
Joining == {"join", "join_free"}

ContinueRuns == Runs /\ WF_vars(Continue) /\ []ContinueEnabled
CloseRuns(h) == ContinueRuns /\ ListenerRuns(h)

LEMMA SpecCloseRuns ==
  ASSUME NEW h \in Handles
  PROVE  FairSpec /\ []HandlesEnabled => []CloseRuns(h)
<1>1. HandlesEnabled => ContinueEnabled
  BY DEF HandlesEnabled
<1>2. FairSpec => []Runs
  BY Invariant, SpecLiveInv, PTL DEF FairSpec, Spec, Runs
<1> QED
  BY <1>1, <1>2, SpecListenerRuns, PTL DEF FairSpec, ContinueRuns, CloseRuns

\* The thread is in one call at a time: only its own steps take it further.
LEMMA CallGoesOn ==
  ASSUME [Next]_vars, apc # "idle", ~Continue
  PROVE  UNCHANGED <<apc, job, fd, opened, alive>>
<1> USE DEF handles, listeners
<1>1. ASSUME NEW g \in Handles, Listener(g)
      PROVE  UNCHANGED <<apc, job, fd, opened, alive>>
  BY <1>1 DEF Listener, ListenerStarts, ReadFd, Receive, CopyAddress, Callback,
       CallbackCounts
<1>2. ASSUME NEW f \in Sockets, Arrive(f) \/ Answer(f) \/ Reset(f)
      PROVE  UNCHANGED <<apc, job, fd, opened, alive>>
  BY <1>2 DEF Arrive, Answer, Reset
<1>3. ASSUME NEW h \in Handles, Open(h)
      PROVE  FALSE
  BY <1>3 DEF Open, SocketFails, BindFails, OpenSucceeds, CanOpen
<1>4. ASSUME NEW h \in Handles, AppConnectsUdp(h) \/ ConnectTcp(h) \/ Close(h)
      PROVE  FALSE
  BY <1>4 DEF AppConnectsUdp, ConnectTcp, Close
<1>5. ASSUME NEW h \in Handles, NEW ip \in BOOLEAN, NEW port \in BOOLEAN, Send(h, ip, port)
      PROVE  FALSE
  BY <1>5 DEF Send
<1>6. CASE UNCHANGED vars
  BY <1>6 DEF vars
<1> QED
  BY <1>1, <1>2, <1>3, <1>4, <1>5, <1>6 DEF Next

\* A close goes from closing the sockets by stopping the listener to the join.
LEMMA CloseGoesOn ==
  ASSUME NEW h \in Handles, IInv, [Next]_vars, Doing(h, Closing)
  PROVE  /\ ~Continue => job' = h /\ apc' = apc
         /\ ~Doing(h, Joining) => ContinueCanStep
         /\ Continue => \/ Doing(h, {"close", "destroy"}) /\ Doing(h, {"stop", "stop_free"})'
                        \/ Doing(h, {"stop", "stop_free"}) /\ Doing(h, Joining)'
                        \/ Doing(h, Joining) /\ apc' \in {"idle", "crashed"}
<1> USE DEF Doing, Closing, Joining
<1>1. ~Continue => job' = h /\ apc' = apc
  BY CallGoesOn
<1>2. ~Doing(h, Joining) => ContinueCanStep
  BY DEF ContinueCanStep
<1>3. Continue => CloseSockets \/ StopListener \/ Join
  BY DEF Continue, ConnectReturns, ConnectStores, CountConnection, ConnectStoresIp,
     ConnectStoresPort
<1> QED
  BY <1>1, <1>2, <1>3 DEF CloseSockets, StopListener, Join

\* While the application joins it, a listener leaves its loop.
LEMMA JoinedListenerEnds ==
  ASSUME NEW h \in Handles, IInv, LiveInv, [Next]_vars, Doing(h, Joining), Doing(h, Joining)'
  PROVE  /\ ThreadIsOver => ThreadIsOver'
         /\ ThreadIsOver => ContinueCanStep
         /\ ~ThreadIsOver => /\ ListenerCanStep(h)
                             /\ lpc[h] \in {"start"} \cup InLoop
                             /\ Listener(h) \/ lpc'[h] = lpc[h]
         /\ Listener(h) => \/ lpc[h] \in {"start", "set_count"} /\ lpc'[h] = "top"
                           \/ lpc[h] = "copy" /\ lpc'[h] = "callback"
                           \/ lpc[h] = "callback" /\ lpc'[h] \in {"set_count", "top"}
                           \/ lpc[h] = "recv" /\ lpc'[h] \in {"copy", "callback", "top"}
                           \/ lpc[h] = "top" /\ ThreadIsOver'
<1> USE DEF Doing, Joining
<1>1. TypeOK /\ ~running[h] /\ IsClosing(h) /\ ~Join /\ job' = h
  BY DEF IInv, LiveInv, RunInv, IsClosing, Closing, Join
<1>2. ThreadIsOver => ContinueCanStep
  BY DEF ContinueCanStep
<1>3. ~ThreadIsOver => opened[h] = "yes" /\ lpc[h] \in {"start"} \cup InLoop
  BY <1>1 DEF ThreadIsOver, IInv, ListenerInv, TypeOK, InLoop
<1>4. ~ThreadIsOver => Listener(h) \/ lpc'[h] = lpc[h]
  BY <1>1, <1>3, ListenerAlone
<1>5. ThreadIsOver => ThreadIsOver'
  <2> SUFFICES ASSUME ThreadIsOver
               PROVE  ThreadIsOver'
    OBVIOUS
  <2>1. lpc[h] \in {"none", "exited", "joined"} /\ ~Listener(h)
    BY DEF ThreadIsOver, Listener, ListenerStarts, ReadFd, Receive, CopyAddress, Callback,
       CallbackCounts
  <2> QED
    BY <1>1, <2>1, ListenerAlone DEF ThreadIsOver
<1>6. ~ThreadIsOver => ListenerCanStep(h)
  <2>1. lpc[h] = "recv" => \/ lfd[h] = fd[h] /\ fd[h] \in Sockets /\ sock[fd[h]].nonblock
                           \/ sock[lfd[h]].kind = "free"
    BY <1>1 DEF IInv, LiveInv, ListenerInv, NonblockInv, InLoop
  <2> QED
    BY <1>1, <1>3, <2>1 DEF ListenerCanStep, InLoop
<1>7. Listener(h) => \/ lpc[h] \in {"start", "set_count"} /\ lpc'[h] = "top"
                     \/ lpc[h] = "copy" /\ lpc'[h] = "callback"
                     \/ lpc[h] = "callback" /\ lpc'[h] \in {"set_count", "top"}
                     \/ lpc[h] = "recv" /\ lpc'[h] \in {"copy", "callback", "top"}
                     \/ lpc[h] = "top" /\ ThreadIsOver'
  <2>1. lpc[h] = "top" /\ lpc'[h] = "exited" => ThreadIsOver'
    BY <1>1 DEF ThreadIsOver
  <2> QED
    BY <1>1, <2>1, ListenerPlaces
<1> QED
  BY <1>2, <1>3, <1>4, <1>5, <1>6, <1>7

\* The close of a handle returns: its listener sees the flag, whatever it was doing.
LEMMA CloseRunsReturns ==
  ASSUME NEW h \in Handles
  PROVE  CloseRuns(h) => (Doing(h, Closing) => <>(apc \in {"idle", "crashed"}))
<1> DEFINE Any == IInv /\ LiveInv /\ [Next]_vars
           Out == apc \in {"idle", "crashed"}
           First == Doing(h, {"close", "destroy"})
           Second == Doing(h, {"stop", "stop_free"})
           Third == Doing(h, Joining)
           Join3 == Any /\ Third /\ Third'
           BeforeTop == lpc[h] \in {"start", "set_count"}
<1>1. /\ Doing(h, Closing) <=> First \/ Second \/ Third
      /\ First => ~Second /\ ~Third
      /\ Second => ~Third
  BY DEF Doing, Closing, Joining
<1>2. /\ Any /\ First => First' \/ Second'
      /\ Any /\ First /\ <<Continue>>_vars => Second'
      /\ Any /\ Second => Second' \/ Third'
      /\ Any /\ Second /\ <<Continue>>_vars => Third'
      /\ Any /\ Third => Third' \/ Out'
      /\ Any /\ Third /\ <<Continue>>_vars => Out'
      /\ Any /\ (First \/ Second) => ContinueCanStep
  BY <1>1, CloseGoesOn DEF Doing, Closing, Joining
<1>3. Third /\ Out => FALSE
  BY DEF Doing, Joining
<1>4. /\ Join3 => \/ ThreadIsOver
                  \/ ListenerCanStep(h) /\ (\/ In(h, "recv") \/ In(h, "copy")
                                            \/ In(h, "callback") \/ BeforeTop \/ In(h, "top"))
      /\ Join3 /\ ThreadIsOver => ThreadIsOver' /\ ContinueCanStep
      /\ Join3 /\ In(h, "recv") =>
             \/ In(h, "recv")' \/ In(h, "copy")' \/ In(h, "callback")' \/ In(h, "top")'
      /\ Join3 /\ In(h, "recv") /\ <<Listener(h)>>_vars =>
             \/ In(h, "copy")' \/ In(h, "callback")' \/ In(h, "top")'
      /\ Join3 /\ In(h, "copy") => In(h, "copy")' \/ In(h, "callback")'
      /\ Join3 /\ In(h, "copy") /\ <<Listener(h)>>_vars => In(h, "callback")'
      /\ Join3 /\ In(h, "callback") => In(h, "callback")' \/ BeforeTop' \/ In(h, "top")'
      /\ Join3 /\ In(h, "callback") /\ <<Listener(h)>>_vars => BeforeTop' \/ In(h, "top")'
      /\ Join3 /\ BeforeTop => BeforeTop' \/ In(h, "top")'
      /\ Join3 /\ BeforeTop /\ <<Listener(h)>>_vars => In(h, "top")'
      /\ Join3 /\ In(h, "top") => In(h, "top")' \/ ThreadIsOver'
      /\ Join3 /\ In(h, "top") /\ <<Listener(h)>>_vars => ThreadIsOver'
  <2> SUFFICES ASSUME Join3
               PROVE  /\ \/ ThreadIsOver
                         \/ ListenerCanStep(h) /\ (\/ In(h, "recv") \/ In(h, "copy")
                                                   \/ In(h, "callback") \/ BeforeTop
                                                   \/ In(h, "top"))
                      /\ ThreadIsOver => ThreadIsOver' /\ ContinueCanStep
                      /\ In(h, "recv") =>
                             \/ In(h, "recv")' \/ In(h, "copy")' \/ In(h, "callback")'
                             \/ In(h, "top")'
                      /\ In(h, "recv") /\ Listener(h) =>
                             \/ In(h, "copy")' \/ In(h, "callback")' \/ In(h, "top")'
                      /\ In(h, "copy") => In(h, "copy")' \/ In(h, "callback")'
                      /\ In(h, "copy") /\ Listener(h) => In(h, "callback")'
                      /\ In(h, "callback") =>
                             \/ In(h, "callback")' \/ BeforeTop' \/ In(h, "top")'
                      /\ In(h, "callback") /\ Listener(h) => BeforeTop' \/ In(h, "top")'
                      /\ BeforeTop => BeforeTop' \/ In(h, "top")'
                      /\ BeforeTop /\ Listener(h) => In(h, "top")'
                      /\ In(h, "top") => In(h, "top")' \/ ThreadIsOver'
                      /\ In(h, "top") /\ Listener(h) => ThreadIsOver'
    OBVIOUS
  <2>1. ThreadIsOver => lpc[h] \in {"none", "exited", "joined"}
    BY DEF ThreadIsOver, Doing
  <2> QED
    BY <2>1, JoinedListenerEnds DEF In, InLoop
<1> HIDE DEF Out, First, Second, Third, BeforeTop
<1>5. CloseRuns(h) => ~[]Third
  BY <1>2, <1>3, <1>4, PTL
     DEF CloseRuns, ContinueRuns, ListenerRuns, Runs, ContinueEnabled, ListenerEnabled
<1>6. CloseRuns(h) => (First => <>Second) /\ (Second => <>Third) /\ (Third => <>Out)
  BY <1>2, <1>5, PTL
     DEF CloseRuns, ContinueRuns, ListenerRuns, Runs, ContinueEnabled, ListenerEnabled
<1>7. CloseRuns(h) => []CloseRuns(h)
  BY PTL DEF CloseRuns, ContinueRuns, ListenerRuns, Runs
<1>8. CloseRuns(h) => (First \/ Second \/ Third => <>Out)
  BY <1>6, <1>7, PTL
<1> QED
  BY <1>1, <1>8, PTL DEF Out

\* CommsClose and DestroyCommsHandle return for every handle, also when they leave the
\* socket open under its listener.
THEOREM ClosesReturn == FairSpec /\ []HandlesEnabled => CloseReturns
<1> SUFFICES ASSUME NEW h \in Handles
             PROVE  FairSpec /\ []HandlesEnabled
                      => (apc \in Closing /\ job = h ~> apc \in {"idle", "crashed"})
  BY DEF CloseReturns
<1>1. Doing(h, Closing) <=> apc \in Closing /\ job = h
  BY DEF Doing
<1> QED
  BY <1>1, CloseRunsReturns, SpecCloseRuns, PTL

-----------------------------------------------------------------------------
(* Every call about a handle returns. *)

\* A blocking connect waits for the remote of socket f.
Awaiting(f) == apc = "wait" /\ fd[job] = f
AnswerRuns(f) == ContinueRuns /\ WF_vars(Answer(f)) /\ []AnswerEnabled(f)

LEMMA SpecAnswerRuns ==
  ASSUME NEW f \in Sockets
  PROVE  FairSpec /\ []HandlesEnabled => []AnswerRuns(f)
<1>1. HandlesEnabled => ContinueEnabled /\ AnswerEnabled(f)
  BY DEF HandlesEnabled
<1>2. RemotesAreFair => RemoteIsFair(f)
  BY DEF RemotesAreFair
<1>3. FairSpec => []Runs
  BY Invariant, SpecLiveInv, PTL DEF FairSpec, Spec, Runs
<1> QED
  BY <1>1, <1>2, <1>3, PTL DEF FairSpec, RemoteIsFair, ContinueRuns, AnswerRuns

\* The connection of a socket that connect waits for is only changed by its answer.
LEMMA AwaitGoesOn ==
  ASSUME NEW f \in Sockets, IInv, LiveInv, [Next]_vars, Awaiting(f)
  PROVE  /\ Continue => apc' \in {"idle", "count"}
         /\ ~Continue => Awaiting(f)'
         /\ sock[f].link = "connecting" \/ ContinueCanStep
         /\ Answer(f) => sock'[f].link # "connecting"
         /\ ~Continue /\ sock[f].link # "connecting" => sock'[f].link # "connecting"
<1> USE DEF Awaiting
<1>1. TypeOK /\ SocketTypes
  BY TypeParts DEF IInv
<1>2. Continue => apc' \in {"idle", "count"}
  BY DEF Continue, ConnectReturns, ConnectStores, CountConnection, ConnectStoresIp,
     ConnectStoresPort, CloseSockets, StopListener, Join
<1>3. ~Continue => Awaiting(f)'
  BY CallGoesOn
<1>4. sock[f].link = "connecting" \/ ContinueCanStep
  BY DEF LiveInv, AwaitInv, ContinueCanStep
<1>5. Answer(f) => sock'[f].link # "connecting"
  BY <1>1 DEF Answer, SocketTypes
<1>6. ASSUME ~Continue, sock[f].link # "connecting"
      PROVE  sock'[f].link # "connecting"
  <2>1. ASSUME NEW h \in Handles, Listener(h)
        PROVE  sock'[f].link = sock[f].link
    BY <2>1, LinksStay
  <2>2. ASSUME NEW g \in Sockets, Arrive(g) \/ Answer(g) \/ Reset(g)
        PROVE  sock'[f].link # "connecting"
    <3>1. PICK l \in {"established", "refused"} :
             \/ sock' = [sock EXCEPT ![g].link = l]
             \/ sock' = [sock EXCEPT ![g].data = TRUE]
      BY <2>2 DEF Arrive, Answer, Reset
    <3> QED
      BY <1>1, <1>6, <3>1 DEF SocketTypes, SocketRecords
  <2>3. ASSUME NEW h \in Handles, Open(h)
        PROVE  FALSE
    BY <2>3 DEF Open, SocketFails, BindFails, OpenSucceeds, CanOpen
  <2>4. ASSUME NEW h \in Handles, AppConnectsUdp(h) \/ ConnectTcp(h) \/ Close(h)
        PROVE  FALSE
    BY <2>4 DEF AppConnectsUdp, ConnectTcp, Close
  <2>5. ASSUME NEW h \in Handles, NEW ip \in BOOLEAN, NEW port \in BOOLEAN, Send(h, ip, port)
        PROVE  FALSE
    BY <2>5 DEF Send
  <2>6. UNCHANGED vars => sock' = sock
    BY DEF vars
  <2> QED
    BY <1>6, <2>1, <2>2, <2>3, <2>4, <2>5, <2>6 DEF Next
<1> QED
  BY <1>2, <1>3, <1>4, <1>5, <1>6

Returned == apc \in {"idle", "crashed"}

Storing == apc \in {"count", "store_ip", "store_port"}

\* CommsConnect counts and stores what it has connected.
LEMMA StoreReturns == ContinueRuns => (Storing => <>Returned)
<1> DEFINE Any == IInv /\ [Next]_vars
           At(step) == apc = step
<1>1. /\ Storing <=> At("count") \/ At("store_ip") \/ At("store_port")
      /\ Storing => ContinueCanStep
  BY DEF Storing, ContinueCanStep
<1>2. /\ At("count") /\ Continue => At("store_ip")'
      /\ At("store_ip") /\ Continue => At("store_port")'
      /\ At("store_port") /\ Continue => Returned'
  BY DEF Continue, ConnectReturns, ConnectStores, CountConnection, ConnectStoresIp,
     ConnectStoresPort, CloseSockets, StopListener, Join, Returned
<1>3. Any /\ Storing /\ ~Continue => apc' = apc
  BY CallGoesOn DEF Storing
<1>4. /\ Any /\ At("count") => At("count")' \/ At("store_ip")'
      /\ Any /\ At("count") /\ <<Continue>>_vars => At("store_ip")'
      /\ Any /\ At("store_ip") => At("store_ip")' \/ At("store_port")'
      /\ Any /\ At("store_ip") /\ <<Continue>>_vars => At("store_port")'
      /\ Any /\ At("store_port") => At("store_port")' \/ Returned'
      /\ Any /\ At("store_port") /\ <<Continue>>_vars => Returned'
  BY <1>1, <1>2, <1>3
<1> HIDE DEF At
<1> QED
  BY <1>1, <1>4, PTL DEF ContinueRuns, Runs, ContinueEnabled

\* A blocking connect returns once the remote has answered.
LEMMA ConnectRunsReturns ==
  ASSUME NEW f \in Sockets
  PROVE  AnswerRuns(f) => (Awaiting(f) => <>Returned)
<1> DEFINE Any == IInv /\ LiveInv /\ [Next]_vars
           Asked == Awaiting(f) /\ sock[f].link = "connecting"
           Told == Awaiting(f) /\ sock[f].link # "connecting"
<1>1. /\ Any /\ Asked => Asked' \/ Told' \/ Storing' \/ Returned'
      /\ Any /\ Asked /\ <<Answer(f)>>_vars => Told' \/ Storing' \/ Returned'
      /\ Any /\ Told => Told' \/ Storing' \/ Returned'
      /\ Any /\ Told /\ <<Continue>>_vars => Storing' \/ Returned'
      /\ Any /\ Told => ContinueCanStep
  <2> SUFFICES ASSUME Any, Awaiting(f)
               PROVE  /\ Asked => Asked' \/ Told' \/ Storing' \/ Returned'
                      /\ Asked /\ Answer(f) => Told' \/ Storing' \/ Returned'
                      /\ Told => Told' \/ Storing' \/ Returned'
                      /\ Told /\ Continue => Storing' \/ Returned'
                      /\ Told => ContinueCanStep
    OBVIOUS
  <2>1. Continue => Storing' \/ Returned'
    BY AwaitGoesOn DEF Returned, Storing
  <2> QED
    BY <2>1, AwaitGoesOn
<1>2. Awaiting(f) <=> Asked \/ Told
  OBVIOUS
<1>3. Asked => sock[f].link = "connecting"
  OBVIOUS
<1>4. ContinueRuns => (Storing => <>Returned)
  BY StoreReturns
<1> HIDE DEF Asked, Told
<1>5. AnswerRuns(f) => (Asked => <>(Told \/ Storing \/ Returned))
  BY <1>1, <1>3, PTL DEF AnswerRuns, ContinueRuns, Runs, AnswerEnabled
<1>6. AnswerRuns(f) => (Told => <>(Storing \/ Returned))
  BY <1>1, PTL DEF AnswerRuns, ContinueRuns, Runs, ContinueEnabled
<1>7. AnswerRuns(f) => []AnswerRuns(f) /\ ContinueRuns
  BY PTL DEF AnswerRuns, ContinueRuns, Runs
<1> QED
  BY <1>2, <1>4, <1>5, <1>6, <1>7, PTL

ClosesRun == \A h \in Handles : CloseRuns(h)
AnswersRun == \A f \in Sockets : AnswerRuns(f)
CallsRun == Runs /\ ContinueRuns /\ ClosesRun /\ AnswersRun

LEMMA SpecCallsRun == FairSpec /\ []HandlesEnabled => []CallsRun
<1>1. FairSpec /\ []HandlesEnabled => \A h \in Handles : []CloseRuns(h)
  BY SpecCloseRuns
<1>2. (\A h \in Handles : []CloseRuns(h)) => []ClosesRun
  BY DEF ClosesRun
<1>3. FairSpec /\ []HandlesEnabled => \A f \in Sockets : []AnswerRuns(f)
  BY SpecAnswerRuns
<1>4. (\A f \in Sockets : []AnswerRuns(f)) => []AnswersRun
  BY DEF AnswersRun
<1>5. HandlesEnabled => ContinueEnabled
  BY DEF HandlesEnabled
<1>6. FairSpec => []Runs
  BY Invariant, SpecLiveInv, PTL DEF FairSpec, Spec, Runs
<1>7. FairSpec /\ []HandlesEnabled => []ClosesRun
  BY <1>1, <1>2
<1>8. FairSpec /\ []HandlesEnabled => []AnswersRun
  BY <1>3, <1>4
<1> QED
  BY <1>5, <1>6, <1>7, <1>8, PTL DEF FairSpec, ContinueRuns, CallsRun

\* Whatever call the application is in, it returns.
LEMMA CallsReturn == []CallsRun => []<>Returned
<1> DEFINE InClose == \E h \in Handles : Doing(h, Closing)
           InWait == \E f \in Sockets : Awaiting(f)
<1>1. ClosesRun => (InClose => <>Returned)
  <2>1. ASSUME NEW h \in Handles
        PROVE  ClosesRun => (Doing(h, Closing) => <>Returned)
    <3>1. ClosesRun => CloseRuns(h)
      BY DEF ClosesRun
    <3> QED
      BY <3>1, CloseRunsReturns DEF Returned
  <2> QED
    BY <2>1
<1>2. AnswersRun => (InWait => <>Returned)
  <2>1. ASSUME NEW f \in Sockets
        PROVE  AnswersRun => (Awaiting(f) => <>Returned)
    <3>1. AnswersRun => AnswerRuns(f)
      BY DEF AnswersRun
    <3> QED
      BY <3>1, ConnectRunsReturns
  <2> QED
    BY <2>1
<1>3. ContinueRuns => (Storing => <>Returned)
  BY StoreReturns
<1>4. IInv => InClose \/ InWait \/ Storing \/ Returned
  <2> SUFFICES ASSUME IInv
               PROVE  InClose \/ InWait \/ Storing \/ Returned
    OBVIOUS
  <2>1. apc \in {"idle", "wait", "count", "store_ip", "store_port", "crashed"} \cup Closing
    BY DEF IInv, TypeOK
  <2>2. apc \in Closing => InClose
    BY ConstantsAssumption DEF IInv, TypeOK, JobInv, Doing, Closing
  <2>3. apc = "wait" => InWait
    BY DEF IInv, JobInv, SocketInv, IsClosed, Closing, Awaiting, TypeOK
  <2> QED
    BY <2>1, <2>2, <2>3 DEF Returned, Storing
<1> HIDE DEF InClose, InWait
<1> QED
  BY <1>1, <1>2, <1>3, <1>4, PTL DEF CallsRun, Runs

-----------------------------------------------------------------------------
(* A connection that came about behind CommsConnect's back is found. *)

\* Connected, but CommsConnect has not said so; the handle is not being closed.
Unseen(h) == client_count[h] = 0 /\ ~Over(h)
Behind(h) == opened[h] = "yes" /\ SockOf(h).link = "established"

LEMMA BehindGoesOn ==
  ASSUME NEW h \in Tcp, IInv, [Next]_vars, Behind(h), Unseen(h)
  PROVE  /\ Behind(h)' \/ Doing(h, {"count"})' \/ SockOf(h)'.link = "refused"
         /\ ConnectTcp(h) => Doing(h, {"count"})'
         /\ Returned => ConnectCanStep(h)
<1> USE DEF Doing, handles, listeners
<1>1. /\ TypeOK /\ SocketTypes /\ h \in Handles
      /\ fd[h] \in Sockets /\ sock[fd[h]].link = "established" /\ opened[h] = "yes"
      /\ apc # "crashed" /\ ~IsClosing(h)
  <2>1. TypeOK /\ SocketTypes /\ h \in Handles
    BY TypeParts, ConstantsAssumption DEF IInv
  <2>2. fd[h] \in Sockets /\ sock[fd[h]].link = "established" /\ opened[h] = "yes"
    BY DEF Behind, SockOf, Free
  <2> QED
    BY <2>1, <2>2 DEF Unseen, Over, IsClosing
<1>2. Returned => ConnectCanStep(h)
  BY <1>1 DEF Returned, ConnectCanStep
<1>3. ConnectTcp(h) => Doing(h, {"count"})'
  BY <1>1 DEF ConnectTcp
<1>4. ASSUME opened'[h] = "yes", fd'[h] = fd[h], sock'[fd[h]].link = "established"
      PROVE  Behind(h)'
  BY <1>1, <1>4 DEF Behind, SockOf
<1>5. \A g \in Handles : g # h => fd[g] # fd[h]
  BY <1>1 DEF IInv, SocketInv
<1>6. ASSUME Continue
      PROVE  Behind(h)' \/ Doing(h, {"count"})'
  <2>1. CASE ConnectReturns
    <3>1. job \in Handles /\ opened' = opened /\ fd' = fd
      BY <2>1, ConstantsAssumption DEF ConnectReturns, IInv, JobInv, TypeOK
    <3>2. CASE job = h
      BY <1>1, <2>1, <3>2 DEF ConnectReturns
    <3>3. CASE job # h
      <4>1. fd[job] # fd[h] /\ \E l : sock' = [sock EXCEPT ![fd[job]].link = l]
        BY <1>5, <2>1, <3>1, <3>3 DEF ConnectReturns
      <4>2. sock'[fd[h]].link = "established"
        BY <1>1, <4>1 DEF SocketTypes
      <4> QED
        BY <1>1, <1>4, <3>1, <4>2
    <3> QED
      BY <3>2, <3>3
  <2>2. CASE ConnectStores \/ StopListener
    BY <1>1, <1>4, <2>2 DEF ConnectStores, CountConnection, ConnectStoresIp, ConnectStoresPort,
       StopListener
  <2>3. CASE CloseSockets
    <3>1. job # h /\ job \in Handles /\ opened' = opened
      BY <1>1, <2>3, ConstantsAssumption DEF CloseSockets, IsClosing, Closing, IInv, JobInv, TypeOK
    <3>2. fd'[h] = fd[h] /\ sock'[fd[h]] = sock[fd[h]]
      BY <1>1, <1>5, <2>3, <3>1 DEF CloseSockets, TypeOK
    <3> QED
      BY <1>1, <1>4, <3>1, <3>2
  <2>4. CASE Join
    <3>1. job # h
      BY <1>1, <2>4 DEF Join, IsClosing, Closing
    <3>2. opened'[h] = "yes" /\ fd' = fd /\ sock' = sock
      BY <1>1, <2>4, <3>1 DEF Join, TypeOK
    <3> QED
      BY <1>1, <1>4, <3>2
  <2> QED
    BY <1>6, <2>1, <2>2, <2>3, <2>4 DEF Continue
<1>7. ASSUME NEW g \in Handles, Open(g)
      PROVE  Behind(h)'
  <2>1. g # h
    BY <1>1, <1>7 DEF Open, SocketFails, BindFails, OpenSucceeds, CanOpen
  <2>2. /\ opened'[h] = opened[h] /\ fd'[h] = fd[h]
        /\ sock' = sock \/ \E f \in Sockets : /\ sock[f].kind = "free"
                                              /\ sock' = [sock EXCEPT ![f] = NewSocket(g)]
    <3>1. CASE SocketFails(g)
      BY <1>1, <2>1, <3>1 DEF SocketFails, TypeOK
    <3>2. CASE BindFails(g)
      BY <1>1, <2>1, <3>2 DEF BindFails, IsNext, TypeOK
    <3>3. CASE \E thread \in {"created", "fails", "unwanted"} : OpenSucceeds(g, thread)
      BY <1>1, <2>1, <3>3 DEF OpenSucceeds, IsNext, TypeOK
    <3> QED
      BY <1>7, <3>1, <3>2, <3>3 DEF Open
  <2>3. sock[fd[h]].kind # "free"
    BY <1>1 DEF IInv, SocketInv, KindOf
  <2>4. sock'[fd[h]] = sock[fd[h]]
    BY <1>1, <2>2, <2>3 DEF TypeOK
  <2> QED
    BY <1>1, <1>4, <2>2, <2>4
<1>8. ASSUME NEW g \in Handles, AppConnectsUdp(g) \/ Close(g)
      PROVE  Behind(h)'
  BY <1>1, <1>4, <1>8 DEF AppConnectsUdp, Close
<1>9. ASSUME NEW g \in Handles, ConnectTcp(g), g # h
      PROVE  Behind(h)'
  <2>1. fd[g] # fd[h] /\ opened' = opened /\ fd' = fd
        /\ \E l : sock' = [sock EXCEPT ![fd[g]].link = l]
    BY <1>5, <1>9 DEF ConnectTcp
  <2>2. sock'[fd[h]].link = "established"
    BY <1>1, <2>1 DEF SocketTypes
  <2> QED
    BY <1>1, <1>4, <2>1, <2>2
<1>10. ASSUME NEW g \in Handles, NEW ip \in BOOLEAN, NEW port \in BOOLEAN, Send(g, ip, port)
       PROVE  Behind(h)'
  BY <1>1, <1>4, <1>10 DEF Send
<1>11. ASSUME NEW g \in Handles, Listener(g)
       PROVE  Behind(h)'
  <2>1. opened' = opened /\ fd' = fd
    BY <1>11 DEF Listener, ListenerStarts, ReadFd, Receive, CopyAddress, Callback,
       CallbackCounts
  <2>2. sock'[fd[h]].link = sock[fd[h]].link
    BY <1>1, <1>11, LinksStay
  <2> QED
    BY <1>1, <1>4, <2>1, <2>2
<1>12. ASSUME NEW f \in Sockets, Arrive(f) \/ Answer(f) \/ Reset(f)
       PROVE  Behind(h)' \/ SockOf(h)'.link = "refused"
  <2>1. opened' = opened /\ fd' = fd
    BY <1>12 DEF Arrive, Answer, Reset, handles
  <2>2. sock'[fd[h]].link \in {"established", "refused"}
    BY <1>1, <1>12 DEF Arrive, Answer, Reset, SocketTypes, SocketRecords
  <2> QED
    BY <1>1, <1>4, <2>1, <2>2 DEF SockOf
<1>13. ASSUME UNCHANGED vars
       PROVE  Behind(h)'
  <2>1. opened' = opened /\ fd' = fd /\ sock' = sock
    BY <1>13 DEF vars
  <2> QED
    BY <1>1, <1>4, <2>1
<1> QED
  BY <1>2, <1>3, <1>6, <1>7, <1>8, <1>9, <1>10, <1>11, <1>12, <1>13 DEF Next

ConnectRuns(h) == Runs /\ SF_vars(ConnectTcp(h)) /\ []ConnectEnabled(h)

LEMMA SpecConnectRuns ==
  ASSUME NEW h \in Tcp
  PROVE  FairSpec /\ []HandlesEnabled => []ConnectRuns(h)
<1>1. HandlesEnabled => ConnectEnabled(h)
  BY ConstantsAssumption DEF HandlesEnabled
<1>2. CallersAreFair => CallerIsFair(h)
  BY DEF CallersAreFair
<1>3. FairSpec => []Runs
  BY Invariant, SpecLiveInv, PTL DEF FairSpec, Spec, Runs
<1> QED
  BY <1>1, <1>2, <1>3, PTL DEF FairSpec, CallerIsFair, ConnectRuns

\* CommsConnect stores what it has connected.
LEMMA StoreCounts ==
  ASSUME NEW h \in Tcp, IInv, [Next]_vars, Doing(h, {"count"})
  PROVE  /\ Continue => ~Unseen(h)'
         /\ ~Continue => Doing(h, {"count"})'
         /\ ContinueCanStep
<1> USE DEF Doing
<1>1. Continue => ~Unseen(h)'
  <2>1. Continue => CountConnection
    BY DEF Continue, ConnectReturns, ConnectStores, ConnectStoresIp, ConnectStoresPort,
       CloseSockets, StopListener, Join
  <2>2. CountConnection => client_count'[h] = client_count[h] + 1
    BY ConstantsAssumption DEF CountConnection, CountRemote, IInv, TypeOK
  <2>3. client_count[h] \in 0..1
    BY ConstantsAssumption DEF IInv, TypeOK
  <2> QED
    BY <2>1, <2>2, <2>3 DEF Unseen
<1>2. ~Continue => Doing(h, {"count"})'
  BY CallGoesOn
<1> QED
  BY <1>1, <1>2 DEF ContinueCanStep

\* The caller's retries find a connection that came about after CommsConnect had
\* returned false, unless it is reset before, whatever else the application does.
THEOREM RetriesFindConnection == FairSpec /\ []HandlesEnabled => RetryFindsConnection
<1> SUFFICES ASSUME NEW h \in Tcp
             PROVE  FairSpec /\ []HandlesEnabled
                      => (opened[h] = "yes" /\ SockOf(h).link = "established"
                            ~> client_count[h] > 0 \/ SockOf(h).link = "refused" \/ Over(h))
  BY DEF RetryFindsConnection
<1> DEFINE Any == IInv /\ [Next]_vars
           Counting == Doing(h, {"count"})
           WasReset == SockOf(h).link = "refused"
<1>1. /\ Any /\ Behind(h) /\ Unseen(h) => Behind(h)' \/ Counting' \/ WasReset'
      /\ Any /\ Behind(h) /\ Unseen(h) /\ <<ConnectTcp(h)>>_vars => Counting'
      /\ Any /\ Behind(h) /\ Unseen(h) /\ Returned => ConnectCanStep(h)
  BY BehindGoesOn
<1>2. /\ Any /\ Counting => Counting' \/ ~Unseen(h)'
      /\ Any /\ Counting /\ <<Continue>>_vars => ~Unseen(h)'
      /\ Any /\ Counting => ContinueCanStep
  BY StoreCounts
<1>3. /\ Behind(h) <=> opened[h] = "yes" /\ SockOf(h).link = "established"
      /\ IInv => (Unseen(h) <=> ~(client_count[h] > 0 \/ Over(h)))
  <2>1. IInv => client_count[h] \in 0..1
    BY ConstantsAssumption DEF IInv, TypeOK
  <2> QED
    BY <2>1 DEF Behind, Unseen
<1> HIDE DEF Counting, WasReset
<1>4. ConnectRuns(h) /\ []<>Returned
        => (Behind(h) => <>(Counting \/ WasReset \/ ~Unseen(h)))
  BY <1>1, PTL DEF ConnectRuns, Runs, ConnectEnabled
<1>5. ContinueRuns => (Counting => <>~Unseen(h))
  BY <1>2, PTL DEF ContinueRuns, Runs, ContinueEnabled
<1>6. CallsRun => ContinueRuns /\ []IInv
  BY PTL DEF CallsRun, Runs
<1>7. FairSpec /\ []HandlesEnabled => (Behind(h) ~> WasReset \/ ~Unseen(h))
  BY <1>4, <1>5, <1>6, SpecCallsRun, SpecConnectRuns, CallsReturn, PTL
<1>8. FairSpec => []IInv
  BY Invariant, PTL DEF FairSpec
<1> QED
  BY <1>3, <1>7, <1>8, PTL DEF WasReset
=============================================================================
