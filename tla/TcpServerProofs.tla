--------------------------- MODULE TcpServerProofs ---------------------------
(***************************************************************************)
(* Theorems about TcpServer, for every set of clients and table size.      *)
(***************************************************************************)
EXTENDS TcpServer, FiniteSetTheorems, TLAPS

-----------------------------------------------------------------------------
(* The inductive invariant. *)

\* The listening socket is open: connections can still come in.
Open == conn[1] = Listening

\* Indices stay within the table, and the mutex is held where a thread is about to
\* shift a slot that is in use.
LockInv ==
    /\ lpc \in {"recv", "callback", "drop", "shift"} => scan.i < scan.count
    /\ lpc \in {"recv", "callback"} => scan.fd \in Sockets
    /\ tpc \in {"send", "clear"} => job.i \in Slots
    /\ mtx = "listener" <=> lpc = "shift"
    /\ mtx = "app" <=> tpc = "shift"
    /\ mtx # "none" => Removing \in 1..(client_count - 1)

\* CommsClose closes the listening socket before any other.
OpenInv ==
    /\ \A f \in Sockets : conn[f] = Listening => f = 1
    /\ tpc \notin Closing => Open
    /\ Open => tpc \notin Closing \/ (tpc = "close" /\ job.i = 0)
    /\ apc = "insert" => cs \in Sockets \ {1}

\* A client has one socket, while it is connected.
PeerInv ==
    /\ \A f \in Sockets : conn[f] \in Peers => peer[conn[f]] \in {"connected", "left"}
    /\ \A f, g \in Sockets : conn[f] \in Peers /\ conn[f] = conn[g] => f = g

\* Whatever CommsClose has done to the table, a socket in it that is still open
\* leads to the client whose address stands beside it.
SlotInv ==
    /\ \A i \in 1..(client_count - 1) :
          i # Removing /\ table[i].fd \in Sockets
            => conn[table[i].fd] \in {table[i].addr, NoPeer}
    /\ \A i \in client_count..(MaxClients - 1) : table[i].fd \in {0, -1}

\* While the listening socket is open the table tells the truth and no socket is lost.
TableInv ==
    Open =>
        /\ table[0].fd = 1
        /\ \A i \in 1..(client_count - 1) :
              i # Removing => /\ table[i].fd \in Sockets
                              /\ table[i].addr \in Peers
                              /\ conn[table[i].fd] = table[i].addr
        /\ \A i \in client_count..(MaxClients - 1) : table[i] = EmptySlot
        /\ apc = "insert" => conn[cs] \in Peers
        /\ apc = "insert" => \A i \in 1..(client_count - 1) :
                                 i # Removing => table[i].fd # cs
        /\ \A i, j \in 1..(client_count - 1) :
              i # j /\ i # Removing /\ j # Removing => table[i].fd # table[j].fd
        /\ \A f \in Sockets :
              conn[f] \in Peers => \/ apc = "insert" /\ cs = f
                                   \/ \E i \in 1..(client_count - 1) :
                                         i # Removing /\ table[i].fd = f

\* What the listener knows of the client it serves stays true outside the mutex, as
\* long as the application removes neither that client's slot nor one before it.
ListenerInv ==
    lpc \in {"recv", "callback", "drop"} /\ ~stale =>
        /\ tpc = "shift" => scan.i < job.i
        /\ scan.fd \in Sockets
        /\ scan.i \in 1..(client_count - 1)
        /\ table[scan.i].fd \in {scan.fd, -1}
        /\ conn[scan.fd] \in {scan.addr, NoPeer}
        /\ Open => table[scan.i].fd = scan.fd /\ table[scan.i].addr = scan.addr
        /\ lpc = "callback" => scan.from = scan.addr
        /\ lpc = "drop" /\ Open => scan.addr \in Peers /\ peer[scan.addr] = "left"

\* The client that the listener is removing has been cut off, and its number is not
\* yet in another slot.
RemovalInv ==
    mtx = "listener" /\ Open =>
        /\ table[scan.i].addr \in Peers /\ peer[table[scan.i].addr] = "closed"
        /\ \A i \in 1..(client_count - 1) : i # scan.i => table[i].fd # table[scan.i].fd

\* The clients that a broadcast will still come to: those in the slots ahead of it, and
\* the one that a send under way goes to.
FirstAhead == IF tpc = "send" THEN job.i + 1 ELSE job.i
InSlotsAhead(p) == \E i \in FirstAhead..(client_count - 1) : table[i].addr = p
Ahead(p) == InSlotsAhead(p) \/ (tpc = "send" /\ p = ConnectedTo(job.fd))

\* Those that have slipped past it, each because of a removal before.
Missed == {p \in present : peer[p] # "closed" /\ reached[p] = 0 /\ ~Ahead(p)}
Pending == IF mtx = "listener" THEN 1 ELSE 0

\* A client in the table when the broadcast began stays in it until it is cut off, and
\* is reached or ahead, or one of as many as have been removed.
BroadcastInv ==
    tpc \in {"next", "send"} =>
        /\ job.i >= 1
        /\ \A p \in present :
              /\ peer[p] \in {"connected", "left", "closed"}
              /\ reached[p] <= 1
              /\ peer[p] # "closed" =>
                    \E i \in 1..(client_count - 1) : i # Removing /\ table[i].addr = p
              /\ peer[p] # "closed" /\ Ahead(p) => reached[p] = 0
              /\ tpc = "send" /\ p = ConnectedTo(job.fd) => ~InSlotsAhead(p)
        /\ IsFiniteSet(Missed)
        /\ Cardinality(Missed) + Pending <= removed

IInv == /\ TypeOK /\ LockInv /\ OpenInv /\ PeerInv /\ SlotInv
        /\ TableInv /\ ListenerInv /\ RemovalInv /\ BroadcastInv

-----------------------------------------------------------------------------
(* Lemmas about the helpers. *)

\* The constants, as the proofs use them.
LEMMA Sizes ==
  /\ MaxClients \in Nat /\ MaxClients >= 2
  /\ Slots = 0..(MaxClients - 1) /\ 0 \in Slots
  /\ Sockets = 1..(MaxClients + 1) /\ 1 \in Sockets
  /\ 0 \notin Sockets /\ -1 \notin Sockets
  /\ EmptySlot \in Slot /\ ClearedSlot \in Slot
  BY ConstantsAssumption DEF Slots, Sockets, EmptySlot, ClearedSlot, Slot

\* Closing a socket keeps the kernel's state well formed.
LEMMA CloseSocketType ==
  ASSUME TypeOK, NEW f, CloseSocket(f)
  PROVE  /\ conn' \in [Sockets -> Peers \cup {NoPeer, Listening}]
         /\ peer' \in [Peers -> {"away", "waiting", "connected", "left", "closed"}]
         /\ inbox' = inbox
  BY DEF CloseSocket, TypeOK, KernelType

\* What CloseSocket does, socket by socket and client by client.
LEMMA Closes ==
  ASSUME NEW f, CloseSocket(f)
  PROVE  /\ \A g \in Sockets : conn'[g] = IF g = f THEN NoPeer ELSE conn[g]
         /\ \A p \in Peers : peer'[p] = IF ConnectedTo(f) = p THEN "closed" ELSE peer[p]
         /\ inbox' = inbox
  BY DEF CloseSocket

\* A socket in the table that CommsDisconnect closes is neither the listening socket
\* nor without a client, while connections can still come in.
LEMMA ClosesAClient ==
  ASSUME TypeOK, TableInv, Open, mtx = "none", NEW cid, ValidCid(cid), cid \in Nat
  PROVE  /\ table[cid].fd \in Sockets /\ table[cid].fd # 1
         /\ table[cid].addr \in Peers /\ conn[table[cid].fd] = table[cid].addr
<1>1. cid \in 1..(client_count - 1) /\ Removing = 0
  BY Sizes DEF ValidCid, Removing, TypeOK, TableType
<1>2. /\ table[cid].fd \in Sockets /\ table[cid].addr \in Peers
      /\ conn[table[cid].fd] = table[cid].addr
  BY <1>1 DEF TableInv
<1> QED
  BY <1>2, ConstantsAssumption DEF Open

\* The table stays a table when it is compacted.
LEMMA CompactedType ==
  ASSUME TypeOK, NEW cid \in 1..(client_count - 1)
  PROVE  Compacted(cid) \in [Slots -> Slot]
<1>1. \A i \in Slots : i < client_count - 1 => i + 1 \in Slots
  BY Sizes DEF TypeOK, TableType
<1>2. \A i \in Slots : table[i] \in Slot
  BY DEF TypeOK, TableType
<1>3. \A i \in Slots : i >= cid /\ i < client_count - 1 => table[i + 1] \in Slot
  BY <1>1, <1>2
<1> DEFINE entry(i) == CASE i >= cid /\ i < client_count - 1 -> table[i + 1]
                         [] i = client_count - 1 -> EmptySlot
                         [] OTHER -> table[i]
<1>4. ASSUME NEW i \in Slots PROVE entry(i) \in Slot
  <2>1. CASE i >= cid /\ i < client_count - 1
    <3>1. entry(i) = table[i + 1]
      BY <2>1, Sizes DEF TypeOK, TableType
    <3> QED
      BY <3>1, <2>1, <1>3
  <2>2. CASE i = client_count - 1
    <3>1. entry(i) = EmptySlot
      BY <2>2, Sizes DEF TypeOK, TableType
    <3> QED
      BY <3>1, Sizes
  <2>3. CASE ~(i >= cid /\ i < client_count - 1) /\ i # client_count - 1
    <3>1. entry(i) = table[i]
      BY <2>3, Sizes DEF TypeOK, TableType
    <3> QED
      BY <3>1, <1>2
  <2> QED
    BY <2>1, <2>2, <2>3
<1>5. Compacted(cid) = [i \in Slots |-> entry(i)]
  BY DEF Compacted
<1> QED
  BY <1>4, <1>5

\* Going on to the next slot keeps the listener's variables well typed.
LEMMA NextSlotType ==
  ASSUME TypeOK, scan.i < scan.count, NextSlot
  PROVE  ListenerType'
<1>1. /\ scan.i \in 1..MaxClients /\ scan.count \in 1..MaxClients
  BY DEF TypeOK, ListenerType, Scan
<1>2. scan.i + 1 \in 1..MaxClients
  BY <1>1, Sizes
<1>3. scan' = [i |-> scan.i + 1, count |-> scan.count, fd |-> 0, addr |-> NoPeer, from |-> NoPeer]
  BY DEF NextSlot, NoScan
<1>4. scan' \in Scan
  BY <1>1, <1>2, <1>3 DEF Scan
<1>5. lpc' = "slot"
  BY DEF NextSlot
<1>6. stale' \in BOOLEAN
  BY DEF NextSlot
<1> QED
  BY <1>4, <1>5, <1>6 DEF ListenerType

\* So does shifting the table below a slot in use.
LEMMA ShiftType ==
  ASSUME TypeOK, NEW t, NEW cid \in 1..(client_count - 1), DisconnectShifts(t, cid)
  PROVE  TableType'
<1>1. client_count - 1 \in 1..MaxClients
  BY Sizes DEF TypeOK, TableType
<1> QED
  BY <1>1, CompactedType DEF DisconnectShifts, TypeOK, TableType

-----------------------------------------------------------------------------
(* Types. *)

\* Every step keeps the types.
LEMMA TypeStep ==
  ASSUME TypeOK, LockInv, OpenInv, [Next]_vars
  PROVE  TypeOK'
<1>0. TableType /\ KernelType /\ ListenerType /\ AccepterType /\ CallerType /\ BroadcastType
  BY DEF TypeOK
<1>1. CASE ScanStart
  <2>1. TableType' /\ KernelType' /\ AccepterType' /\ CallerType' /\ BroadcastType'
    BY <1>0, <1>1 DEF ScanStart, TableType, KernelType, kernel, AccepterType, accepter,
       CallerType, caller, BroadcastType, broadcast
  <2>2. ListenerType'
    BY <1>0, <1>1, Sizes DEF ScanStart, ListenerType, TableType, NoScan, Scan
  <2> QED
    BY <2>1, <2>2 DEF TypeOK
<1>2. CASE ReadSlot
  <2>1. TableType' /\ KernelType' /\ AccepterType' /\ CallerType' /\ BroadcastType'
    BY <1>0, <1>2 DEF ReadSlot, TableType, KernelType, kernel, AccepterType, accepter,
       CallerType, caller, BroadcastType, broadcast
  <2>2. ListenerType'
    <3>1. CASE lpc' = "top"
      BY <1>0, <1>2, <3>1, Sizes DEF ReadSlot, NextSlot, ListenerType, Scan, NoScan
    <3>2. CASE scan.i < scan.count /\ NextSlot
      BY <3>2, NextSlotType
    <3>3. CASE lpc' = "recv"
      <4>1. scan.i \in Slots
        BY <1>0, <1>2, <3>3, Sizes DEF ReadSlot, NextSlot, ListenerType, Scan
      <4>2. table[scan.i].fd \in Sockets \cup {-1, 0} /\ table[scan.i].addr \in Peers \cup {NoPeer}
        BY <1>0, <4>1 DEF TableType, Slot
      <4>3. scan' = [scan EXCEPT !.fd = table[scan.i].fd, !.addr = table[scan.i].addr]
        BY <1>2, <3>3 DEF ReadSlot, NextSlot
      <4>4. stale' \in BOOLEAN
        BY <1>0, <1>2, <3>3 DEF ReadSlot, NextSlot, ListenerType
      <4>5. scan' \in Scan
        BY <1>0, <4>2, <4>3 DEF ListenerType, Scan
      <4> QED
        BY <3>3, <4>4, <4>5 DEF ListenerType
    <3> QED
      BY <1>2, <3>1, <3>2, <3>3 DEF ReadSlot
  <2> QED
    BY <2>1, <2>2 DEF TypeOK
<1>3. CASE Receive
  <2>1. TableType' /\ AccepterType' /\ CallerType' /\ BroadcastType'
    BY <1>0, <1>3 DEF Receive, TableType, AccepterType, accepter, CallerType, caller,
       BroadcastType, broadcast
  <2>2. KernelType'
    BY <1>0, <1>3 DEF Receive, KernelType, ListenerType
  <2>3. ListenerType'
    <3>1. CASE NextSlot
      BY <1>3, <3>1, NextSlotType DEF Receive, LockInv
    <3>2. CASE lpc' = "callback"
      <4>1. PICK from \in Peers : scan' = [scan EXCEPT !.from = from]
        BY <1>3, <3>2 DEF Receive, NextSlot
      <4>2. stale' \in BOOLEAN
        BY <1>0, <1>3, <3>2 DEF Receive, NextSlot, ListenerType
      <4>3. scan' \in Scan
        BY <1>0, <4>1 DEF ListenerType, Scan
      <4> QED
        BY <3>2, <4>2, <4>3 DEF ListenerType
    <3>3. CASE lpc' = "drop" /\ scan' = scan /\ stale' = stale
      BY <1>0, <3>3 DEF ListenerType
    <3> QED
      BY <1>3, <3>1, <3>2, <3>3 DEF Receive
  <2> QED
    BY <2>1, <2>2, <2>3 DEF TypeOK
<1>4. CASE Callback
  <2>1. TableType' /\ KernelType' /\ AccepterType' /\ CallerType' /\ BroadcastType'
    BY <1>0, <1>4 DEF Callback, TableType, KernelType, kernel, AccepterType, accepter,
       CallerType, caller, BroadcastType, broadcast
  <2>2. ListenerType'
    BY <1>4, NextSlotType DEF Callback, LockInv
  <2> QED
    BY <2>1, <2>2 DEF TypeOK
<1>5. CASE Drop
  <2>1. AccepterType' /\ CallerType'
    BY <1>0, <1>5 DEF Drop, DisconnectCloses, DisconnectRefused, AccepterType, accepter,
       CallerType, caller
  <2>2. TableType'
    BY <1>0, <1>5 DEF Drop, TableType, DisconnectCloses, DisconnectRefused
  <2>3. KernelType'
    BY <1>0, <1>5, CloseSocketType DEF Drop, KernelType, DisconnectCloses, DisconnectRefused, kernel
  <2>4. ListenerType'
    <3>1. CASE NextSlot
      BY <1>5, <3>1, NextSlotType DEF Drop, LockInv
    <3>2. CASE lpc' = "shift" /\ scan' = scan /\ stale' = stale
      BY <1>0, <3>2 DEF ListenerType
    <3> QED
      BY <1>5, <3>1, <3>2 DEF Drop
  <2>5. BroadcastType'
    BY <1>0, <1>5 DEF Drop, BroadcastType, DisconnectCloses, DisconnectRefused, broadcast
  <2> QED
    BY <2>1, <2>2, <2>3, <2>4, <2>5 DEF TypeOK
<1>6. CASE DropShifts
  <2>1. KernelType' /\ AccepterType' /\ CallerType' /\ BroadcastType'
    BY <1>0, <1>6 DEF DropShifts, DisconnectShifts, KernelType, kernel, AccepterType, accepter,
       CallerType, caller, BroadcastType, broadcast
  <2>2. TableType'
    <3>1. scan.i \in 1..(client_count - 1)
      BY <1>6 DEF DropShifts, DisconnectShifts, LockInv, Removing
    <3> QED
      BY <1>6, <3>1, ShiftType DEF DropShifts
  <2>3. ListenerType'
    BY <1>6, NextSlotType DEF DropShifts, LockInv
  <2> QED
    BY <2>1, <2>2, <2>3 DEF TypeOK
<1>7. CASE Accept
  <2>1. TableType' /\ ListenerType' /\ CallerType' /\ BroadcastType'
    BY <1>0, <1>7 DEF Accept, TableType, ListenerType, listener, CallerType, caller,
       BroadcastType, broadcast
  <2>2. KernelType'
    BY <1>0, <1>7 DEF Accept, KernelType, listener
  <2>3. AccepterType'
    BY <1>0, <1>7 DEF Accept, AccepterType
  <2> QED
    BY <2>1, <2>2, <2>3 DEF TypeOK
<1>8. CASE TurnAway
  <2>1. TableType' /\ ListenerType' /\ CallerType' /\ BroadcastType'
    BY <1>0, <1>8 DEF TurnAway, TableType, ListenerType, listener, CallerType, caller,
       BroadcastType, broadcast
  <2>2. KernelType'
    BY <1>0, <1>8, CloseSocketType DEF TurnAway, KernelType
  <2>3. AccepterType'
    BY <1>0, <1>8 DEF TurnAway, AccepterType
  <2> QED
    BY <2>1, <2>2, <2>3 DEF TypeOK
<1>9. CASE Insert
  <2>1. KernelType' /\ ListenerType' /\ CallerType' /\ BroadcastType'
    BY <1>0, <1>9 DEF Insert, KernelType, kernel, ListenerType, listener, CallerType, caller,
       BroadcastType, broadcast
  <2>2. TableType'
    BY <1>0, <1>9, Sizes DEF Insert, TableType, OpenInv, KernelType, Slot
  <2>3. AccepterType'
    BY <1>0, <1>9 DEF Insert, AccepterType
  <2> QED
    BY <2>1, <2>2, <2>3 DEF TypeOK
<1>10. CASE AccepterStops
  <2>1. TableType' /\ KernelType' /\ ListenerType' /\ CallerType' /\ BroadcastType'
    BY <1>0, <1>10 DEF AccepterStops, TableType, KernelType, kernel, ListenerType, listener,
       CallerType, caller, BroadcastType, broadcast
  <2>2. AccepterType'
    BY <1>0, <1>10 DEF AccepterStops, AccepterType
  <2> QED
    BY <2>1, <2>2 DEF TypeOK
<1>11. CASE BroadcastStart
  <2>1. TableType' /\ KernelType' /\ ListenerType' /\ AccepterType'
    BY <1>0, <1>11 DEF BroadcastStart, TableType, KernelType, kernel, ListenerType, listener,
       AccepterType, accepter
  <2>2. CallerType'
    BY <1>0, <1>11, Sizes DEF BroadcastStart, CallerType, NoJob
  <2>3. BroadcastType'
    <3>1. \A i \in 1..(client_count - 1) : table[i].addr \in Peers \cup {NoPeer}
      BY <1>0, Sizes DEF TableType, Slot
    <3>2. InTable \ {NoPeer} \subseteq Peers
      BY <3>1 DEF InTable
    <3> QED
      BY <1>11, <3>2 DEF BroadcastStart, BroadcastType
  <2> QED
    BY <2>1, <2>2, <2>3 DEF TypeOK
<1>12. CASE BroadcastNext
  <2>1. TableType' /\ KernelType' /\ ListenerType' /\ AccepterType' /\ BroadcastType'
    BY <1>0, <1>12 DEF BroadcastNext, TableType, KernelType, kernel, ListenerType, listener,
       AccepterType, accepter, BroadcastType, broadcast
  <2>2. CallerType'
    <3>1. job.i \in 0..MaxClients /\ job.i \in Slots
      BY <1>0, <1>12, Sizes DEF BroadcastNext, CallerType, TableType
    <3>2. table[job.i].fd \in Sockets \cup {-1, 0}
      BY <1>0, <3>1 DEF TableType, Slot
    <3> QED
      BY <1>0, <1>12, <3>2 DEF BroadcastNext, CallerType
  <2> QED
    BY <2>1, <2>2 DEF TypeOK
<1>13. CASE BroadcastSend
  <2>1. TableType' /\ KernelType' /\ ListenerType' /\ AccepterType'
    BY <1>0, <1>13 DEF BroadcastSend, TableType, KernelType, kernel, ListenerType, listener,
       AccepterType, accepter
  <2>2. CallerType'
    BY <1>0, <1>13, Sizes DEF BroadcastSend, CallerType, BroadcastOver, LockInv, NoJob
  <2>3. BroadcastType'
    <3>1. CASE BroadcastOver
      BY <3>1 DEF BroadcastOver, BroadcastType
    <3>2. CASE \E to \in Peers : reached' = [reached EXCEPT ![to] = IF @ < 2 THEN @ + 1 ELSE @]
      <4>1. PICK to \in Peers : reached' = [reached EXCEPT ![to] = IF @ < 2 THEN @ + 1 ELSE @]
        BY <3>2
      <4>2. reached[to] \in 0..2
        BY <1>0 DEF BroadcastType
      <4>3. (IF reached[to] < 2 THEN reached[to] + 1 ELSE reached[to]) \in 0..2
        BY <4>2
      <4>4. reached' \in [Peers -> 0..2]
        BY <1>0, <4>1, <4>3 DEF BroadcastType
      <4>5. BroadcastOver \/ UNCHANGED <<present, removed>>
        BY <1>13 DEF BroadcastSend
      <4> QED
        BY <1>0, <4>4, <4>5 DEF BroadcastOver, BroadcastType
    <3> QED
      BY <1>13, <3>1, <3>2 DEF BroadcastSend
  <2> QED
    BY <2>1, <2>2, <2>3 DEF TypeOK
<1>14. CASE BroadcastDone
  <2>1. TableType' /\ KernelType' /\ ListenerType' /\ AccepterType'
    BY <1>0, <1>14 DEF BroadcastDone, TableType, KernelType, kernel, ListenerType, listener,
       AccepterType, accepter
  <2>2. CallerType'
    BY <1>0, <1>14, Sizes DEF BroadcastDone, CallerType, BroadcastOver, NoJob
  <2>3. BroadcastType'
    BY <1>0, <1>14 DEF BroadcastDone, BroadcastType, BroadcastOver
  <2> QED
    BY <2>1, <2>2, <2>3 DEF TypeOK
<1>15. CASE AppDisconnect
  <2>1. ListenerType' /\ AccepterType'
    BY <1>0, <1>15 DEF AppDisconnect, DisconnectCloses, ListenerType, listener, AccepterType,
       accepter
  <2>2. TableType'
    BY <1>0, <1>15 DEF AppDisconnect, TableType, DisconnectCloses
  <2>3. KernelType'
    BY <1>0, <1>15, CloseSocketType DEF AppDisconnect, KernelType, DisconnectCloses
  <2>4. CallerType'
    BY <1>0, <1>15, Sizes DEF AppDisconnect, CallerType
  <2>5. BroadcastType'
    BY <1>0, <1>15 DEF AppDisconnect, BroadcastType, DisconnectCloses
  <2> QED
    BY <2>1, <2>2, <2>3, <2>4, <2>5 DEF TypeOK
<1>16. CASE AppShifts
  <2>1. KernelType' /\ ListenerType' /\ AccepterType' /\ BroadcastType'
    BY <1>0, <1>16 DEF AppShifts, DisconnectShifts, KernelType, kernel, ListenerType, listener,
       AccepterType, accepter, BroadcastType, broadcast
  <2>2. TableType'
    <3>1. job.i \in 1..(client_count - 1)
      BY <1>16 DEF AppShifts, DisconnectShifts, LockInv, Removing
    <3> QED
      BY <1>16, <3>1, ShiftType DEF AppShifts
  <2>3. CallerType'
    BY <1>0, <1>16, Sizes DEF AppShifts, CallerType, NoJob
  <2> QED
    BY <2>1, <2>2, <2>3 DEF TypeOK
<1>17. CASE CloseStart
  <2>1. TableType' /\ KernelType' /\ ListenerType' /\ AccepterType' /\ BroadcastType'
    BY <1>0, <1>17 DEF CloseStart, TableType, KernelType, kernel, ListenerType, listener,
       AccepterType, accepter, BroadcastType, broadcast
  <2>2. CallerType'
    BY <1>0, <1>17, Sizes DEF CloseStart, CallerType, NoJob, Closing
  <2> QED
    BY <2>1, <2>2 DEF TypeOK
<1>18. CASE CloseSlot
  <2>1. TableType' /\ ListenerType' /\ AccepterType' /\ BroadcastType'
    BY <1>0, <1>18 DEF CloseSlot, TableType, ListenerType, listener, AccepterType, accepter,
       BroadcastType, broadcast
  <2>2. KernelType'
    BY <1>0, <1>18, CloseSocketType DEF CloseSlot, KernelType, kernel
  <2>3. CallerType'
    <3>1. job.i \in 0..MaxClients /\ job.i + 1 \in 0..MaxClients
      BY <1>0, <1>18, Sizes DEF CloseSlot, CallerType, TableType
    <3>2. job' = job \/ job' = [job EXCEPT !.i = @ + 1]
      BY <1>18 DEF CloseSlot
    <3> QED
      BY <1>0, <1>18, <3>1, <3>2 DEF CloseSlot, CallerType, Closing
  <2> QED
    BY <2>1, <2>2, <2>3 DEF TypeOK
<1>19. CASE CloseClears
  <2>1. KernelType' /\ ListenerType' /\ AccepterType' /\ BroadcastType'
    BY <1>0, <1>19 DEF CloseClears, KernelType, kernel, ListenerType, listener, AccepterType,
       accepter, BroadcastType, broadcast
  <2>2. TableType'
    BY <1>0, <1>19, Sizes DEF CloseClears, TableType, Slot, ClearedSlot
  <2>3. CallerType'
    <3>1. job.i + 1 \in 0..MaxClients
      BY <1>19, Sizes DEF CloseClears, LockInv
    <3> QED
      BY <1>0, <1>19, <3>1 DEF CloseClears, CallerType, Closing
  <2> QED
    BY <2>1, <2>2, <2>3 DEF TypeOK
<1>20. CASE CloseStops
  <2>1. KernelType' /\ ListenerType' /\ AccepterType' /\ BroadcastType'
    BY <1>0, <1>20 DEF CloseStops, KernelType, kernel, ListenerType, listener, AccepterType,
       accepter, BroadcastType, broadcast
  <2>2. TableType'
    BY <1>0, <1>20 DEF CloseStops, TableType
  <2>3. CallerType'
    BY <1>0, <1>20, Sizes DEF CloseStops, CallerType, NoJob, Closing
  <2> QED
    BY <2>1, <2>2, <2>3 DEF TypeOK
<1>21. CASE Join
  <2>1. TableType' /\ KernelType' /\ ListenerType' /\ AccepterType' /\ BroadcastType'
    BY <1>0, <1>21 DEF Join, TableType, KernelType, kernel, ListenerType, listener,
       AccepterType, accepter, BroadcastType, broadcast
  <2>2. CallerType'
    BY <1>0, <1>21 DEF Join, CallerType, Closing
  <2> QED
    BY <2>1, <2>2 DEF TypeOK
<1>22. CASE \E p \in Peers : Connect(p) \/ Send(p) \/ HangUp(p)
  <2>1. KernelType'
    BY <1>0, <1>22 DEF Connect, Send, HangUp, Server, KernelType
  <2>2. TableType' /\ ListenerType' /\ AccepterType' /\ CallerType' /\ BroadcastType'
    BY <1>0, <1>22 DEF Connect, Send, HangUp, Server, TableType, ListenerType, AccepterType,
       CallerType, BroadcastType, listener, accepter, caller, broadcast
  <2> QED
    BY <2>1, <2>2 DEF TypeOK
<1>23. CASE UNCHANGED vars
  BY <1>0, <1>23 DEF vars, TableType, KernelType, ListenerType, AccepterType, CallerType,
     BroadcastType, TypeOK
<1> QED
  BY <1>1, <1>2, <1>3, <1>4, <1>5, <1>6, <1>7, <1>8, <1>9, <1>10, <1>11, <1>12, <1>13, <1>14,
     <1>15, <1>16, <1>17, <1>18, <1>19, <1>20, <1>21, <1>22, <1>23 DEF Next, Listener, Accepter,
     Application, Continue

\* Indices stay in the table and the mutex is held where it should be.
LEMMA LockStep ==
  ASSUME TypeOK, TypeOK', LockInv, [Next]_vars
  PROVE  LockInv'
<1>1. CASE ScanStart
  BY <1>1, Sizes DEF ScanStart, NoScan, kernel, listener, accepter, caller, broadcast, LockInv,
     Removing, TypeOK, TableType, ListenerType, CallerType, Scan
<1>2. CASE ReadSlot
  <2>1. CASE lpc' = "recv"
    <3>1. scan.i \in Slots /\ table[scan.i].fd > 0
      BY <1>2, <2>1, Sizes DEF ReadSlot, NextSlot, TypeOK, ListenerType, Scan
    <3>2. table[scan.i].fd \in Sockets \cup {-1, 0}
      BY <3>1 DEF TypeOK, TableType, Slot
    <3>3. table[scan.i].fd \in Sockets
      BY <3>1, <3>2
    <3>4. scan'.fd = table[scan.i].fd /\ scan'.i = scan.i /\ scan'.count = scan.count
      BY <1>2, <2>1 DEF ReadSlot, NextSlot, TypeOK, ListenerType, Scan
    <3> QED
      BY <1>2, <2>1, <3>3, <3>4 DEF ReadSlot, NextSlot, LockInv, Removing, caller
  <2>2. CASE lpc' \in {"slot", "top"}
    BY <1>2, <2>2 DEF ReadSlot, NextSlot, LockInv, Removing, caller
  <2> QED
    BY <1>2, <2>1, <2>2 DEF ReadSlot, NextSlot
<1>3. CASE Receive
  BY <1>3, Sizes DEF Receive, NextSlot, NoScan, kernel, listener, accepter, caller, broadcast,
     LockInv, Removing, TypeOK, TableType, ListenerType, CallerType, Scan
<1>4. CASE Callback
  BY <1>4, Sizes DEF Callback, NextSlot, NoScan, kernel, listener, accepter, caller, broadcast,
     LockInv, Removing, TypeOK, TableType, ListenerType, CallerType, Scan
<1>5. CASE Drop
  <2>1. CASE DisconnectCloses("listener", scan.i) /\ lpc' = "shift" /\ UNCHANGED <<scan, stale>>
    <3>1. scan.i \in 1..(client_count - 1)
      BY <2>1, Sizes DEF DisconnectCloses, ValidCid, TypeOK, ListenerType, TableType, Scan
    <3> QED
      BY <1>5, <2>1, <3>1 DEF Drop, DisconnectCloses, LockInv, Removing, caller
  <2>2. CASE DisconnectRefused(scan.i) /\ NextSlot
    BY <1>5, <2>2 DEF Drop, DisconnectRefused, NextSlot, LockInv, Removing, caller
  <2> QED
    BY <1>5, <2>1, <2>2 DEF Drop
<1>6. CASE DropShifts
  BY <1>6, Sizes DEF DropShifts, DisconnectShifts, NextSlot, NoScan, kernel, listener, accepter,
     caller, broadcast, LockInv, Removing, TypeOK, TableType, ListenerType, CallerType, Scan
<1>7. CASE Accept
  BY <1>7, Sizes DEF Accept, kernel, listener, accepter, caller, broadcast, LockInv, Removing,
     TypeOK, TableType, ListenerType, CallerType, Scan
<1>8. CASE TurnAway
  BY <1>8, Sizes DEF TurnAway, kernel, listener, accepter, caller, broadcast, LockInv, Removing,
     TypeOK, TableType, ListenerType, CallerType, Scan
<1>9. CASE Insert
  BY <1>9, Sizes DEF Insert, kernel, listener, accepter, caller, broadcast, LockInv, Removing,
     TypeOK, TableType, ListenerType, CallerType, Scan
<1>10. CASE AccepterStops
  BY <1>10, Sizes DEF AccepterStops, kernel, listener, accepter, caller, broadcast, LockInv,
     Removing, TypeOK, TableType, ListenerType, CallerType, Scan
<1>11. CASE BroadcastStart
  BY <1>11, Sizes DEF BroadcastStart, NoJob, kernel, listener, accepter, caller, broadcast,
     LockInv, Removing, TypeOK, TableType, ListenerType, CallerType, Scan
<1>12. CASE BroadcastNext
  BY <1>12, Sizes DEF BroadcastNext, kernel, listener, accepter, caller, broadcast, LockInv,
     Removing, TypeOK, TableType, ListenerType, CallerType, Scan
<1>13. CASE BroadcastSend
  BY <1>13, Sizes DEF BroadcastSend, BroadcastOver, NoJob, kernel, listener, accepter, caller,
     broadcast, LockInv, Removing, TypeOK, TableType, ListenerType, CallerType, Scan
<1>14. CASE BroadcastDone
  BY <1>14, Sizes DEF BroadcastDone, BroadcastOver, NoJob, kernel, listener, accepter, caller,
     broadcast, LockInv, Removing, TypeOK, TableType, ListenerType, CallerType, Scan
<1>15. CASE AppDisconnect
  <2>1. PICK cid \in 1..(MaxClients - 1) :
           DisconnectCloses("app", cid) /\ job' = [i |-> cid, fd |-> 0]
    BY <1>15 DEF AppDisconnect
  <2>2. cid \in 1..(client_count - 1)
    BY <2>1, Sizes DEF DisconnectCloses, ValidCid, TypeOK, TableType
  <2> QED
    BY <1>15, <2>1, <2>2 DEF AppDisconnect, DisconnectCloses, LockInv, Removing, listener
<1>16. CASE AppShifts
  BY <1>16, Sizes DEF AppShifts, DisconnectShifts, NoJob, kernel, listener, accepter, caller,
     broadcast, LockInv, Removing, TypeOK, TableType, ListenerType, CallerType, Scan
<1>17. CASE CloseStart
  BY <1>17, Sizes DEF CloseStart, NoJob, kernel, listener, accepter, caller, broadcast, LockInv,
     Removing, TypeOK, TableType, ListenerType, CallerType, Scan
<1>18. CASE CloseSlot
  BY <1>18, Sizes DEF CloseSlot, kernel, listener, accepter, caller, broadcast, LockInv,
     Removing, TypeOK, TableType, ListenerType, CallerType, Scan
<1>19. CASE CloseClears
  BY <1>19, Sizes DEF CloseClears, kernel, listener, accepter, caller, broadcast, LockInv,
     Removing, TypeOK, TableType, ListenerType, CallerType, Scan
<1>20. CASE CloseStops
  BY <1>20, Sizes DEF CloseStops, NoJob, kernel, listener, accepter, caller, broadcast, LockInv,
     Removing, TypeOK, TableType, ListenerType, CallerType, Scan
<1>21. CASE Join
  BY <1>21, Sizes DEF Join, kernel, listener, accepter, caller, broadcast, LockInv, Removing,
     TypeOK, TableType, ListenerType, CallerType, Scan
<1>22. CASE \E p \in Peers : Connect(p) \/ Send(p) \/ HangUp(p)
  BY <1>22 DEF Connect, Send, HangUp, Server, kernel, listener, accepter, caller, broadcast,
     LockInv, Removing
<1>23. CASE UNCHANGED vars
  BY <1>23 DEF vars, LockInv, Removing
<1> QED
  BY <1>1, <1>2, <1>3, <1>4, <1>5, <1>6, <1>7, <1>8, <1>9, <1>10, <1>11, <1>12, <1>13, <1>14,
     <1>15, <1>16, <1>17, <1>18, <1>19, <1>20, <1>21, <1>22, <1>23 DEF Next, Listener, Accepter,
     Application, Continue

\* CommsClose closes the listening socket first.
LEMMA OpenStep ==
  ASSUME TypeOK, TypeOK', LockInv, OpenInv, TableInv, [Next]_vars
  PROVE  OpenInv'
<1>1. CASE ScanStart
  BY <1>1, Sizes DEF ScanStart, NoScan, kernel, listener, accepter, caller, broadcast, OpenInv,
     Open, TypeOK, KernelType, AccepterType, CallerType, Closing
<1>2. CASE ReadSlot
  BY <1>2, Sizes DEF ReadSlot, NextSlot, NoScan, kernel, listener, accepter, caller, broadcast,
     OpenInv, Open, TypeOK, KernelType, AccepterType, CallerType, Closing
<1>3. CASE Receive
  BY <1>3, Sizes DEF Receive, NextSlot, NoScan, kernel, listener, accepter, caller, broadcast,
     OpenInv, Open, TypeOK, KernelType, AccepterType, CallerType, Closing
<1>4. CASE Callback
  BY <1>4, Sizes DEF Callback, NextSlot, NoScan, kernel, listener, accepter, caller, broadcast,
     OpenInv, Open, TypeOK, KernelType, AccepterType, CallerType, Closing
<1>5. CASE Drop
  <2>1. CASE DisconnectCloses("listener", scan.i)
    <3>1. \A g \in Sockets : conn'[g] = IF g = table[scan.i].fd THEN NoPeer ELSE conn[g]
      BY <2>1, Closes DEF DisconnectCloses
    <3>2. Open => table[scan.i].fd # 1
      BY <2>1, ClosesAClient DEF DisconnectCloses, TypeOK, ListenerType, Scan
    <3> QED
      BY <1>5, <3>1, <3>2, ConstantsAssumption, Sizes DEF Drop, OpenInv, Open, accepter, caller
  <2>2. CASE DisconnectRefused(scan.i)
    BY <1>5, <2>2 DEF Drop, DisconnectRefused, OpenInv, Open, kernel, accepter, caller
  <2> QED
    BY <1>5, <2>1, <2>2 DEF Drop
<1>6. CASE DropShifts
  BY <1>6, Sizes DEF DropShifts, DisconnectShifts, NextSlot, NoScan, kernel, listener, accepter,
     caller, broadcast, OpenInv, Open, TypeOK, KernelType, AccepterType, CallerType, Closing
<1>7. CASE Accept
  <2>1. Open
    BY <1>7, ConstantsAssumption DEF Accept, ConnectedTo, OpenInv, Open
  <2>2. PICK p \in Peers, f \in Sockets :
          conn[f] = NoPeer /\ conn' = [conn EXCEPT ![f] = p] /\ cs' = f
    BY <1>7 DEF Accept
  <2>3. f # 1
    BY <2>1, <2>2, ConstantsAssumption DEF Open
  <2>4. \A g \in Sockets : conn'[g] = IF g = f THEN p ELSE conn[g]
    BY <2>2 DEF TypeOK, KernelType
  <2> QED
    BY <1>7, <2>2, <2>3, <2>4, ConstantsAssumption, Sizes DEF Accept, OpenInv, Open, caller
<1>8. CASE TurnAway
  <2>1. \A g \in Sockets : conn'[g] = IF g = cs THEN NoPeer ELSE conn[g]
    BY <1>8, Closes DEF TurnAway
  <2>2. cs # 1
    BY <1>8 DEF TurnAway, OpenInv
  <2> QED
    BY <1>8, <2>1, <2>2, ConstantsAssumption, Sizes DEF TurnAway, OpenInv, Open, caller
<1>9. CASE Insert
  BY <1>9, Sizes DEF Insert, kernel, listener, accepter, caller, broadcast, OpenInv, Open,
     TypeOK, KernelType, AccepterType, CallerType, Closing
<1>10. CASE AccepterStops
  BY <1>10, Sizes DEF AccepterStops, kernel, listener, accepter, caller, broadcast, OpenInv,
     Open, TypeOK, KernelType, AccepterType, CallerType, Closing
<1>11. CASE BroadcastStart
  BY <1>11, Sizes DEF BroadcastStart, NoJob, kernel, listener, accepter, caller, broadcast,
     OpenInv, Open, TypeOK, KernelType, AccepterType, CallerType, Closing
<1>12. CASE BroadcastNext
  BY <1>12, Sizes DEF BroadcastNext, kernel, listener, accepter, caller, broadcast, OpenInv,
     Open, TypeOK, KernelType, AccepterType, CallerType, Closing
<1>13. CASE BroadcastSend
  BY <1>13, Sizes DEF BroadcastSend, BroadcastOver, NoJob, kernel, listener, accepter, caller,
     broadcast, OpenInv, Open, TypeOK, KernelType, AccepterType, CallerType, Closing
<1>14. CASE BroadcastDone
  BY <1>14, Sizes DEF BroadcastDone, BroadcastOver, NoJob, kernel, listener, accepter, caller,
     broadcast, OpenInv, Open, TypeOK, KernelType, AccepterType, CallerType, Closing
<1>15. CASE AppDisconnect
  <2>1. PICK cid \in 1..(MaxClients - 1) : DisconnectCloses("app", cid)
    BY <1>15 DEF AppDisconnect
  <2>2. \A g \in Sockets : conn'[g] = IF g = table[cid].fd THEN NoPeer ELSE conn[g]
    BY <2>1, Closes DEF DisconnectCloses
  <2>3. Open /\ tpc' \notin Closing
    BY <1>15 DEF AppDisconnect, OpenInv, Closing
  <2>4. table[cid].fd # 1
    BY <2>1, <2>3, ClosesAClient DEF DisconnectCloses
  <2> QED
    BY <1>15, <2>2, <2>3, <2>4, ConstantsAssumption, Sizes DEF AppDisconnect, OpenInv, Open,
       accepter
<1>16. CASE AppShifts
  BY <1>16, Sizes DEF AppShifts, DisconnectShifts, NoJob, kernel, listener, accepter, caller,
     broadcast, OpenInv, Open, TypeOK, KernelType, AccepterType, CallerType, Closing
<1>17. CASE CloseStart
  BY <1>17, Sizes DEF CloseStart, NoJob, kernel, listener, accepter, caller, broadcast, OpenInv,
     Open, TypeOK, KernelType, AccepterType, CallerType, Closing
<1>18. CASE CloseSlot
  <2>1. CASE table[job.i].fd > 0
    <3>1. \A g \in Sockets : conn'[g] = IF g = table[job.i].fd THEN NoPeer ELSE conn[g]
      BY <1>18, <2>1, Closes DEF CloseSlot
    <3>2. Open => job.i = 0 /\ table[job.i].fd = 1
      BY <1>18 DEF CloseSlot, OpenInv, TableInv, Closing
    <3>3. ~Open'
      BY <3>1, <3>2, ConstantsAssumption, Sizes DEF Open
    <3> QED
      BY <1>18, <2>1, <3>1, <3>3, ConstantsAssumption DEF CloseSlot, OpenInv, Closing, accepter
  <2>2. CASE ~(table[job.i].fd > 0)
    <3>1. ~Open
      BY <1>18, <2>2 DEF CloseSlot, OpenInv, TableInv, Closing
    <3> QED
      BY <1>18, <2>2, <3>1 DEF CloseSlot, OpenInv, Open, Closing, kernel, accepter
  <2> QED
    BY <2>1, <2>2
<1>19. CASE CloseClears
  BY <1>19, Sizes DEF CloseClears, kernel, listener, accepter, caller, broadcast, OpenInv, Open,
     TypeOK, KernelType, AccepterType, CallerType, Closing
<1>20. CASE CloseStops
  <2>1. ~Open
    BY <1>20, Sizes DEF CloseStops, OpenInv, Closing, TypeOK, TableType
  <2> QED
    BY <1>20, <2>1 DEF CloseStops, OpenInv, Open, Closing, kernel, accepter
<1>21. CASE Join
  BY <1>21, Sizes DEF Join, kernel, listener, accepter, caller, broadcast, OpenInv, Open,
     TypeOK, KernelType, AccepterType, CallerType, Closing
<1>22. CASE \E p \in Peers : Connect(p) \/ Send(p) \/ HangUp(p)
  BY <1>22 DEF Connect, Send, HangUp, Server, kernel, listener, accepter, caller, broadcast,
     OpenInv, Open
<1>23. CASE UNCHANGED vars
  BY <1>23 DEF vars, OpenInv, Open
<1> QED
  BY <1>1, <1>2, <1>3, <1>4, <1>5, <1>6, <1>7, <1>8, <1>9, <1>10, <1>11, <1>12, <1>13, <1>14,
     <1>15, <1>16, <1>17, <1>18, <1>19, <1>20, <1>21, <1>22, <1>23 DEF Next, Listener, Accepter,
     Application, Continue

\* A connected client keeps its only socket.
LEMMA PeerStep ==
  ASSUME TypeOK, TypeOK', PeerInv, [Next]_vars
  PROVE  PeerInv'
<1>1. CASE ScanStart
  BY <1>1, ConstantsAssumption, Sizes DEF ScanStart, NoScan, kernel, listener, accepter, caller,
     broadcast, PeerInv, TypeOK, KernelType, CloseSocket, ConnectedTo
<1>2. CASE ReadSlot
  BY <1>2, ConstantsAssumption, Sizes DEF ReadSlot, NextSlot, NoScan, kernel, listener,
     accepter, caller, broadcast, PeerInv, TypeOK, KernelType, CloseSocket, ConnectedTo
<1>3. CASE Receive
  BY <1>3, ConstantsAssumption, Sizes DEF Receive, NextSlot, NoScan, kernel, listener, accepter,
     caller, broadcast, PeerInv, TypeOK, KernelType, CloseSocket, ConnectedTo
<1>4. CASE Callback
  BY <1>4, ConstantsAssumption, Sizes DEF Callback, NextSlot, NoScan, kernel, listener,
     accepter, caller, broadcast, PeerInv, TypeOK, KernelType, CloseSocket, ConnectedTo
<1>5. CASE Drop
  <2>1. CASE DisconnectCloses("listener", scan.i)
    BY <2>1, Closes, ConstantsAssumption DEF DisconnectCloses, PeerInv, ConnectedTo
  <2>2. CASE DisconnectRefused(scan.i)
    BY <2>2 DEF DisconnectRefused, PeerInv, kernel
  <2> QED
    BY <1>5, <2>1, <2>2 DEF Drop
<1>6. CASE DropShifts
  BY <1>6, ConstantsAssumption, Sizes DEF DropShifts, DisconnectShifts, NextSlot, NoScan,
     kernel, listener, accepter, caller, broadcast, PeerInv, TypeOK, KernelType, CloseSocket,
     ConnectedTo
<1>7. CASE Accept
  BY <1>7, ConstantsAssumption, Sizes DEF Accept, kernel, listener, accepter, caller, broadcast,
     PeerInv, TypeOK, KernelType, CloseSocket, ConnectedTo
<1>8. CASE TurnAway
  BY <1>8, ConstantsAssumption, Sizes DEF TurnAway, kernel, listener, accepter, caller,
     broadcast, PeerInv, TypeOK, KernelType, CloseSocket, ConnectedTo
<1>9. CASE Insert
  BY <1>9, ConstantsAssumption, Sizes DEF Insert, kernel, listener, accepter, caller, broadcast,
     PeerInv, TypeOK, KernelType, CloseSocket, ConnectedTo
<1>10. CASE AccepterStops
  BY <1>10, ConstantsAssumption, Sizes DEF AccepterStops, kernel, listener, accepter, caller,
     broadcast, PeerInv, TypeOK, KernelType, CloseSocket, ConnectedTo
<1>11. CASE BroadcastStart
  BY <1>11, ConstantsAssumption, Sizes DEF BroadcastStart, NoJob, kernel, listener, accepter,
     caller, broadcast, PeerInv, TypeOK, KernelType, CloseSocket, ConnectedTo
<1>12. CASE BroadcastNext
  BY <1>12, ConstantsAssumption, Sizes DEF BroadcastNext, kernel, listener, accepter, caller,
     broadcast, PeerInv, TypeOK, KernelType, CloseSocket, ConnectedTo
<1>13. CASE BroadcastSend
  BY <1>13, ConstantsAssumption, Sizes DEF BroadcastSend, BroadcastOver, NoJob, kernel,
     listener, accepter, caller, broadcast, PeerInv, TypeOK, KernelType, CloseSocket, ConnectedTo
<1>14. CASE BroadcastDone
  BY <1>14, ConstantsAssumption, Sizes DEF BroadcastDone, BroadcastOver, NoJob, kernel,
     listener, accepter, caller, broadcast, PeerInv, TypeOK, KernelType, CloseSocket, ConnectedTo
<1>15. CASE AppDisconnect
  BY <1>15, ConstantsAssumption, Sizes DEF AppDisconnect, DisconnectCloses, kernel, listener,
     accepter, caller, broadcast, PeerInv, TypeOK, KernelType, CloseSocket, ConnectedTo
<1>16. CASE AppShifts
  BY <1>16, ConstantsAssumption, Sizes DEF AppShifts, DisconnectShifts, NoJob, kernel, listener,
     accepter, caller, broadcast, PeerInv, TypeOK, KernelType, CloseSocket, ConnectedTo
<1>17. CASE CloseStart
  BY <1>17, ConstantsAssumption, Sizes DEF CloseStart, NoJob, kernel, listener, accepter,
     caller, broadcast, PeerInv, TypeOK, KernelType, CloseSocket, ConnectedTo
<1>18. CASE CloseSlot
  BY SMTT(40), <1>18, ConstantsAssumption, Sizes DEF CloseSlot, kernel, listener, accepter, caller,
     broadcast, PeerInv, TypeOK, KernelType, CloseSocket, ConnectedTo
<1>19. CASE CloseClears
  BY <1>19, ConstantsAssumption, Sizes DEF CloseClears, kernel, listener, accepter, caller,
     broadcast, PeerInv, TypeOK, KernelType, CloseSocket, ConnectedTo
<1>20. CASE CloseStops
  BY <1>20, ConstantsAssumption, Sizes DEF CloseStops, NoJob, kernel, listener, accepter,
     caller, broadcast, PeerInv, TypeOK, KernelType, CloseSocket, ConnectedTo
<1>21. CASE Join
  BY <1>21, ConstantsAssumption, Sizes DEF Join, kernel, listener, accepter, caller, broadcast,
     PeerInv, TypeOK, KernelType, CloseSocket, ConnectedTo
<1>22. CASE \E p \in Peers : Connect(p) \/ Send(p) \/ HangUp(p)
  <2>1. conn' = conn
    BY <1>22 DEF Connect, Send, HangUp, Server
  <2>2. ASSUME NEW q \in Peers, peer[q] \in {"connected", "left"}
        PROVE  peer'[q] \in {"connected", "left"}
    BY <1>22, <2>2 DEF Connect, Send, HangUp, TypeOK, KernelType
  <2> QED
    BY <2>1, <2>2 DEF PeerInv
<1>23. CASE UNCHANGED vars
  BY <1>23 DEF vars, PeerInv
<1> QED
  BY <1>1, <1>2, <1>3, <1>4, <1>5, <1>6, <1>7, <1>8, <1>9, <1>10, <1>11, <1>12, <1>13, <1>14,
     <1>15, <1>16, <1>17, <1>18, <1>19, <1>20, <1>21, <1>22, <1>23 DEF Next, Listener, Accepter,
     Application, Continue

\* The table without slot cid, slot by slot.
LEMMA CompactedSlots ==
  ASSUME TypeOK, NEW cid \in 1..(client_count - 1)
  PROVE  /\ \A i \in Slots : i < cid => Compacted(cid)[i] = table[i]
         /\ \A i \in Slots : i >= cid /\ i < client_count - 1
                               => i + 1 \in Slots /\ Compacted(cid)[i] = table[i + 1]
         /\ client_count - 1 \in Slots /\ Compacted(cid)[client_count - 1] = EmptySlot
         /\ \A i \in Slots : i >= client_count => Compacted(cid)[i] = table[i]
  BY Sizes DEF Compacted, TypeOK, TableType

\* The slot being removed changes only where the mutex does.
LEMMA RemovingKept ==
  ASSUME LockInv, [Next]_vars, mtx' = mtx
  PROVE  Removing' = Removing
<1>1. CASE ScanStart
  BY <1>1 DEF ScanStart, NoScan, kernel, listener, accepter, caller, broadcast, LockInv, Removing
<1>2. CASE ReadSlot
  BY <1>2 DEF ReadSlot, NextSlot, NoScan, kernel, listener, accepter, caller, broadcast,
     LockInv, Removing
<1>3. CASE Receive
  BY <1>3 DEF Receive, NextSlot, NoScan, kernel, listener, accepter, caller, broadcast, LockInv,
     Removing
<1>4. CASE Callback
  BY <1>4 DEF Callback, NextSlot, NoScan, kernel, listener, accepter, caller, broadcast,
     LockInv, Removing
<1>5. CASE Drop
  BY <1>5 DEF Drop, DisconnectCloses, DisconnectRefused, NextSlot, NoScan, kernel, listener,
     accepter, caller, broadcast, LockInv, Removing
<1>6. CASE DropShifts
  BY <1>6 DEF DropShifts, DisconnectShifts, NextSlot, NoScan, kernel, listener, accepter,
     caller, broadcast, LockInv, Removing
<1>7. CASE Accept
  BY <1>7 DEF Accept, kernel, listener, accepter, caller, broadcast, LockInv, Removing
<1>8. CASE TurnAway
  BY <1>8 DEF TurnAway, kernel, listener, accepter, caller, broadcast, LockInv, Removing
<1>9. CASE Insert
  BY <1>9 DEF Insert, kernel, listener, accepter, caller, broadcast, LockInv, Removing
<1>10. CASE AccepterStops
  BY <1>10 DEF AccepterStops, kernel, listener, accepter, caller, broadcast, LockInv, Removing
<1>11. CASE BroadcastStart
  BY <1>11 DEF BroadcastStart, NoJob, kernel, listener, accepter, caller, broadcast, LockInv,
     Removing
<1>12. CASE BroadcastNext
  BY <1>12 DEF BroadcastNext, kernel, listener, accepter, caller, broadcast, LockInv, Removing
<1>13. CASE BroadcastSend
  BY <1>13 DEF BroadcastSend, BroadcastOver, NoJob, kernel, listener, accepter, caller,
     broadcast, LockInv, Removing
<1>14. CASE BroadcastDone
  BY <1>14 DEF BroadcastDone, BroadcastOver, NoJob, kernel, listener, accepter, caller,
     broadcast, LockInv, Removing
<1>15. CASE AppDisconnect
  BY <1>15 DEF AppDisconnect, DisconnectCloses, kernel, listener, accepter, caller, broadcast,
     LockInv, Removing
<1>16. CASE AppShifts
  BY <1>16 DEF AppShifts, DisconnectShifts, NoJob, kernel, listener, accepter, caller,
     broadcast, LockInv, Removing
<1>17. CASE CloseStart
  BY <1>17 DEF CloseStart, NoJob, kernel, listener, accepter, caller, broadcast, LockInv, Removing
<1>18. CASE CloseSlot
  BY <1>18 DEF CloseSlot, kernel, listener, accepter, caller, broadcast, LockInv, Removing
<1>19. CASE CloseClears
  BY <1>19 DEF CloseClears, kernel, listener, accepter, caller, broadcast, LockInv, Removing
<1>20. CASE CloseStops
  BY <1>20 DEF CloseStops, NoJob, kernel, listener, accepter, caller, broadcast, LockInv, Removing
<1>21. CASE Join
  BY <1>21 DEF Join, kernel, listener, accepter, caller, broadcast, LockInv, Removing
<1>22. CASE \E p \in Peers : Connect(p) \/ Send(p) \/ HangUp(p)
  BY <1>22 DEF Connect, Send, HangUp, Server, kernel, listener, accepter, caller, broadcast,
     LockInv, Removing
<1>23. CASE UNCHANGED vars
  BY <1>23 DEF vars, LockInv, Removing
<1> QED
  BY <1>1, <1>2, <1>3, <1>4, <1>5, <1>6, <1>7, <1>8, <1>9, <1>10, <1>11, <1>12, <1>13, <1>14,
     <1>15, <1>16, <1>17, <1>18, <1>19, <1>20, <1>21, <1>22, <1>23 DEF Next, Listener, Accepter,
     Application, Continue

\* Shifting the table keeps that true.
LEMMA SlotShift ==
  ASSUME TypeOK, SlotInv, Removing \in 1..(client_count - 1), Removing' = 0, conn' = conn,
         table' = Compacted(Removing), client_count' = client_count - 1
  PROVE  SlotInv'
<1>1. PICK c : c = Removing
  OBVIOUS
<1>2. /\ \A i \in Slots : i < c => table'[i] = table[i]
      /\ \A i \in Slots : i >= c /\ i < client_count - 1
                            => i + 1 \in Slots /\ table'[i] = table[i + 1]
      /\ client_count - 1 \in Slots /\ table'[client_count - 1] = EmptySlot
      /\ \A i \in Slots : i >= client_count => table'[i] = table[i]
  BY <1>1, CompactedSlots
<1>3. client_count \in 1..MaxClients
  BY DEF TypeOK, TableType
<1>4. ASSUME NEW i \in 1..(client_count' - 1), table'[i].fd \in Sockets
      PROVE  conn'[table'[i].fd] \in {table'[i].addr, NoPeer}
  <2>1. CASE i < c
    <3>1. i \in Slots /\ i \in 1..(client_count - 1) /\ table'[i] = table[i]
      BY <1>2, <1>3, <2>1, Sizes
    <3> QED
      BY <3>1, <1>4, <2>1, <1>1 DEF SlotInv
  <2>2. CASE i >= c
    <3>1. i \in Slots /\ i + 1 \in 1..(client_count - 1) /\ i + 1 # c /\ table'[i] = table[i + 1]
      BY <1>1, <1>2, <1>3, <2>2, Sizes
    <3> QED
      BY <3>1, <1>4, <1>1 DEF SlotInv
  <2> QED
    BY <2>1, <2>2, <1>1, <1>3
<1>5. ASSUME NEW i \in client_count'..(MaxClients - 1)
      PROVE  table'[i].fd \in {0, -1}
  BY <1>2, <1>3, <1>5, Sizes DEF SlotInv, EmptySlot
<1> QED
  BY <1>4, <1>5 DEF SlotInv

\* An open socket in the table leads to the client beside it.
LEMMA SlotStep ==
  ASSUME TypeOK, TypeOK', LockInv, OpenInv, SlotInv, TableInv, [Next]_vars
  PROVE  SlotInv'
<1>1. CASE ScanStart
  BY <1>1, RemovingKept DEF ScanStart, NoScan, kernel, listener, accepter, caller, broadcast,
     SlotInv
<1>2. CASE ReadSlot
  BY <1>2, RemovingKept DEF ReadSlot, NextSlot, NoScan, kernel, listener, accepter, caller,
     broadcast, SlotInv
<1>3. CASE Receive
  BY <1>3, RemovingKept DEF Receive, NextSlot, NoScan, kernel, listener, accepter, caller,
     broadcast, SlotInv
<1>4. CASE Callback
  BY <1>4, RemovingKept DEF Callback, NextSlot, NoScan, kernel, listener, accepter, caller,
     broadcast, SlotInv
<1>5. CASE Drop
  <2>1. CASE DisconnectCloses("listener", scan.i)
    <3>1. Removing = 0 /\ table' = table /\ client_count' = client_count
      BY <2>1 DEF DisconnectCloses, Removing
    <3>2. \A g \in Sockets : conn'[g] = IF g = table[scan.i].fd THEN NoPeer ELSE conn[g]
      BY <2>1, Closes DEF DisconnectCloses
    <3> QED
      BY <3>1, <3>2, Sizes DEF SlotInv, TypeOK, TableType
  <2>2. CASE DisconnectRefused(scan.i)
    BY <2>2, RemovingKept DEF DisconnectRefused, SlotInv, kernel
  <2> QED
    BY <1>5, <2>1, <2>2 DEF Drop
<1>6. CASE DropShifts
  <2>1. scan.i = Removing /\ scan.i \in 1..(client_count - 1) /\ Removing' = 0
    BY <1>6 DEF DropShifts, DisconnectShifts, LockInv, Removing
  <2>2. table' = Compacted(scan.i) /\ client_count' = client_count - 1 /\ conn' = conn
    BY <1>6 DEF DropShifts, DisconnectShifts, kernel
  <2> QED
    BY <2>1, <2>2, CompactedSlots, SlotShift
<1>7. CASE Accept
  <2>1. Open
    BY <1>7, ConstantsAssumption DEF Accept, ConnectedTo, OpenInv, Open
  <2>2. PICK p \in Peers, f \in Sockets : conn[f] = NoPeer /\ conn' = [conn EXCEPT ![f] = p]
    BY <1>7 DEF Accept
  <2>3. \A g \in Sockets : conn'[g] = IF g = f THEN p ELSE conn[g]
    BY <2>2 DEF TypeOK, KernelType
  <2>4. \A i \in 1..(client_count - 1) : i # Removing => table[i].fd # f
    BY <2>1, <2>2, ConstantsAssumption DEF TableInv
  <2>5. table' = table /\ client_count' = client_count /\ Removing' = Removing
    BY <1>7, RemovingKept DEF Accept
  <2> QED
    BY <2>3, <2>4, <2>5 DEF SlotInv
<1>8. CASE TurnAway
  <2>1. \A g \in Sockets : conn'[g] = IF g = cs THEN NoPeer ELSE conn[g]
    BY <1>8, Closes DEF TurnAway
  <2>2. table' = table /\ client_count' = client_count /\ Removing' = Removing
    BY <1>8, RemovingKept DEF TurnAway
  <2> QED
    BY <2>1, <2>2 DEF SlotInv
<1>9. CASE Insert
  <2>1. client_count \in Slots /\ table \in [Slots -> Slot]
    BY <1>9, Sizes DEF Insert, TypeOK, TableType
  <2>2. \A i \in Slots : table'[i] = IF i = client_count THEN [fd |-> cs, addr |-> conn[cs]]
                                                       ELSE table[i]
    BY <1>9, <2>1 DEF Insert
  <2>3. client_count' = client_count + 1 /\ conn' = conn /\ Removing' = Removing
    BY <1>9, RemovingKept DEF Insert, kernel
  <2>4. \A i \in 1..client_count : i \in Slots /\ (i # client_count => i \in 1..(client_count - 1))
    BY <2>1, Sizes
  <2>5. \A i \in (client_count + 1)..(MaxClients - 1) :
           i \in Slots /\ i # client_count /\ i \in client_count..(MaxClients - 1)
    BY <2>1, Sizes
  <2>6. ASSUME NEW i \in 1..client_count, i # Removing, table'[i].fd \in Sockets
        PROVE  conn[table'[i].fd] \in {table'[i].addr, NoPeer}
    <3>1. CASE i = client_count
      BY <2>2, <2>4, <3>1
    <3>2. CASE i # client_count
      BY <2>2, <2>4, <2>6, <3>2 DEF SlotInv
    <3> QED
      BY <3>1, <3>2
  <2>7. \A i \in (client_count + 1)..(MaxClients - 1) : table'[i].fd \in {0, -1}
    BY <2>2, <2>5 DEF SlotInv
  <2>8. client_count' - 1 = client_count
    BY <2>1, <2>3, Sizes
  <2> QED
    BY <2>3, <2>6, <2>7, <2>8 DEF SlotInv
<1>10. CASE AccepterStops
  BY <1>10, RemovingKept DEF AccepterStops, kernel, listener, accepter, caller, broadcast, SlotInv
<1>11. CASE BroadcastStart
  BY <1>11, RemovingKept DEF BroadcastStart, NoJob, kernel, listener, accepter, caller,
     broadcast, SlotInv
<1>12. CASE BroadcastNext
  BY <1>12, RemovingKept DEF BroadcastNext, kernel, listener, accepter, caller, broadcast, SlotInv
<1>13. CASE BroadcastSend
  BY <1>13, RemovingKept DEF BroadcastSend, BroadcastOver, NoJob, kernel, listener, accepter,
     caller, broadcast, SlotInv
<1>14. CASE BroadcastDone
  BY <1>14, RemovingKept DEF BroadcastDone, BroadcastOver, NoJob, kernel, listener, accepter,
     caller, broadcast, SlotInv
<1>15. CASE AppDisconnect
  <2>1. PICK cid \in 1..(MaxClients - 1) : DisconnectCloses("app", cid)
    BY <1>15 DEF AppDisconnect
  <2>2. Removing = 0 /\ table' = table /\ client_count' = client_count
    BY <2>1 DEF DisconnectCloses, Removing
  <2>3. \A g \in Sockets : conn'[g] = IF g = table[cid].fd THEN NoPeer ELSE conn[g]
    BY <2>1, Closes DEF DisconnectCloses
  <2> QED
    BY <2>2, <2>3, Sizes DEF SlotInv, TypeOK, TableType
<1>16. CASE AppShifts
  <2>1. job.i = Removing /\ job.i \in 1..(client_count - 1) /\ Removing' = 0
    BY <1>16 DEF AppShifts, DisconnectShifts, LockInv, Removing
  <2>2. table' = Compacted(job.i) /\ client_count' = client_count - 1 /\ conn' = conn
    BY <1>16 DEF AppShifts, DisconnectShifts, kernel
  <2> QED
    BY <2>1, <2>2, SlotShift
<1>17. CASE CloseStart
  BY <1>17, RemovingKept DEF CloseStart, NoJob, kernel, listener, accepter, caller, broadcast,
     SlotInv
<1>18. CASE CloseSlot
  <2>1. table' = table /\ client_count' = client_count /\ Removing' = Removing
    BY <1>18, RemovingKept DEF CloseSlot
  <2>2. \A g \in Sockets : conn'[g] \in {conn[g], NoPeer}
    BY <1>18, Closes DEF CloseSlot, kernel
  <2> QED
    BY <2>1, <2>2 DEF SlotInv
<1>19. CASE CloseClears
  <2>1. client_count' = client_count /\ Removing' = Removing /\ conn' = conn
    BY <1>19, RemovingKept DEF CloseClears, kernel
  <2>2. \A i \in Slots : table'[i] = IF i = job.i THEN ClearedSlot ELSE table[i]
    BY <1>19 DEF CloseClears, TypeOK, TableType
  <2>3. 1..(client_count - 1) \subseteq Slots /\ client_count..(MaxClients - 1) \subseteq Slots
    BY Sizes DEF TypeOK, TableType
  <2>4. ClearedSlot.fd = -1 /\ -1 \notin Sockets
    BY Sizes DEF ClearedSlot
  <2>5. \A i \in 1..(client_count - 1) :
           i # Removing /\ table'[i].fd \in Sockets
             => conn[table'[i].fd] \in {table'[i].addr, NoPeer}
    BY <2>2, <2>3, <2>4 DEF SlotInv
  <2>6. \A i \in client_count..(MaxClients - 1) : table'[i].fd \in {0, -1}
    BY <2>2, <2>3, <2>4 DEF SlotInv
  <2> QED
    BY <2>1, <2>5, <2>6 DEF SlotInv
<1>20. CASE CloseStops
  BY <1>20, RemovingKept DEF CloseStops, NoJob, kernel, listener, accepter, caller, broadcast,
     SlotInv
<1>21. CASE Join
  BY <1>21, RemovingKept DEF Join, kernel, listener, accepter, caller, broadcast, SlotInv
<1>22. CASE \E p \in Peers : Connect(p) \/ Send(p) \/ HangUp(p)
  BY <1>22 DEF Connect, Send, HangUp, Server, kernel, listener, accepter, caller, broadcast,
     SlotInv, Removing
<1>23. CASE UNCHANGED vars
  BY <1>23 DEF vars, SlotInv, Removing
<1> QED
  BY <1>1, <1>2, <1>3, <1>4, <1>5, <1>6, <1>7, <1>8, <1>9, <1>10, <1>11, <1>12, <1>13, <1>14,
     <1>15, <1>16, <1>17, <1>18, <1>19, <1>20, <1>21, <1>22, <1>23 DEF Next, Listener, Accepter,
     Application, Continue

\* A listening socket that has been closed is not opened again.
LEMMA OpenBefore ==
  ASSUME TypeOK, Open', [Next]_vars
  PROVE  Open
<1>1. CASE ScanStart
  BY <1>1, ConstantsAssumption, Sizes DEF ScanStart, NoScan, kernel, listener, accepter, caller,
     broadcast, Open
<1>2. CASE ReadSlot
  BY <1>2, ConstantsAssumption, Sizes DEF ReadSlot, NextSlot, NoScan, kernel, listener,
     accepter, caller, broadcast, Open
<1>3. CASE Receive
  BY <1>3, ConstantsAssumption, Sizes DEF Receive, NextSlot, NoScan, kernel, listener, accepter,
     caller, broadcast, Open
<1>4. CASE Callback
  BY <1>4, ConstantsAssumption, Sizes DEF Callback, NextSlot, NoScan, kernel, listener,
     accepter, caller, broadcast, Open
<1>5. CASE Drop
  BY <1>5, ConstantsAssumption, Sizes DEF Drop, DisconnectCloses, DisconnectRefused, CloseSocket,
     kernel, Open
<1>6. CASE DropShifts
  BY <1>6, ConstantsAssumption, Sizes DEF DropShifts, DisconnectShifts, NextSlot, NoScan,
     kernel, listener, accepter, caller, broadcast, Open
<1>7. CASE Accept
  BY <1>7, ConstantsAssumption, Sizes DEF Accept, kernel, listener, accepter, caller, broadcast,
     Open, CloseSocket, TypeOK, KernelType
<1>8. CASE TurnAway
  BY <1>8, ConstantsAssumption, Sizes DEF TurnAway, kernel, listener, accepter, caller,
     broadcast, Open, CloseSocket, TypeOK, KernelType
<1>9. CASE Insert
  BY <1>9, ConstantsAssumption, Sizes DEF Insert, kernel, listener, accepter, caller, broadcast,
     Open
<1>10. CASE AccepterStops
  BY <1>10, ConstantsAssumption, Sizes DEF AccepterStops, kernel, listener, accepter, caller,
     broadcast, Open
<1>11. CASE BroadcastStart
  BY <1>11, ConstantsAssumption, Sizes DEF BroadcastStart, NoJob, kernel, listener, accepter,
     caller, broadcast, Open
<1>12. CASE BroadcastNext
  BY <1>12, ConstantsAssumption, Sizes DEF BroadcastNext, kernel, listener, accepter, caller,
     broadcast, Open
<1>13. CASE BroadcastSend
  BY <1>13, ConstantsAssumption, Sizes DEF BroadcastSend, BroadcastOver, NoJob, kernel,
     listener, accepter, caller, broadcast, Open
<1>14. CASE BroadcastDone
  BY <1>14, ConstantsAssumption, Sizes DEF BroadcastDone, BroadcastOver, NoJob, kernel,
     listener, accepter, caller, broadcast, Open
<1>15. CASE AppDisconnect
  BY <1>15, ConstantsAssumption, Sizes DEF AppDisconnect, DisconnectCloses, kernel, listener,
     accepter, caller, broadcast, Open, CloseSocket, TypeOK, KernelType
<1>16. CASE AppShifts
  BY <1>16, ConstantsAssumption, Sizes DEF AppShifts, DisconnectShifts, NoJob, kernel, listener,
     accepter, caller, broadcast, Open
<1>17. CASE CloseStart
  BY <1>17, ConstantsAssumption, Sizes DEF CloseStart, NoJob, kernel, listener, accepter,
     caller, broadcast, Open
<1>18. CASE CloseSlot
  BY SMTT(40), <1>18, ConstantsAssumption, Sizes DEF CloseSlot, kernel, listener, accepter, caller,
     broadcast, Open, CloseSocket, TypeOK, KernelType
<1>19. CASE CloseClears
  BY <1>19, ConstantsAssumption, Sizes DEF CloseClears, kernel, listener, accepter, caller,
     broadcast, Open
<1>20. CASE CloseStops
  BY <1>20, ConstantsAssumption, Sizes DEF CloseStops, NoJob, kernel, listener, accepter,
     caller, broadcast, Open
<1>21. CASE Join
  BY <1>21, ConstantsAssumption, Sizes DEF Join, kernel, listener, accepter, caller, broadcast, Open
<1>22. CASE \E p \in Peers : Connect(p) \/ Send(p) \/ HangUp(p)
  BY <1>22 DEF Connect, Send, HangUp, Server, kernel, listener, accepter, caller, broadcast, Open
<1>23. CASE UNCHANGED vars
  BY <1>23 DEF vars, Open
<1> QED
  BY <1>1, <1>2, <1>3, <1>4, <1>5, <1>6, <1>7, <1>8, <1>9, <1>10, <1>11, <1>12, <1>13, <1>14,
     <1>15, <1>16, <1>17, <1>18, <1>19, <1>20, <1>21, <1>22, <1>23 DEF Next, Listener, Accepter,
     Application, Continue

\* Steps that leave the table and the sockets alone.
LEMMA TableSame ==
  ASSUME TableInv, table' = table, client_count' = client_count, conn' = conn,
         Removing' = Removing, cs' = cs, apc' = "insert" <=> apc = "insert"
  PROVE  TableInv'
  BY DEF TableInv, Open

\* The socket of a slot is closed by CommsDisconnect.
LEMMA TableCloses ==
  ASSUME TypeOK, OpenInv, TableInv, Open, mtx = "none", NEW cid \in 1..(client_count - 1),
         CloseSocket(table[cid].fd), Removing' = cid,
         table' = table, client_count' = client_count, cs' = cs, apc' = apc
  PROVE  TableInv'
<1>1. PICK f : f = table[cid].fd
  OBVIOUS
<1>2. \A g \in Sockets : conn'[g] = IF g = f THEN NoPeer ELSE conn[g]
  BY <1>1, Closes
<1>3. Removing = 0
  BY DEF Removing
<1>4. \A i \in 1..(client_count - 1) : i # cid => table[i].fd # f
  BY <1>1, <1>3 DEF TableInv
<1>5. apc = "insert" => cs # f
  BY <1>1, <1>3 DEF TableInv
<1>6. \A i \in 1..(client_count - 1) : i # 0
  OBVIOUS
<1>7. ASSUME apc' = "insert" PROVE conn'[cs'] \in Peers
  <2>1. conn[cs] \in Peers /\ cs # f
    BY <1>5, <1>7 DEF TableInv
  <2>2. cs \in Sockets
    BY <2>1, <1>7, Sizes DEF OpenInv
  <2> QED
    BY <1>2, <2>1, <2>2
<1>8. ASSUME NEW i \in 1..(client_count - 1), i # cid
      PROVE  /\ table[i].fd \in Sockets /\ table[i].addr \in Peers
             /\ conn'[table[i].fd] = table[i].addr
  BY <1>2, <1>3, <1>4, <1>6, <1>8 DEF TableInv
<1>9. ASSUME NEW g \in Sockets, conn'[g] \in Peers
      PROVE  \/ apc = "insert" /\ cs = g
             \/ \E i \in 1..(client_count - 1) : i # cid /\ table[i].fd = g
  <2>1. g # f /\ conn[g] \in Peers
    BY <1>2, <1>9, ConstantsAssumption
  <2> QED
    BY <1>1, <2>1 DEF TableInv
<1> QED
  BY <1>3, <1>6, <1>7, <1>8, <1>9 DEF TableInv

\* The slot is removed from the table.
LEMMA TableShift ==
  ASSUME TypeOK, TableInv, Open, Removing \in 1..(client_count - 1), Removing' = 0,
         conn' = conn, cs' = cs, apc' = apc,
         table' = Compacted(Removing), client_count' = client_count - 1
  PROVE  TableInv'
<1>1. PICK c : c = Removing
  OBVIOUS
<1>2. PICK n : n = client_count
  OBVIOUS
<1>3. c \in 1..(n - 1) /\ n \in 1..MaxClients /\ client_count' = n - 1
  BY <1>1, <1>2 DEF TypeOK, TableType
<1>4. /\ \A i \in Slots : i < c => table'[i] = table[i]
      /\ \A i \in Slots : i >= c /\ i < n - 1 => i + 1 \in Slots /\ table'[i] = table[i + 1]
      /\ n - 1 \in Slots /\ table'[n - 1] = EmptySlot
      /\ \A i \in Slots : i >= n => table'[i] = table[i]
  BY <1>1, <1>2, CompactedSlots
<1> DEFINE old(i) == IF i < c THEN i ELSE i + 1
<1>5. \A i \in 1..(n - 2) : /\ old(i) \in 1..(n - 1) /\ old(i) # c /\ old(i) # 0
                            /\ table'[i] = table[old(i)]
  BY <1>3, <1>4, Sizes
<1>6. \A i, j \in 1..(n - 2) : i # j => old(i) # old(j)
  BY <1>3
<1>7. \A i \in 1..(n - 1) : i # c => \E j \in 1..(n - 2) : old(j) = i
  <2>1. ASSUME NEW i \in 1..(n - 1), i < c PROVE i \in 1..(n - 2) /\ old(i) = i
    BY <1>3, <2>1
  <2>2. ASSUME NEW i \in 1..(n - 1), i > c PROVE i - 1 \in 1..(n - 2) /\ old(i - 1) = i
    BY <1>3, <2>2
  <2> QED
    BY <1>3, <2>1, <2>2
<1> HIDE DEF old
<1>8. table'[0].fd = 1
  BY <1>3, <1>4, Sizes DEF TableInv
<1>9. \A i \in 1..(n - 2) : /\ table'[i].fd \in Sockets /\ table'[i].addr \in Peers
                            /\ conn[table'[i].fd] = table'[i].addr
  BY <1>1, <1>2, <1>5 DEF TableInv
<1>10. \A i \in (n - 1)..(MaxClients - 1) : table'[i] = EmptySlot
  <2>1. ASSUME NEW i \in n..(MaxClients - 1) PROVE table'[i] = EmptySlot
    BY <1>2, <1>3, <1>4, Sizes DEF TableInv
  <2> QED
    BY <1>3, <1>4, <2>1, Sizes
<1>11. apc = "insert" => conn[cs] \in Peers /\ \A i \in 1..(n - 2) : table'[i].fd # cs
  BY <1>1, <1>2, <1>5 DEF TableInv
<1>12. \A i, j \in 1..(n - 2) : i # j => table'[i].fd # table'[j].fd
  BY <1>1, <1>2, <1>5, <1>6 DEF TableInv
<1>13. \A f \in Sockets : conn[f] \in Peers =>
           (apc = "insert" /\ cs = f) \/ \E i \in 1..(n - 2) : table'[i].fd = f
  <2>1. SUFFICES ASSUME NEW f \in Sockets, conn[f] \in Peers, ~(apc = "insert" /\ cs = f)
                 PROVE  \E i \in 1..(n - 2) : table'[i].fd = f
    OBVIOUS
  <2>2. PICK i \in 1..(n - 1) : i # c /\ table[i].fd = f
    BY <1>1, <1>2, <2>1 DEF TableInv
  <2>3. PICK j \in 1..(n - 2) : old(j) = i
    BY <1>7, <2>2
  <2> QED
    BY <1>5, <2>2, <2>3
<1>14. n - 1 - 1 = n - 2 /\ \A i \in 1..(n - 2) : i # 0
  BY <1>3
<1> QED
  BY SMTT(40), <1>3, <1>8, <1>9, <1>10, <1>11, <1>12, <1>13, <1>14 DEF TableInv

\* While the listening socket is open the table stays true and complete.
LEMMA TableStep ==
  ASSUME TypeOK, LockInv, OpenInv, TableInv, [Next]_vars
  PROVE  TableInv'
<1> SUFFICES ASSUME Open' PROVE TableInv'
  BY DEF TableInv
<1>0. Open /\ Open'
  BY OpenBefore
<1>1. CASE ScanStart
  BY <1>1, RemovingKept, TableSame DEF ScanStart, kernel, accepter
<1>2. CASE ReadSlot
  BY <1>2, RemovingKept, TableSame DEF ReadSlot, kernel, accepter
<1>3. CASE Receive
  BY <1>3, RemovingKept, TableSame DEF Receive, kernel, accepter
<1>4. CASE Callback
  BY <1>4, RemovingKept, TableSame DEF Callback, kernel, accepter
<1>5. CASE Drop
  <2>1. CASE DisconnectCloses("listener", scan.i) /\ lpc' = "shift" /\ UNCHANGED <<scan, stale>>
    <3>1. scan.i \in 1..(client_count - 1)
      BY <2>1, Sizes DEF DisconnectCloses, ValidCid, TypeOK, ListenerType, TableType, Scan
    <3>2. Removing' = scan.i
      BY <2>1 DEF DisconnectCloses, Removing
    <3> QED
      BY <1>5, <2>1, <3>1, <3>2, <1>0, TableCloses DEF Drop, DisconnectCloses, accepter
  <2>2. CASE DisconnectRefused(scan.i)
    BY <1>5, <2>2, RemovingKept, TableSame DEF Drop, DisconnectRefused, kernel, accepter
  <2> QED
    BY <1>5, <2>1, <2>2 DEF Drop
<1>6. CASE DropShifts
  <2>1. scan.i = Removing /\ scan.i \in 1..(client_count - 1) /\ Removing' = 0
    BY <1>6 DEF DropShifts, DisconnectShifts, LockInv, Removing
  <2>2. /\ table' = Compacted(Removing) /\ client_count' = client_count - 1 /\ conn' = conn
        /\ apc' = apc /\ cs' = cs
    BY <1>6, <2>1 DEF DropShifts, DisconnectShifts, kernel, accepter
  <2> QED
    BY <1>0, <2>1, <2>2, TableShift
<1>7. CASE Accept
  <2>1. PICK q \in Peers, f \in Sockets :
           conn[f] = NoPeer /\ conn' = [conn EXCEPT ![f] = q] /\ cs' = f
    BY <1>7 DEF Accept
  <2>2. \A g \in Sockets : conn'[g] = IF g = f THEN q ELSE conn[g]
    BY <2>1 DEF TypeOK, KernelType
  <2>3. \A i \in 1..(client_count - 1) : i # Removing => table[i].fd # f
    BY <1>0, <2>1, ConstantsAssumption DEF TableInv
  <2>4. /\ table' = table /\ client_count' = client_count /\ Removing' = Removing
        /\ apc = "accept" /\ apc' = "insert"
    BY <1>7, RemovingKept DEF Accept
  <2>5. ASSUME NEW g \in Sockets, conn'[g] \in Peers, g # f
        PROVE  \E i \in 1..(client_count - 1) : i # Removing /\ table[i].fd = g
    BY <1>0, <2>2, <2>4, <2>5 DEF TableInv
  <2>6. \A i \in 1..(client_count - 1) :
           i # Removing => /\ table[i].fd \in Sockets /\ table[i].addr \in Peers
                           /\ conn'[table[i].fd] = table[i].addr
    BY <1>0, <2>2, <2>3 DEF TableInv
  <2> QED
    BY <1>0, <2>1, <2>2, <2>3, <2>4, <2>5, <2>6 DEF TableInv
<1>8. CASE TurnAway
  <2>1. \A g \in Sockets : conn'[g] = IF g = cs THEN NoPeer ELSE conn[g]
    BY <1>8, Closes DEF TurnAway
  <2>2. /\ table' = table /\ client_count' = client_count /\ Removing' = Removing
        /\ apc = "insert" /\ apc' = "exited"
    BY <1>8, RemovingKept DEF TurnAway
  <2>3. \A i \in 1..(client_count - 1) :
           i # Removing => /\ table[i].fd \in Sockets /\ table[i].addr \in Peers
                           /\ conn'[table[i].fd] = table[i].addr
    BY <1>0, <2>1, <2>2 DEF TableInv
  <2>4. ASSUME NEW g \in Sockets, conn'[g] \in Peers
        PROVE  \E i \in 1..(client_count - 1) : i # Removing /\ table[i].fd = g
    <3>1. g # cs /\ conn[g] \in Peers
      BY <2>1, <2>4, ConstantsAssumption
    <3> QED
      BY <1>0, <3>1 DEF TableInv
  <2> QED
    BY <1>0, <2>2, <2>3, <2>4 DEF TableInv
<1>9. CASE Insert
  <2>1. PICK n : n = client_count
    OBVIOUS
  <2>2. n \in Slots \ {0} /\ table \in [Slots -> Slot] /\ client_count' = n + 1
    BY <1>9, <2>1, Sizes DEF Insert, TypeOK, TableType
  <2>3. \A i \in Slots : table'[i] = IF i = n THEN [fd |-> cs, addr |-> conn[cs]] ELSE table[i]
    BY <1>9, <2>1, <2>2 DEF Insert
  <2>4. /\ conn' = conn /\ Removing = 0 /\ Removing' = 0 /\ apc = "insert" /\ apc' = "accept"
    BY <1>9, RemovingKept DEF Insert, kernel, Removing
  <2>5. \A i \in 1..n : i \in Slots /\ i # 0 /\ (i # n => i \in 1..(n - 1))
    BY <2>2, Sizes
  <2>6. \A i \in 1..(n - 1) : i \in 1..n /\ i \in Slots /\ i # n /\ i # 0
    BY <2>2, Sizes
  <2>7. n \in 1..n
    BY <2>2, Sizes
  <2>8. cs \in Sockets /\ conn[cs] \in Peers
    BY <1>0, <2>4 DEF TableInv, OpenInv
  <2>9. \A i \in 1..n : /\ table'[i].fd \in Sockets /\ table'[i].addr \in Peers
                        /\ conn[table'[i].fd] = table'[i].addr
    BY <1>0, <2>1, <2>3, <2>4, <2>5, <2>8 DEF TableInv
  <2>10. \A i, j \in 1..n : i # j => table'[i].fd # table'[j].fd
    <3>1. \A i \in 1..(n - 1) : table[i].fd # cs
      BY <1>0, <2>1, <2>4, <2>6 DEF TableInv
    <3>2. \A i, j \in 1..(n - 1) : i # j => table[i].fd # table[j].fd
      BY <1>0, <2>1, <2>4, <2>6 DEF TableInv
    <3> QED
      BY <2>3, <2>5, <3>1, <3>2
  <2>11. \A i \in (n + 1)..(MaxClients - 1) : table'[i] = EmptySlot
    <3>1. \A i \in (n + 1)..(MaxClients - 1) : i \in Slots /\ i # n /\ i \in n..(MaxClients - 1)
      BY <2>2, Sizes
    <3> QED
      BY <1>0, <2>1, <2>3, <3>1 DEF TableInv
  <2>12. ASSUME NEW f \in Sockets, conn[f] \in Peers
         PROVE  \E i \in 1..n : table'[i].fd = f
    <3>1. CASE f = cs
      BY <2>2, <2>3, <2>7, <3>1
    <3>2. CASE f # cs
      <4>1. PICK i \in 1..(n - 1) : table[i].fd = f
        BY <1>0, <2>1, <2>12, <3>2 DEF TableInv
      <4> QED
        BY <2>3, <2>6, <4>1
    <3> QED
      BY <3>1, <3>2
  <2>13. table'[0].fd = 1
    BY <1>0, <2>2, <2>3, Sizes DEF TableInv
  <2>14. client_count' - 1 = n
    BY <2>2, Sizes
  <2> QED
    BY <2>2, <2>4, <2>5, <2>9, <2>10, <2>11, <2>12, <2>13, <2>14 DEF TableInv
<1>10. CASE AccepterStops
  BY <1>10, RemovingKept, TableSame DEF AccepterStops, kernel, accepter
<1>11. CASE BroadcastStart
  BY <1>11, RemovingKept, TableSame DEF BroadcastStart, kernel, accepter
<1>12. CASE BroadcastNext
  BY <1>12, RemovingKept, TableSame DEF BroadcastNext, kernel, accepter
<1>13. CASE BroadcastSend
  BY <1>13, RemovingKept, TableSame DEF BroadcastSend, kernel, accepter
<1>14. CASE BroadcastDone
  BY <1>14, RemovingKept, TableSame DEF BroadcastDone, kernel, accepter
<1>15. CASE AppDisconnect
  <2>1. PICK cid \in 1..(MaxClients - 1) :
           DisconnectCloses("app", cid) /\ job' = [i |-> cid, fd |-> 0]
    BY <1>15 DEF AppDisconnect
  <2>2. cid \in 1..(client_count - 1)
    BY <2>1, Sizes DEF DisconnectCloses, ValidCid, TypeOK, TableType
  <2>3. Removing' = cid
    BY <2>1 DEF DisconnectCloses, Removing
  <2> QED
    BY <1>15, <2>1, <2>2, <2>3, <1>0, TableCloses DEF AppDisconnect, DisconnectCloses, accepter
<1>16. CASE AppShifts
  <2>1. job.i = Removing /\ job.i \in 1..(client_count - 1) /\ Removing' = 0
    BY <1>16 DEF AppShifts, DisconnectShifts, LockInv, Removing
  <2>2. /\ table' = Compacted(Removing) /\ client_count' = client_count - 1 /\ conn' = conn
        /\ apc' = apc /\ cs' = cs
    BY <1>16, <2>1 DEF AppShifts, DisconnectShifts, kernel, accepter
  <2> QED
    BY <1>0, <2>1, <2>2, TableShift
<1>17. CASE CloseStart
  BY <1>17, RemovingKept, TableSame DEF CloseStart, kernel, accepter
<1>18. CASE CloseSlot
  <2>1. table[job.i].fd = 1
    BY <1>0, <1>18 DEF CloseSlot, OpenInv, TableInv, Closing
  <2>2. \A g \in Sockets : conn'[g] = IF g = 1 THEN NoPeer ELSE conn[g]
    BY <1>18, <2>1, Closes DEF CloseSlot
  <2> QED
    BY <1>0, <2>2, ConstantsAssumption, Sizes DEF Open
<1>19. CASE CloseClears
  BY <1>0, <1>19 DEF CloseClears, OpenInv, Closing
<1>20. CASE CloseStops
  BY <1>20, RemovingKept, TableSame DEF CloseStops, kernel, accepter
<1>21. CASE Join
  BY <1>21, RemovingKept, TableSame DEF Join, kernel, accepter
<1>22. CASE \E p \in Peers : Connect(p) \/ Send(p) \/ HangUp(p)
  BY <1>22, RemovingKept, TableSame DEF Connect, Send, HangUp, Server, accepter
<1>23. CASE UNCHANGED vars
  BY <1>23, TableSame DEF vars, Removing
<1> QED
  BY <1>1, <1>2, <1>3, <1>4, <1>5, <1>6, <1>7, <1>8, <1>9, <1>10, <1>11, <1>12, <1>13, <1>14,
     <1>15, <1>16, <1>17, <1>18, <1>19, <1>20, <1>21, <1>22, <1>23 DEF Next, Listener, Accepter,
     Application, Continue

\* The slot that the listener serves is not being removed by the application.
LEMMA NotRemoving ==
  ASSUME TypeOK, LockInv, lpc # "shift", tpc = "shift" => scan.i < job.i
  PROVE  scan.i # Removing
  BY DEF LockInv, Removing, TypeOK, TableType, ListenerType, Scan, CallerType

\* Steps that leave alone what the listener knows.
LEMMA ListenerSame ==
  ASSUME ListenerInv, stale' = stale, scan' = scan, lpc' = lpc, table' = table,
         client_count' = client_count, conn' = conn,
         tpc' = "shift" => tpc = "shift" /\ job' = job,
         \A q \in Peers : peer[q] = "left" => peer'[q] = "left"
  PROVE  ListenerInv'
  BY DEF ListenerInv, Open

\* What the listener knows of the client it serves stays true.
LEMMA ListenerStep ==
  ASSUME TypeOK, TypeOK', LockInv, OpenInv, PeerInv, SlotInv, TableInv, ListenerInv, [Next]_vars
  PROVE  ListenerInv'
<1> SUFFICES ASSUME lpc' \in {"recv", "callback", "drop"}, ~stale' PROVE ListenerInv'
  BY DEF ListenerInv
<1>0. lpc' \in {"recv", "callback", "drop"} /\ ~stale'
  OBVIOUS
<1> DEFINE Knows == /\ tpc = "shift" => scan.i < job.i
                    /\ scan.fd \in Sockets
                    /\ scan.i \in 1..(client_count - 1)
                    /\ table[scan.i].fd \in {scan.fd, -1}
                    /\ conn[scan.fd] \in {scan.addr, NoPeer}
                    /\ Open => table[scan.i].fd = scan.fd /\ table[scan.i].addr = scan.addr
                    /\ lpc = "callback" => scan.from = scan.addr
                    /\ lpc = "drop" /\ Open => scan.addr \in Peers /\ peer[scan.addr] = "left"
<1>a. lpc \in {"recv", "callback", "drop"} /\ ~stale => Knows
  BY DEF ListenerInv
<1>b. lpc \in {"recv", "callback", "drop"} /\ ~stale => scan.i # Removing
  BY <1>a, NotRemoving
<1>1. CASE ScanStart
  BY <1>1, <1>0 DEF ScanStart
<1>2. CASE ReadSlot
  <2>1. lpc' = "recv"
    BY <1>2, <1>0 DEF ReadSlot, NextSlot
  <2>2. PICK i : i = scan.i
    OBVIOUS
  <2>3. i \in Slots /\ i >= 1 /\ table[i].fd > 0 /\ mtx = "none"
    BY <1>2, <2>1, <2>2, Sizes DEF ReadSlot, NextSlot, TypeOK, ListenerType, Scan
  <2>4. Removing = 0
    BY <2>3 DEF Removing
  <2>5. table[i].fd \in Sockets
    <3>1. table[i].fd \in Sockets \cup {-1, 0}
      BY <2>3 DEF TypeOK, TableType, Slot
    <3> QED
      BY <2>3, <3>1
  <2>6. i \in 1..(client_count - 1)
    <3>1. ~(i \in client_count..(MaxClients - 1))
      BY <2>5, Sizes DEF SlotInv
    <3> QED
      BY <2>3, <3>1, Sizes DEF TypeOK, TableType
  <2>7. conn[table[i].fd] \in {table[i].addr, NoPeer}
    BY <2>3, <2>4, <2>5, <2>6 DEF SlotInv
  <2>8. scan'.i = i /\ scan'.fd = table[i].fd /\ scan'.addr = table[i].addr
    BY <1>2, <2>1, <2>2 DEF ReadSlot, NextSlot, TypeOK, ListenerType, Scan
  <2>9. /\ table' = table /\ client_count' = client_count /\ conn' = conn /\ tpc' = tpc
        /\ tpc # "shift"
    BY <1>2, <2>3 DEF ReadSlot, kernel, caller, LockInv
  <2> QED
    BY <2>1, <2>5, <2>6, <2>7, <2>8, <2>9 DEF ListenerInv
<1>3. CASE Receive
  <2>1. /\ table' = table /\ client_count' = client_count /\ conn' = conn /\ peer' = peer
        /\ tpc' = tpc /\ job' = job /\ lpc = "recv" /\ stale' = stale
        /\ lpc' \in {"callback", "drop"}
    BY <1>3, <1>0 DEF Receive, NextSlot, caller
  <2>2. Knows /\ scan.i # Removing
    BY <1>0, <1>a, <1>b, <2>1
  <2>3. CASE lpc' = "callback"
    <3>1. scan' = [scan EXCEPT !.from = conn[scan.fd]] /\ conn[scan.fd] \in Peers
      BY <1>3, <2>3 DEF Receive, NextSlot
    <3>2. /\ scan'.i = scan.i /\ scan'.fd = scan.fd /\ scan'.addr = scan.addr
          /\ scan'.from = conn[scan.fd]
      BY <3>1 DEF TypeOK, ListenerType, Scan
    <3>3. conn[scan.fd] = scan.addr
      BY <2>2, <3>1, ConstantsAssumption
    <3> QED
      BY <2>1, <2>2, <2>3, <3>2, <3>3 DEF ListenerInv, Open
  <2>4. CASE lpc' = "drop"
    <3>1. scan' = scan /\ (conn[scan.fd] \in Peers => peer[conn[scan.fd]] = "left")
      BY <1>3, <2>4 DEF Receive, NextSlot
    <3>2. Open => scan.addr \in Peers /\ conn[scan.fd] = scan.addr
      BY <2>2 DEF TableInv
    <3> QED
      BY <2>1, <2>2, <2>4, <3>1, <3>2 DEF ListenerInv, Open
  <2> QED
    BY <2>1, <2>3, <2>4
<1>4. CASE Callback
  BY <1>4, <1>0 DEF Callback, NextSlot
<1>5. CASE Drop
  BY <1>5, <1>0 DEF Drop, NextSlot
<1>6. CASE DropShifts
  BY <1>6, <1>0 DEF DropShifts, NextSlot
<1>7. CASE Accept
  <2>1. Open
    BY <1>7, ConstantsAssumption DEF Accept, ConnectedTo, OpenInv, Open
  <2>2. PICK p \in Peers, f \in Sockets :
           /\ peer[p] = "waiting" /\ conn[f] = NoPeer
           /\ conn' = [conn EXCEPT ![f] = p] /\ peer' = [peer EXCEPT ![p] = "connected"]
    BY <1>7 DEF Accept
  <2>3. /\ \A g \in Sockets : conn'[g] = IF g = f THEN p ELSE conn[g]
        /\ \A q \in Peers : q # p => peer'[q] = peer[q]
    BY <2>2 DEF TypeOK, KernelType
  <2>4. /\ table' = table /\ client_count' = client_count /\ scan' = scan /\ lpc' = lpc
        /\ tpc' = tpc /\ job' = job /\ stale' = stale
    BY <1>7 DEF Accept, listener, caller
  <2>5. Knows /\ scan.i # Removing
    BY <1>0, <1>a, <1>b, <2>4
  <2>6. conn[scan.fd] = scan.addr /\ scan.addr \in Peers
    BY <2>1, <2>5 DEF TableInv
  <2>7. scan.fd # f
    BY <2>2, <2>6, ConstantsAssumption
  <2>8. conn'[scan.fd] = scan.addr
    BY <2>3, <2>5, <2>6, <2>7
  <2>9. lpc = "drop" => peer'[scan.addr] = "left"
    BY <2>1, <2>2, <2>3, <2>5, <2>6
  <2> QED
    BY <2>1, <2>4, <2>5, <2>6, <2>8, <2>9 DEF ListenerInv
<1>8. CASE TurnAway
  <2>1. /\ \A g \in Sockets : conn'[g] = IF g = cs THEN NoPeer ELSE conn[g]
        /\ \A q \in Peers : peer'[q] = IF ConnectedTo(cs) = q THEN "closed" ELSE peer[q]
    BY <1>8, Closes DEF TurnAway
  <2>2. /\ table' = table /\ client_count' = client_count /\ scan' = scan /\ lpc' = lpc
        /\ tpc' = tpc /\ job' = job /\ stale' = stale /\ apc = "insert"
    BY <1>8 DEF TurnAway, listener, caller
  <2>3. Open' => Open
    BY OpenBefore
  <2>4. Knows /\ scan.i # Removing
    BY <1>0, <1>a, <1>b, <2>2
  <2>5. ASSUME lpc = "drop", Open
        PROVE  scan.addr \in Peers /\ peer'[scan.addr] = "left"
    <3>1. scan.fd # cs /\ conn[scan.fd] = scan.addr /\ scan.addr \in Peers
      BY <2>2, <2>4, <2>5 DEF TableInv
    <3>2. ConnectedTo(cs) # scan.addr
      BY <2>4, <3>1, ConstantsAssumption DEF ConnectedTo, PeerInv
    <3> QED
      BY <2>1, <2>4, <2>5, <3>1, <3>2
  <2> QED
    BY <2>1, <2>2, <2>3, <2>4, <2>5 DEF ListenerInv
<1>9. CASE Insert
  <2>1. /\ conn' = conn /\ peer' = peer /\ scan' = scan /\ lpc' = lpc /\ tpc' = tpc
        /\ job' = job /\ stale' = stale /\ client_count' = client_count + 1
    BY <1>9 DEF Insert, kernel, listener, caller
  <2>2. \A i \in 1..(client_count - 1) : i \in 1..(client_count' - 1) /\ table'[i] = table[i]
    BY <1>9, <2>1, Sizes DEF Insert, TypeOK, TableType
  <2>3. Knows
    BY <1>0, <1>a, <2>1
  <2> QED
    BY <2>1, <2>2, <2>3 DEF ListenerInv, Open
<1>10. CASE AccepterStops
  BY <1>10, ListenerSame DEF AccepterStops, kernel, listener, caller
<1>11. CASE BroadcastStart
  BY <1>11, ListenerSame DEF BroadcastStart, kernel, listener
<1>12. CASE BroadcastNext
  BY <1>12, ListenerSame DEF BroadcastNext, kernel, listener
<1>13. CASE BroadcastSend
  BY <1>13, ListenerSame DEF BroadcastSend, kernel, listener
<1>14. CASE BroadcastDone
  BY <1>14, ListenerSame DEF BroadcastDone, kernel, listener
<1>15. CASE AppDisconnect
  <2>1. PICK cid \in 1..(MaxClients - 1) :
           /\ DisconnectCloses("app", cid) /\ job' = [i |-> cid, fd |-> 0]
           /\ stale' = \/ stale
                       \/ lpc \in {"recv", "callback", "drop"} /\ cid <= scan.i
    BY <1>15 DEF AppDisconnect
  <2>2. /\ table' = table /\ client_count' = client_count /\ scan' = scan /\ lpc' = lpc
        /\ mtx = "none" /\ Removing = 0 /\ tpc = "idle" /\ job'.i = cid
    BY <1>15, <2>1 DEF AppDisconnect, DisconnectCloses, Removing
  <2>3. Knows /\ scan.i < cid /\ Open
    BY <1>0, <1>a, <2>1, <2>2 DEF OpenInv, Closing, TypeOK, ListenerType, Scan
  <2>4. /\ cid \in 1..(client_count - 1)
        /\ \A g \in Sockets : conn'[g] = IF g = table[cid].fd THEN NoPeer ELSE conn[g]
        /\ \A q \in Peers : peer'[q] = IF ConnectedTo(table[cid].fd) = q THEN "closed" ELSE peer[q]
    BY <2>1, Closes, Sizes DEF DisconnectCloses, ValidCid, TypeOK, TableType
  <2>5. /\ table[cid].fd # scan.fd /\ table[cid].fd \in Sockets
        /\ conn[scan.fd] = scan.addr /\ scan.addr \in Peers
    BY <2>2, <2>3, <2>4 DEF TableInv
  <2>6. ConnectedTo(table[cid].fd) # scan.addr
    BY <2>3, <2>5 DEF ConnectedTo, PeerInv
  <2> QED
    BY <2>2, <2>3, <2>4, <2>5, <2>6 DEF ListenerInv
<1>16. CASE AppShifts
  <2>1. /\ table' = Compacted(job.i) /\ client_count' = client_count - 1 /\ conn' = conn
        /\ peer' = peer /\ scan' = scan /\ lpc' = lpc /\ stale' = stale
        /\ tpc = "shift" /\ tpc' = "idle" /\ job.i \in 1..(client_count - 1)
    BY <1>16 DEF AppShifts, DisconnectShifts, kernel, listener, LockInv, Removing
  <2>2. Knows /\ scan.i < job.i
    BY <1>0, <1>a, <2>1
  <2>3. scan.i \in Slots /\ scan.i \in 1..(client_count - 2)
    BY <2>1, <2>2, Sizes DEF TypeOK, TableType
  <2>4. table'[scan.i] = table[scan.i]
    BY <2>1, <2>2, <2>3, CompactedSlots
  <2>5. client_count - 1 - 1 = client_count - 2
    BY DEF TypeOK, TableType
  <2> QED
    BY <2>1, <2>2, <2>3, <2>4, <2>5 DEF ListenerInv, Open
<1>17. CASE CloseStart
  BY <1>17, ListenerSame DEF CloseStart, kernel, listener
<1>18. CASE CloseSlot
  <2>1. /\ table' = table /\ client_count' = client_count /\ scan' = scan /\ lpc' = lpc
        /\ stale' = stale /\ tpc' # "shift"
    BY <1>18 DEF CloseSlot, listener
  <2>2. \A g \in Sockets : conn'[g] \in {conn[g], NoPeer}
    BY <1>18, Closes DEF CloseSlot, kernel
  <2>3. ~Open'
    <3>1. SUFFICES ASSUME Open' PROVE FALSE
      OBVIOUS
    <3>2. Open
      BY <3>1, OpenBefore
    <3>3. table[job.i].fd = 1
      BY <1>18, <3>2 DEF CloseSlot, OpenInv, TableInv, Closing
    <3>4. conn'[1] = NoPeer
      BY <1>18, <3>3, Closes, Sizes DEF CloseSlot
    <3> QED
      BY <3>1, <3>4, ConstantsAssumption DEF Open
  <2>4. Knows
    BY <1>0, <1>a, <2>1
  <2> QED
    BY <2>1, <2>2, <2>3, <2>4 DEF ListenerInv
<1>19. CASE CloseClears
  <2>1. /\ client_count' = client_count /\ scan' = scan /\ lpc' = lpc /\ conn' = conn
        /\ stale' = stale /\ tpc' # "shift"
    BY <1>19 DEF CloseClears, listener, kernel
  <2>2. \A i \in Slots : table'[i].fd = IF i = job.i THEN -1 ELSE table[i].fd
    BY <1>19 DEF CloseClears, ClearedSlot, TypeOK, TableType
  <2>3. ~Open'
    BY <1>19, <2>1 DEF CloseClears, OpenInv, Open, Closing
  <2>4. 1..(client_count - 1) \subseteq Slots
    BY Sizes DEF TypeOK, TableType
  <2>5. Knows
    BY <1>0, <1>a, <2>1
  <2> QED
    BY <2>1, <2>2, <2>3, <2>4, <2>5 DEF ListenerInv
<1>20. CASE CloseStops
  BY <1>20, ListenerSame DEF CloseStops, kernel, listener
<1>21. CASE Join
  BY <1>21, ListenerSame DEF Join, kernel, listener
<1>22. CASE \E p \in Peers : Connect(p) \/ Send(p) \/ HangUp(p)
  <2>1. \A q \in Peers : peer[q] = "left" => peer'[q] = "left"
    BY <1>22 DEF Connect, Send, HangUp, TypeOK, KernelType
  <2> QED
    BY <1>22, <2>1, ListenerSame DEF Connect, Send, HangUp, Server, listener, caller
<1>23. CASE UNCHANGED vars
  BY <1>23, ListenerSame DEF vars
<1> QED
  BY <1>1, <1>2, <1>3, <1>4, <1>5, <1>6, <1>7, <1>8, <1>9, <1>10, <1>11, <1>12, <1>13, <1>14,
     <1>15, <1>16, <1>17, <1>18, <1>19, <1>20, <1>21, <1>22, <1>23 DEF Next, Listener, Accepter,
     Application, Continue

\* The client being removed stays cut off, and its number out of the table.
LEMMA RemovalStep ==
  ASSUME TypeOK, LockInv, OpenInv, PeerInv, TableInv, RemovalInv, [Next]_vars
  PROVE  RemovalInv'
<1> SUFFICES ASSUME mtx' = "listener", Open' PROVE RemovalInv'
  BY DEF RemovalInv
<1>0. mtx' = "listener" /\ Open' /\ Open
  BY OpenBefore
<1>1. CASE mtx = "listener"
  <2>1. /\ table[scan.i].addr \in Peers /\ peer[table[scan.i].addr] = "closed"
        /\ \A i \in 1..(client_count - 1) : i # scan.i => table[i].fd # table[scan.i].fd
    BY <1>0, <1>1 DEF RemovalInv
  <2>2. lpc = "shift" /\ ~DropShifts
    BY <1>0, <1>1 DEF LockInv, DropShifts, DisconnectShifts
  <2>3. ~Insert /\ ~AppDisconnect /\ ~AppShifts
    BY <1>1 DEF Insert, AppDisconnect, DisconnectCloses, AppShifts, DisconnectShifts
  <2>4. ~CloseClears
    BY <1>0 DEF CloseClears, OpenInv, Closing
  <2>5. ~ScanStart /\ ~ReadSlot /\ ~Receive /\ ~Callback /\ ~Drop
    BY <2>2 DEF ScanStart, ReadSlot, Receive, Callback, Drop
  <2>6. table' = table /\ client_count' = client_count /\ scan' = scan
    BY <2>2, <2>3, <2>4, <2>5 DEF Next, Listener, Accepter, Application, Continue, Accept,
       TurnAway, AccepterStops, BroadcastStart, BroadcastNext, BroadcastSend, BroadcastDone,
       CloseStart, CloseSlot, CloseStops, Join, Connect, Send, HangUp, Server, listener, vars
  <2>7. \A q \in Peers : peer[q] = "closed" => peer'[q] = "closed"
    <3>1. CASE Accept
      BY <3>1 DEF Accept, TypeOK, KernelType
    <3>2. CASE TurnAway
      BY <3>2, Closes DEF TurnAway
    <3>3. CASE CloseSlot
      BY <3>3, Closes DEF CloseSlot, kernel
    <3>4. CASE \E p \in Peers : Connect(p) \/ Send(p) \/ HangUp(p)
      BY <3>4 DEF Connect, Send, HangUp, TypeOK, KernelType
    <3>5. CASE peer' = peer
      BY <3>5
    <3> QED
      BY <2>2, <2>3, <2>4, <2>5, <3>1, <3>2, <3>3, <3>4, <3>5
         DEF Next, Listener, Accepter, Application, Continue, AccepterStops, BroadcastStart,
         BroadcastNext, BroadcastSend, BroadcastDone, CloseStart, CloseStops, Join, kernel, vars
  <2> QED
    BY <2>1, <2>6, <2>7 DEF RemovalInv
<1>2. CASE mtx # "listener"
  <2>1. Drop /\ DisconnectCloses("listener", scan.i) /\ scan' = scan
    BY <1>0, <1>2 DEF Next, Listener, Accepter, Application, Continue, ScanStart, ReadSlot, Receive,
       Callback, Drop, DisconnectRefused, DropShifts, DisconnectShifts, Accept, TurnAway, Insert,
       AccepterStops, BroadcastStart, BroadcastNext, BroadcastSend, BroadcastDone, AppDisconnect,
       DisconnectCloses, AppShifts, CloseStart, CloseSlot, CloseClears, CloseStops, Join,
       Connect, Send, HangUp, Server, vars
  <2>2. /\ table' = table /\ client_count' = client_count /\ mtx = "none"
        /\ ValidCid(scan.i) /\ CloseSocket(table[scan.i].fd)
    BY <2>1 DEF DisconnectCloses
  <2>3. scan.i \in 1..(client_count - 1) /\ Removing = 0
    BY <2>2, Sizes DEF ValidCid, Removing, TypeOK, TableType, ListenerType, Scan
  <2>4. /\ table[scan.i].fd \in Sockets /\ table[scan.i].addr \in Peers
        /\ conn[table[scan.i].fd] = table[scan.i].addr
    BY <1>0, <2>3 DEF TableInv
  <2>5. peer'[table[scan.i].addr] = "closed"
    BY <2>2, <2>4, Closes DEF ConnectedTo
  <2>6. \A i \in 1..(client_count - 1) : i # scan.i => table[i].fd # table[scan.i].fd
    BY <1>0, <2>3 DEF TableInv
  <2> QED
    BY <2>1, <2>2, <2>4, <2>5, <2>6 DEF RemovalInv
<1> QED
  BY <1>1, <1>2

\* While a broadcast is under way, each client that is not cut off has one slot, with its
\* socket in it, and no other socket leads to it.
LEMMA OneSlotEach ==
  ASSUME TypeOK, OpenInv, PeerInv, TableInv, RemovalInv, Open, mtx # "app",
         NEW i \in 1..(client_count - 1), table[i].addr \in Peers,
         peer[table[i].addr] # "closed"
  PROVE  /\ i # Removing /\ table[i].fd \in Sockets /\ conn[table[i].fd] = table[i].addr
         /\ \A f \in Sockets : conn[f] = table[i].addr => f = table[i].fd
         /\ \A k \in 1..(client_count - 1) : table[k].addr = table[i].addr => k = i
<1>1. \A k \in 1..(client_count - 1) :
         k = Removing => /\ table[k].addr \in Peers => peer[table[k].addr] = "closed"
                         /\ mtx = "listener"
  BY DEF Removing, RemovalInv, TypeOK, TableType
<1>2. i # Removing /\ table[i].fd \in Sockets /\ conn[table[i].fd] = table[i].addr
  BY <1>1 DEF TableInv
<1>3. \A f \in Sockets : conn[f] = table[i].addr => f = table[i].fd
  BY <1>2 DEF PeerInv
<1>4. ASSUME NEW k \in 1..(client_count - 1), table[k].addr = table[i].addr
      PROVE  k = i
  <2>1. k # Removing
    BY <1>1, <1>4
  <2>2. table[k].fd \in Sockets /\ conn[table[k].fd] = table[i].addr
    BY <1>4, <2>1 DEF TableInv
  <2>3. table[k].fd = table[i].fd
    BY <1>3, <2>2
  <2> QED
    BY <1>2, <2>1, <2>3 DEF TableInv
<1> QED
  BY <1>2, <1>3, <1>4

\* Nor does a socket that the accepter holds, or that is free, lead to one of them.
LEMMA PresentAreInSlots ==
  ASSUME TypeOK, OpenInv, PeerInv, TableInv, RemovalInv, BroadcastInv,
         tpc \in {"next", "send"}, NEW f \in Sockets, conn[f] \in present
  PROVE  \E i \in 1..(client_count - 1) : i # Removing /\ table[i].fd = f
<1>1. conn[f] \in Peers /\ peer[conn[f]] # "closed"
  BY DEF TypeOK, BroadcastType, PeerInv
<1>2. PICK i \in 1..(client_count - 1) : i # Removing /\ table[i].addr = conn[f]
  BY <1>1 DEF BroadcastInv
<1>3. Open
  BY DEF OpenInv, Closing
<1>4. table[i].fd \in Sockets /\ conn[table[i].fd] = conn[f]
  BY <1>2, <1>3 DEF TableInv
<1> QED
  BY <1>1, <1>2, <1>4 DEF PeerInv

\* No more clients are missed when fewer are.
LEMMA FewerMissed ==
  ASSUME NEW S, NEW T, IsFiniteSet(S), T \subseteq S
  PROVE  IsFiniteSet(T) /\ Cardinality(T) \in Nat /\ Cardinality(S) \in Nat
         /\ Cardinality(T) <= Cardinality(S)
<1>1. IsFiniteSet(T) /\ Cardinality(T) <= Cardinality(S)
  BY FS_Subset
<1> QED
  BY <1>1, FS_CardinalityType

\* Steps that leave the broadcast alone, and the table of those who are in it.
LEMMA BroadcastSame ==
  ASSUME TypeOK, BroadcastInv, tpc \in {"next", "send"}, tpc' = tpc, job' = job,
         present' = present, reached' = reached, removed' = removed, mtx' = mtx,
         Removing' = Removing, table' = table, client_count' = client_count,
         \A p \in present : /\ peer'[p] = "closed" <=> peer[p] = "closed"
                            /\ peer'[p] \in {"connected", "left", "closed"}
                            /\ p = ConnectedTo(job.fd)' <=> p = ConnectedTo(job.fd)
  PROVE  BroadcastInv'
<1>1. \A p \in present : /\ InSlotsAhead(p)' <=> InSlotsAhead(p)
                         /\ Ahead(p)' <=> Ahead(p)
  BY DEF InSlotsAhead, Ahead, FirstAhead
<1>2. Missed' = Missed /\ Pending' = Pending
  BY <1>1 DEF Missed, Pending
<1> QED
  BY <1>1, <1>2 DEF BroadcastInv

\* A client is cut off during a broadcast, because the listener has begun to remove it.
LEMMA BroadcastCutsOff ==
  ASSUME TypeOK, OpenInv, PeerInv, TableInv, RemovalInv, BroadcastInv,
         tpc \in {"next", "send"}, tpc' = tpc, job' = job, caller' = caller,
         NEW c \in 1..(client_count - 1),
         mtx = "none", mtx' = "listener", Removing' = c, CloseSocket(table[c].fd),
         table' = table, client_count' = client_count,
         present' = present, reached' = reached, removed' = removed + 1
  PROVE  BroadcastInv'
<1>1. Open /\ Removing = 0
  BY DEF OpenInv, Closing, Removing
<1>2. /\ table[c].fd \in Sockets /\ table[c].addr \in Peers
      /\ conn[table[c].fd] = table[c].addr
  BY <1>1 DEF TableInv
<1>3. ConnectedTo(table[c].fd) = table[c].addr
  BY <1>2 DEF ConnectedTo
<1>4. /\ \A g \in Sockets : conn'[g] = IF g = table[c].fd THEN NoPeer ELSE conn[g]
      /\ \A q \in Peers : peer'[q] = IF q = table[c].addr THEN "closed" ELSE peer[q]
  BY <1>3, Closes
<1>5. present \subseteq Peers
  BY DEF TypeOK, BroadcastType
<1>6. \A q \in present : /\ q # table[c].addr => peer'[q] = peer[q]
                         /\ q = table[c].addr => peer'[q] = "closed"
  BY <1>4, <1>5
<1>7. ASSUME NEW q \in present
      PROVE  /\ InSlotsAhead(q)' <=> InSlotsAhead(q)
             /\ q = ConnectedTo(job.fd)' => q = ConnectedTo(job.fd)
             /\ q # table[c].addr => (q = ConnectedTo(job.fd)' <=> q = ConnectedTo(job.fd))
  <2>1. InSlotsAhead(q)' <=> InSlotsAhead(q)
    BY DEF InSlotsAhead, FirstAhead
  <2>2. q # NoPeer
    BY <1>5, ConstantsAssumption
  <2> QED
    BY <1>2, <1>4, <2>1, <2>2 DEF ConnectedTo
<1>8. \A q \in present : /\ Ahead(q)' => Ahead(q)
                         /\ q # table[c].addr /\ Ahead(q) => Ahead(q)'
  BY <1>7 DEF Ahead
<1>9. Missed' \subseteq Missed
  BY <1>6, <1>8 DEF Missed
<1>10. /\ job.i >= 1 /\ IsFiniteSet(Missed) /\ Cardinality(Missed) + Pending <= removed
       /\ \A q \in present :
              /\ peer[q] \in {"connected", "left", "closed"}
              /\ reached[q] <= 1
              /\ peer[q] # "closed" =>
                    \E i \in 1..(client_count - 1) : i # Removing /\ table[i].addr = q
              /\ peer[q] # "closed" /\ Ahead(q) => reached[q] = 0
              /\ tpc = "send" /\ q = ConnectedTo(job.fd) => ~InSlotsAhead(q)
  BY DEF BroadcastInv
<1>11. Pending = 0 /\ Pending' = 1 /\ removed \in Nat
  BY DEF Pending, TypeOK, BroadcastType
<1>12. IsFiniteSet(Missed') /\ Cardinality(Missed') + Pending' <= removed'
  BY <1>9, <1>10, <1>11, FewerMissed
<1>13. ASSUME NEW q \in present, peer'[q] # "closed"
       PROVE  \E i \in 1..(client_count - 1) : i # c /\ table[i].addr = q
  BY <1>6, <1>10, <1>13
<1>14. \A q \in present : peer'[q] \in {"connected", "left", "closed"}
                          /\ (peer'[q] # "closed" => peer[q] # "closed")
  BY <1>6, <1>10
<1> QED
  BY <1>7, <1>8, <1>10, <1>12, <1>13, <1>14 DEF BroadcastInv

\* Its slot is removed from the table: the broadcast may miss the first one ahead of it.
LEMMA BroadcastShifts ==
  ASSUME TypeOK, OpenInv, PeerInv, TableInv, RemovalInv, BroadcastInv,
         tpc \in {"next", "send"}, tpc' = tpc, job' = job,
         NEW c \in 1..(client_count - 1),
         mtx = "listener", mtx' = "none", Removing = c, Removing' = 0,
         table' = Compacted(c), client_count' = client_count - 1, conn' = conn, peer' = peer,
         present' = present, reached' = reached, removed' = removed
  PROVE  BroadcastInv'
<1>1. Open
  BY DEF OpenInv, Closing
<1>2. PICK n : n = client_count
  OBVIOUS
<1>3. n \in 1..MaxClients /\ c \in 1..(n - 1) /\ client_count' - 1 = n - 2
  BY <1>2 DEF TypeOK, TableType
<1>4. /\ \A i \in Slots : i < c => table'[i] = table[i]
      /\ \A i \in Slots : i >= c /\ i < n - 1 => i + 1 \in Slots /\ table'[i] = table[i + 1]
  BY <1>2, CompactedSlots
<1>5. /\ \A i \in 1..(n - 2) : i < c => table'[i] = table[i]
      /\ \A i \in 1..(n - 2) : i >= c => table'[i] = table[i + 1]
  BY <1>3, <1>4, Sizes
<1>6. present \subseteq Peers
  BY DEF TypeOK, BroadcastType
<1>7. PICK k : k = FirstAhead
  OBVIOUS
<1>8. k \in Nat \ {0} /\ FirstAhead' = k
  <2>1. job.i \in Nat \ {0}
    BY DEF BroadcastInv, TypeOK, CallerType
  <2> QED
    BY <1>7, <2>1 DEF FirstAhead
<1>9. ASSUME NEW q, InSlotsAhead(q)' PROVE InSlotsAhead(q)
  <2>1. PICK i \in k..(n - 2) : table'[i].addr = q
    BY <1>3, <1>8, <1>9 DEF InSlotsAhead
  <2>2. i \in 1..(n - 2) /\ i \in k..(n - 1) /\ i + 1 \in k..(n - 1)
    BY <1>3, <1>8, <2>1
  <2>3. table[i].addr = q \/ table[i + 1].addr = q
    BY <1>3, <1>5, <2>1, <2>2
  <2> QED
    BY <1>2, <1>7, <2>2, <2>3 DEF InSlotsAhead
<1>10. ASSUME NEW q \in present, peer[q] # "closed", InSlotsAhead(q), ~InSlotsAhead(q)'
       PROVE  q = table[k].addr
  <2>1. PICK i \in k..(n - 1) : table[i].addr = q
    BY <1>2, <1>7, <1>10 DEF InSlotsAhead
  <2>2. i \in 1..(n - 1)
    BY <1>3, <1>8, <2>1
  <2>3. i # c
    BY <1>1, <1>2, <1>6, <1>10, <2>1, <2>2, OneSlotEach
  <2>4. ~(i < c)
    <3>1. SUFFICES ASSUME i < c PROVE FALSE
      OBVIOUS
    <3>2. i \in k..(n - 2) /\ i \in 1..(n - 2)
      BY <1>3, <2>1, <2>2, <3>1
    <3>3. table'[i].addr = q
      BY <1>5, <2>1, <3>1, <3>2
    <3> QED
      BY <1>3, <1>8, <1>10, <3>2, <3>3 DEF InSlotsAhead
  <2>5. i = k
    <3>1. SUFFICES ASSUME i # k PROVE FALSE
      OBVIOUS
    <3>2. /\ i - 1 \in k..(n - 2) /\ i - 1 \in 1..(n - 2) /\ i - 1 >= c
          /\ i - 1 + 1 = i
      BY <1>3, <1>8, <2>1, <2>2, <2>3, <2>4, <3>1
    <3>3. table'[i - 1].addr = q
      BY <1>5, <2>1, <3>2
    <3> QED
      BY <1>3, <1>8, <1>10, <3>2, <3>3 DEF InSlotsAhead
  <2> QED
    BY <2>1, <2>5
<1>11. \A q : ConnectedTo(job.fd)' = ConnectedTo(job.fd)
  BY DEF ConnectedTo
<1>12. /\ \A q : Ahead(q)' => Ahead(q)
       /\ \A q \in present : peer[q] # "closed" /\ Ahead(q) /\ ~Ahead(q)' => q = table[k].addr
  BY <1>9, <1>10, <1>11 DEF Ahead
<1>13. Missed' \subseteq Missed \cup {table[k].addr}
  BY <1>12 DEF Missed
<1>14. IsFiniteSet(Missed) /\ Cardinality(Missed) + 1 <= removed /\ removed \in Nat
  BY DEF BroadcastInv, Pending, TypeOK, BroadcastType
<1>15. /\ IsFiniteSet(Missed \cup {table[k].addr})
       /\ Cardinality(Missed \cup {table[k].addr}) <= removed
  <2>1. Cardinality(Missed) \in Nat
    BY <1>14, FS_CardinalityType
  <2>2. /\ IsFiniteSet(Missed \cup {table[k].addr})
        /\ Cardinality(Missed \cup {table[k].addr})
             \in {Cardinality(Missed), Cardinality(Missed) + 1}
    BY <1>14, FS_AddElement
  <2> QED
    BY <1>14, <2>1, <2>2
<1>16. IsFiniteSet(Missed') /\ Cardinality(Missed') + Pending' <= removed'
  <2>1. /\ IsFiniteSet(Missed') /\ Cardinality(Missed') \in Nat
        /\ Cardinality(Missed \cup {table[k].addr}) \in Nat
        /\ Cardinality(Missed') <= Cardinality(Missed \cup {table[k].addr})
    BY <1>13, <1>15, FewerMissed
  <2>2. Pending' = 0
    BY DEF Pending
  <2> QED
    BY <1>14, <1>15, <2>1, <2>2
<1>17. ASSUME NEW q \in present, peer[q] # "closed"
       PROVE  \E i \in 1..(n - 2) : i # 0 /\ table'[i].addr = q
  <2>1. PICK i \in 1..(n - 1) : i # c /\ table[i].addr = q
    BY <1>2, <1>17 DEF BroadcastInv
  <2>2. CASE i < c
    <3>1. i \in 1..(n - 2) /\ i # 0
      BY <1>3, <2>1, <2>2
    <3> QED
      BY <1>5, <2>1, <2>2, <3>1
  <2>3. CASE i > c
    <3>1. i - 1 \in 1..(n - 2) /\ i - 1 # 0 /\ i - 1 >= c /\ i - 1 + 1 = i
      BY <1>3, <2>1, <2>3
    <3> QED
      BY <1>5, <2>1, <3>1
  <2> QED
    BY <1>3, <2>1, <2>2, <2>3
<1>18. /\ job.i >= 1
       /\ \A q \in present :
              /\ peer[q] \in {"connected", "left", "closed"}
              /\ reached[q] <= 1
              /\ peer[q] # "closed" /\ Ahead(q) => reached[q] = 0
              /\ tpc = "send" /\ q = ConnectedTo(job.fd) => ~InSlotsAhead(q)
  BY DEF BroadcastInv
<1> QED
  BY <1>3, <1>9, <1>11, <1>12, <1>16, <1>17, <1>18 DEF BroadcastInv

\* A new client gets the slot behind the others.
LEMMA BroadcastInserts ==
  ASSUME TypeOK, TypeOK', OpenInv, PeerInv, TableInv, RemovalInv, BroadcastInv,
         tpc \in {"next", "send"}, tpc' = tpc, Insert, Removing' = Removing
  PROVE  BroadcastInv'
<1>1. PICK n : n = client_count
  OBVIOUS
<1>2. /\ n \in Slots \ {0} /\ client_count' = n + 1 /\ table \in [Slots -> Slot]
      /\ mtx = "none" /\ Removing = 0 /\ apc = "insert"
  BY <1>1, Sizes DEF Insert, TypeOK, TableType, Removing
<1>3. /\ \A i \in Slots : table'[i] = IF i = n THEN [fd |-> cs, addr |-> conn[cs]] ELSE table[i]
      /\ conn' = conn /\ peer' = peer /\ job' = job /\ mtx' = mtx /\ present' = present
      /\ reached' = reached /\ removed' = removed
  BY <1>1, <1>2 DEF Insert, kernel, caller, broadcast
<1>4. Open
  BY DEF OpenInv, Closing
<1>5. conn[cs] \notin present
  <2>1. cs \in Sockets /\ \A i \in 1..(n - 1) : i # Removing => table[i].fd # cs
    BY <1>1, <1>2, <1>4 DEF TableInv, OpenInv
  <2> QED
    BY <1>1, <2>1, PresentAreInSlots
<1>6. \A i \in 1..(n - 1) : i \in 1..n /\ table'[i] = table[i]
  BY <1>2, <1>3, Sizes
<1>7. table'[n].addr = conn[cs]
  BY <1>2, <1>3
<1>8. PICK k : k = FirstAhead
  OBVIOUS
<1>9. k \in Nat \ {0} /\ FirstAhead' = k
  <2>1. job.i \in Nat \ {0}
    BY DEF BroadcastInv, TypeOK, CallerType
  <2> QED
    BY <1>3, <1>8, <2>1 DEF FirstAhead
<1>10. client_count' - 1 = n
  BY <1>2, Sizes
<1>11. ASSUME NEW q \in present PROVE InSlotsAhead(q)' <=> InSlotsAhead(q)
  <2>1. ASSUME NEW i \in k..(n - 1), table[i].addr = q
        PROVE  i \in k..n /\ table'[i].addr = q
    <3>1. i \in 1..(n - 1) /\ i \in k..n
      BY <1>2, <1>9, <2>1, Sizes
    <3> QED
      BY <1>6, <2>1, <3>1
  <2>2. ASSUME NEW i \in k..n, table'[i].addr = q
        PROVE  i \in k..(n - 1) /\ table[i].addr = q
    <3>1. i # n
      BY <1>5, <1>7, <2>2
    <3>2. i \in 1..(n - 1) /\ i \in k..(n - 1)
      BY <1>2, <1>9, <2>2, <3>1, Sizes
    <3> QED
      BY <1>6, <2>2, <3>2
  <2>3. InSlotsAhead(q) <=> \E i \in k..(n - 1) : table[i].addr = q
    BY <1>1, <1>8 DEF InSlotsAhead
  <2>4. InSlotsAhead(q)' <=> \E i \in k..n : table'[i].addr = q
    BY <1>9, <1>10 DEF InSlotsAhead
  <2> QED
    BY <2>1, <2>2, <2>3, <2>4
<1>12. ConnectedTo(job.fd)' = ConnectedTo(job.fd)
  BY <1>3 DEF ConnectedTo
<1>13. \A q \in present : Ahead(q)' <=> Ahead(q)
  BY <1>11, <1>12 DEF Ahead
<1>14. Missed' = Missed /\ Pending' = Pending
  BY <1>3, <1>13 DEF Missed, Pending
<1>15. ASSUME NEW q \in present, peer[q] # "closed"
       PROVE  \E i \in 1..n : i # Removing /\ table'[i].addr = q
  <2>1. PICK i \in 1..(n - 1) : i # Removing /\ table[i].addr = q
    BY <1>1, <1>15 DEF BroadcastInv
  <2> QED
    BY <1>6, <2>1
<1> QED
  BY <1>3, <1>10, <1>11, <1>12, <1>13, <1>14, <1>15 DEF BroadcastInv

\* Every step of a broadcast and every step beside it keeps BroadcastInv.
LEMMA BroadcastStep ==
  ASSUME TypeOK, TypeOK', LockInv, OpenInv, PeerInv, TableInv, RemovalInv, BroadcastInv,
         [Next]_vars
  PROVE  BroadcastInv'
<1> SUFFICES ASSUME tpc' \in {"next", "send"} PROVE BroadcastInv'
  BY DEF BroadcastInv
<1>0. tpc' \in {"next", "send"} /\ present \subseteq Peers
  BY DEF TypeOK, BroadcastType
<1>a. tpc \in {"next", "send"} =>
         \A p \in present : peer[p] \in {"connected", "left", "closed"}
  BY DEF BroadcastInv
<1>b. ASSUME tpc' = tpc, job' = job, present' = present, reached' = reached,
             removed' = removed, mtx' = mtx, table' = table, client_count' = client_count,
             conn' = conn, peer' = peer
      PROVE  BroadcastInv'
  <2>1. Removing' = Removing
    BY <1>b, RemovingKept
  <2>2. ConnectedTo(job.fd)' = ConnectedTo(job.fd)
    BY <1>b DEF ConnectedTo
  <2> QED
    BY <1>0, <1>a, <1>b, <2>1, <2>2, BroadcastSame
<1>1. CASE ScanStart
  BY <1>1, <1>b DEF ScanStart, kernel, caller, broadcast
<1>2. CASE ReadSlot
  BY <1>2, <1>b DEF ReadSlot, kernel, caller, broadcast
<1>3. CASE Receive
  BY <1>3, <1>b DEF Receive, caller, broadcast
<1>4. CASE Callback
  BY <1>4, <1>b DEF Callback, kernel, caller, broadcast
<1>5. CASE Drop
  <2>1. CASE DisconnectCloses("listener", scan.i) /\ UNCHANGED <<scan, stale>>
    <3>1. /\ tpc' = tpc /\ job' = job /\ mtx = "none" /\ mtx' = "listener"
          /\ ValidCid(scan.i) /\ CloseSocket(table[scan.i].fd) /\ table' = table
          /\ client_count' = client_count /\ present' = present /\ reached' = reached
          /\ caller' = caller
      BY <1>5, <2>1 DEF Drop, DisconnectCloses, caller
    <3>2. removed' = removed + 1
      BY <1>0, <2>1, <3>1 DEF DisconnectCloses
    <3>3. scan.i \in 1..(client_count - 1) /\ Removing' = scan.i
      BY <2>1, <3>1, Sizes
         DEF ValidCid, Removing, TypeOK, TableType, ListenerType, Scan
    <3> QED
      BY <1>0, <3>1, <3>2, <3>3, BroadcastCutsOff
  <2>2. CASE DisconnectRefused(scan.i)
    BY <1>5, <2>2, <1>b DEF Drop, DisconnectRefused, kernel, caller, broadcast
  <2> QED
    BY <1>5, <2>1, <2>2 DEF Drop
<1>6. CASE DropShifts
  <2>1. /\ tpc' = tpc /\ job' = job /\ mtx = "listener" /\ mtx' = "none"
        /\ table' = Compacted(scan.i) /\ client_count' = client_count - 1 /\ conn' = conn
        /\ peer' = peer /\ present' = present /\ reached' = reached /\ removed' = removed
    BY <1>6 DEF DropShifts, DisconnectShifts, kernel, caller, broadcast
  <2>2. Removing = scan.i /\ Removing' = 0 /\ scan.i \in 1..(client_count - 1)
    BY <2>1 DEF Removing, LockInv
  <2> QED
    BY <1>0, <2>1, <2>2, BroadcastShifts
<1>7. CASE Accept
  <2>1. PICK p \in Peers, f \in Sockets :
           /\ peer[p] = "waiting" /\ conn[f] = NoPeer
           /\ conn' = [conn EXCEPT ![f] = p] /\ peer' = [peer EXCEPT ![p] = "connected"]
    BY <1>7 DEF Accept
  <2>2. /\ tpc' = tpc /\ job' = job /\ present' = present /\ reached' = reached
        /\ removed' = removed /\ mtx' = mtx /\ table' = table /\ client_count' = client_count
    BY <1>7 DEF Accept, caller, broadcast
  <2>3. p \notin present
    BY <1>0, <1>a, <2>1, <2>2
  <2>4. \A q \in present : peer'[q] = peer[q]
    BY <1>0, <2>1, <2>3 DEF TypeOK, KernelType
  <2>5. \A q \in present : q = ConnectedTo(job.fd)' <=> q = ConnectedTo(job.fd)
    BY <1>0, <2>1, <2>2, <2>3, ConstantsAssumption DEF ConnectedTo, TypeOK, KernelType
  <2>6. Removing' = Removing
    BY <2>2, RemovingKept
  <2> QED
    BY <1>0, <1>a, <2>2, <2>4, <2>5, <2>6, BroadcastSame
<1>8. CASE TurnAway
  <2>1. /\ tpc' = tpc /\ job' = job /\ present' = present /\ reached' = reached
        /\ removed' = removed /\ mtx' = mtx /\ table' = table /\ client_count' = client_count
        /\ apc = "insert" /\ CloseSocket(cs)
    BY <1>8 DEF TurnAway, caller, broadcast
  <2>2. Open /\ cs \in Sockets
    BY <1>0, <2>1 DEF OpenInv, Closing
  <2>3. conn[cs] \notin present
    <3>1. \A i \in 1..(client_count - 1) : i # Removing => table[i].fd # cs
      BY <2>1, <2>2 DEF TableInv
    <3> QED
      BY <1>0, <2>1, <2>2, <3>1, PresentAreInSlots
  <2>4. /\ \A g \in Sockets : conn'[g] = IF g = cs THEN NoPeer ELSE conn[g]
        /\ \A q \in Peers : peer'[q] = IF conn[cs] = q THEN "closed" ELSE peer[q]
    BY <2>1, <2>2, Closes DEF ConnectedTo
  <2>5. \A q \in present : peer'[q] = peer[q]
    BY <1>0, <2>3, <2>4
  <2>6. \A q \in present : q = ConnectedTo(job.fd)' <=> q = ConnectedTo(job.fd)
    BY <1>0, <2>1, <2>2, <2>3, <2>4, ConstantsAssumption DEF ConnectedTo
  <2>7. Removing' = Removing
    BY <2>1, RemovingKept
  <2> QED
    BY <1>0, <1>a, <2>1, <2>5, <2>6, <2>7, BroadcastSame
<1>9. CASE Insert
  <2>1. tpc' = tpc /\ mtx' = mtx
    BY <1>9 DEF Insert, caller
  <2> QED
    BY <1>0, <1>9, <2>1, RemovingKept, BroadcastInserts
<1>10. CASE AccepterStops
  BY <1>10, <1>b DEF AccepterStops, kernel, caller, broadcast
<1>11. CASE BroadcastStart
  <2>1. /\ table' = table /\ client_count' = client_count /\ mtx' = mtx /\ mtx # "app"
        /\ conn' = conn /\ peer' = peer /\ tpc = "idle" /\ tpc' = "next"
        /\ job' = [i |-> 1, fd |-> 0] /\ present' = InTable \ {NoPeer}
        /\ reached' = [p \in Peers |-> 0] /\ removed' = IF mtx = "none" THEN 0 ELSE 1
    BY <1>11 DEF BroadcastStart, kernel, LockInv
  <2>2. Open /\ Removing' = Removing /\ present' \subseteq Peers
    BY <2>1, RemovingKept DEF OpenInv, Closing, TypeOK, BroadcastType
  <2>3. ASSUME NEW p \in present'
        PROVE  /\ peer[p] \in {"connected", "left", "closed"}
               /\ reached'[p] = 0
               /\ peer[p] # "closed" =>
                    \E i \in 1..(client_count - 1) : i # Removing /\ table[i].addr = p
               /\ Ahead(p)'
    <3>1. PICK i \in 1..(client_count - 1) : table[i].addr = p
      BY <2>1 DEF InTable
    <3>2. p \in Peers
      BY <2>2
    <3>3. peer[p] # "closed" =>
             i # Removing /\ table[i].fd \in Sockets /\ conn[table[i].fd] = p
      BY <2>1, <2>2, <3>1, <3>2, OneSlotEach
    <3>4. peer[p] \in {"connected", "left", "closed"}
      BY <3>2, <3>3 DEF PeerInv
    <3>5. Ahead(p)'
      BY <2>1, <3>1 DEF Ahead, InSlotsAhead, FirstAhead
    <3> QED
      BY <2>1, <3>1, <3>2, <3>3, <3>4, <3>5
  <2>4. Missed' = {}
    BY <2>3 DEF Missed
  <2>5. IsFiniteSet(Missed') /\ Cardinality(Missed') = 0
    BY <2>4, FS_EmptySet
  <2>6. /\ Pending' \in Nat /\ removed' \in Nat /\ Pending' <= removed'
    <3>1. CASE mtx = "none"
      BY <2>1, <3>1 DEF Pending
    <3>2. CASE mtx = "listener"
      BY <2>1, <3>2 DEF Pending
    <3> QED
      BY <2>1, <3>1, <3>2 DEF TypeOK, TableType
  <2>7. Cardinality(Missed') + Pending' <= removed' /\ job'.i >= 1 /\ tpc' # "send"
    <3>1. Cardinality(Missed') + Pending' <= removed'
      <4>1. \A c, n, r : c = 0 /\ n \in Nat /\ r \in Nat /\ n <= r => c + n <= r
        OBVIOUS
      <4> QED
        BY <2>5, <2>6, <4>1, Zenon
    <3>2. job'.i >= 1 /\ tpc' # "send"
      BY <2>1
    <3> QED
      BY <3>1, <3>2
  <2> QED
    BY <2>1, <2>2, <2>3, <2>5, <2>7 DEF BroadcastInv
<1>12. CASE BroadcastNext
  <2>1. /\ table' = table /\ client_count' = client_count /\ mtx' = mtx /\ tpc = "next"
        /\ tpc' = "send" /\ present' = present /\ reached' = reached /\ removed' = removed
        /\ conn' = conn /\ peer' = peer /\ job.i < client_count
        /\ job' = [job EXCEPT !.fd = table[job.i].fd]
    BY <1>12 DEF BroadcastNext, broadcast, kernel
  <2>2. job'.i = job.i /\ job'.fd = table[job.i].fd
    BY <2>1 DEF TypeOK, CallerType
  <2>3. job.i \in 1..(client_count - 1) /\ mtx # "app" /\ Open /\ Removing' = Removing
    BY <2>1, Sizes, RemovingKept
       DEF BroadcastInv, TypeOK, TableType, CallerType, LockInv, OpenInv, Closing
  <2>4. FirstAhead = job.i /\ FirstAhead' = job.i + 1
    BY <2>1, <2>2 DEF FirstAhead
  <2>5. \A p : InSlotsAhead(p) <=> table[job.i].addr = p \/ InSlotsAhead(p)'
    <3>1. job.i..(client_count - 1) = {job.i} \cup ((job.i + 1)..(client_count - 1))
      BY <2>3, Sizes DEF TypeOK, TableType
    <3> QED
      BY <2>1, <2>4, <3>1 DEF InSlotsAhead
  <2>6. ConnectedTo(job.fd)' = ConnectedTo(table[job.i].fd)
    BY <2>1, <2>2 DEF ConnectedTo
  <2>7. ASSUME NEW p \in present, peer[p] # "closed"
        PROVE  /\ p = ConnectedTo(table[job.i].fd) <=> p = table[job.i].addr
               /\ p = table[job.i].addr => ~InSlotsAhead(p)'
    <3>1. p \in Peers /\ p # NoPeer
      BY <1>0, ConstantsAssumption
    <3>2. PICK i \in 1..(client_count - 1) : i # Removing /\ table[i].addr = p
      BY <2>1, <2>7 DEF BroadcastInv
    <3>3. /\ table[i].fd \in Sockets /\ conn[table[i].fd] = p
          /\ \A f \in Sockets : conn[f] = p => f = table[i].fd
          /\ \A k \in 1..(client_count - 1) : table[k].addr = p => k = i
      BY <2>3, <2>7, <3>1, <3>2, OneSlotEach
    <3>4. ASSUME p = ConnectedTo(table[job.i].fd) PROVE job.i = i
      <4>1. table[job.i].fd = table[i].fd
        BY <3>1, <3>3, <3>4 DEF ConnectedTo
      <4>2. job.i # Removing
        BY <2>3, <3>2, <4>1 DEF RemovalInv, Removing
      <4> QED
        BY <2>3, <3>2, <4>1, <4>2 DEF TableInv
    <3>5. p = ConnectedTo(table[i].fd)
      BY <3>3 DEF ConnectedTo
    <3>6. p = table[job.i].addr => ~InSlotsAhead(p)'
      <4>1. SUFFICES ASSUME p = table[job.i].addr, InSlotsAhead(p)' PROVE FALSE
        OBVIOUS
      <4>2. PICK k \in (job.i + 1)..(client_count - 1) : table[k].addr = p
        BY <2>1, <2>4, <4>1 DEF InSlotsAhead
      <4>3. k \in 1..(client_count - 1) /\ k # job.i
        BY <2>3, <4>2 DEF TypeOK, TableType
      <4> QED
        BY <2>3, <3>3, <4>1, <4>2, <4>3
    <3> QED
      BY <2>3, <3>2, <3>3, <3>4, <3>5, <3>6
  <2>8. ASSUME NEW p \in present, p = ConnectedTo(table[job.i].fd)
        PROVE  peer[p] # "closed"
    BY <1>0, <2>8, ConstantsAssumption DEF ConnectedTo, PeerInv
  <2>9. \A p \in present : peer[p] # "closed" => (Ahead(p)' <=> Ahead(p))
    BY <2>1, <2>5, <2>6, <2>7 DEF Ahead
  <2>10. Missed' = Missed /\ Pending' = Pending
    BY <2>1, <2>9 DEF Missed, Pending
  <2> QED
    BY <1>0, <2>1, <2>2, <2>3, <2>6, <2>7, <2>8, <2>9, <2>10 DEF BroadcastInv
<1>13. CASE BroadcastSend
  <2>1. PICK to : to = ConnectedTo(job.fd)
    OBVIOUS
  <2>2. /\ to \in Peers /\ reached' = [reached EXCEPT ![to] = IF @ < 2 THEN @ + 1 ELSE @]
        /\ job' = [i |-> job.i + 1, fd |-> 0] /\ tpc = "send" /\ tpc' = "next"
        /\ present' = present /\ removed' = removed
        /\ table' = table /\ client_count' = client_count /\ mtx' = mtx
        /\ conn' = conn /\ peer' = peer
    BY <1>13, <1>0, <2>1 DEF BroadcastSend, kernel
  <2>3. Removing' = Removing /\ peer[to] # "closed"
    BY <2>1, <2>2, RemovingKept, ConstantsAssumption DEF ConnectedTo, PeerInv
  <2>4. \A p \in Peers : /\ p # to => reached'[p] = reached[p]
                         /\ p = to /\ reached[p] = 0 => reached'[p] = 1
    BY <2>2 DEF TypeOK, BroadcastType
  <2>5. \A p : InSlotsAhead(p)' <=> InSlotsAhead(p)
    BY <2>2 DEF InSlotsAhead, FirstAhead
  <2>6. \A p : Ahead(p) <=> Ahead(p)' \/ p = to
    BY <2>1, <2>2, <2>5 DEF Ahead
  <2>7. to \in present => reached[to] = 0 /\ ~Ahead(to)'
    BY <2>1, <2>2, <2>3, <2>5, <2>6 DEF BroadcastInv, Ahead
  <2>8. Missed' \subseteq Missed
    <3>1. ASSUME NEW p \in Missed' PROVE p \in Missed
      <4>1. p \in present /\ peer[p] # "closed" /\ reached'[p] = 0 /\ ~Ahead(p)'
        BY <2>2, <3>1 DEF Missed
      <4>2. p # to
        BY <1>0, <2>4, <2>7, <4>1
      <4> QED
        BY <1>0, <2>4, <2>6, <4>1, <4>2 DEF Missed
    <3> QED
      BY <3>1
  <2>9. IsFiniteSet(Missed) /\ Cardinality(Missed) + Pending <= removed /\ removed \in Nat
    BY <2>2 DEF BroadcastInv, TypeOK, BroadcastType
  <2>10. IsFiniteSet(Missed') /\ Cardinality(Missed') + Pending' <= removed'
    <3>1. Pending' = Pending /\ Pending \in Nat
      BY <2>2 DEF Pending
    <3> QED
      BY <2>2, <2>8, <2>9, <3>1, FewerMissed
  <2>11. job'.i >= 1
    BY <2>2 DEF BroadcastInv, TypeOK, CallerType
  <2>12. ASSUME NEW p \in present
         PROVE  /\ peer[p] \in {"connected", "left", "closed"}
                /\ reached'[p] <= 1
                /\ peer[p] # "closed" =>
                      \E i \in 1..(client_count - 1) : i # Removing /\ table[i].addr = p
                /\ peer[p] # "closed" /\ Ahead(p)' => reached'[p] = 0
    <3>1. /\ peer[p] \in {"connected", "left", "closed"}
          /\ reached[p] <= 1
          /\ peer[p] # "closed" =>
                \E i \in 1..(client_count - 1) : i # Removing /\ table[i].addr = p
          /\ peer[p] # "closed" /\ Ahead(p) => reached[p] = 0
      BY <2>2 DEF BroadcastInv
    <3> QED
      BY <1>0, <2>4, <2>6, <2>7, <3>1
  <2> QED
    BY <2>2, <2>3, <2>10, <2>11, <2>12 DEF BroadcastInv
<1>14. CASE BroadcastDone
  BY <1>14, <1>0 DEF BroadcastDone
<1>15. CASE AppDisconnect
  BY <1>15, <1>0 DEF AppDisconnect
<1>16. CASE AppShifts
  BY <1>16, <1>0 DEF AppShifts
<1>17. CASE CloseStart
  BY <1>17, <1>0 DEF CloseStart
<1>18. CASE CloseSlot
  BY <1>18, <1>0 DEF CloseSlot, kernel
<1>19. CASE CloseClears
  BY <1>19, <1>0 DEF CloseClears
<1>20. CASE CloseStops
  BY <1>20, <1>0 DEF CloseStops
<1>21. CASE Join
  BY <1>21, <1>0 DEF Join
<1>22. CASE \E p \in Peers : Connect(p) \/ Send(p) \/ HangUp(p)
  <2>1. /\ tpc' = tpc /\ job' = job /\ present' = present /\ reached' = reached
        /\ removed' = removed /\ mtx' = mtx /\ table' = table /\ client_count' = client_count
        /\ conn' = conn
    BY <1>22 DEF Connect, Send, HangUp, Server, caller, broadcast
  <2>2. \A q \in present : peer'[q] = peer[q] \/ (peer[q] = "connected" /\ peer'[q] = "left")
    <3>1. CASE \E p \in Peers : Connect(p)
      BY <1>0, <1>a, <2>1, <3>1 DEF Connect, TypeOK, KernelType
    <3>2. CASE \E p \in Peers : Send(p) \/ HangUp(p)
      BY <1>0, <3>2 DEF Send, HangUp, TypeOK, KernelType
    <3> QED
      BY <1>22, <3>1, <3>2
  <2>3. Removing' = Removing /\ ConnectedTo(job.fd)' = ConnectedTo(job.fd)
    BY <2>1, RemovingKept DEF ConnectedTo
  <2>4. \A p \in present : /\ peer'[p] = "closed" <=> peer[p] = "closed"
                           /\ peer'[p] \in {"connected", "left", "closed"}
    BY <1>0, <1>a, <2>1, <2>2
  <2> QED
    BY <1>0, <2>1, <2>3, <2>4, BroadcastSame
<1>23. CASE UNCHANGED vars
  BY <1>23, <1>b DEF vars
<1> QED
  BY <1>1, <1>2, <1>3, <1>4, <1>5, <1>6, <1>7, <1>8, <1>9, <1>10, <1>11, <1>12, <1>13, <1>14,
     <1>15, <1>16, <1>17, <1>18, <1>19, <1>20, <1>21, <1>22, <1>23 DEF Next, Listener, Accepter,
     Application, Continue

-----------------------------------------------------------------------------
(* The invariant. *)

\* It holds when both threads have started.
LEMMA InitInv == Init => IInv
<1> SUFFICES ASSUME Init PROVE IInv
  OBVIOUS
<1>1. TypeOK
  <2>1. TableType
    BY Sizes DEF Init, TableType, Slot, EmptySlot
  <2>2. conn \in [Sockets -> Peers \cup {NoPeer, Listening}]
    BY DEF Init
  <2>3. KernelType
    BY <2>2 DEF Init, KernelType
  <2>4. ListenerType
    <3>1. lpc = "top" /\ stale \in BOOLEAN
      BY DEF Init
    <3>2. scan \in Scan
      BY Sizes DEF Init, Scan, NoScan
    <3> QED
      BY <3>1, <3>2 DEF ListenerType
  <2>5. CallerType
    BY Sizes DEF Init, CallerType, NoJob
  <2> QED
    BY <2>1, <2>3, <2>4, <2>5 DEF Init, TypeOK, AccepterType, BroadcastType
<1>2. Removing = 0 /\ client_count = 1
  BY DEF Init, Removing
<1>3. LockInv
  BY DEF Init, LockInv
<1>4. \A f \in Sockets : conn[f] = IF f = 1 THEN Listening ELSE NoPeer
  BY DEF Init
<1>5. \A i \in Slots : table[i] = IF i = 0 THEN [fd |-> 1, addr |-> NoPeer] ELSE EmptySlot
  BY DEF Init
<1>6. OpenInv /\ PeerInv
  BY <1>4, ConstantsAssumption, Sizes DEF Init, OpenInv, Open, PeerInv, Closing
<1>7. SlotInv /\ TableInv
  BY <1>2, <1>4, <1>5, ConstantsAssumption, Sizes DEF Init, SlotInv, TableInv, EmptySlot
<1>8. ListenerInv /\ RemovalInv /\ BroadcastInv
  BY DEF Init, ListenerInv, RemovalInv, BroadcastInv
<1> QED
  BY <1>1, <1>3, <1>6, <1>7, <1>8 DEF IInv

\* Every step keeps it.
LEMMA NextInv == IInv /\ [Next]_vars => IInv'
<1> SUFFICES ASSUME IInv, [Next]_vars PROVE IInv'
  OBVIOUS
<1>1. TypeOK'
  BY TypeStep DEF IInv
<1>2. LockInv' /\ OpenInv' /\ PeerInv'
  BY <1>1, LockStep, OpenStep, PeerStep DEF IInv
<1>3. SlotInv' /\ TableInv'
  BY <1>1, SlotStep, TableStep DEF IInv
<1>4. ListenerInv' /\ RemovalInv' /\ BroadcastInv'
  BY <1>1, ListenerStep, RemovalStep, BroadcastStep DEF IInv
<1> QED
  BY <1>1, <1>2, <1>3, <1>4 DEF IInv

\* It always holds.
THEOREM Invariant == Spec => []IInv
  BY InitInv, NextInv, PTL DEF Spec

-----------------------------------------------------------------------------
(* The theorems. *)

\* The types are right.
THEOREM TypeCorrect == Spec => []TypeOK
<1>1. IInv => TypeOK
  BY DEF IInv
<1> QED
  BY <1>1, Invariant, PTL

\* Until CommsClose, every slot of the table in use holds the open socket of the client
\* whose address is in it.
THEOREM TableIsTruthful == Spec => []TableTellsTruth
<1>1. IInv => TableTellsTruth
  BY Sizes DEF IInv, OpenInv, Open, TableInv, TableTellsTruth
<1> QED
  BY <1>1, Invariant, PTL

\* Until CommsClose, every client's socket is in the table or about to be.
THEOREM NoSocketIsLost == Spec => []NoSocketLost
<1>1. IInv => NoSocketLost
  BY DEF IInv, OpenInv, TableInv, NoSocketLost
<1> QED
  BY <1>1, Invariant, PTL

\* The callback is told who sent, and its answer goes to nobody else, unless the
\* application has removed that slot or one before it meanwhile.
THEOREM AnswersReachSender == Spec => []RightClientAnswered
<1>1. IInv => RightClientAnswered
  BY Sizes DEF IInv, ListenerInv, RightClientAnswered, ConnectedTo
<1> QED
  BY <1>1, Invariant, PTL

\* A client that has not hung up is only cut off when the application asks for it, the
\* table is full, or the application has moved it into a slot that is being removed.
THEOREM OnlyTheAskedAreCutOff == Spec => OnlyAskedCutOff
<1>1. ASSUME IInv, [Next]_vars, NEW p \in Peers, peer[p] = "connected", peer'[p] = "closed",
             tpc \notin Closing, ~(tpc = "idle" /\ tpc' = "shift"), ~(lpc = "drop" /\ stale)
      PROVE  apc = "insert" /\ conn[cs] = p /\ client_count = MaxClients
  <2>1. Open
    BY <1>1 DEF IInv, OpenInv
  <2>2. peer \in [Peers -> {"away", "waiting", "connected", "left", "closed"}]
    BY <1>1 DEF IInv, TypeOK, KernelType
  <2>3. CASE TurnAway
    <3>1. ConnectedTo(cs) = p
      BY <1>1, <2>3, Closes DEF TurnAway
    <3>2. p # NoPeer
      BY ConstantsAssumption
    <3> QED
      BY <1>1, <2>3, <3>1, <3>2, Sizes DEF TurnAway, ConnectedTo, IInv, TypeOK, TableType
  <2>4. ~Drop
    <3>1. SUFFICES ASSUME Drop PROVE FALSE
      OBVIOUS
    <3>2. DisconnectCloses("listener", scan.i)
      BY <1>1, <3>1 DEF Drop, DisconnectRefused, kernel
    <3>3. ConnectedTo(table[scan.i].fd) = p
      BY <1>1, <3>2, Closes DEF DisconnectCloses
    <3>4. /\ table[scan.i].addr = scan.addr /\ peer[scan.addr] = "left"
          /\ scan.i \in 1..(client_count - 1) /\ scan.i # Removing
      BY <1>1, <2>1, <3>1, <3>2 DEF Drop, DisconnectCloses, Removing, IInv, ListenerInv
    <3>5. ConnectedTo(table[scan.i].fd) = scan.addr
      BY <1>1, <2>1, <3>4 DEF IInv, TableInv, ConnectedTo
    <3> QED
      BY <1>1, <3>3, <3>4, <3>5
  <2>5. ~CloseSlot /\ ~AppDisconnect
    BY <1>1 DEF CloseSlot, AppDisconnect, Closing
  <2>6. ~Accept /\ \A q \in Peers : ~Connect(q) /\ ~Send(q) /\ ~HangUp(q)
    BY <1>1, <2>2 DEF Accept, Connect, Send, HangUp
  <2>7. ~(peer' = peer)
    BY <1>1
  <2>8. /\ ~ScanStart /\ ~ReadSlot /\ ~Receive /\ ~Callback /\ ~DropShifts
        /\ ~Insert /\ ~AccepterStops /\ ~UNCHANGED vars
    BY <2>7 DEF ScanStart, ReadSlot, Receive, Callback, DropShifts, DisconnectShifts, Insert,
       AccepterStops, kernel, vars
  <2>9. /\ ~BroadcastStart /\ ~BroadcastNext /\ ~BroadcastSend /\ ~BroadcastDone /\ ~AppShifts
        /\ ~CloseStart /\ ~CloseClears /\ ~CloseStops /\ ~Join
    BY <2>7 DEF BroadcastStart, BroadcastNext, BroadcastSend, BroadcastDone, AppShifts,
       DisconnectShifts, CloseStart, CloseClears, CloseStops, Join, kernel
  <2> QED
    BY <1>1, <2>3, <2>4, <2>5, <2>6, <2>8, <2>9
       DEF Next, Listener, Accepter, Application, Continue
<1>2. IInv /\ [Next]_vars =>
        [\A p \in Peers : peer[p] = "connected" /\ peer'[p] = "closed"
           => \/ tpc \in Closing
              \/ tpc = "idle" /\ tpc' = "shift"
              \/ apc = "insert" /\ conn[cs] = p /\ client_count = MaxClients
              \/ lpc = "drop" /\ stale]_vars
  BY <1>1
<1> QED
  BY <1>2, Invariant, PTL DEF Spec, OnlyAskedCutOff

\* A broadcast that reports success has reached none of those that were there twice, and
\* of those that still are, all but one at most for each client removed meanwhile.
THEOREM BroadcastsMissFew == Spec => BroadcastMissesFew
<1> DEFINE Unreached == {p \in present : reached[p] = 0 /\ peer[p] # "closed"}
           Done == /\ \A p \in present : reached[p] <= 1
                   /\ Cardinality(Unreached) <= removed
<1>1. ASSUME IInv, [Next]_vars, tpc = "next", tpc' = "idle"
      PROVE  Done
  <2>1. job.i >= client_count
    BY <1>1 DEF Next, Listener, Accepter, Application, Continue, ScanStart, ReadSlot, Receive,
       Callback, Drop, DropShifts, Accept, TurnAway, Insert, AccepterStops, BroadcastStart,
       BroadcastNext, BroadcastSend, BroadcastDone, AppDisconnect, AppShifts, CloseStart,
       CloseSlot, CloseClears, CloseStops, Join, Connect, Send, HangUp, Server, caller, vars
  <2>2. \A p : ~Ahead(p)
    BY <1>1, <2>1 DEF Ahead, InSlotsAhead, FirstAhead, IInv, TypeOK, TableType, CallerType
  <2>3. Unreached = Missed
    BY <2>2 DEF Missed
  <2>4. /\ \A p \in present : reached[p] <= 1
        /\ IsFiniteSet(Missed) /\ Cardinality(Missed) + Pending <= removed
    BY <1>1 DEF IInv, BroadcastInv
  <2>5. Pending \in Nat /\ removed \in Nat /\ Cardinality(Missed) \in Nat
    BY <1>1, <2>4, FS_CardinalityType DEF Pending, IInv, TypeOK, BroadcastType
  <2> QED
    BY <2>3, <2>4, <2>5
<1>2. IInv /\ [Next]_vars => [tpc = "next" /\ tpc' = "idle" => Done]_vars
  BY <1>1
<1> QED
  BY <1>2, Invariant, PTL DEF Spec, BroadcastMissesFew
=============================================================================
