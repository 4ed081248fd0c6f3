------------------------------ MODULE TcpServer ------------------------------
(***************************************************************************)
(* include/eth_comms.h: a TCP server.  The table of clients (clients_socks *)
(* and client_address, slot 0 being the listening socket) is kept compact: *)
(* a disconnection moves the clients behind it down by one.                *)
(*                                                                         *)
(* Three threads use the table.  The accepter appends clients and the      *)
(* listener reads its slots one by one, both under g_comms_mtx, but the    *)
(* listener receives from a socket after it has let go of the mutex.  The  *)
(* application's thread sends, and closes the handle, without the mutex.   *)
(* Clients connect, send and hang up when they like; the kernel gives the  *)
(* lowest free number to a new socket.                                     *)
(*                                                                         *)
(* rs_sender itself opens UDP handles only, so the application here is any *)
(* caller of the API in its header that ignores SIGPIPE.                   *)
(***************************************************************************)
EXTENDS Integers, FiniteSets

CONSTANTS Peers,         \* the clients, each of which connects once
          NoPeer,        \* no client: a free socket, a zeroed address
          Listening,     \* what the listening socket is connected to
          MaxClients,    \* COMMS_MAX_CLIENTS, 256 in the code: slots of the table
          AppDisconnects \* whether the application calls CommsDisconnect

ASSUME ConstantsAssumption ==
    /\ NoPeer \notin Peers /\ Listening \notin Peers /\ NoPeer # Listening
    /\ MaxClients \in Nat /\ MaxClients >= 2
    /\ AppDisconnects \in BOOLEAN

Slots == 0..(MaxClients - 1)
Sockets == 1..(MaxClients + 1) \* enough for every slot and a client not yet in one

VARIABLES table,        \* clients_socks and client_address
          client_count, \* slots in use, the listening socket's included
          running,
          conn,         \* conn[f]: what socket f is connected to (the kernel's)
          peer,         \* the state of each client
          inbox,        \* what a client has sent is still unread
          mtx,          \* the thread in a long critical section of g_comms_mtx
          lpc, scan,    \* the listener: next step, and its local variables
          apc, cs,      \* the accepter: next step, and the socket it accepted
          tpc, job,     \* the application's thread: next step and local variables
          present,      \* clients in the table when the broadcast began (history)
          reached,      \* how often each client got it (history)
          removed,      \* how many removals have overlapped it (history)
          stale         \* the application has removed the slot that the listener
                        \* serves, or one before it, since it read it (history)

kernel == <<conn, peer, inbox>>
listener == <<lpc, scan, stale>>
accepter == <<apc, cs>>
caller == <<tpc, job>>
broadcast == <<present, reached, removed>>
vars == <<table, client_count, running, conn, peer, inbox, mtx, lpc, scan, apc, cs,
          tpc, job, present, reached, removed, stale>>

Slot == [fd : Sockets \cup {-1, 0}, addr : Peers \cup {NoPeer}]
EmptySlot == [fd |-> 0, addr |-> NoPeer]
ClearedSlot == [fd |-> -1, addr |-> NoPeer] \* as CommsClose leaves it
Scan == [i : 1..MaxClients, count : 1..MaxClients,
         fd : Sockets \cup {-1, 0}, addr : Peers \cup {NoPeer}, from : Peers \cup {NoPeer}]

NoScan == [i |-> 1, count |-> 1, fd |-> 0, addr |-> NoPeer, from |-> NoPeer]
NoJob == [i |-> 0, fd |-> 0]

\* comms_tcpserver_init__opt has bound and listens; both threads have started.
Init == /\ table = [i \in Slots |-> IF i = 0 THEN [fd |-> 1, addr |-> NoPeer] ELSE EmptySlot]
        /\ client_count = 1
        /\ running = TRUE
        /\ conn = [f \in Sockets |-> IF f = 1 THEN Listening ELSE NoPeer]
        /\ peer = [p \in Peers |-> "away"]
        /\ inbox = [p \in Peers |-> FALSE]
        /\ mtx = "none"
        /\ lpc = "top"
        /\ scan = NoScan
        /\ apc = "accept" /\ cs = 0
        /\ tpc = "idle" /\ job = NoJob
        /\ present = {} /\ reached = [p \in Peers |-> 0] /\ removed = 0
        /\ stale = FALSE

ConnectedTo(f) == IF f \in Sockets THEN conn[f] ELSE NoPeer

\* shutdown and close: the client behind the socket is cut off.
CloseSocket(f) ==
    /\ conn' = [g \in Sockets |-> IF g = f THEN NoPeer ELSE conn[g]]
    /\ peer' = [p \in Peers |-> IF ConnectedTo(f) = p THEN "closed" ELSE peer[p]]
    /\ UNCHANGED inbox

-----------------------------------------------------------------------------
(* CommsDisconnect, by the listener or the application: t holds the mutex. *)

ValidCid(cid) == cid >= 1 /\ cid < client_count /\ table[cid].fd > 0

DisconnectCloses(t, cid) == /\ mtx = "none"
                            /\ ValidCid(cid)
                            /\ mtx' = t
                            /\ CloseSocket(table[cid].fd)
                            /\ removed' = IF tpc \in {"next", "send"} THEN removed + 1 ELSE removed
                            /\ UNCHANGED <<table, client_count, running, present, reached>>

DisconnectRefused(cid) == /\ mtx = "none"
                          /\ ~ValidCid(cid)
                          /\ UNCHANGED <<table, client_count, running, kernel, mtx, broadcast>>

ForgetsToShift(cid) == [table EXCEPT ![cid] = EmptySlot]

ShiftsSocketsOnly(cid) ==
    [i \in Slots |-> CASE i >= cid /\ i < client_count - 1
                            -> [table[i] EXCEPT !.fd = table[i + 1].fd]
                       [] i = client_count - 1 -> EmptySlot
                       [] OTHER -> table[i]]

\* The table without its slot cid.
Compacted(cid) == [i \in Slots |-> CASE i >= cid /\ i < client_count - 1 -> table[i + 1]
                                     [] i = client_count - 1 -> EmptySlot
                                     [] OTHER -> table[i]]

ShiftKeepsMutex(t, cid) == /\ mtx = t
                           /\ table' = Compacted(cid)
                           /\ client_count' = client_count - 1
                           /\ UNCHANGED <<running, kernel, mtx, broadcast>>

DisconnectShifts(t, cid) == /\ mtx = t
                            /\ table' = Compacted(cid)
                            /\ client_count' = client_count - 1
                            /\ mtx' = "none"
                            /\ UNCHANGED <<running, kernel, broadcast>>

-----------------------------------------------------------------------------
(* comms__listener. *)

ScansTooFew == /\ lpc = "top"
               /\ IF running
                  THEN /\ mtx = "none" /\ client_count > 1
                       /\ scan' = [NoScan EXCEPT !.count = client_count - 1]
                       /\ lpc' = "slot"
                  ELSE lpc' = "exited" /\ scan' = NoScan
               /\ UNCHANGED <<table, client_count, running, kernel, mtx, accepter, caller,
                              broadcast, stale>>

\* The number of slots is read once per scan.
ScanStart == /\ lpc = "top"
             /\ IF running
                THEN /\ mtx = "none"
                     /\ scan' = [NoScan EXCEPT !.count = client_count]
                     /\ lpc' = "slot"
                ELSE lpc' = "exited" /\ scan' = NoScan
             /\ UNCHANGED <<table, client_count, running, kernel, mtx, accepter, caller,
                            broadcast, stale>>

NextSlot == /\ lpc' = "slot" /\ stale' = FALSE
            /\ scan' = [NoScan EXCEPT !.i = scan.i + 1, !.count = scan.count]

ReadSlot == /\ lpc = "slot"
            /\ IF scan.i < scan.count
               THEN /\ mtx = "none"
                    /\ IF table[scan.i].fd > 0
                       THEN /\ scan' = [scan EXCEPT !.fd = table[scan.i].fd,
                                                    !.addr = table[scan.i].addr]
                            /\ lpc' = "recv" /\ UNCHANGED stale
                       ELSE NextSlot
               ELSE lpc' = "top" /\ scan' = NoScan /\ UNCHANGED stale
            /\ UNCHANGED <<table, client_count, running, kernel, mtx, accepter, caller,
                           broadcast>>

DropsSilent ==
    /\ lpc = "recv"
    /\ LET from == conn[scan.fd]
       IN \/ /\ from \in Peers /\ inbox[from]
             /\ inbox' = [inbox EXCEPT ![from] = FALSE]
             /\ scan' = [scan EXCEPT !.from = from]
             /\ lpc' = "callback" /\ UNCHANGED stale
          \/ /\ from \in Peers => ~inbox[from]
             /\ lpc' = "drop"
             /\ UNCHANGED <<inbox, scan, stale>>
    /\ UNCHANGED <<table, client_count, running, conn, peer, mtx, accepter, caller, broadcast>>

\* recv on the socket read before: data, nothing yet (EAGAIN), or the end of the
\* connection, be it the client's doing (0) or not (an error).
Receive ==
    /\ lpc = "recv"
    /\ LET from == conn[scan.fd]
       IN \/ /\ from \in Peers /\ inbox[from]
             /\ inbox' = [inbox EXCEPT ![from] = FALSE]
             /\ scan' = [scan EXCEPT !.from = from]
             /\ lpc' = "callback" /\ UNCHANGED stale
          \/ /\ from \in Peers /\ ~inbox[from] /\ peer[from] = "connected"
             /\ NextSlot
             /\ UNCHANGED inbox
          \/ /\ from \in Peers => ~inbox[from] /\ peer[from] = "left"
             /\ lpc' = "drop"
             /\ UNCHANGED <<inbox, scan, stale>>
    /\ UNCHANGED <<table, client_count, running, conn, peer, mtx, accepter, caller, broadcast>>

\* recvcb gets the address read with the socket, and the slot as the client's cid;
\* an answer by CommsSend looks the slot up again.
Callback == /\ lpc = "callback"
            /\ NextSlot
            /\ UNCHANGED <<table, client_count, running, kernel, mtx, accepter, caller,
                           broadcast>>

Drop == /\ lpc = "drop"
        /\ \/ /\ DisconnectCloses("listener", scan.i)
              /\ lpc' = "shift" /\ UNCHANGED <<scan, stale>>
           \/ DisconnectRefused(scan.i) /\ NextSlot
        /\ UNCHANGED <<accepter, caller>>

DropShifts == /\ lpc = "shift"
              /\ DisconnectShifts("listener", scan.i)
              /\ NextSlot
              /\ UNCHANGED <<accepter, caller>>

Listener == ScanStart \/ ReadSlot \/ Receive \/ Callback \/ Drop \/ DropShifts

-----------------------------------------------------------------------------
(* comms_accepter. *)

Accept == /\ apc = "accept" /\ running
          /\ ConnectedTo(table[0].fd) = Listening
          /\ \E p \in Peers, f \in Sockets :
                /\ peer[p] = "waiting"
                /\ conn[f] = NoPeer /\ \A g \in 1..(f - 1) : conn[g] # NoPeer
                /\ conn' = [conn EXCEPT ![f] = p]
                /\ peer' = [peer EXCEPT ![p] = "connected"]
                /\ cs' = f
          /\ apc' = "insert"
          /\ UNCHANGED <<table, client_count, running, inbox, mtx, listener, caller, broadcast>>

ForgetsToClose == /\ apc = "insert" /\ mtx = "none"
                  /\ client_count >= MaxClients
                  /\ cs' = 0
                  /\ apc' = "accept"
                  /\ UNCHANGED <<table, client_count, running, kernel, mtx, listener, caller,
                                 broadcast>>

\* "Max clients reached": the client is turned away, and the thread ends.
TurnAway == /\ apc = "insert" /\ mtx = "none"
            /\ client_count >= MaxClients
            /\ CloseSocket(cs)
            /\ cs' = 0
            /\ apc' = "exited"
            /\ UNCHANGED <<table, client_count, running, mtx, listener, caller, broadcast>>

Insert == /\ apc = "insert" /\ mtx = "none"
          /\ client_count < MaxClients
          /\ table' = [table EXCEPT ![client_count] = [fd |-> cs, addr |-> conn[cs]]]
          /\ client_count' = client_count + 1
          /\ cs' = 0
          /\ apc' = "accept"
          /\ UNCHANGED <<running, kernel, mtx, listener, caller, broadcast>>

AccepterStops == /\ apc = "accept" /\ ~running
                 /\ apc' = "exited"
                 /\ UNCHANGED <<table, client_count, running, kernel, mtx, cs, listener, caller,
                                broadcast>>

Accepter == Accept \/ TurnAway \/ Insert \/ AccepterStops

-----------------------------------------------------------------------------
(* comms_send__opt to COMMS_SEND_TO_ALL_CLIENTS, by the application's thread. *)

InTable == {table[i].addr : i \in 1..(client_count - 1)}

BroadcastStart == /\ tpc = "idle"
                  /\ tpc' = "next" /\ job' = [i |-> 1, fd |-> 0]
                  /\ present' = InTable \ {NoPeer}
                  /\ reached' = [p \in Peers |-> 0]
                  /\ removed' = IF mtx = "none" THEN 0 ELSE 1
                  /\ UNCHANGED <<table, client_count, running, kernel, mtx, listener, accepter>>

BroadcastNext == /\ tpc = "next"
                 /\ job.i < client_count
                 /\ job' = [job EXCEPT !.fd = table[job.i].fd]
                 /\ tpc' = "send"
                 /\ UNCHANGED <<table, client_count, running, kernel, mtx, listener, accepter,
                                broadcast>>

BroadcastOver == /\ job' = NoJob
                 /\ present' = {} /\ reached' = [p \in Peers |-> 0] /\ removed' = 0

\* The first send that fails ends the broadcast.
BroadcastSend ==
    /\ tpc = "send"
    /\ LET to == ConnectedTo(job.fd)
       IN \/ /\ to \in Peers
             /\ reached' = [reached EXCEPT ![to] = IF @ < 2 THEN @ + 1 ELSE @]
             /\ job' = [i |-> job.i + 1, fd |-> 0]
             /\ tpc' = "next" /\ UNCHANGED <<present, removed>>
          \/ /\ to \in Peers => peer[to] = "left"
             /\ tpc' = "idle" /\ BroadcastOver
    /\ UNCHANGED <<table, client_count, running, kernel, mtx, listener, accepter>>

DoneBeforeLast == /\ tpc = "next"
                  /\ job.i >= client_count - 1
                  /\ tpc' = "idle" /\ BroadcastOver
                  /\ UNCHANGED <<table, client_count, running, kernel, mtx, listener, accepter>>

\* "Succesfully sent ... to all clients".
BroadcastDone == /\ tpc = "next"
                 /\ job.i >= client_count
                 /\ tpc' = "idle" /\ BroadcastOver
                 /\ UNCHANGED <<table, client_count, running, kernel, mtx, listener, accepter>>

-----------------------------------------------------------------------------
(* CommsDisconnect and CommsClose, by the application's thread. *)

AppDisconnect == /\ tpc = "idle" /\ AppDisconnects
                 /\ \E cid \in 1..(MaxClients - 1) :
                       /\ DisconnectCloses("app", cid)
                       /\ job' = [i |-> cid, fd |-> 0]
                       /\ stale' = \/ stale
                                   \/ lpc \in {"recv", "callback", "drop"} /\ cid <= scan.i
                 /\ tpc' = "shift"
                 /\ UNCHANGED <<lpc, scan, accepter>>

AppShifts == /\ tpc = "shift"
             /\ DisconnectShifts("app", job.i)
             /\ tpc' = "idle" /\ job' = NoJob
             /\ UNCHANGED <<listener, accepter>>

CloseStart == /\ tpc = "idle"
              /\ tpc' = "close" /\ job' = NoJob
              /\ UNCHANGED <<table, client_count, running, kernel, mtx, listener, accepter,
                             broadcast>>

\* No mutex: slot after slot is closed, then overwritten.
CloseSlot == /\ tpc = "close"
             /\ job.i < client_count
             /\ IF table[job.i].fd > 0
                THEN CloseSocket(table[job.i].fd) /\ tpc' = "clear" /\ UNCHANGED job
                ELSE job' = [job EXCEPT !.i = @ + 1] /\ UNCHANGED <<tpc, kernel>>
             /\ UNCHANGED <<table, client_count, running, mtx, listener, accepter, broadcast>>

CloseClears == /\ tpc = "clear"
               /\ table' = [table EXCEPT ![job.i] = ClearedSlot]
               /\ job' = [job EXCEPT !.i = @ + 1]
               /\ tpc' = "close"
               /\ UNCHANGED <<client_count, running, kernel, mtx, listener, accepter, broadcast>>

JoinsWithoutStopping == /\ tpc = "close"
                        /\ job.i >= client_count
                        /\ tpc' = "join_listener"
                        /\ UNCHANGED <<table, client_count, running, kernel, mtx, job,
                                       listener, accepter, broadcast>>

CloseStops == /\ tpc = "close"
              /\ job.i >= client_count
              /\ running' = FALSE
              /\ tpc' = "join_listener" /\ job' = NoJob
              /\ UNCHANGED <<table, client_count, kernel, mtx, listener, accepter, broadcast>>

Join == /\ \/ tpc = "join_listener" /\ lpc = "exited" /\ tpc' = "join_accepter"
           \/ tpc = "join_accepter" /\ apc = "exited" /\ tpc' = "closed"
        /\ UNCHANGED <<table, client_count, running, kernel, mtx, job, listener, accepter,
                       broadcast>>

\* What a thread has begun it goes on with; it begins what it likes.
Continue == \/ BroadcastNext \/ BroadcastSend \/ BroadcastDone \/ AppShifts
            \/ CloseSlot \/ CloseClears \/ CloseStops \/ Join

Application == BroadcastStart \/ AppDisconnect \/ CloseStart \/ Continue

-----------------------------------------------------------------------------
(* The clients. *)

Server == <<table, client_count, running, conn, mtx, listener, accepter, caller, broadcast>>

Connect(p) == /\ peer[p] = "away"
              /\ peer' = [peer EXCEPT ![p] = "waiting"]
              /\ UNCHANGED <<Server, inbox>>

Send(p) == /\ peer[p] \in {"waiting", "connected"}
           /\ inbox' = [inbox EXCEPT ![p] = TRUE]
           /\ UNCHANGED <<Server, peer>>

\* By FIN or RST: what has arrived can be read first, then recv returns 0 or an error.
HangUp(p) == /\ peer[p] = "connected"
             /\ peer' = [peer EXCEPT ![p] = "left"]
             /\ UNCHANGED <<Server, inbox>>

Next == \/ Listener \/ Accepter \/ Application
        \/ \E p \in Peers : Connect(p) \/ Send(p) \/ HangUp(p)

Spec == Init /\ [][Next]_vars

\* The threads run, and the application finishes the calls it makes.
FairSpec == Spec /\ WF_vars(Listener) /\ WF_vars(Accepter) /\ WF_vars(Continue)

-----------------------------------------------------------------------------
(* Correctness. *)

Closing == {"close", "clear", "join_listener", "join_accepter", "closed"}

\* The type invariant, in parts.
TableType == /\ table \in [Slots -> Slot]
             /\ client_count \in 1..MaxClients
             /\ running \in BOOLEAN
             /\ mtx \in {"none", "listener", "app"}

KernelType ==
    /\ conn \in [Sockets -> Peers \cup {NoPeer, Listening}]
    /\ peer \in [Peers -> {"away", "waiting", "connected", "left", "closed"}]
    /\ inbox \in [Peers -> BOOLEAN]

ListenerType ==
    /\ lpc \in {"top", "slot", "recv", "callback", "drop", "shift", "exited"}
    /\ scan \in Scan /\ stale \in BOOLEAN

AccepterType == /\ apc \in {"accept", "insert", "exited"}
                /\ cs \in Sockets \cup {0}

CallerType == /\ tpc \in {"idle", "next", "send", "shift"} \cup Closing
              /\ job \in [i : 0..MaxClients, fd : Sockets \cup {-1, 0}]

BroadcastType == /\ present \subseteq Peers
                 /\ reached \in [Peers -> 0..2]
                 /\ removed \in Nat

TypeOK == /\ TableType /\ KernelType /\ ListenerType
          /\ AccepterType /\ CallerType /\ BroadcastType

\* The slot being removed, whose socket is closed already; 0 for none.
Removing == CASE mtx = "listener" -> scan.i [] mtx = "app" -> job.i [] OTHER -> 0

\* Until CommsClose, the table is compact and tells the truth: slot 0 listens, the
\* slots in use hold different open sockets, each with the address of the client
\* that is at its other end, and the slots behind them are empty.
TableTellsTruth ==
    tpc \notin Closing =>
        /\ table[0].fd \in Sockets /\ conn[table[0].fd] = Listening
        /\ \A i \in 1..(client_count - 1) :
              i # Removing => /\ table[i].fd \in Sockets
                              /\ table[i].addr \in Peers
                              /\ conn[table[i].fd] = table[i].addr
        /\ \A i \in client_count..(MaxClients - 1) : table[i] = EmptySlot
        /\ \A i, j \in 1..(client_count - 1) :
              i # j /\ i # Removing /\ j # Removing => table[i].fd # table[j].fd

\* Until CommsClose, no client's socket is lost: each is in the table, or in the
\* accepter's hands.
NoSocketLost ==
    tpc \notin Closing =>
        \A f \in Sockets :
            conn[f] \in Peers => \/ apc = "insert" /\ cs = f
                                 \/ \E i \in 1..(client_count - 1) : table[i].fd = f

\* The callback is told the address of the client that sent, and an answer to its
\* cid reaches that client, although slots move and socket numbers are reused: only
\* the application itself can spoil this, by removing that slot or one before it
\* behind the listener's back.  A client that sent and was cut off by CommsClose gets
\* no answer.
RightClientAnswered ==
    lpc = "callback" /\ ~stale => /\ scan.addr = scan.from
                                  /\ ConnectedTo(table[scan.i].fd) \in {scan.from, NoPeer}

\* A client that has not hung up is only cut off because the application asked for
\* it, by CommsDisconnect of its own slot or by CommsClose, or because the table is
\* full - or because the application removed a slot while the listener was about to
\* remove the one behind it.
OnlyAskedCutOff ==
    [][\A p \in Peers : peer[p] = "connected" /\ peer'[p] = "closed"
           => \/ tpc \in Closing
              \/ tpc = "idle" /\ tpc' = "shift"
              \/ apc = "insert" /\ conn[cs] = p /\ client_count = MaxClients
              \/ lpc = "drop" /\ stale]_vars

\* A broadcast that reports success has reached every client that was in the table
\* when it began, and none of them twice, although slots move under it: each client
\* removed meanwhile makes it miss at most one of those that stay.
BroadcastMissesFew ==
    [][tpc = "next" /\ tpc' = "idle"
         => /\ \A p \in present : reached[p] <= 1
            /\ Cardinality({p \in present : reached[p] = 0 /\ peer[p] # "closed"}) <= removed]_vars

\* What a client has sent is read, or the client is cut off, or the handle closed.
DataEventuallyRead ==
    \A p \in Peers : inbox[p] /\ peer[p] = "connected"
                       ~> ~inbox[p] \/ peer[p] = "closed" \/ tpc \in Closing

\* A client that connects gets its place in the table, or is cut off, unless the
\* table was full once: the accepter does not survive that.
EventuallyLetIn ==
    \A p \in Peers : peer[p] = "waiting"
                       ~> \/ p \in InTable \/ peer[p] = "closed"
                          \/ apc = "exited" \/ tpc \in Closing

\* CommsClose returns.
CloseReturns == tpc = "close" ~> tpc = "closed"
=============================================================================
