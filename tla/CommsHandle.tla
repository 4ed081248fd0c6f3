----------------------------- MODULE CommsHandle -----------------------------
(***************************************************************************)
(* include/eth_comms.h and src/comms_runtime.cpp: the life of UDP handles  *)
(* and of TCP clients, from CreateCommsHandle to DestroyCommsHandle.       *)
(*                                                                         *)
(* One thread of the application manages the handles: it opens, connects,  *)
(* sends, closes and destroys them, in any order the API allows, and opens *)
(* a handle anew after closing it or after an attempt that failed.  Every  *)
(* handle opened with a callback has a listener thread.  A listener reads  *)
(* the number of its socket under the mutex and receives from it without:  *)
(* meanwhile the socket may be closed.  A listener of a TCP client copies  *)
(* the address of the remote for its callback, under the mutex too, which  *)
(* CommsConnect does not take to store it.  main does exactly this with    *)
(* its two UDP handles: they are destroyed unopened when the configuration *)
(* is bad, opened by the threads, and connected in a listener's callback.  *)
(*                                                                         *)
(* The kernel is external (Linux): a blocking connect waits for the answer *)
(* of the remote, on a socket made O_NONBLOCK it fails at once and goes on *)
(* behind the caller's back, and the next connect after the answer reports *)
(* it.  Joining a thread that was never started, or was joined before, is  *)
(* undefined: it returns an error or ends the process.                     *)
(***************************************************************************)
EXTENDS Integers

CONSTANTS Handles,
          NoHandle,
          Tcp,        \* the handles of TCP clients; the others are UDP
          MaxSockets  \* bound on the sockets ever open at once

ASSUME ConstantsAssumption == /\ NoHandle \notin Handles
                              /\ Tcp \subseteq Handles
                              /\ MaxSockets \in Nat

Sockets == 1..MaxSockets

VARIABLES alive,    \* alive[h]: not yet freed
          opened,   \* opened[h]: what the application knows of the handle
          fd,       \* fd[h]: clients_socks[0]
          client_count,
          running,
          remote,   \* remote[h]: client_address.asv4[0], by who named ip and port
          lpc, lfd, \* the listener of each handle: next step, and its copy of fd
          told,     \* told[h]: its copy of remote[h], for the callback of a TCP client
          sock,     \* sock[f]: a socket (the kernel's)
          apc, job, \* the application's thread: next step, and the handle it is about
          to        \* the destination of the last datagram (history)

handles == <<alive, opened, fd, client_count, running, remote>>
listeners == <<lpc, lfd, told>>
vars == <<handles, listeners, sock, apc, job, to>>

\* Parts of an address: as calloc or CommsClose left them, named for an earlier
\* opening of the handle, or named since it was opened.
Unset == [ip |-> "unset", port |-> "unset"]
Named == [ip |-> "named", port |-> "named"]
Aged(part) == IF part = "named" THEN "old" ELSE part

Free == [kind |-> "free", nonblock |-> FALSE, link |-> "idle", data |-> FALSE]
NewSocket(h) == [Free EXCEPT !.kind = IF h \in Tcp THEN "tcp" ELSE "udp"]

\* CreateCommsHandle: calloc.
Init == /\ alive = [h \in Handles |-> TRUE]
        /\ opened = [h \in Handles |-> "no"]
        /\ fd = [h \in Handles |-> 0]
        /\ client_count = [h \in Handles |-> 0]
        /\ running = [h \in Handles |-> FALSE]
        /\ remote = [h \in Handles |-> Unset]
        /\ lpc = [h \in Handles |-> "none"] /\ lfd = [h \in Handles |-> 0]
        /\ told = [h \in Handles |-> Unset]
        /\ sock = [f \in Sockets |-> Free]
        /\ apc = "idle" /\ job = NoHandle
        /\ to = Named

-----------------------------------------------------------------------------
(* comms_udp_init__opt, comms_tcpclient_init__opt. *)

CanOpen(h) == /\ apc = "idle" /\ alive[h] /\ opened[h] # "yes"

\* The kernel gives out the lowest number.
IsNext(f) == sock[f].kind = "free" /\ \A g \in 1..(f - 1) : sock[g].kind # "free"

SocketFails(h) == /\ CanOpen(h)
                  /\ opened' = [opened EXCEPT ![h] = "failed"]
                  /\ UNCHANGED <<alive, fd, client_count, running, remote, listeners, sock,
                                 apc, job, to>>

\* The socket stays open and no handle names it; a TCP client is closed at once.
BindFails(h) ==
    /\ CanOpen(h)
    /\ \E f \in Sockets : IsNext(f) /\ sock' = [sock EXCEPT ![f] = NewSocket(h)]
    /\ fd' = [fd EXCEPT ![h] = -1]
    /\ opened' = [opened EXCEPT ![h] = "failed"]
    /\ IF h \in Tcp THEN apc' = "close" /\ job' = h ELSE UNCHANGED <<apc, job>>
    /\ UNCHANGED <<alive, client_count, running, remote, listeners, to>>

KeepsCount(h) == client_count[h]

\* client_count = 0
CountAtOpen(h) == 0

\* recvcb may be NULL: no listener.  When pthread_create fails the socket stays.
OpenSucceeds(h, thread) ==
    /\ CanOpen(h)
    /\ \E f \in Sockets : /\ IsNext(f)
                          /\ sock' = [sock EXCEPT ![f] = NewSocket(h)]
                          /\ fd' = [fd EXCEPT ![h] = f]
    /\ client_count' = [client_count EXCEPT ![h] = CountAtOpen(h)]
    /\ running' = [running EXCEPT ![h] = (thread = "created")]
    /\ remote' = [remote EXCEPT ![h] = [ip |-> Aged(@.ip), port |-> Aged(@.port)]]
    /\ opened' = [opened EXCEPT ![h] = IF thread = "fails" THEN "failed" ELSE "yes"]
    /\ lpc' = [lpc EXCEPT ![h] = IF thread = "created" THEN "start" ELSE @]
    /\ UNCHANGED <<alive, lfd, told, apc, job, to>>

Open(h) == \/ SocketFails(h) \/ BindFails(h)
           \/ \E thread \in {"created", "fails", "unwanted"} : OpenSucceeds(h, thread)

-----------------------------------------------------------------------------
(* CommsConnect. *)

\* client_address.asv4[i], where i is client_count before it is counted up: 0.
StoresNextSlot(h) == UNCHANGED remote

StoreIp(h) == remote' = [remote EXCEPT ![h].ip = "named"]

StorePort(h) == remote' = [remote EXCEPT ![h].port = "named"]

CountsEveryTime(h) == client_count' = [client_count EXCEPT ![h] = @ + 1]

CountsUdpOnly(h) == client_count' = [client_count EXCEPT ![h] =
                                        IF @ = 0 /\ h \notin Tcp THEN 1 ELSE @]

\* A TCP client counts what it connects, UDP its first remote.
CountRemote(h) == client_count' = [client_count EXCEPT ![h] =
                                      IF @ = 0 \/ h \in Tcp THEN @ + 1 ELSE @]

\* In one step: only the application's own thread reads what it stores.
AppConnectsUdp(h) == /\ apc = "idle" /\ opened[h] = "yes" /\ h \notin Tcp
                     /\ remote' = [remote EXCEPT ![h] = Named]
                     /\ CountRemote(h)
                     /\ UNCHANGED <<alive, opened, fd, running, listeners, sock, apc, job, to>>

\* connect: what each state of the socket answers.
ConnectTcp(h) ==
    /\ apc = "idle" /\ opened[h] = "yes" /\ h \in Tcp
    /\ LET s == sock[fd[h]]
       IN \/ /\ s.link = "idle"
             /\ sock' = [sock EXCEPT ![fd[h]].link = "connecting"]
             /\ IF s.nonblock THEN UNCHANGED <<apc, job>> ELSE apc' = "wait" /\ job' = h
          \/ /\ s.link = "refused"
             /\ sock' = [sock EXCEPT ![fd[h]].link = "idle"]
             /\ UNCHANGED <<apc, job>>
          \/ /\ s.link = "established"
             /\ sock' = [sock EXCEPT ![fd[h]].link = "connected"]
             /\ apc' = "count" /\ job' = h
    /\ UNCHANGED <<handles, listeners, to>>

\* A blocking connect returns.
ConnectReturns ==
    /\ apc = "wait"
    /\ \/ /\ sock[fd[job]].link = "established"
          /\ sock' = [sock EXCEPT ![fd[job]].link = "connected"]
          /\ apc' = "count" /\ UNCHANGED job
       \/ /\ sock[fd[job]].link = "refused"
          /\ sock' = [sock EXCEPT ![fd[job]].link = "idle"]
          /\ apc' = "idle" /\ job' = NoHandle
    /\ UNCHANGED <<handles, listeners, to>>

\* The connection is counted first, then its address stored, and the listener may
\* receive and copy it before each step.
CountConnection == /\ apc = "count"
                   /\ CountRemote(job)
                   /\ apc' = "store_ip"
                   /\ UNCHANGED <<alive, opened, fd, running, remote, listeners, sock, job, to>>

ConnectStoresIp ==
    /\ apc = "store_ip"
    /\ StoreIp(job)
    /\ apc' = "store_port"
    /\ UNCHANGED <<alive, opened, fd, client_count, running, listeners, sock, job, to>>

ConnectStoresPort ==
    /\ apc = "store_port"
    /\ StorePort(job)
    /\ apc' = "idle" /\ job' = NoHandle
    /\ UNCHANGED <<alive, opened, fd, client_count, running, listeners, sock, to>>

ConnectStores == CountConnection \/ ConnectStoresIp \/ ConnectStoresPort

-----------------------------------------------------------------------------
(* comms_send__opt over UDP, with or without an ip and a port. *)

Send(h, ip, port) ==
    /\ apc = "idle" /\ opened[h] = "yes" /\ h \notin Tcp
    /\ client_count[h] > 0 \/ (ip /\ port)
    /\ remote' = [remote EXCEPT ![h] =
                     CASE client_count[h] = 0 -> Named
                       [] client_count[h] > 0 /\ port -> [@ EXCEPT !.port = "named"]
                       [] client_count[h] > 0 /\ ~port /\ ip -> [@ EXCEPT !.ip = "named"]
                       [] OTHER -> @]
    /\ to' = remote'[h]
    /\ UNCHANGED <<alive, opened, fd, client_count, running, listeners, sock, apc, job>>

-----------------------------------------------------------------------------
(* CommsClose and DestroyCommsHandle. *)

\* DestroyCommsHandle takes any handle, CommsClose is for one that was opened.
Close(h) == /\ apc = "idle" /\ alive[h]
            /\ \/ opened[h] = "yes" /\ apc' = "close"
               \/ apc' = "destroy"
            /\ job' = h
            /\ UNCHANGED <<handles, listeners, sock, to>>

\* The loop over client_count sockets: without a remote it closes none.
MustCloseSocket(h) == client_count[h] > 0 /\ fd[h] > 0

CloseSockets ==
    /\ apc \in {"close", "destroy"}
    /\ IF MustCloseSocket(job)
       THEN /\ sock' = [sock EXCEPT ![fd[job]] = Free]
            /\ fd' = [fd EXCEPT ![job] = -1]
            /\ remote' = [remote EXCEPT ![job] = Unset]
       ELSE UNCHANGED <<sock, fd, remote>>
    /\ apc' = IF apc = "close" THEN "stop" ELSE "stop_free"
    /\ UNCHANGED <<alive, opened, client_count, running, listeners, job, to>>

StopListener == /\ apc \in {"stop", "stop_free"}
                /\ running' = [running EXCEPT ![job] = FALSE]
                /\ apc' = IF apc = "stop" THEN "join" ELSE "join_free"
                /\ UNCHANGED <<alive, opened, fd, client_count, remote, listeners, sock, job, to>>

JoinsIfSocketOpen == fd[job] = -1 \/ lpc[job] \in {"none", "exited", "joined"}

\* pthread_join waits for a thread that runs.
ThreadIsOver == lpc[job] \in {"none", "exited", "joined"}

Join == /\ apc \in {"join", "join_free"}
        /\ ThreadIsOver
        /\ lpc' = [lpc EXCEPT ![job] = IF @ = "exited" THEN "joined" ELSE @]
        /\ alive' = [alive EXCEPT ![job] = (apc = "join")]
        /\ opened' = [opened EXCEPT ![job] = IF @ = "failed" /\ alive'[job] THEN @ ELSE "closed"]
        /\ job' = NoHandle
        /\ \/ apc' = "idle"
           \/ lpc[job] # "exited" /\ apc' = "crashed"
        /\ UNCHANGED <<fd, client_count, running, remote, lfd, told, sock, to>>

-----------------------------------------------------------------------------
(* comms__listener, for UDP and for a TCP client. *)

NeverFcntl(f) == sock

MakeNonblocking(f) == [sock EXCEPT ![f].nonblock = TRUE]

ListenerStarts(h) == /\ lpc[h] = "start"
                     /\ sock' = IF fd[h] > 0 THEN MakeNonblocking(fd[h]) ELSE sock
                     /\ lpc' = [lpc EXCEPT ![h] = "top"]
                     /\ UNCHANGED <<handles, lfd, told, apc, job, to>>

ReadFd(h) == /\ lpc[h] = "top"
             /\ IF running[h]
                THEN fd[h] > 0 /\ lfd' = [lfd EXCEPT ![h] = fd[h]]
                     /\ lpc' = [lpc EXCEPT ![h] = "recv"]
                ELSE lpc' = [lpc EXCEPT ![h] = "exited"] /\ UNCHANGED lfd
             /\ UNCHANGED <<handles, told, sock, apc, job, to>>

EndsWhenDry(h) == lpc' = [lpc EXCEPT ![h] = "exited"]

\* The end of a connection, a reset and other errors change nothing, as when there is
\* nothing to receive: CommsDisconnect refuses slot 0.
NothingReceived(h) == lpc' = [lpc EXCEPT ![h] = "top"]

\* Data, or nothing (the call blocks unless O_NONBLOCK), or an error: not connected, or
\* closed since the number was read.
Receive(h) ==
    LET s == sock[lfd[h]]
    IN  /\ lpc[h] = "recv"
        /\ IF s.data
           THEN /\ sock' = [sock EXCEPT ![lfd[h]].data = FALSE]
                /\ lpc' = [lpc EXCEPT ![h] = IF h \in Tcp THEN "copy" ELSE "callback"]
           ELSE /\ \/ s.nonblock \/ s.kind = "free"
                   \/ s.kind = "tcp" /\ s.link \in {"idle", "refused"}
                /\ NothingReceived(h) /\ UNCHANGED sock
        /\ lfd' = [lfd EXCEPT ![h] = 0]
        /\ UNCHANGED <<handles, told, apc, job, to>>

\* The listener of a TCP client tells the address of the handle, as it is by now;
\* over UDP the datagram brings its own.
CopyAddress(h) == /\ lpc[h] = "copy"
                  /\ told' = [told EXCEPT ![h] = remote[h]]
                  /\ lpc' = [lpc EXCEPT ![h] = "callback"]
                  /\ UNCHANGED <<handles, lfd, sock, apc, job, to>>

\* recvcb; that of client_transport.cpp connects the handle to whoever asks: a remote
\* that counts has both its parts named already, one that does not is not used.
Callback(h) ==
    /\ lpc[h] = "callback"
    /\ told' = [told EXCEPT ![h] = Unset]
    /\ \/ lpc' = [lpc EXCEPT ![h] = "top"] /\ UNCHANGED remote
       \/ /\ h \notin Tcp
          /\ remote' = [remote EXCEPT ![h] = Named]
          /\ lpc' = [lpc EXCEPT ![h] = "set_count"]
    /\ UNCHANGED <<alive, opened, fd, client_count, running, lfd, sock, apc, job, to>>

CallbackCounts(h) ==
    /\ lpc[h] = "set_count"
    /\ CountRemote(h)
    /\ lpc' = [lpc EXCEPT ![h] = "top"]
    /\ UNCHANGED <<alive, opened, fd, running, remote, lfd, told, sock, apc, job, to>>

Listener(h) == \/ ListenerStarts(h) \/ ReadFd(h) \/ Receive(h)
               \/ CopyAddress(h) \/ Callback(h) \/ CallbackCounts(h)

-----------------------------------------------------------------------------
(* The network; what reaches a socket that no listener reads is left out. *)

IsRead(f) == \E h \in Handles :
    fd[h] = f /\ ~(~running[h] /\ lpc[h] \in {"none", "exited", "joined"})

\* Nothing need arrive: a remote may have ended the connection or reset it.
Arrive(f) == /\ IsRead(f)
             /\ sock[f].kind = "udp" \/ sock[f].link \in {"established", "connected"}
             /\ sock' = [sock EXCEPT ![f].data = TRUE]
             /\ UNCHANGED <<handles, listeners, apc, job, to>>

Answer(f) == /\ sock[f].link = "connecting"
             /\ \E l \in {"established", "refused"} : sock' = [sock EXCEPT ![f].link = l]
             /\ UNCHANGED <<handles, listeners, apc, job, to>>

\* The remote resets a connection that connect has not returned yet: the next call, or
\* the blocked one, reports it.  Once it is connected connect is not told.
Reset(f) == /\ sock[f].link = "established"
            /\ sock' = [sock EXCEPT ![f].link = "refused"]
            /\ UNCHANGED <<handles, listeners, apc, job, to>>

-----------------------------------------------------------------------------

Continue == ConnectReturns \/ ConnectStores \/ CloseSockets \/ StopListener \/ Join

Next == /\ apc # "crashed"
        /\ \/ Continue
           \/ \E h \in Handles : \/ Open(h) \/ AppConnectsUdp(h) \/ ConnectTcp(h) \/ Close(h)
                                 \/ \E ip, port \in BOOLEAN : Send(h, ip, port)
                                 \/ Listener(h)
           \/ \E f \in Sockets : Arrive(f) \/ Answer(f) \/ Reset(f)

Spec == Init /\ [][Next]_vars

ListenerIsFair(h) == WF_vars(Listener(h))
ListenersAreFair == \A h \in Handles : ListenerIsFair(h)
CallerIsFair(h) == SF_vars(ConnectTcp(h))
CallersAreFair == \A h \in Tcp : CallerIsFair(h)
RemoteIsFair(f) == WF_vars(Answer(f))
RemotesAreFair == \A f \in Sockets : RemoteIsFair(f)

\* The threads run, a remote answers, and the application finishes its calls and
\* repeats a CommsConnect that has failed.
FairSpec == /\ Spec /\ WF_vars(Continue)
            /\ ListenersAreFair /\ CallersAreFair /\ RemotesAreFair

-----------------------------------------------------------------------------
(* Correctness. *)

\* The socket of a handle, a free one when it has none.
SockOf(h) == IF fd[h] \in Sockets THEN sock[fd[h]] ELSE Free

Closing == {"close", "stop", "join", "destroy", "stop_free", "join_free"}

Parts == {"unset", "old", "named"}
Addresses == [ip : Parts, port : Parts]

TypeOK ==
    /\ alive \in [Handles -> BOOLEAN]
    /\ opened \in [Handles -> {"no", "failed", "yes", "closed"}]
    /\ fd \in [Handles -> Sockets \cup {-1, 0}]
    /\ client_count \in [Handles -> 0..1]
    /\ running \in [Handles -> BOOLEAN]
    /\ remote \in [Handles -> Addresses]
    /\ lpc \in [Handles -> {"none", "start", "top", "recv", "copy", "callback", "set_count",
                            "exited", "joined"}]
    /\ lfd \in [Handles -> Sockets \cup {0}]
    /\ told \in [Handles -> Addresses]
    /\ sock \in [Sockets -> [kind : {"free", "udp", "tcp"}, nonblock : BOOLEAN,
                             link : {"idle", "connecting", "refused", "established", "connected"},
                             data : BOOLEAN]]
    /\ apc \in {"idle", "wait", "count", "store_ip", "store_port", "crashed"} \cup Closing
    /\ job \in Handles \cup {NoHandle}
    /\ to \in Addresses

\* A listener only uses what is its own.  It never receives from another handle's
\* socket, although it uses a number that CommsClose may have given back to the
\* kernel: its own handle has the socket, or nobody has it before the listener is
\* joined; and once CommsClose has returned it calls nothing back any more, nor
\* touches the memory that DestroyCommsHandle frees, however the close went.
OnlyItsOwn == \A h \in Handles :
    /\ lpc[h] = "recv" => lfd[h] = fd[h] \/ sock[lfd[h]].kind = "free"
    /\ opened[h] = "closed" \/ ~alive[h] => lpc[h] \in {"none", "joined"}

\* A datagram only goes to an ip and a port that were named since the handle was
\* opened; not always by the same call, for comms_send__opt drops an ip given with
\* a port when there is a remote, and the callback may be storing another.
SentToNamed == to = Named

\* The application is about to close the handle, or the process has ended.
Over(h) == apc = "crashed" \/ (apc \in Closing /\ job = h)

\* CommsConnect has returned true: it has counted the connection and stored it.
Connected(h) == client_count[h] > 0 /\ ~(apc \in {"store_ip", "store_port"} /\ job = h)

\* What the listener of a TCP client copies for its callback, without the mutex being
\* held by who stores it, is the whole address of the remote once CommsConnect has
\* returned true and until the close, and never, not in any part, the address of an
\* earlier connection of the handle.
CopiesTheRemote ==
    [][\A h \in Tcp : lpc[h] = "copy" /\ lpc'[h] = "callback" =>
          /\ Connected(h) /\ ~Over(h) => told'[h] = Named
          /\ told'[h].ip # "old" /\ told'[h].port # "old"]_vars

\* CommsClose returns, also for a socket it leaves open under a listener.
CloseReturns == \A h \in Handles :
    apc \in Closing /\ job = h ~> apc \in {"idle", "crashed"}

\* A connection that came about after CommsConnect had returned false is found by
\* the retries of the caller, unless it is reset before.
RetryFindsConnection == \A h \in Tcp :
    opened[h] = "yes" /\ SockOf(h).link = "established"
        ~> client_count[h] > 0 \/ SockOf(h).link = "refused" \/ Over(h)

\* What has arrived for a handle with a listener is read, or the handle is closed.
DataEventuallyRead == \A h \in Handles :
    running[h] /\ SockOf(h).data ~> Over(h) \/ ~SockOf(h).data
=============================================================================
