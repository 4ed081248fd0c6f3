---------------------------- MODULE MCImuSession ----------------------------
(* Small instances of the session for TLC. *)
EXTENDS ImuSession

Establish(h, p) == [ip |-> h, port |-> p, len |-> 12, framed |-> TRUE, crc_ok |-> TRUE,
                    msg_id |-> kMsgIdEstablishConnection]

Damaged(d) == {[d EXCEPT !.len = 0], [d EXCEPT !.framed = FALSE], [d EXCEPT !.crc_ok = FALSE]}

\* Two clients on different hosts, which take the session from each other; a third host
\* is only heard in damaged datagrams.
TwoHosts == {Establish("host1", 1), Establish("host2", 2),
             [Establish("host1", 1) EXCEPT !.msg_id = kMsgIdCloseConnection],
             [Establish("host3", 3) EXCEPT !.msg_id = 17]}
            \cup Damaged(Establish("host3", 3))
=============================================================================
