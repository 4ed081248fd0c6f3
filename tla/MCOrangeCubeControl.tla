------------------------ MODULE MCOrangeCubeControl ------------------------
(* A small instance of the controller for TLC. *)
EXTENDS OrangeCubeControl

MCMaxVelocity == [a \in Axes |-> IF a \in {"vx", "vy"} THEN 2 ELSE 1]

\* A moderate command, and one beyond every limit with a NaN on one axis.
Gentle == [vx |-> 1, vy |-> -2, vz |-> 0, yaw |-> 1]
Wild == [vx |-> -3, vy |-> 3, vz |-> NaN, yaw |-> 2]
\* A command that only damaged or foreign datagrams carry.
Damaged == [vx |-> 2, vy |-> 2, vz |-> 1, yaw |-> -1]

Frame(t) == [len |-> 60, cid |-> 0, framed |-> TRUE, crc_ok |-> TRUE,
             msg_id |-> kMsgIdTwistCmd, data_size |-> SizeOfTwistCmd, twist |-> t]

MCDatagrams ==
    {Frame(Gentle), Frame(Wild),
     [Frame(Damaged) EXCEPT !.len = 0], [Frame(Damaged) EXCEPT !.cid = 1],
     [Frame(Damaged) EXCEPT !.framed = FALSE], [Frame(Damaged) EXCEPT !.crc_ok = FALSE],
     [Frame(Damaged) EXCEPT !.msg_id = 1],
     [Frame(Damaged) EXCEPT !.data_size = SizeOfTwistCmd - 1]}
=============================================================================
