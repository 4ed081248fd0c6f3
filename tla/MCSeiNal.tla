------------------------------ MODULE MCSeiNal ------------------------------
(* SeiNal over the bytes its conditions tell apart. *)
EXTENDS SeiNal

Upto(n, S) == UNION {[1..m -> S] : m \in 0..n}

\* Units with a start code of three or four bytes: a delimiter (with nal_ref_idc
\* 0 or 3), a parameter set or a slice, and a body that may end in zeros.
Units == {code \o <<header>> \o rest :
             code \in {<<0, 0, 1>>, <<0, 0, 0, 1>>},
             header \in {9, 105, 103},
             rest \in Upto(2, {0, 1, 9})}

\* Payloads rich in zeros; frames of up to two units, and any few bytes at all.
MCCases ==
    (Upto(6, {0, 1, 3, 4}) \X {<<0, 0, 0, 1, 9, 240, 0, 0, 1, 101>>})
    \cup ({<<0, 0>>} \X (Units \cup {a \o b : a, b \in Units} \cup Upto(7, {0, 1, 9})))
=============================================================================
