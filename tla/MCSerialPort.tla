---------------------------- MODULE MCSerialPort ----------------------------
(***************************************************************************)
(* Two pages and one API caller at the serial console of one device.       *)
(***************************************************************************)
EXTENDS SerialPort, TLC

\* The pages are alike; no property tells one from the other.
PageSymmetry == Permutations(Clients)

\* Nobody acts on the flags and the backlog of a port whose drain is over, nor on the
\* abandoned threads, which the invariants checked with this view do not mention either.
LiveView ==
    <<registered, devLock, made,
      [g \in Ports |-> IF Alive(g) THEN port[g]
                       ELSE <<port[g].drain, port[g].reading, port[g].io, port[g].ser>>],
      opened, handles, call, session, queue, writer, chunks, last, given, missed>>
=============================================================================
