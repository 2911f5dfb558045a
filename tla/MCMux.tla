------------------------------- MODULE MCMux --------------------------------
(* Model-checking module of Mux: small instances, see the MCMux_*.cfg. *)
EXTENDS MuxProperties

\* Frames of the end that opens streams and of the end that accepts them.
Frames(d, l) == [e \in Ends |-> IF e = "dial" THEN d ELSE l]
Frames41 == Frames(4, 1)
Frames31 == Frames(3, 1)
Frames34 == Frames(3, 4)
Frames21 == Frames(2, 1)
Frames22 == Frames(2, 2)

DialOpens == {<<"dial", "OpenStream">>, <<"listen", "AcceptStream">>}
OneWay == {<<"dial", "Write">>, <<"listen", "Read">>}

\* Streams used and closed, the Mux left open.
SessionCalls == DialOpens \cup OneWay \cup Ends \X {"Close"}
DuplexCalls == DialOpens \cup Ends \X {"Read", "Write", "Close"}
\* A Mux closed by the application, by a deadline or with the connection.
StopCalls == DialOpens \cup OneWay \cup
             {<<"listen", "Close">>, <<"listen", "MuxClose">>, <<"dial", "SetDeadline">>}
CollisionCalls == Ends \X {"OpenStream", "AcceptStream"} \cup OneWay
KeepaliveCalls == DialOpens \cup OneWay \cup {<<"listen", "Close">>, <<"dial", "Ping">>}
=============================================================================
