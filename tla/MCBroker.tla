------------------------------- MODULE MCBroker -------------------------------
(* Records of 3 to 5 bytes against chunks of 7: the second record of a       *)
(* backlog may be cut.                                                       *)
EXTENDS Broker

SomeEvents == {<<"TaskSwap", 1, 2, 1>>, <<"TaskSwap", 2, 1, 6>>,
               <<"IpcTransfer", 2, 1>>, <<"FaultInterception", 2, 9>>}

=============================================================================
