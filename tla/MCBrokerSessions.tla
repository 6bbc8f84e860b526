-------------------------- MODULE MCBrokerSessions --------------------------
(***************************************************************************)
(* BrokerSessions for TLC.                                                 *)
(***************************************************************************)
EXTENDS BrokerSessions

CONSTANTS read, follow, listener

NoPress == {}

OneRead == {read}

OneFollow == {follow}

OneListener == {listener}
=============================================================================
