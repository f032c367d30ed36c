------------------------------- MODULE MCRelay -------------------------------
(***************************************************************************)
(* A small instance of Relay for TLC.                                      *)
(***************************************************************************)
EXTENDS Relay

CONSTANTS s1, s2, e1, m1

\* One transaction that reports an occurrence and one that only moves the state.
RelayPayloads ==
    {[state |-> s1, checkpoints |-> NoCheckpoints,
      events |-> {[id |-> e1, body |-> m1]}],
     [state |-> s2, checkpoints |-> NoCheckpoints, events |-> {}]}

=============================================================================
