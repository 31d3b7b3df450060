-------------------------- MODULE MCEnvelopeOrder --------------------------
(* Small instances of EnvelopeOrder: one originator of messages. *)
EXTENDS EnvelopeOrder

CONSTANT p

OneOrig == {p}
=============================================================================
