-------------------------- MODULE MCSubscriberStream --------------------------
(* Instances of SubscriberStream.                                            *)
EXTENDS SubscriberStream, TLC

CONSTANTS reader, stalled

=============================================================================
