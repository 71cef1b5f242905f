--------------------------- MODULE MCAmqpSession ---------------------------
(* Instances of AmqpSession for TLC. *)
EXTENDS AmqpSession, TLC

CONSTANTS t1, t2

\* One channel does everything, the other fetches, acknowledges and publishes.
TwoChannels ==
  <<{"call", "select", "consume", "cancel", "settle", "publish", "close", "unsupported"},
    {"get", "settle", "publish"}>>
=============================================================================
