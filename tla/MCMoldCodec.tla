------------------------------ MODULE MCMoldCodec ------------------------------
(* The codec on every small header, payload and list of messages. *)
EXTENDS MoldCodec

CONSTANTS
  MaxName,      \* longest session name tried
  MaxBytes,     \* longest payload tried
  MaxSize,      \* largest buffer tried
  MaxLen,       \* longest of several messages tried
  MaxMsgs       \* most messages tried

MCNames == UNION {[1 .. k -> {0, Space}] : k \in 0 .. MaxName}
MCPayloads == UNION {[1 .. k -> Byte] : k \in 0 .. MaxBytes}
MCSizes == 0 .. MaxSize
MCCounts == 0 .. MaxMsgs

\* Messages of all lengths, and one that is too long for a uint16.
Sample(k) == [j \in 1 .. k |-> (k + j) % Base]
MCMsgLists ==
  UNION {[1 .. k -> {Sample(l) : l \in 0 .. MaxLen}] : k \in 0 .. MaxMsgs}
    \cup {<<Sample(Base * Base)>>}

===============================================================================
