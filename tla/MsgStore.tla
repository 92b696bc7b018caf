------------------------------- MODULE MsgStore -------------------------------
(***************************************************************************)
(* The message cache as its users see it: a map, the operations on it, and *)
(* what the last ones returned.                                            *)
(***************************************************************************)
EXTENDS MsgMap

CONSTANTS
  SeqNos,       \* sequence numbers in use
  Message       \* messages in use

VARIABLES
  store,        \* the map
  flag,         \* what the last Upset or IsNil returned
  merged        \* what the last Merge returned

StoreInit == store = <<>> /\ flag = FALSE /\ merged = <<>>

\* Upset answers whether it replaced a message.
StoreUpset(n, m) == /\ store' = Upset(store, n, m)
                    /\ flag' = ~IsNil(store, n)
                    /\ UNCHANGED merged

StoreIsNil(n) == flag' = IsNil(store, n) /\ UNCHANGED <<store, merged>>

StoreMerge(n) == merged' = Merge(store, n) /\ UNCHANGED <<store, flag>>

StoreNext == \E n \in SeqNos : \/ \E m \in Message : StoreUpset(n, m)
                               \/ StoreIsNil(n)
                               \/ StoreMerge(n)

StoreSpec == StoreInit /\ [][StoreNext]_<<store, flag, merged>>

===============================================================================
