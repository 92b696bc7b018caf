-------------------------------- MODULE MsgMap --------------------------------
(***************************************************************************)
(* What the client promises itself of its message cache: a finite map from *)
(* sequence numbers to messages.  A slot, once filled, is overwritten but  *)
(* never emptied.  MsgCache models the paged array that implements it.     *)
(***************************************************************************)
EXTENDS Integers, Sequences, FiniteSets

\* No message is cached under n.
IsNil(c, n) == n \notin DOMAIN c

\* Store m under n.
Upset(c, n, m) == [x \in DOMAIN c \cup {n} |-> IF x = n THEN m ELSE c[x]]

\* Store msgs under n, n+1, ...: a loop of Upset.
UpsetAll(c, n, msgs) ==
  [x \in DOMAIN c \cup n .. n + Len(msgs) - 1 |->
     IF x \in n .. n + Len(msgs) - 1 THEN msgs[x - n + 1] ELSE c[x]]

\* The numbers of the unbroken run of cached messages that starts at n.
RunFrom(c, n) == {x \in DOMAIN c : n <= x /\ n .. x \subseteq DOMAIN c}

\* The messages of that run, in order; empty when nothing is cached under n.
Merge(c, n) == [i \in 1 .. Cardinality(RunFrom(c, n)) |-> c[n + i - 1]]

===============================================================================
