------------------------------ MODULE MCMoldData ------------------------------
(***************************************************************************)
(* The parts of the program that share no state with another goroutine:    *)
(* the cache (MsgCache), the codec (MoldCodec), the frames (UdpFrame) and   *)
(* the layout of the rings (RingLayout), one of them in each behaviour.    *)
(***************************************************************************)
EXTENDS MCMoldCodec, MsgCache, UdpFrame, RingLayout

VARIABLE subject        \* the part in question

dataVars == <<subject, codecVars, cacheVars, pktLen, args>>

Numbers == 0 .. 5

\* Lengths around those where a frame, or a uint16, is full.
MCLengths == (0 .. 70) \cup (1960 .. 2030) \cup (65460 .. 65540)

MCGroups == [upper : {448, 449}, lower : {1, 2}]

\* Around each limit of the arguments.
MCArgs == [m : {0, 512, 1000, 2 ^ 15 + 1} \cup {2 ^ k : k \in 10 .. 17},
           t : (0 .. 40) \cup (1020 .. 1030) \cup {2047, 2048, 4096},
           v : {"V1", "V3"}]

DataInit ==
  /\ subject \in {"codec", "cache", "frame", "ring"}
  /\ CodecInit /\ CacheInit /\ FrameInit /\ RingInit

CodecStep == /\ subject = "codec" /\ CodecNext
             /\ UNCHANGED <<subject, cacheVars, pktLen, args>>
CacheStep == /\ subject = "cache" /\ CacheNext
             /\ UNCHANGED <<subject, codecVars, pktLen, args>>
FrameStep == /\ subject = "frame" /\ FrameNext
             /\ UNCHANGED <<subject, codecVars, cacheVars, args>>
RingStep == /\ subject = "ring" /\ RingNext
            /\ UNCHANGED <<subject, codecVars, cacheVars, pktLen>>

DataNext == CodecStep \/ CacheStep \/ FrameStep \/ RingStep
DataSpec == DataInit /\ [][DataNext]_dataVars

===============================================================================
