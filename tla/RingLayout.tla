------------------------------ MODULE RingLayout ------------------------------
(***************************************************************************)
(* The ring NewZSocket asks the kernel for and the frames it cuts out of   *)
(* the memory it maps, as operators on NewZSocket's arguments m            *)
(* (maxFrameSize), t (maxTotalFrames) and the ring format v in use.        *)
(***************************************************************************)
EXTENDS Integers

CONSTANTS
  PageSize,       \* os.Getpagesize()
  MinFrame,       \* MINIMUM_FRAME_SIZE
  MaxFrame,       \* MAXIMUM_FRAME_SIZE
  FramesPerBlock, \* framesPerBlock, of the V3 format
  TxStart,        \* _TX_START: the frame's header
  Args            \* arguments tried

UInt16 == 65536

\* 2 ^ 0 to 2 ^ 20
Powers == {1, 2, 4, 8, 16, 32, 64, 128, 256, 512, 1024, 2048, 4096, 8192, 16384, 32768,
           65536, 131072, 262144, 524288, 1048576}

ASSUME LayoutAssumption ==
  /\ {PageSize, MinFrame} \subseteq Powers
  /\ MaxFrame \in Nat /\ MaxFrame < UInt16 /\ FramesPerBlock \in Nat \ {0}
  /\ TxStart \in 1 .. MinFrame - 1
  /\ Args \subseteq [m : Nat, t : Nat, v : {"V1", "V3"}]

PowerOfTwo(m) == m = 0 \/ m \in Powers

\* Mutant: the limit is one shift too high.
FrameSizeOKAbove(m) == MinFrame <= m /\ m <= 2 * MaxFrame /\ PowerOfTwo(m)

FrameSizeOK(m) == MinFrame <= m /\ m <= MaxFrame /\ PowerOfTwo(m)
TotalFramesOK(t) == ~(t < 16 /\ t % 8 = 0)

\* calculateLargestFrame: MinFrame, doubled until it is not below ceil.
LargestFrame(ceil) ==
  LET sizes == {MinFrame * p : p \in Powers}
  IN CHOOSE s \in sizes : s >= ceil /\ \A r \in sizes : r >= ceil => s <= r

FrameSize(m) ==
  IF m < PageSize THEN LargestFrame(m) ELSE (m \div PageSize) * PageSize

\* The request to the kernel, tpacketReq.
Req(m, t, v) ==
  LET fs == FrameSize(m)
      perBlock == IF v = "V3" THEN FramesPerBlock ELSE 8
      bs == fs * perBlock
      bn == t \div perBlock
  IN [frameSize |-> fs, blockSize |-> bs, blockNum |-> bn, frameNum |-> (bs \div fs) * bn]

\* The kernel sets the ring up, or takes it away if no block is asked for.
KernelTakes(req) ==
  \/ req.blockNum = 0 /\ req.frameNum = 0
  \/ /\ req.blockNum > 0 /\ req.blockSize > 0 /\ req.blockSize % PageSize = 0
     /\ req.frameSize > TxStart /\ req.frameSize % 16 = 0
     /\ (req.blockSize \div req.frameSize) * req.blockNum = req.frameNum

\* The length given to Mmap; the kernel refuses to map nothing.
MapSize(req) == req.blockSize * req.blockNum

\* NewZSocket returns a socket.
Returned(m, t, v) ==
  /\ FrameSizeOK(m) /\ TotalFramesOK(t)
  /\ KernelTakes(Req(m, t, v))
  /\ MapSize(Req(m, t, v)) > 0

\* zs.frameSize, a uint16, and zs.txFrameSize
ZFrameSize(req) == req.frameSize % UInt16
TxFrameSize(req) == (ZFrameSize(req) - TxStart) % UInt16

\* Where in the mapping NewZSocket cuts out frame i.
FrLoc(req, i) == i * ZFrameSize(req)

\* Where the kernel has it: frames do not cross from one block into the next.
KernelLoc(req, i) ==
  LET perBlock == req.blockSize \div req.frameSize
  IN (i \div perBlock) * req.blockSize + (i % perBlock) * req.frameSize

-------------------------------------------------------------------------------
(* NewZSocket is called. *)

VARIABLE args           \* its arguments, and the ring format

RingInit == args = [m |-> 0, t |-> 0, v |-> "V1"]
RingNext == args.m = 0 /\ args' \in Args
RingSpec == RingInit /\ [][RingNext]_args

\* A socket NewZSocket returns has a ring: at least one block, frames of the
\* size asked for and at most as many, each inside the mapping and where the
\* kernel has it, so that no two overlap and none crosses a block.
FramesInRing ==
  Returned(args.m, args.t, args.v) =>
    LET req == Req(args.m, args.t, args.v)
    IN /\ req.blockNum >= 1 /\ req.frameNum \in 1 .. args.t
       /\ ZFrameSize(req) = args.m
       /\ TxFrameSize(req) \in 1 .. args.m
       /\ \A i \in 0 .. req.frameNum - 1 :
            /\ FrLoc(req, i) + ZFrameSize(req) <= MapSize(req)
            /\ FrLoc(req, i) = KernelLoc(req, i)

===============================================================================
