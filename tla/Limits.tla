------------------------------- MODULE Limits -------------------------------
(***************************************************************************)
(* The transfer limits: what chunk size and window two clients settle on,  *)
(* when a sender must wait, and when a receiver acknowledges.  The code    *)
(* has them twice, in internal/wireproto/limits.go for the Go client and   *)
(* in transfer/negotiate.ts for the portal, operator by operator.  Sizes   *)
(* are byte counts; 0 stands for "not advertised".  The numbers are far    *)
(* below the width of the code's ints and below 2^53.                      *)
(***************************************************************************)
EXTENDS Integers

CONSTANTS
    ChunkDataSize,          \* the floor of the chunk size, 64 KiB
    PreferredChunkSize      \* what a sender asks for, 1 MiB

\* One byte would be too small a floor: a window of two has no quarter, and a
\* receiver of that window never acknowledges.
ASSUME LimitsAssumption ==
    /\ ChunkDataSize \in Nat /\ ChunkDataSize >= 2
    /\ PreferredChunkSize \in Nat /\ PreferredChunkSize > 0

\* Faulty variant of FloorChunkSize: any size goes.
AnyChunkSize(n) == n

FloorChunkSize(n) == IF n < ChunkDataSize THEN ChunkDataSize ELSE n

Least(a, b) == IF a < b THEN a ELSE b

\* An absent or non-positive advertisement means the legacy floor.
Advertised(n, default) == IF n <= 0 THEN default ELSE n

NegotiateChunkSize(preference, relayMax, acceptMax) ==
    FloorChunkSize(Least(Least(Advertised(preference, PreferredChunkSize),
                               Advertised(relayMax, ChunkDataSize)),
                         Advertised(acceptMax, ChunkDataSize)))

\* Faulty variant of EffectiveWindow: no room for a second chunk.
RawWindow(windowBytes, chunkSize) == IF windowBytes <= 0 THEN 0 ELSE windowBytes

EffectiveWindow(windowBytes, chunkSize) ==
    IF windowBytes <= 0 THEN 0
    ELSE IF windowBytes < 2 * chunkSize THEN 2 * chunkSize
    ELSE windowBytes

\* Faulty variant of AckThreshold: an ack per window.
WholeWindow(windowBytes) == IF windowBytes <= 0 THEN 0 ELSE windowBytes

AckThreshold(windowBytes) == IF windowBytes <= 0 THEN 0 ELSE windowBytes \div 4

InFlight(sent, lastAck) == IF sent < lastAck THEN 0 ELSE sent - lastAck

\* Faulty variant of WindowFull: an unbounded window.
NeverFull(sent, lastAck, windowBytes) == FALSE

WindowFull(sent, lastAck, windowBytes) ==
    /\ windowBytes > 0
    /\ InFlight(sent, lastAck) >= windowBytes

ShouldAck(received, lastAcked, windowBytes) ==
    /\ AckThreshold(windowBytes) > 0
    /\ received - lastAcked >= AckThreshold(windowBytes)

\* chunkCount of internal/client/transfer.go, and the same of state.ts.
ChunkCount(size, chunkSize) ==
    IF size <= 0 THEN 1 ELSE (size + chunkSize - 1) \div chunkSize
=============================================================================
