---------------------------- MODULE ReplayBuffer ----------------------------
(***************************************************************************)
(* What a client that attaches is shown of a session's past: the ring of   *)
(* the output chunks of a pty (src/main/ringBuffer.ts), cleaned of         *)
(* questions to a terminal (sanitizeReplay in src/main/sessionRegistry.ts) *)
(* and, for a pipe through the relay, cut down to what a frame may carry   *)
(* (fitReplayToBudget in src/shared/wsProtocol.ts).                        *)
(*                                                                         *)
(* A chunk is its size in bytes: only whole chunks enter and leave.  A     *)
(* replay is a sequence of line ends and other characters, and its wire    *)
(* size grows with its length.                                             *)
(***************************************************************************)
EXTENDS Naturals, Sequences, SequencesExt

Bytes(chunks) == FoldSeq(LAMBDA c, n : c + n, 0, chunks)

\* The loop of append: chunks leave at the front while there are too many
\* bytes, but never the last one.
Evict(chunks, max) ==
    LET Loop[n \in 1 .. Len(chunks)] ==
            LET rest == SubSeq(chunks, n, Len(chunks))
            IN  IF Bytes(rest) > max /\ n < Len(chunks) THEN Loop[n + 1] ELSE rest
    IN  Loop[1]

(* append *)
AppendChunk(chunks, c, max) ==
    IF c >= max THEN <<c>> ELSE Evict(Append(chunks, c), max)

\* All output of a pty, chunk by chunk.
Written(output, max) == FoldLeft(LAMBDA ring, c : AppendChunk(ring, c, max), <<>>, output)

(* sanitizeReplay: a fresh terminal would answer the questions, and the     *)
(* answers would be typed into the program.                                 *)
Sanitized(replay) == SelectSeq(replay, LAMBDA item : item # "query")

\* indexOf('\n', cut): positions count from 1 here, 0 if there is none.
NextLineEnd(replay, cut) ==
    LET ends == {i \in DOMAIN replay : i > cut /\ replay[i] = "newline"}
    IN  IF ends = {} THEN 0 ELSE CHOOSE i \in ends : \A j \in ends : i <= j

AtLeastOne(n) == IF n < 1 THEN 1 ELSE n

\* One round of the loop: the front three quarters go, to the end of a line.
CutFront(replay) ==
    LET len == Len(replay)
        part == (3 * len) \div 4
        cut == AtLeastOne(IF part < len - 1 THEN part ELSE len - 1)
        nl == NextLineEnd(replay, cut)
    IN  SubSeq(replay, (IF nl = 0 THEN cut ELSE nl) + 1, len)

(* fitReplayToBudget, for a frame whose size is its replay and an envelope. *)
Fitted(replay, envelope, budget) ==
    LET Loop[n \in 0 .. Len(replay)] ==
            LET rest == SubSeq(replay, Len(replay) - n + 1, Len(replay))
            IN  IF n > 0 /\ n + envelope > budget THEN Loop[Len(CutFront(rest))] ELSE rest
    IN  Loop[Len(replay)]

-----------------------------------------------------------------------------
Ends(s) == {SubSeq(s, i, Len(s)) : i \in 1 .. Len(s) + 1}
Longest(S) == CHOOSE s \in S : \A t \in S : Len(t) <= Len(s)

(* However the chunks came, the ring holds the longest end of the output    *)
(* that its bytes allow, and the newest chunk even if that alone is more.   *)
ASSUME RingIsLongestEnd ==
    \A max \in 1 .. 5 : \A output \in BoundedSeq(1 .. 3, 5) :
        output # <<>> =>
            LET fits == {s \in Ends(output) : Bytes(s) <= max}
                whole == Longest(fits)
            IN  Written(output, max) = IF whole = <<>> THEN <<Last(output)>> ELSE whole

Replays == BoundedSeq({"char", "newline"}, 7)

(* The cut comes to an end, keeps the newest output, fits if anything is    *)
(* left, takes nothing from a replay that fits, and starts at the start of  *)
(* a line unless what it kept is one broken line.                           *)
ASSUME FittedKeepsTheEnd ==
    \A replay \in Replays : \A envelope \in 0 .. 2 : \A budget \in 0 .. 8 :
        LET kept == Fitted(replay, envelope, budget)
            start == Len(replay) - Len(kept)
        IN  /\ kept \in Ends(replay)
            /\ kept # <<>> => Len(kept) + envelope <= budget
            /\ Len(replay) + envelope <= budget => kept = replay
            /\ 0 < start /\ start < Len(replay) /\ replay[start] # "newline"
                   => \A i \in DOMAIN kept : kept[i] # "newline"
=============================================================================
