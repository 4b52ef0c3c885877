-------------------------- MODULE RevStream_proofs --------------------------
(***************************************************************************)
(* Proofs about RevStream, for any streams, channel capacity, capacity of  *)
(* the connection and amount of data: type correctness, that a reader gets *)
(* a gapless prefix of what its peer wrote, and that end of file is never  *)
(* premature.                                                              *)
(***************************************************************************)
EXTENDS RevStream, TLAPS

-----------------------------------------------------------------------------
(* What the frames on a connection say about stream j. *)

IsFrame(f, t, j) == f.type = t /\ f.id = j
Has(w, t, j) == \E k \in 1 .. Len(w) : IsFrame(w[k], t, j)

\* The DATA frames ascend within b + 1 .. s, and CLOSE is the last word.
Ascending(w, j, b, s) ==
  /\ \A k \in 1 .. Len(w) : IsFrame(w[k], "DATA", j) => b < w[k].n /\ w[k].n <= s
  /\ \A k, l \in 1 .. Len(w) :
       k < l /\ IsFrame(w[k], "DATA", j) /\ IsFrame(w[l], "DATA", j) => w[k].n < w[l].n
  /\ \A k, l \in 1 .. Len(w) :
       k < l /\ IsFrame(w[k], "CLOSE", j) =>
         ~IsFrame(w[l], "DATA", j) /\ ~IsFrame(w[l], "CLOSE", j)

\* None of b + 1 .. s is missing.
Gapless(w, j, b, s) ==
  \A m \in b + 1 .. s : \E k \in 1 .. Len(w) : IsFrame(w[k], "DATA", j) /\ w[k].n = m

\* DATA comes after OPEN, of which there is at most one.
OpenFirst(w, j) ==
  \A k \in 1 .. Len(w) : IsFrame(w[k], "DATA", j) =>
    \E l \in 1 .. Len(w) : l < k /\ IsFrame(w[l], "OPEN", j)
OneOpen(w, j) ==
  \A k, l \in 1 .. Len(w) : IsFrame(w[k], "OPEN", j) /\ IsFrame(w[l], "OPEN", j) => k = l

\* No frame of the stream.
Silent(w, j) == \A k \in 1 .. Len(w) : w[k].id # j

-----------------------------------------------------------------------------
(* The inductive invariant. *)

\* The end mark is in a channel.
HasMark(q) == \E k \in 1 .. Len(q) : q[k] = Sentinel

\* What was read and what waits are consecutive; the end mark is the last.
InLine(g, q, eof) ==
  /\ \A k \in 1 .. Len(g) : g[k] = k
  /\ \A k \in 1 .. Len(q) :
       IF q[k] = Sentinel THEN k = Len(q) /\ eof ELSE q[k] = Len(g) + k

\* Chunks that have reached a channel.
Chunks(g, q) == Len(g) + Len(q) - (IF HasMark(q) THEN 1 ELSE 0)

Pending(e, j) == {f \in loop[e] : f.id = j}

\* Chunks that have reached the channel, and those taken off the connection.
Queued(e, j) == Chunks(got[e][j], inbound[e][j])
Taken(e, j) == Queued(e, j) + (IF Pending(e, j) = {} THEN 0 ELSE 1)

\* The writer of stream j at e has sent its CLOSE.
Ended(e, j) == writer[e][j] = "done" /\ localDone[e][j]

\* The channel of a stream is in order.
ChannelInv(e, j) == InLine(got[e][j], inbound[e][j], remoteEOF[e][j])

\* The frame deliver is blocked on is the next one.
LoopInv(e, j) ==
  /\ Taken(e, j) <= sent[Peer(e)][j]
  /\ \A f \in Pending(e, j) : f.n = Queued(e, j) + 1 /\ ~remoteEOF[e][j]

\* What is on the connection continues what was taken off it, unless the
\* stream was shut down here.
WireInv(e, j) ==
  resetErr[e][j] = "none" =>
    /\ Ascending(wire[e], j, Taken(e, j), sent[Peer(e)][j])
    /\ link => Gapless(wire[e], j, Taken(e, j), sent[Peer(e)][j])

\* The end of the stream comes after everything the peer wrote.
EndInv(e, j) ==
  /\ Has(wire[e], "CLOSE", j) => Ended(Peer(e), j) /\ ~remoteEOF[e][j]
  /\ remoteEOF[e][j] => Ended(Peer(e), j) /\ Queued(e, j) = sent[Peer(e)][j]
  /\ reader[e][j] = "eof" => Ended(Peer(e), j) /\ Len(got[e][j]) = sent[Peer(e)][j]
  /\ writer[e][j] = "closing" => localDone[e][j]

\* A stream is in the map as long as its data is to be delivered.
MapInv(e, j) ==
  /\ j \in inMap[e] => resetErr[e][j] = "none"
  /\ resetErr[e][j] = "none" /\ writer[e][j] # "none" /\ link =>
       /\ writer[Peer(e)][j] # "done" => j \in inMap[e]
       /\ Has(wire[e], "DATA", j) => j \in inMap[e]

\* An end that has not heard of the stream has no trace of it.
Untouched(e, j) ==
  /\ j \notin inMap[e] /\ resetErr[e][j] = "none" /\ ~remoteEOF[e][j] /\ ~localDone[e][j]
  /\ got[e][j] = <<>> /\ inbound[e][j] = <<>> /\ sent[e][j] = 0 /\ reader[e][j] = "none"
  /\ Pending(e, j) = {}
  /\ Silent(wire[Peer(e)], j)

\* The PoP opens a stream before the connector, which learns of it by OPEN.
OpenInv(j) ==
  /\ \A e \in Ends : writer[e][j] = "none" => Untouched(e, j)
  /\ writer["pop"][j] = "none" => writer["connector"][j] = "none"
  /\ ~Has(wire["pop"], "OPEN", j)
  /\ Has(wire["connector"], "OPEN", j) => writer["connector"][j] = "none"
  /\ OneOpen(wire["connector"], j)
  /\ writer["connector"][j] = "none" =>
       /\ OpenFirst(wire["connector"], j)
       /\ link /\ writer["pop"][j] # "none" => Has(wire["connector"], "OPEN", j)

StreamInv(j) ==
  /\ \A e \in Ends : ChannelInv(e, j) /\ LoopInv(e, j) /\ WireInv(e, j) /\ EndInv(e, j)
                       /\ MapInv(e, j)
  /\ OpenInv(j)

MuxInv ==
  /\ ~link => \A e \in Ends : wire[e] = <<>>
  /\ \A e \in Ends : closed[e] => ~link
  /\ \A e \in Ends : \A f, g \in loop[e] : f = g

IInv == TypeOK /\ MuxInv /\ \A j \in Ids : StreamInv(j)

-----------------------------------------------------------------------------
(* Sequences. *)

\* The tail of a sequence.
LEMMA TailAt ==
  ASSUME NEW S, NEW w \in Seq(S), w # <<>>
  PROVE  /\ Tail(w) \in Seq(S) /\ Len(w) \in Nat /\ Len(w) >= 1 /\ Len(Tail(w)) = Len(w) - 1
         /\ Head(w) = w[1] /\ Head(w) \in S
         /\ \A k \in 1 .. Len(w) - 1 : Tail(w)[k] = w[k + 1]
OBVIOUS

\* The empty sequence is the one of length zero.
LEMMA EmptySeq ==
  ASSUME NEW S, NEW w \in Seq(S), Len(w) = 0
  PROVE  w = <<>>
OBVIOUS

\* A sequence with one more element.
LEMMA AppendAt ==
  ASSUME NEW S, NEW w \in Seq(S), NEW x \in S
  PROVE  /\ Append(w, x) \in Seq(S) /\ Len(w) \in Nat /\ Len(Append(w, x)) = Len(w) + 1
         /\ Append(w, x)[Len(w) + 1] = x
         /\ \A k \in 1 .. Len(w) : Append(w, x)[k] = w[k]
OBVIOUS

\* Nothing is on an empty connection.
LEMMA EmptyWire ==
  ASSUME NEW j, NEW b, NEW s
  PROVE  /\ \A t : ~Has(<<>>, t, j)
         /\ Ascending(<<>>, j, b, s) /\ OpenFirst(<<>>, j) /\ OneOpen(<<>>, j) /\ Silent(<<>>, j)
BY DEF Has, Ascending, OpenFirst, OneOpen, Silent

\* The read loop takes a frame.
LEMMA TailKeeps ==
  ASSUME NEW w \in Seq(Frame), w # <<>>, NEW j
  PROVE  /\ \A t : Has(Tail(w), t, j) => Has(w, t, j)
         /\ \A t : Has(w, t, j) /\ ~IsFrame(Head(w), t, j) => Has(Tail(w), t, j)
         /\ \A b, s : Ascending(w, j, b, s) => Ascending(Tail(w), j, b, s)
         /\ \A b, s : Gapless(w, j, b, s) /\ ~IsFrame(Head(w), "DATA", j) =>
                        Gapless(Tail(w), j, b, s)
         /\ OneOpen(w, j) => OneOpen(Tail(w), j)
         /\ OpenFirst(w, j) /\ ~IsFrame(Head(w), "OPEN", j) => OpenFirst(Tail(w), j)
         /\ Silent(w, j) => Silent(Tail(w), j)
<1> DEFINE v == Tail(w)
<1>1. /\ Len(w) \in Nat /\ Len(w) >= 1 /\ Len(v) = Len(w) - 1 /\ Head(w) = w[1]
      /\ \A k \in 1 .. Len(w) - 1 : v[k] = w[k + 1]
  BY TailAt
<1>2. \A k \in 1 .. Len(v) : k + 1 \in 1 .. Len(w) /\ v[k] = w[k + 1]
  BY <1>1
<1>3. \A k \in 1 .. Len(w) : k = 1 \/ (k - 1 \in 1 .. Len(v) /\ v[k - 1] = w[k])
  BY <1>1
<1> SUFFICES /\ \A t : Has(v, t, j) => Has(w, t, j)
             /\ \A t : Has(w, t, j) /\ ~IsFrame(w[1], t, j) => Has(v, t, j)
             /\ \A b, s : Ascending(w, j, b, s) => Ascending(v, j, b, s)
             /\ \A b, s : Gapless(w, j, b, s) /\ ~IsFrame(w[1], "DATA", j) => Gapless(v, j, b, s)
             /\ OneOpen(w, j) => OneOpen(v, j)
             /\ OpenFirst(w, j) /\ ~IsFrame(w[1], "OPEN", j) => OpenFirst(v, j)
             /\ Silent(w, j) => Silent(v, j)
  BY <1>1
<1> HIDE DEF v
<1>4. \A t : Has(v, t, j) => Has(w, t, j)
  BY <1>2 DEF Has
<1>5. \A t : Has(w, t, j) /\ ~IsFrame(w[1], t, j) => Has(v, t, j)
  BY <1>3 DEF Has
<1>6. ASSUME NEW b, NEW s, Ascending(w, j, b, s) PROVE Ascending(v, j, b, s)
  <2>1. \A k \in 1 .. Len(v) : IsFrame(v[k], "DATA", j) => b < v[k].n /\ v[k].n <= s
    BY <1>2, <1>6 DEF Ascending
  <2>2. \A k, l \in 1 .. Len(v) : k < l => k + 1 < l + 1
    BY <1>1
  <2>3. \A k, l \in 1 .. Len(v) :
          k < l /\ IsFrame(v[k], "DATA", j) /\ IsFrame(v[l], "DATA", j) => v[k].n < v[l].n
    BY <1>2, <1>6, <2>2 DEF Ascending
  <2>4. \A k, l \in 1 .. Len(v) :
          k < l /\ IsFrame(v[k], "CLOSE", j) =>
            ~IsFrame(v[l], "DATA", j) /\ ~IsFrame(v[l], "CLOSE", j)
    BY <1>2, <1>6, <2>2 DEF Ascending
  <2> QED
    BY <2>1, <2>3, <2>4 DEF Ascending
<1>7. \A b, s : Gapless(w, j, b, s) /\ ~IsFrame(w[1], "DATA", j) => Gapless(v, j, b, s)
  BY <1>3 DEF Gapless
<1>8. OneOpen(w, j) => OneOpen(v, j)
  <2>1. \A k, l \in 1 .. Len(v) : k + 1 = l + 1 => k = l
    BY <1>1
  <2> QED
    BY <1>2, <2>1 DEF OneOpen
<1>9. ASSUME OpenFirst(w, j), ~IsFrame(w[1], "OPEN", j) PROVE OpenFirst(v, j)
  <2> SUFFICES ASSUME NEW k \in 1 .. Len(v), IsFrame(v[k], "DATA", j)
               PROVE  \E l \in 1 .. Len(v) : l < k /\ IsFrame(v[l], "OPEN", j)
    BY DEF OpenFirst
  <2>1. PICK l \in 1 .. Len(w) : l < k + 1 /\ IsFrame(w[l], "OPEN", j)
    BY <1>2, <1>9 DEF OpenFirst
  <2>2. l # 1
    BY <1>9, <2>1
  <2>3. l - 1 \in 1 .. Len(v) /\ v[l - 1] = w[l] /\ l - 1 < k
    BY <1>1, <1>3, <2>1, <2>2
  <2> QED
    BY <2>1, <2>3
<1>10. Silent(w, j) => Silent(v, j)
  BY <1>2 DEF Silent
<1> QED
  BY <1>4, <1>5, <1>6, <1>7, <1>8, <1>9, <1>10

\* A frame is written.
LEMMA AppendKeeps ==
  ASSUME NEW w \in Seq(Frame), NEW f \in Frame, NEW j
  PROVE  /\ \A t : Has(w, t, j) => Has(Append(w, f), t, j)
         /\ \A t : Has(Append(w, f), t, j) => Has(w, t, j) \/ IsFrame(f, t, j)
         /\ \A b, s : Ascending(w, j, b, s) /\ ~IsFrame(f, "DATA", j) /\ ~IsFrame(f, "CLOSE", j) =>
                        Ascending(Append(w, f), j, b, s)
         /\ \A b, s : Gapless(w, j, b, s) => Gapless(Append(w, f), j, b, s)
         /\ OneOpen(w, j) /\ ~IsFrame(f, "OPEN", j) => OneOpen(Append(w, f), j)
         /\ OpenFirst(w, j) /\ ~IsFrame(f, "DATA", j) => OpenFirst(Append(w, f), j)
         /\ Silent(w, j) /\ f.id # j => Silent(Append(w, f), j)
<1> DEFINE v == Append(w, f)
<1>1. /\ Len(w) \in Nat /\ Len(v) = Len(w) + 1 /\ v[Len(w) + 1] = f
      /\ \A k \in 1 .. Len(w) : v[k] = w[k]
  BY AppendAt
<1>2. \A k \in 1 .. Len(w) : k \in 1 .. Len(v) /\ v[k] = w[k]
  BY <1>1
<1>3. \A k \in 1 .. Len(v) : (k \in 1 .. Len(w) /\ v[k] = w[k]) \/ (k = Len(v) /\ v[k] = f)
  BY <1>1
<1> HIDE DEF v
<1>4. \A t : Has(w, t, j) => Has(v, t, j)
  BY <1>2 DEF Has
<1>5. \A t : Has(v, t, j) => Has(w, t, j) \/ IsFrame(f, t, j)
  BY <1>3 DEF Has
<1>6. ASSUME NEW b, NEW s, Ascending(w, j, b, s), ~IsFrame(f, "DATA", j), ~IsFrame(f, "CLOSE", j)
      PROVE  Ascending(v, j, b, s)
  <2>1. \A k \in 1 .. Len(v) : IsFrame(v[k], "DATA", j) \/ IsFrame(v[k], "CLOSE", j) =>
          k \in 1 .. Len(w) /\ v[k] = w[k]
    BY <1>3, <1>6
  <2> QED
    BY <1>6, <2>1 DEF Ascending
<1>7. \A b, s : Gapless(w, j, b, s) => Gapless(v, j, b, s)
  BY <1>2 DEF Gapless
<1>8. OneOpen(w, j) /\ ~IsFrame(f, "OPEN", j) => OneOpen(v, j)
  BY <1>3 DEF OneOpen
<1>9. OpenFirst(w, j) /\ ~IsFrame(f, "DATA", j) => OpenFirst(v, j)
  BY <1>2, <1>3 DEF OpenFirst
<1>10. Silent(w, j) /\ f.id # j => Silent(v, j)
  BY <1>3 DEF Silent
<1> QED
  BY <1>4, <1>5, <1>6, <1>7, <1>8, <1>9, <1>10 DEF v

\* The first DATA frame of a stream is the next chunk.
LEMMA TakeData ==
  ASSUME NEW w \in Seq(Frame), w # <<>>, NEW j, NEW b \in Nat, NEW s \in Nat,
         IsFrame(Head(w), "DATA", j), Ascending(w, j, b, s), Gapless(w, j, b, s)
  PROVE  /\ Head(w).n = b + 1 /\ b + 1 <= s
         /\ Ascending(Tail(w), j, b + 1, s) /\ Gapless(Tail(w), j, b + 1, s)
<1> DEFINE v == Tail(w)
<1>1. /\ v \in Seq(Frame) /\ Len(w) \in Nat /\ Len(w) >= 1 /\ Len(v) = Len(w) - 1 /\ Head(w) = w[1]
      /\ \A k \in 1 .. Len(w) - 1 : v[k] = w[k + 1]
  BY TailAt
<1>2. \A k \in 1 .. Len(w) : w[k].n \in Int
  <2>1. \A k \in 1 .. Len(w) : w[k] \in Frame
    OBVIOUS
  <2> QED
    BY <2>1, CapAssumption DEF Frame
<1>3. Ascending(v, j, b, s)
  BY TailKeeps
<1>4. b < w[1].n /\ w[1].n <= s /\ 1 \in 1 .. Len(w)
  BY <1>1 DEF Ascending
<1>5. b + 1 <= s /\ b + 1 \in b + 1 .. s
  BY <1>2, <1>4
<1>6. PICK l \in 1 .. Len(w) : IsFrame(w[l], "DATA", j) /\ w[l].n = b + 1
  BY <1>5 DEF Gapless
<1>7. l = 1
  <2> SUFFICES ASSUME l # 1 PROVE FALSE
    OBVIOUS
  <2>1. 1 < l
    BY <1>1
  <2>2. w[1].n < w[l].n
    BY <1>1, <1>4, <1>6, <2>1 DEF Ascending
  <2> QED
    BY <1>2, <1>4, <1>6, <2>2
<1>8. w[1].n = b + 1
  BY <1>6, <1>7
<1>9. \A k \in 1 .. Len(v) : k + 1 \in 1 .. Len(w) /\ v[k] = w[k + 1] /\ 1 < k + 1
  BY <1>1
<1>10. \A k \in 1 .. Len(w) : k = 1 \/ (k - 1 \in 1 .. Len(v) /\ v[k - 1] = w[k])
  BY <1>1
<1>11. \A k \in 1 .. Len(v) : IsFrame(v[k], "DATA", j) => b + 1 < v[k].n
  BY <1>1, <1>4, <1>8, <1>9 DEF Ascending
<1>12. \A m \in b + 2 .. s : m \in b + 1 .. s /\ m # b + 1
  OBVIOUS
<1>13. ASSUME NEW m \in b + 2 .. s
       PROVE  \E k \in 1 .. Len(v) : IsFrame(v[k], "DATA", j) /\ v[k].n = m
  <2>1. PICK k \in 1 .. Len(w) : IsFrame(w[k], "DATA", j) /\ w[k].n = m
    BY <1>12 DEF Gapless
  <2>2. k # 1
    BY <1>8, <1>12, <2>1
  <2> QED
    BY <1>10, <2>1, <2>2
<1> HIDE DEF v
<1>14. Ascending(v, j, b + 1, s)
  BY <1>3, <1>11 DEF Ascending
<1>15. Gapless(v, j, b + 1, s)
  <2>1. (b + 1) + 1 = b + 2
    OBVIOUS
  <2> QED
    BY <1>13, <2>1 DEF Gapless
<1> QED
  BY <1>1, <1>5, <1>8, <1>14, <1>15 DEF v

\* When CLOSE arrives, everything has arrived.
LEMMA TakeClose ==
  ASSUME NEW w \in Seq(Frame), w # <<>>, NEW j, NEW b \in Nat, NEW s \in Nat, b <= s,
         IsFrame(Head(w), "CLOSE", j), Ascending(w, j, b, s), Gapless(w, j, b, s)
  PROVE  b = s /\ ~Has(Tail(w), "DATA", j) /\ ~Has(Tail(w), "CLOSE", j)
<1> DEFINE v == Tail(w)
<1>1. /\ Len(w) \in Nat /\ Len(w) >= 1 /\ Len(v) = Len(w) - 1 /\ Head(w) = w[1]
      /\ \A k \in 1 .. Len(w) - 1 : v[k] = w[k + 1]
  BY TailAt
<1>2. \A l \in 1 .. Len(w) : l # 1 => ~IsFrame(w[l], "DATA", j) /\ ~IsFrame(w[l], "CLOSE", j)
  <2>1. 1 \in 1 .. Len(w) /\ \A l \in 1 .. Len(w) : l # 1 => 1 < l
    BY <1>1
  <2> QED
    BY <1>1, <2>1 DEF Ascending
<1>3. ~IsFrame(w[1], "DATA", j)
  BY <1>1 DEF IsFrame
<1>4. b = s
  <2> SUFFICES ASSUME b # s PROVE FALSE
    OBVIOUS
  <2>1. b + 1 \in b + 1 .. s
    OBVIOUS
  <2>2. PICK k \in 1 .. Len(w) : IsFrame(w[k], "DATA", j)
    BY <2>1 DEF Gapless
  <2> QED
    BY <1>2, <1>3, <2>2
<1>5. \A k \in 1 .. Len(v) : k + 1 \in 1 .. Len(w) /\ k + 1 # 1 /\ v[k] = w[k + 1]
  BY <1>1
<1> HIDE DEF v
<1>6. ~Has(v, "DATA", j) /\ ~Has(v, "CLOSE", j)
  BY <1>2, <1>5 DEF Has
<1> QED
  BY <1>4, <1>6 DEF v

\* The next chunk is written.
LEMMA AppendData ==
  ASSUME NEW w \in Seq(Frame), NEW f \in Frame, NEW j, NEW b \in Nat, NEW s \in Nat, b <= s,
         IsFrame(f, "DATA", j), f.n = s + 1, ~Has(w, "CLOSE", j)
  PROVE  /\ Ascending(w, j, b, s) => Ascending(Append(w, f), j, b, s + 1)
         /\ Gapless(w, j, b, s) => Gapless(Append(w, f), j, b, s + 1)
         /\ OpenFirst(w, j) /\ Has(w, "OPEN", j) => OpenFirst(Append(w, f), j)
<1> DEFINE v == Append(w, f)
<1>1. /\ Len(w) \in Nat /\ Len(v) = Len(w) + 1 /\ v[Len(w) + 1] = f
      /\ \A k \in 1 .. Len(w) : v[k] = w[k]
  BY AppendAt
<1>2. \A k \in 1 .. Len(w) : w[k].n \in Int
  <2>1. \A k \in 1 .. Len(w) : w[k] \in Frame
    OBVIOUS
  <2> QED
    BY <2>1, CapAssumption DEF Frame
<1>3. \A k \in 1 .. Len(w) : k \in 1 .. Len(v) /\ v[k] = w[k] /\ k < Len(v)
  BY <1>1
<1>4. \A k \in 1 .. Len(v) : (k \in 1 .. Len(w) /\ v[k] = w[k]) \/ (k = Len(v) /\ v[k] = f)
  BY <1>1
<1>5. Len(v) \in 1 .. Len(v) /\ v[Len(v)] = f
  BY <1>1
<1> HIDE DEF v
<1>6. ASSUME Ascending(w, j, b, s) PROVE Ascending(v, j, b, s + 1)
  <2>1. \A k \in 1 .. Len(w) : IsFrame(w[k], "DATA", j) => b < w[k].n /\ w[k].n <= s
    BY <1>6 DEF Ascending
  <2>2. \A k \in 1 .. Len(v) : IsFrame(v[k], "DATA", j) => b < v[k].n /\ v[k].n <= s + 1
    BY <1>2, <1>4, <2>1
  <2>3. ASSUME NEW k \in 1 .. Len(v), NEW l \in 1 .. Len(v), k < l,
               IsFrame(v[k], "DATA", j), IsFrame(v[l], "DATA", j)
        PROVE  v[k].n < v[l].n
    <3>1. k \in 1 .. Len(w) /\ v[k] = w[k]
      BY <1>1, <2>3
    <3>2. CASE l \in 1 .. Len(w) /\ v[l] = w[l]
      BY <1>6, <2>3, <3>1, <3>2 DEF Ascending
    <3>3. CASE v[l] = f
      BY <1>2, <2>1, <2>3, <3>1, <3>3
    <3> QED
      BY <1>4, <3>2, <3>3
  <2>4. ASSUME NEW k \in 1 .. Len(v), NEW l \in 1 .. Len(v), k < l
        PROVE  ~IsFrame(v[k], "CLOSE", j)
    <3>1. ~IsFrame(f, "CLOSE", j)
      BY DEF IsFrame
    <3> QED
      BY <1>4, <3>1 DEF Has
  <2> QED
    BY <2>2, <2>3, <2>4 DEF Ascending
<1>7. ASSUME Gapless(w, j, b, s) PROVE Gapless(v, j, b, s + 1)
  <2> SUFFICES ASSUME NEW m \in b + 1 .. s + 1
               PROVE  \E k \in 1 .. Len(v) : IsFrame(v[k], "DATA", j) /\ v[k].n = m
    BY DEF Gapless
  <2>1. CASE m = s + 1
    BY <1>5, <2>1
  <2>2. CASE m # s + 1
    <3>1. m \in b + 1 .. s
      BY <2>2
    <3> QED
      BY <1>3, <1>7, <3>1 DEF Gapless
  <2> QED
    BY <2>1, <2>2
<1>8. ASSUME OpenFirst(w, j), Has(w, "OPEN", j) PROVE OpenFirst(v, j)
  <2>1. PICK l \in 1 .. Len(w) : IsFrame(w[l], "OPEN", j)
    BY <1>8 DEF Has
  <2> SUFFICES ASSUME NEW k \in 1 .. Len(v), IsFrame(v[k], "DATA", j)
               PROVE  \E q \in 1 .. Len(v) : q < k /\ IsFrame(v[q], "OPEN", j)
    BY DEF OpenFirst
  <2>2. CASE k \in 1 .. Len(w) /\ v[k] = w[k]
    BY <1>3, <1>8, <2>2 DEF OpenFirst
  <2>3. CASE k = Len(v)
    BY <1>3, <2>1, <2>3
  <2> QED
    BY <1>4, <2>2, <2>3
<1> QED
  BY <1>6, <1>7, <1>8 DEF v

\* The end is written.
LEMMA AppendClose ==
  ASSUME NEW w \in Seq(Frame), NEW f \in Frame, NEW j, NEW b, NEW s,
         IsFrame(f, "CLOSE", j), ~Has(w, "CLOSE", j), Ascending(w, j, b, s)
  PROVE  Ascending(Append(w, f), j, b, s)
<1> DEFINE v == Append(w, f)
<1>1. /\ Len(w) \in Nat /\ Len(v) = Len(w) + 1 /\ v[Len(w) + 1] = f
      /\ \A k \in 1 .. Len(w) : v[k] = w[k]
  BY AppendAt
<1>2. \A k \in 1 .. Len(v) : (k \in 1 .. Len(w) /\ v[k] = w[k]) \/ (k = Len(v) /\ v[k] = f)
  BY <1>1
<1>3. \A k, l \in 1 .. Len(v) : k < l => k \in 1 .. Len(w) /\ v[k] = w[k]
  BY <1>1
<1>4. ~IsFrame(f, "DATA", j)
  BY DEF IsFrame
<1> HIDE DEF v
<1>5. \A k \in 1 .. Len(v) : IsFrame(v[k], "DATA", j) => k \in 1 .. Len(w) /\ v[k] = w[k]
  BY <1>2, <1>4
<1>6. \A k, l \in 1 .. Len(v) : k < l => ~IsFrame(v[k], "CLOSE", j)
  BY <1>3 DEF Has
<1>7. Ascending(v, j, b, s)
  BY <1>5, <1>6 DEF Ascending
<1> QED
  BY <1>7 DEF v

\* A stream is opened.
LEMMA AppendOpen ==
  ASSUME NEW w \in Seq(Frame), NEW f \in Frame, NEW j, ~Has(w, "OPEN", j)
  PROVE  OneOpen(Append(w, f), j)
<1> DEFINE v == Append(w, f)
<1>1. /\ Len(w) \in Nat /\ Len(v) = Len(w) + 1 /\ v[Len(w) + 1] = f
      /\ \A k \in 1 .. Len(w) : v[k] = w[k]
  BY AppendAt
<1>2. \A k \in 1 .. Len(v) : (k \in 1 .. Len(w) /\ v[k] = w[k]) \/ k = Len(v)
  BY <1>1
<1> HIDE DEF v
<1>3. OneOpen(v, j)
  BY <1>2 DEF OneOpen, Has
<1> QED
  BY <1>3 DEF v

\* A written frame is on the connection.
LEMMA AppendHas ==
  ASSUME NEW w \in Seq(Frame), NEW f \in Frame, NEW j, NEW t, IsFrame(f, t, j)
  PROVE  Has(Append(w, f), t, j)
<1>1. Len(w) + 1 \in 1 .. Len(Append(w, f)) /\ Append(w, f)[Len(w) + 1] = f
  BY AppendAt
<1> QED
  BY <1>1 DEF Has

\* The frame in front is on the connection.
LEMMA HeadHas ==
  ASSUME NEW w \in Seq(Frame), w # <<>>, NEW j, NEW t, IsFrame(Head(w), t, j)
  PROVE  Has(w, t, j) /\ ~Silent(w, j)
<1>1. 1 \in 1 .. Len(w) /\ IsFrame(w[1], t, j) /\ w[1].id = j
  BY TailAt DEF IsFrame
<1> QED
  BY <1>1 DEF Has, Silent

\* A connection without a frame of the stream.
LEMMA SilentHas ==
  ASSUME NEW w, NEW j, Silent(w, j)
  PROVE  \A t : ~Has(w, t, j)
BY DEF Has, Silent, IsFrame

\* After OPEN there is no other.
LEMMA TakeOpen ==
  ASSUME NEW w \in Seq(Frame), w # <<>>, NEW j, IsFrame(Head(w), "OPEN", j), OneOpen(w, j)
  PROVE  ~Has(Tail(w), "OPEN", j)
<1> DEFINE v == Tail(w)
<1>1. /\ Len(w) \in Nat /\ Len(w) >= 1 /\ Len(v) = Len(w) - 1 /\ Head(w) = w[1]
      /\ \A k \in 1 .. Len(w) - 1 : v[k] = w[k + 1]
  BY TailAt
<1>2. 1 \in 1 .. Len(w) /\ \A k \in 1 .. Len(v) : k + 1 \in 1 .. Len(w) /\ v[k] = w[k + 1] /\ k + 1 # 1
  BY <1>1
<1> HIDE DEF v
<1>3. ~Has(v, "OPEN", j)
  BY <1>1, <1>2 DEF Has, OneOpen
<1> QED
  BY <1>3 DEF v

\* DATA cannot be in front before OPEN was taken.
LEMMA OpenBefore ==
  ASSUME NEW w \in Seq(Frame), w # <<>>, NEW j, OpenFirst(w, j)
  PROVE  ~IsFrame(Head(w), "DATA", j)
<1>1. Len(w) \in Nat /\ Len(w) >= 1 /\ Head(w) = w[1] /\ 1 \in 1 .. Len(w)
  BY TailAt
<1>2. \A l \in 1 .. Len(w) : ~(l < 1)
  BY <1>1
<1> QED
  BY <1>1, <1>2 DEF OpenFirst

\* When everything was taken there is no DATA left.
LEMMA NoMoreData ==
  ASSUME NEW w \in Seq(Frame), NEW j, NEW b \in Nat, Ascending(w, j, b, b)
  PROVE  ~Has(w, "DATA", j)
<1>1. \A k \in 1 .. Len(w) : w[k].n \in Int
  <2>1. \A k \in 1 .. Len(w) : w[k] \in Frame
    OBVIOUS
  <2> QED
    BY <2>1, CapAssumption DEF Frame
<1>2. \A k \in 1 .. Len(w) : IsFrame(w[k], "DATA", j) => b < w[k].n /\ w[k].n <= b
  BY DEF Ascending
<1>3. \A k \in 1 .. Len(w) : ~IsFrame(w[k], "DATA", j)
  BY <1>1, <1>2
<1> QED
  BY <1>3 DEF Has

-----------------------------------------------------------------------------
(* The channel of a stream. *)

\* The chunks of a channel are counted by a natural number.
LEMMA ChunksType ==
  ASSUME NEW g \in Seq(1 .. MaxData), NEW q \in Seq(0 .. MaxData)
  PROVE  Chunks(g, q) \in Nat /\ Len(g) <= Chunks(g, q)
<1>1. Len(g) \in Nat /\ Len(q) \in Nat
  OBVIOUS
<1>2. HasMark(q) => Len(q) >= 1
  BY <1>1 DEF HasMark
<1> HIDE DEF HasMark
<1> QED
  BY <1>1, <1>2 DEF Chunks

\* deliver enqueues the next chunk.
LEMMA AddChunk ==
  ASSUME NEW g \in Seq(1 .. MaxData), NEW q \in Seq(0 .. MaxData), NEW n \in 0 .. MaxData,
         InLine(g, q, FALSE), n = Chunks(g, q) + 1
  PROVE  InLine(g, Append(q, n), FALSE) /\ Chunks(g, Append(q, n)) = n
<1> DEFINE v == Append(q, n)
<1>1. /\ Len(g) \in Nat /\ Len(q) \in Nat /\ Len(v) = Len(q) + 1 /\ v[Len(q) + 1] = n
      /\ \A k \in 1 .. Len(q) : v[k] = q[k]
  BY AppendAt
<1>2. ~HasMark(q)
  BY DEF InLine, HasMark
<1>3. n = Len(g) + Len(q) + 1 /\ n # Sentinel
  BY <1>1, <1>2 DEF Chunks, Sentinel
<1>4. \A k \in 1 .. Len(v) : (k \in 1 .. Len(q) /\ v[k] = q[k]) \/ (k = Len(q) + 1 /\ v[k] = n)
  BY <1>1
<1> HIDE DEF v
<1>5. ~HasMark(v)
  BY <1>2, <1>3, <1>4 DEF HasMark
<1>6. InLine(g, v, FALSE)
  <2>0. \A k \in 1 .. Len(q) : q[k] = Len(g) + k
    BY <1>2 DEF InLine, HasMark
  <2>1. \A k \in 1 .. Len(v) : v[k] = Len(g) + k
    BY <1>1, <1>3, <1>4, <2>0
  <2> QED
    BY <1>5, <2>1 DEF InLine, HasMark
<1>7. Chunks(g, v) = n
  BY <1>1, <1>3, <1>5 DEF Chunks
<1> QED
  BY <1>6, <1>7 DEF v

\* remoteClose enqueues the end mark.
LEMMA AddMark ==
  ASSUME NEW g \in Seq(1 .. MaxData), NEW q \in Seq(0 .. MaxData), InLine(g, q, FALSE)
  PROVE  /\ InLine(g, q, TRUE)
         /\ InLine(g, Append(q, Sentinel), TRUE)
         /\ Chunks(g, Append(q, Sentinel)) = Chunks(g, q)
<1> DEFINE v == Append(q, Sentinel)
<1>0. Sentinel \in 0 .. MaxData
  BY CapAssumption DEF Sentinel
<1>1. /\ Len(g) \in Nat /\ Len(q) \in Nat /\ Len(v) = Len(q) + 1 /\ v[Len(q) + 1] = Sentinel
      /\ \A k \in 1 .. Len(q) : v[k] = q[k]
  BY <1>0, AppendAt
<1>2. ~HasMark(q)
  BY DEF InLine, HasMark
<1>4. \A k \in 1 .. Len(v) : (k \in 1 .. Len(q) /\ v[k] = q[k]) \/ (k = Len(v) /\ v[k] = Sentinel)
  BY <1>1
<1>5. HasMark(v)
  BY <1>1 DEF HasMark
<1> HIDE DEF v
<1>6. InLine(g, v, TRUE)
  BY <1>4 DEF InLine
<1>7. Chunks(g, v) = Chunks(g, q)
  BY <1>1, <1>2, <1>5 DEF Chunks
<1>8. InLine(g, q, TRUE)
  BY DEF InLine
<1> QED
  BY <1>6, <1>7, <1>8 DEF v

\* Read takes a chunk.
LEMMA TakeChunk ==
  ASSUME NEW g \in Seq(1 .. MaxData), NEW q \in Seq(0 .. MaxData), NEW r \in BOOLEAN,
         q # <<>>, Head(q) # Sentinel, InLine(g, q, r)
  PROVE  /\ Head(q) \in 1 .. MaxData
         /\ InLine(Append(g, Head(q)), Tail(q), r)
         /\ Chunks(Append(g, Head(q)), Tail(q)) = Chunks(g, q)
<1> DEFINE h == Append(g, Head(q))
           v == Tail(q)
<1>0. Len(g) \in Nat /\ MaxData \in Nat
  BY CapAssumption
<1>1. /\ Len(q) \in Nat /\ Len(q) >= 1 /\ Len(v) = Len(q) - 1
      /\ Head(q) = q[1] /\ Head(q) \in 0 .. MaxData
      /\ \A k \in 1 .. Len(q) - 1 : v[k] = q[k + 1]
  BY TailAt
<1>2. Head(q) \in 1 .. MaxData /\ q[1] = Len(g) + 1 /\ q[1] # Sentinel
  <2>1. q[1] # Sentinel /\ 1 \in 1 .. Len(q)
    BY <1>1
  <2>2. q[1] = Len(g) + 1
    BY <2>1 DEF InLine
  <2>3. Head(q) # 0
    BY DEF Sentinel
  <2> QED
    BY <1>0, <1>1, <2>1, <2>2, <2>3
<1>3. /\ Len(h) = Len(g) + 1 /\ h[Len(g) + 1] = q[1]
      /\ \A k \in 1 .. Len(g) : h[k] = g[k]
  BY <1>1, <1>2, AppendAt
<1>4. \A k \in 1 .. Len(h) : h[k] = k
  <2>1. \A k \in 1 .. Len(g) : g[k] = k
    BY DEF InLine
  <2>2. \A k \in 1 .. Len(h) : k \in 1 .. Len(g) \/ k = Len(g) + 1
    BY <1>0, <1>3
  <2> QED
    BY <1>2, <1>3, <2>1, <2>2
<1>5. \A k \in 1 .. Len(v) : k + 1 \in 1 .. Len(q) /\ v[k] = q[k + 1]
  BY <1>1
<1>6. HasMark(v) <=> HasMark(q)
  <2>1. \A k \in 1 .. Len(q) : k = 1 \/ (k - 1 \in 1 .. Len(v) /\ v[k - 1] = q[k])
    BY <1>1
  <2> HIDE DEF v, h
  <2> QED
    BY <1>2, <1>5, <2>1 DEF HasMark
<1> HIDE DEF h, v
<1>7. ASSUME NEW k \in 1 .. Len(v)
      PROVE  IF v[k] = Sentinel THEN k = Len(v) /\ r ELSE v[k] = Len(h) + k
  <2>1. IF q[k + 1] = Sentinel THEN k + 1 = Len(q) /\ r ELSE q[k + 1] = Len(g) + (k + 1)
    BY <1>5 DEF InLine
  <2>2. v[k] = q[k + 1]
    BY <1>5
  <2>3. /\ k + 1 = Len(q) => k = Len(v)
        /\ Len(g) + (k + 1) = Len(h) + k
    <3>1. k \in Nat /\ Len(v) = Len(q) - 1 /\ Len(h) = Len(g) + 1 /\ Len(q) \in Nat
      BY <1>1, <1>3
    <3> QED
      BY <1>0, <3>1
  <2>4. CASE q[k + 1] = Sentinel
    BY <2>1, <2>2, <2>3, <2>4
  <2>5. CASE q[k + 1] # Sentinel
    BY <2>1, <2>2, <2>3, <2>5
  <2> QED
    BY <2>4, <2>5
<1>8. InLine(h, v, r)
  BY <1>4, <1>7 DEF InLine
<1>9. Chunks(h, v) = Chunks(g, q)
  BY <1>0, <1>1, <1>3, <1>6 DEF Chunks
<1> QED
  BY <1>2, <1>8, <1>9 DEF h, v

\* Read takes the end mark: it was the last.
LEMMA TakeMark ==
  ASSUME NEW g \in Seq(1 .. MaxData), NEW q \in Seq(0 .. MaxData), NEW r \in BOOLEAN,
         q # <<>>, Head(q) = Sentinel, InLine(g, q, r)
  PROVE  /\ r /\ Tail(q) = <<>> /\ InLine(g, Tail(q), r)
         /\ Chunks(g, q) = Len(g) /\ Chunks(g, Tail(q)) = Len(g)
<1>0. Len(g) \in Nat
  OBVIOUS
<1>1. /\ Len(q) \in Nat /\ Len(q) >= 1 /\ Len(Tail(q)) = Len(q) - 1
      /\ Head(q) = q[1] /\ Tail(q) \in Seq(0 .. MaxData)
  BY TailAt
<1>2. q[1] = Sentinel /\ 1 \in 1 .. Len(q)
  BY <1>1
<1>a. Len(q) = 1
  BY <1>2 DEF InLine
<1>b. r
  BY <1>2 DEF InLine
<1>3. Tail(q) = <<>>
  <2>1. Len(Tail(q)) = 0
    BY <1>1, <1>a
  <2> QED
    BY <1>1, <2>1, EmptySeq
<1>4. HasMark(q) /\ ~HasMark(<<>>)
  BY <1>2 DEF HasMark
<1>5. InLine(g, <<>>, r)
  BY DEF InLine
<1> HIDE DEF HasMark
<1>6. Chunks(g, q) = Len(g) /\ Chunks(g, <<>>) = Len(g)
  BY <1>0, <1>a, <1>4 DEF Chunks
<1> QED
  BY <1>b, <1>3, <1>5, <1>6

-----------------------------------------------------------------------------
(* What a step leaves alone. *)

\* The two ends.
LEMMA TwoEnds ==
  /\ "pop" \in Ends /\ "connector" \in Ends /\ "pop" # "connector"
  /\ Peer("pop") = "connector" /\ Peer("connector") = "pop"
  /\ \A e \in Ends : Peer(e) \in Ends /\ Peer(e) # e /\ Peer(Peer(e)) = e
  /\ \A e, d \in Ends : d = e \/ d = Peer(e)
BY DEF Ends, Peer

\* A connection says of stream j what it said, up to RST and CLOSE.
KeptFrames(w, v, j) ==
  /\ \A t \in {"OPEN", "DATA", "CLOSE"} : Has(v, t, j) => Has(w, t, j)
  /\ Has(w, "OPEN", j) => Has(v, "OPEN", j)
  /\ \A b, s : Ascending(w, j, b, s) => Ascending(v, j, b, s)
  /\ \A b, s : Gapless(w, j, b, s) => Gapless(v, j, b, s)
  /\ OneOpen(w, j) => OneOpen(v, j)
  /\ OpenFirst(w, j) => OpenFirst(v, j)

SameFrames(w, v, j) == KeptFrames(w, v, j) /\ (Silent(w, j) => Silent(v, j))

\* A reset of the stream is taken or written, or its CLOSE is taken.
LEMMA ResetFrames ==
  ASSUME NEW w \in Seq(Frame), NEW j
  PROVE  /\ w # <<>> /\ IsFrame(Head(w), "RST", j) => SameFrames(w, Tail(w), j)
         /\ w # <<>> /\ IsFrame(Head(w), "CLOSE", j) => SameFrames(w, Tail(w), j)
         /\ \A f \in Frame : IsFrame(f, "RST", j) => KeptFrames(w, Append(w, f), j)
<1>1. \A f : IsFrame(f, "RST", j) => \A t \in {"OPEN", "DATA", "CLOSE"} : ~IsFrame(f, t, j)
  BY DEF IsFrame
<1>2. ASSUME w # <<>>, IsFrame(Head(w), "RST", j) \/ IsFrame(Head(w), "CLOSE", j)
      PROVE  SameFrames(w, Tail(w), j)
  <2>1. ~IsFrame(Head(w), "OPEN", j) /\ ~IsFrame(Head(w), "DATA", j)
    BY <1>2 DEF IsFrame
  <2> QED
    BY <1>2, <2>1, TailKeeps DEF SameFrames, KeptFrames
<1>3. ASSUME NEW f \in Frame, IsFrame(f, "RST", j) PROVE KeptFrames(w, Append(w, f), j)
  <2>1. \A t \in {"OPEN", "DATA", "CLOSE"} : ~IsFrame(f, t, j)
    BY <1>1, <1>3
  <2> QED
    BY <1>3, <2>1, AppendKeeps DEF KeptFrames
<1> QED
  BY <1>2, <1>3

\* A frame of another stream is taken or written.
LEMMA OtherFrames ==
  ASSUME NEW w \in Seq(Frame), NEW j
  PROVE  /\ SameFrames(w, w, j)
         /\ w # <<>> /\ Head(w).id # j => SameFrames(w, Tail(w), j)
         /\ \A f \in Frame : f.id # j => SameFrames(w, Append(w, f), j)
<1>1. SameFrames(w, w, j)
  BY DEF SameFrames, KeptFrames
<1>2. ASSUME w # <<>>, Head(w).id # j PROVE SameFrames(w, Tail(w), j)
  <2>1. \A t : ~IsFrame(Head(w), t, j)
    BY <1>2 DEF IsFrame
  <2> QED
    BY <1>2, <2>1, TailKeeps DEF SameFrames, KeptFrames
<1>3. ASSUME NEW f \in Frame, f.id # j PROVE SameFrames(w, Append(w, f), j)
  <2>1. \A t : ~IsFrame(f, t, j)
    BY <1>3 DEF IsFrame
  <2> QED
    BY <1>3, <2>1, AppendKeeps DEF SameFrames, KeptFrames
<1> QED
  BY <1>1, <1>2, <1>3

\* Stream j is as before at end d.
SameEnd(d, j) ==
  /\ Pending(d, j)' = Pending(d, j) /\ (j \in inMap'[d] <=> j \in inMap[d])
  /\ inbound'[d][j] = inbound[d][j] /\ remoteEOF'[d][j] = remoteEOF[d][j]
  /\ resetErr'[d][j] = resetErr[d][j] /\ localDone'[d][j] = localDone[d][j]
  /\ writer'[d][j] = writer[d][j] /\ reader'[d][j] = reader[d][j]
  /\ sent'[d][j] = sent[d][j] /\ got'[d][j] = got[d][j]

\* The connection is as before for stream j, or it is gone.
SameWires(j) ==
  \/ link' = link /\ \A d \in Ends : SameFrames(wire[d], wire'[d], j)
  \/ link' = FALSE /\ \A d \in Ends : wire'[d] = <<>>

KeptWires(j) ==
  \/ link' = link /\ \A d \in Ends : KeptFrames(wire[d], wire'[d], j)
  \/ link' = FALSE /\ \A d \in Ends : wire'[d] = <<>>

\* What such a connection still says of the stream.
LEMMA WhatIsKept ==
  ASSUME NEW j, KeptWires(j)
  PROVE  /\ \A d \in Ends : \A t \in {"OPEN", "DATA", "CLOSE"} :
              Has(wire'[d], t, j) => Has(wire[d], t, j)
         /\ link' => link /\ \A d \in Ends : Has(wire[d], "OPEN", j) => Has(wire'[d], "OPEN", j)
         /\ \A d \in Ends : \A b, s : Ascending(wire[d], j, b, s) => Ascending(wire'[d], j, b, s)
         /\ link' => \A d \in Ends : \A b, s :
                       Gapless(wire[d], j, b, s) => Gapless(wire'[d], j, b, s)
         /\ \A d \in Ends : OneOpen(wire[d], j) => OneOpen(wire'[d], j)
         /\ \A d \in Ends : OpenFirst(wire[d], j) => OpenFirst(wire'[d], j)
<1>1. CASE link' = link /\ \A d \in Ends : KeptFrames(wire[d], wire'[d], j)
  BY <1>1 DEF KeptFrames
<1>2. CASE link' = FALSE /\ \A d \in Ends : wire'[d] = <<>>
  BY <1>2, EmptyWire
<1> QED
  BY <1>1, <1>2 DEF KeptWires

\* A step that does not touch stream j keeps its invariant.
LEMMA OtherStream ==
  ASSUME NEW j \in Ids, StreamInv(j), SameWires(j), \A d \in Ends : SameEnd(d, j)
  PROVE  StreamInv(j)'
<1>1. ASSUME NEW d \in Ends
      PROVE  /\ ChannelInv(d, j)' /\ Queued(d, j)' = Queued(d, j) /\ Taken(d, j)' = Taken(d, j)
             /\ (Ended(d, j)' <=> Ended(d, j))
  <2>1. SameEnd(d, j)
    OBVIOUS
  <2>2. Queued(d, j)' = Queued(d, j)
    BY <2>1 DEF SameEnd, Queued
  <2>3. Taken(d, j)' = Taken(d, j)
    BY <2>1, <2>2 DEF SameEnd, Taken
  <2>4. ChannelInv(d, j)'
    BY <2>1 DEF SameEnd, ChannelInv, StreamInv
  <2>5. (Ended(d, j)' <=> Ended(d, j))
    BY <2>1 DEF SameEnd, Ended
  <2> QED
    BY <2>2, <2>3, <2>4, <2>5
<1>2. KeptWires(j) /\ \A d \in Ends : Silent(wire[d], j) => Silent(wire'[d], j)
  <2>1. KeptWires(j)
    BY DEF SameWires, KeptWires, SameFrames
  <2>2. Silent(<<>>, j)
    BY EmptyWire
  <2> QED
    BY <2>1, <2>2 DEF SameWires, SameFrames
<1>3. ASSUME NEW d \in Ends PROVE LoopInv(d, j)'
  BY <1>1, TwoEnds DEF StreamInv, LoopInv, SameEnd
<1>4. ASSUME NEW d \in Ends PROVE WireInv(d, j)'
  <2>1. SameEnd(d, j) /\ SameEnd(Peer(d), j) /\ WireInv(d, j)
    BY TwoEnds DEF StreamInv
  <2>2. Taken(d, j)' = Taken(d, j)
    BY <1>1
  <2>3. /\ Ascending(wire[d], j, Taken(d, j), sent[Peer(d)][j]) =>
             Ascending(wire'[d], j, Taken(d, j), sent[Peer(d)][j])
        /\ link' /\ Gapless(wire[d], j, Taken(d, j), sent[Peer(d)][j]) =>
             Gapless(wire'[d], j, Taken(d, j), sent[Peer(d)][j])
    BY <1>2, WhatIsKept
  <2> QED
    BY <1>2, WhatIsKept, <2>1, <2>2, <2>3 DEF WireInv, SameEnd
<1>5. ASSUME NEW d \in Ends PROVE EndInv(d, j)'
  <2>1. SameEnd(d, j) /\ SameEnd(Peer(d), j) /\ EndInv(d, j) /\ Peer(d) \in Ends
    BY TwoEnds DEF StreamInv
  <2>2. Ended(Peer(d), j)' <=> Ended(Peer(d), j)
    BY <1>1, <2>1
  <2>3. Has(wire[d], "CLOSE", j)' => Has(wire[d], "CLOSE", j)
    BY <1>2, WhatIsKept
  <2> QED
    BY <1>1, <2>1, <2>2, <2>3 DEF EndInv, SameEnd
<1>6. ASSUME NEW d \in Ends PROVE MapInv(d, j)'
  <2>1. SameEnd(d, j) /\ SameEnd(Peer(d), j) /\ MapInv(d, j)
    BY TwoEnds DEF StreamInv
  <2>2. Has(wire[d], "DATA", j)' => Has(wire[d], "DATA", j)
    BY <1>2, WhatIsKept
  <2> QED
    BY <1>2, WhatIsKept, <2>1, <2>2 DEF MapInv, SameEnd
<1>7. OpenInv(j)'
  <2>1. ASSUME NEW d \in Ends, writer'[d][j] = "none" PROVE Untouched(d, j)'
    BY <1>1, <1>2, WhatIsKept, <2>1, TwoEnds DEF StreamInv, OpenInv, Untouched, SameEnd
  <2> QED
    BY <1>2, WhatIsKept, <2>1, TwoEnds DEF StreamInv, OpenInv, SameEnd
<1> QED
  BY <1>1, <1>3, <1>4, <1>5, <1>6, <1>7 DEF StreamInv

-----------------------------------------------------------------------------
(* The step of one end on one stream. *)

\* The values a stream has at an end.
LEMMA EndTypes ==
  ASSUME TypeOK, NEW e \in Ends, NEW i \in Ids
  PROVE  /\ inbound[e][i] \in Seq(0 .. MaxData) /\ got[e][i] \in Seq(1 .. MaxData)
         /\ remoteEOF[e][i] \in BOOLEAN /\ sent[e][i] \in Nat /\ wire[e] \in Seq(Frame)
         /\ Queued(e, i) \in Nat /\ Len(got[e][i]) <= Queued(e, i) /\ Len(got[e][i]) \in Nat
         /\ Taken(e, i) \in Nat
         /\ Taken(e, i) = IF Pending(e, i) = {} THEN Queued(e, i) ELSE Queued(e, i) + 1
<1>1. /\ inbound[e][i] \in Seq(0 .. MaxData) /\ got[e][i] \in Seq(1 .. MaxData)
      /\ remoteEOF[e][i] \in BOOLEAN /\ wire[e] \in Seq(Frame)
  BY DEF TypeOK
<1>2. sent[e][i] \in Nat
  BY CapAssumption DEF TypeOK
<1>3. Queued(e, i) \in Nat /\ Len(got[e][i]) <= Queued(e, i) /\ Len(got[e][i]) \in Nat
  BY <1>1, ChunksType DEF Queued
<1>4. /\ Taken(e, i) \in Nat
      /\ Taken(e, i) = IF Pending(e, i) = {} THEN Queued(e, i) ELSE Queued(e, i) + 1
  BY <1>3 DEF Taken
<1> QED
  BY <1>1, <1>2, <1>3, <1>4

\* All invariants of stream j at end d.
AtEnd(d, j) ==
  ChannelInv(d, j) /\ LoopInv(d, j) /\ WireInv(d, j) /\ EndInv(d, j) /\ MapInv(d, j)

\* The invariants at d depend on what d has, and on what its peer has written.
LEMMA EndKeeps ==
  ASSUME NEW d \in Ends, NEW i \in Ids, AtEnd(d, i), SameEnd(d, i), link' = link,
         wire'[d] = wire[d], sent'[Peer(d)][i] = sent[Peer(d)][i],
         Ended(Peer(d), i) => Ended(Peer(d), i)',
         writer'[Peer(d)][i] # "done" => writer[Peer(d)][i] # "done"
  PROVE  AtEnd(d, i)'
<1>1. /\ Queued(d, i)' = Queued(d, i) /\ Taken(d, i)' = Taken(d, i)
      /\ (ChannelInv(d, i)' <=> ChannelInv(d, i))
  BY DEF Taken, Queued, ChannelInv, SameEnd
<1> QED
  BY <1>1 DEF AtEnd, LoopInv, WireInv, EndInv, MapInv, SameEnd

\* How the opening of a stream is known is not changed by an end that knows it.
LEMMA OpenKeeps ==
  ASSUME NEW e \in Ends, NEW i \in Ids, OpenInv(i), SameEnd(Peer(e), i),
         writer[e][i] # "none", writer'[e][i] # "none", link' => link,
         Silent(wire[e], i) => Silent(wire'[e], i),
         Has(wire'["pop"], "OPEN", i) => Has(wire["pop"], "OPEN", i),
         Has(wire'["connector"], "OPEN", i) => Has(wire["connector"], "OPEN", i),
         OneOpen(wire["connector"], i) => OneOpen(wire'["connector"], i),
         writer["connector"][i] = "none" =>
           /\ link' /\ Has(wire["connector"], "OPEN", i) => Has(wire'["connector"], "OPEN", i)
           /\ OpenFirst(wire["connector"], i) => OpenFirst(wire'["connector"], i)
  PROVE  OpenInv(i)'
<1> DEFINE p == Peer(e)
<1>1. p \in Ends /\ Peer(p) = e /\ p # e /\ \A d \in Ends : d = e \/ d = p
  BY TwoEnds
<1> HIDE DEF p
<1>2. SameEnd(p, i) /\ \A d \in Ends : writer'[d][i] = "none" <=> writer[d][i] = "none"
  BY <1>1 DEF SameEnd, p
<1>3. ASSUME writer[p][i] = "none" PROVE Untouched(p, i)'
  <2>1. Untouched(p, i)
    BY <1>1, <1>3 DEF OpenInv
  <2> QED
    BY <1>1, <1>2, <2>1 DEF Untouched, SameEnd
<1> QED
  BY <1>1, <1>2, <1>3, TwoEnds DEF OpenInv

\* The invariant of a stream is that of its two ends.
LEMMA BothEnds ==
  ASSUME NEW e \in Ends, NEW i
  PROVE  /\ StreamInv(i) => AtEnd(e, i) /\ AtEnd(Peer(e), i) /\ OpenInv(i)
         /\ AtEnd(e, i)' /\ AtEnd(Peer(e), i)' /\ OpenInv(i)' => StreamInv(i)'
BY TwoEnds DEF StreamInv, AtEnd

\* A reader's step: it changes nothing but what was read and what waits.
LEMMA ReadStep ==
  ASSUME NEW e \in Ends, NEW i \in Ids, StreamInv(i), SameEnd(Peer(e), i),
         writer[e][i] # "none",
         Pending(e, i)' = Pending(e, i), i \in inMap'[e] <=> i \in inMap[e],
         remoteEOF'[e][i] = remoteEOF[e][i], resetErr'[e][i] = resetErr[e][i],
         localDone'[e][i] = localDone[e][i], writer'[e][i] = writer[e][i],
         sent'[e][i] = sent[e][i], ChannelInv(e, i)', Queued(e, i)' = Queued(e, i),
         link' = link, wire' = wire,
         reader'[e][i] = "eof" =>
           Ended(Peer(e), i) /\ Len(got'[e][i]) = sent[Peer(e)][i]
  PROVE  StreamInv(i)'
<1> DEFINE p == Peer(e)
<1>1. p \in Ends /\ Peer(p) = e /\ p # e
  BY TwoEnds
<1>2. AtEnd(e, i) /\ AtEnd(p, i) /\ OpenInv(i)
  BY BothEnds
<1> HIDE DEF p
<1>3. /\ Taken(e, i)' = Taken(e, i) /\ (Ended(e, i)' <=> Ended(e, i))
      /\ (Ended(p, i)' <=> Ended(p, i))
  BY DEF Taken, Ended, SameEnd, p
<1>4. AtEnd(e, i)'
  BY <1>2, <1>3 DEF AtEnd, LoopInv, WireInv, EndInv, MapInv, SameEnd, p
<1>5. AtEnd(p, i)'
  BY <1>1, <1>2, <1>3, EndKeeps DEF p
<1>6. OpenInv(i)'
  BY <1>2, OpenKeeps
<1> QED
  BY <1>4, <1>5, <1>6, BothEnds DEF p

\* An end shuts the stream down: it leaves the map, and a failed dial is over.
LEMMA ShutStep ==
  ASSUME NEW e \in Ends, NEW i \in Ids, StreamInv(i), KeptWires(i), SameEnd(Peer(e), i),
         Silent(wire[e], i) => Silent(wire'[e], i),
         writer[e][i] # "none",
         writer'[e][i] = writer[e][i] \/ (writer[e][i] = "dial" /\ writer'[e][i] = "done"),
         Pending(e, i)' = Pending(e, i), i \notin inMap'[e], resetErr'[e][i] # "none",
         inbound'[e][i] = inbound[e][i], remoteEOF'[e][i] = remoteEOF[e][i],
         localDone'[e][i] = localDone[e][i], reader'[e][i] = reader[e][i],
         sent'[e][i] = sent[e][i], got'[e][i] = got[e][i]
  PROVE  StreamInv(i)'
<1> DEFINE p == Peer(e)
<1>1. p \in Ends /\ Peer(p) = e /\ p # e /\ \A d \in Ends : d = e \/ d = p
  BY TwoEnds
<1> HIDE DEF p
<1>2. /\ Queued(e, i)' = Queued(e, i) /\ Taken(e, i)' = Taken(e, i)
      /\ Queued(p, i)' = Queued(p, i) /\ Taken(p, i)' = Taken(p, i)
      /\ (Ended(e, i) => Ended(e, i)') /\ (Ended(p, i)' <=> Ended(p, i))
      /\ (ChannelInv(p, i)' <=> ChannelInv(p, i)) /\ (ChannelInv(e, i)' <=> ChannelInv(e, i))
  BY DEF Taken, Queued, Ended, ChannelInv, SameEnd, p
<1>3. /\ Has(wire[e], "CLOSE", i)' => Has(wire[e], "CLOSE", i)
      /\ Has(wire[p], "CLOSE", i)' => Has(wire[p], "CLOSE", i)
      /\ Has(wire[p], "DATA", i)' => Has(wire[p], "DATA", i)
      /\ link' => link
  BY <1>1, WhatIsKept
<1>4. /\ Ascending(wire[p], i, Taken(p, i), sent[e][i]) =>
           Ascending(wire'[p], i, Taken(p, i), sent[e][i])
      /\ link' /\ Gapless(wire[p], i, Taken(p, i), sent[e][i]) =>
           Gapless(wire'[p], i, Taken(p, i), sent[e][i])
  BY <1>1, WhatIsKept
<1>5. ChannelInv(e, i)' /\ LoopInv(e, i)' /\ WireInv(e, i)' /\ EndInv(e, i)' /\ MapInv(e, i)'
  BY <1>1, <1>2, <1>3 DEF StreamInv, LoopInv, WireInv, EndInv, MapInv, SameEnd, p
<1>6. ChannelInv(p, i)' /\ LoopInv(p, i)' /\ WireInv(p, i)' /\ EndInv(p, i)' /\ MapInv(p, i)'
  BY <1>1, <1>2, <1>3, <1>4 DEF StreamInv, LoopInv, WireInv, EndInv, MapInv, SameEnd, p
<1>7. OpenInv(i)'
  <2>1. /\ OpenInv(i) /\ writer'[e][i] # "none"
    BY DEF StreamInv
  <2>2. /\ Has(wire'["pop"], "OPEN", i) => Has(wire["pop"], "OPEN", i)
        /\ Has(wire'["connector"], "OPEN", i) => Has(wire["connector"], "OPEN", i)
        /\ link' /\ Has(wire["connector"], "OPEN", i) => Has(wire'["connector"], "OPEN", i)
        /\ OneOpen(wire["connector"], i) => OneOpen(wire'["connector"], i)
        /\ OpenFirst(wire["connector"], i) => OpenFirst(wire'["connector"], i)
    BY TwoEnds, WhatIsKept
  <2> QED
    BY <1>3, <2>1, <2>2, OpenKeeps
<1> QED
  BY <1>1, <1>5, <1>6, <1>7 DEF StreamInv

\* A pump starts or begins to close its stream.
LEMMA PumpStep ==
  ASSUME NEW e \in Ends, NEW i \in Ids, StreamInv(i), SameEnd(Peer(e), i),
         writer[e][i] \notin {"none", "done"}, writer'[e][i] \notin {"none", "done"},
         writer'[e][i] = "closing" => localDone'[e][i],
         reader'[e][i] = "eof" => reader[e][i] = "eof",
         Pending(e, i)' = Pending(e, i), i \in inMap'[e] <=> i \in inMap[e],
         inbound'[e][i] = inbound[e][i], remoteEOF'[e][i] = remoteEOF[e][i],
         resetErr'[e][i] = resetErr[e][i], sent'[e][i] = sent[e][i], got'[e][i] = got[e][i],
         link' = link, wire' = wire
  PROVE  StreamInv(i)'
<1> DEFINE p == Peer(e)
<1>1. p \in Ends /\ Peer(p) = e /\ p # e
  BY TwoEnds
<1>2. AtEnd(e, i) /\ AtEnd(p, i) /\ OpenInv(i)
  BY BothEnds
<1> HIDE DEF p
<1>3. /\ Queued(e, i)' = Queued(e, i) /\ Taken(e, i)' = Taken(e, i)
      /\ ~Ended(e, i) /\ (Ended(p, i)' <=> Ended(p, i))
      /\ (ChannelInv(e, i)' <=> ChannelInv(e, i))
  BY DEF Taken, Queued, Ended, ChannelInv, SameEnd, p
<1>4. AtEnd(e, i)'
  BY <1>2, <1>3 DEF AtEnd, LoopInv, WireInv, EndInv, MapInv, SameEnd, p
<1>5. AtEnd(p, i)'
  BY <1>1, <1>2, <1>3, EndKeeps DEF p
<1>6. OpenInv(i)'
  BY <1>2, OpenKeeps
<1> QED
  BY <1>4, <1>5, <1>6, BothEnds DEF p

\* The PoP opens a stream: both ends were untouched.
LEMMA OpenStep ==
  ASSUME TypeOK, NEW i \in Ids, StreamInv(i), SameEnd("connector", i),
         writer["pop"][i] = "none", writer'["pop"][i] = "run", reader'["pop"][i] = "run",
         i \in inMap'["pop"], Pending("pop", i)' = Pending("pop", i),
         inbound'["pop"][i] = inbound["pop"][i], remoteEOF'["pop"][i] = remoteEOF["pop"][i],
         resetErr'["pop"][i] = resetErr["pop"][i], localDone'["pop"][i] = localDone["pop"][i],
         sent'["pop"][i] = sent["pop"][i], got'["pop"][i] = got["pop"][i],
         link' = link, wire'["pop"] = wire["pop"], NEW f \in Frame, IsFrame(f, "OPEN", i),
         wire'["connector"] = Append(wire["connector"], f)
  PROVE  StreamInv(i)'
<1> DEFINE w == wire["connector"]
<1>1. AtEnd("pop", i) /\ AtEnd("connector", i) /\ OpenInv(i) /\ w \in Seq(Frame)
  BY BothEnds, TwoEnds, EndTypes
<1>2. writer["connector"][i] = "none" /\ Untouched("pop", i) /\ Untouched("connector", i)
  BY <1>1, TwoEnds DEF OpenInv
<1>3. Silent(w, i) /\ \A t : ~Has(w, t, i)
  BY <1>2, TwoEnds, SilentHas DEF Untouched
<1>4. ~IsFrame(f, "DATA", i) /\ ~IsFrame(f, "CLOSE", i)
  BY DEF IsFrame
<1>5. /\ ~Has(wire'["connector"], "CLOSE", i) /\ OneOpen(wire'["connector"], i)
      /\ Has(wire'["connector"], "OPEN", i)
  BY <1>1, <1>3, <1>4, AppendKeeps, AppendHas, AppendOpen
<1>6. OpenFirst(wire'["connector"], i)
  BY <1>1, <1>2, <1>4, AppendKeeps DEF OpenInv
<1>7. \A b, s : /\ Ascending(w, i, b, s) => Ascending(wire'["connector"], i, b, s)
                /\ Gapless(w, i, b, s) => Gapless(wire'["connector"], i, b, s)
  BY <1>1, <1>4, AppendKeeps
<1> HIDE DEF w
<1>8. \A d \in Ends : /\ Queued(d, i)' = Queued(d, i) /\ Taken(d, i)' = Taken(d, i)
                      /\ ~Ended(d, i) /\ (ChannelInv(d, i)' <=> ChannelInv(d, i))
  <2>1. /\ Queued("pop", i)' = Queued("pop", i) /\ Taken("pop", i)' = Taken("pop", i)
        /\ ~Ended("pop", i) /\ (ChannelInv("pop", i)' <=> ChannelInv("pop", i))
    BY DEF Taken, Queued, Ended, ChannelInv
  <2>2. /\ Queued("connector", i)' = Queued("connector", i)
        /\ Taken("connector", i)' = Taken("connector", i)
        /\ ~Ended("connector", i)
        /\ (ChannelInv("connector", i)' <=> ChannelInv("connector", i))
    BY <1>2 DEF Taken, Queued, Ended, ChannelInv, SameEnd
  <2> QED
    BY <2>1, <2>2 DEF Ends
<1>9. AtEnd("pop", i)'
  BY <1>1, <1>2, <1>8, TwoEnds
     DEF AtEnd, LoopInv, WireInv, EndInv, MapInv, SameEnd, Untouched
<1>10. AtEnd("connector", i)'
  BY <1>1, <1>2, <1>5, <1>7, <1>8, TwoEnds
     DEF AtEnd, LoopInv, WireInv, EndInv, MapInv, SameEnd, Untouched, w
<1>11. OpenInv(i)'
  <2>1. Untouched("connector", i)'
    BY <1>2, TwoEnds DEF Untouched, SameEnd
  <2> QED
    BY <1>1, <1>2, <1>5, <1>6, <2>1, TwoEnds DEF OpenInv, SameEnd
<1> QED
  BY <1>9, <1>10, <1>11, BothEnds, TwoEnds

\* The connector learns of the stream.
LEMMA AcceptStep ==
  ASSUME TypeOK, NEW i \in Ids, StreamInv(i), SameEnd("pop", i), wire["connector"] # <<>>,
         IsFrame(Head(wire["connector"]), "OPEN", i),
         wire'["connector"] = Tail(wire["connector"]), wire'["pop"] = wire["pop"], link' = link,
         writer'["connector"][i] = "dial", i \in inMap'["connector"],
         Pending("connector", i)' = Pending("connector", i),
         inbound'["connector"][i] = inbound["connector"][i],
         remoteEOF'["connector"][i] = remoteEOF["connector"][i],
         resetErr'["connector"][i] = resetErr["connector"][i],
         localDone'["connector"][i] = localDone["connector"][i],
         reader'["connector"][i] = reader["connector"][i],
         sent'["connector"][i] = sent["connector"][i], got'["connector"][i] = got["connector"][i]
  PROVE  StreamInv(i)'
<1> DEFINE w == wire["connector"]
<1>1. AtEnd("pop", i) /\ AtEnd("connector", i) /\ OpenInv(i) /\ w \in Seq(Frame)
  BY BothEnds, TwoEnds, EndTypes
<1>2. Has(w, "OPEN", i) /\ ~Silent(w, i)
  BY <1>1, HeadHas
<1>3. writer["connector"][i] = "none" /\ Untouched("connector", i) /\ writer["pop"][i] # "none"
  BY <1>1, <1>2, TwoEnds DEF OpenInv, Untouched
<1>4. ~IsFrame(Head(w), "DATA", i) /\ ~IsFrame(Head(w), "CLOSE", i)
  BY DEF IsFrame
<1>5. /\ Has(wire'["connector"], "CLOSE", i) => Has(w, "CLOSE", i)
      /\ ~Has(wire'["connector"], "OPEN", i) /\ OneOpen(wire'["connector"], i)
  BY <1>1, TailKeeps, TakeOpen DEF OpenInv
<1>6. \A b, s : /\ Ascending(w, i, b, s) => Ascending(wire'["connector"], i, b, s)
                /\ Gapless(w, i, b, s) => Gapless(wire'["connector"], i, b, s)
  BY <1>1, <1>4, TailKeeps
<1> HIDE DEF w
<1>7. /\ Queued("connector", i)' = Queued("connector", i)
      /\ Taken("connector", i)' = Taken("connector", i)
      /\ ~Ended("connector", i) /\ (Ended("pop", i)' <=> Ended("pop", i))
      /\ (ChannelInv("connector", i)' <=> ChannelInv("connector", i))
  BY <1>3 DEF Taken, Queued, Ended, ChannelInv, SameEnd
<1>8. AtEnd("pop", i)'
  BY <1>1, <1>3, <1>7, EndKeeps, TwoEnds
<1>9. AtEnd("connector", i)'
  BY <1>1, <1>3, <1>5, <1>6, <1>7, TwoEnds
     DEF AtEnd, LoopInv, WireInv, EndInv, MapInv, SameEnd, Untouched, w
<1>10. OpenInv(i)'
  BY <1>1, <1>3, <1>5, TwoEnds DEF OpenInv, SameEnd
<1> QED
  BY <1>8, <1>9, <1>10, BothEnds, TwoEnds

\* The frame in front is taken off the connection by an end that knows the stream.
LEMMA FrontTaken ==
  ASSUME TypeOK, NEW e \in Ends, NEW i \in Ids, StreamInv(i), SameEnd(Peer(e), i),
         link' = link, wire' = Consumed(e), wire[e] # <<>>, Head(wire[e]).type # "OPEN",
         writer[e][i] # "none", writer'[e][i] = writer[e][i], sent'[e][i] = sent[e][i],
         localDone'[e][i] = localDone[e][i]
  PROVE  AtEnd(Peer(e), i)' /\ OpenInv(i)'
<1> DEFINE p == Peer(e)
<1>1. p \in Ends /\ Peer(p) = e /\ p # e /\ \A d \in Ends : d = e \/ d = p
  BY TwoEnds
<1>2. AtEnd(p, i) /\ OpenInv(i)
  BY BothEnds
<1>3. wire[e] \in Seq(Frame) /\ wire'[e] = Tail(wire[e]) /\ \A d \in Ends : d # e => wire'[d] = wire[d]
  BY EndTypes DEF TypeOK, Consumed
<1>4. AtEnd(p, i)'
  <2>1. Ended(e, i)' <=> Ended(e, i)
    BY DEF Ended
  <2> QED
    BY <1>1, <1>2, <1>3, <2>1, EndKeeps
<1>5. OpenInv(i)'
  <2>1. ~IsFrame(Head(wire[e]), "OPEN", i)
    BY DEF IsFrame
  <2>3. /\ Silent(wire[e], i) => Silent(wire'[e], i)
        /\ Has(wire'[e], "OPEN", i) => Has(wire[e], "OPEN", i)
        /\ Has(wire[e], "OPEN", i) => Has(wire'[e], "OPEN", i)
        /\ OneOpen(wire[e], i) => OneOpen(wire'[e], i)
        /\ OpenFirst(wire[e], i) => OpenFirst(wire'[e], i)
    BY <1>3, <2>1, TailKeeps
  <2>4. \A d \in Ends :
          /\ Has(wire'[d], "OPEN", i) <=> Has(wire[d], "OPEN", i)
          /\ OneOpen(wire[d], i) => OneOpen(wire'[d], i)
          /\ OpenFirst(wire[d], i) => OpenFirst(wire'[d], i)
    BY <1>3, <2>3
  <2> HIDE DEF p
  <2> QED
    BY <1>2, <2>3, <2>4, OpenKeeps, TwoEnds
<1> QED
  BY <1>4, <1>5

\* The read loop takes a chunk for a stream of its map.
LEMMA TakeStep ==
  ASSUME TypeOK, NEW e \in Ends, NEW i \in Ids, StreamInv(i), SameEnd(Peer(e), i),
         link, link' = link, wire' = Consumed(e), wire[e] # <<>>,
         IsFrame(Head(wire[e]), "DATA", i), i \in inMap[e],
         Pending(e, i) = {}, Pending(e, i)' = {Head(wire[e])},
         i \in inMap'[e], inbound'[e][i] = inbound[e][i], remoteEOF'[e][i] = remoteEOF[e][i],
         resetErr'[e][i] = resetErr[e][i], localDone'[e][i] = localDone[e][i],
         writer'[e][i] = writer[e][i], reader'[e][i] = reader[e][i],
         sent'[e][i] = sent[e][i], got'[e][i] = got[e][i]
  PROVE  StreamInv(i)'
<1> DEFINE p == Peer(e)
           w == wire[e]
<1>1. p \in Ends /\ Peer(p) = e /\ p # e /\ w \in Seq(Frame) /\ wire'[e] = Tail(w)
  BY TwoEnds, EndTypes DEF TypeOK, Consumed
<1>2. AtEnd(e, i) /\ OpenInv(i) /\ resetErr[e][i] = "none" /\ writer[e][i] # "none"
  BY BothEnds DEF AtEnd, MapInv, OpenInv, Untouched
<1>3. Head(w).type # "OPEN"
  BY DEF IsFrame
<1>4. AtEnd(p, i)' /\ OpenInv(i)'
  BY <1>2, <1>3, FrontTaken
<1>5. /\ Queued(e, i) \in Nat /\ sent[p][i] \in Nat /\ Taken(e, i) = Queued(e, i)
      /\ Taken(e, i) \in Nat
  BY <1>1, EndTypes
<1>6. /\ Ascending(w, i, Queued(e, i), sent[p][i]) /\ Gapless(w, i, Queued(e, i), sent[p][i])
  BY <1>2, <1>5 DEF AtEnd, WireInv
<1>7. /\ Head(w).n = Queued(e, i) + 1 /\ Queued(e, i) + 1 <= sent[p][i]
      /\ Ascending(Tail(w), i, Queued(e, i) + 1, sent[p][i])
      /\ Gapless(Tail(w), i, Queued(e, i) + 1, sent[p][i])
  BY <1>1, <1>5, <1>6, TakeData
<1>8. Has(Tail(w), "CLOSE", i) => Has(w, "CLOSE", i)
  BY <1>1, TailKeeps
<1>9. ~remoteEOF[e][i]
  <2>1. remoteEOF[e][i] => Queued(e, i) = sent[p][i]
    BY <1>2 DEF AtEnd, EndInv
  <2> QED
    BY <1>5, <1>7, <2>1
<1>10. /\ Queued(e, i)' = Queued(e, i) /\ (Ended(p, i)' <=> Ended(p, i))
       /\ (ChannelInv(e, i)' <=> ChannelInv(e, i)) /\ sent'[p][i] = sent[p][i]
       /\ writer'[p][i] = writer[p][i]
  BY DEF Queued, Ended, ChannelInv, SameEnd
<1>11. Taken(e, i)' = Queued(e, i) + 1
  BY <1>5, <1>10 DEF Taken
<1> HIDE DEF p, w
<1>12. LoopInv(e, i)'
  <2>1. \A g \in Pending(e, i)' : g = Head(w)
    BY DEF w
  <2>2. Taken(e, i)' <= sent[Peer(e)][i]'
    BY <1>7, <1>10, <1>11 DEF p
  <2>3. \A g \in Pending(e, i)' : g.n = Queued(e, i)' + 1 /\ ~remoteEOF'[e][i]
    BY <1>7, <1>9, <1>10, <2>1
  <2> QED
    BY <2>2, <2>3 DEF LoopInv
<1>13. WireInv(e, i)'
  BY <1>1, <1>7, <1>10, <1>11 DEF WireInv, p
<1>14. EndInv(e, i)'
  BY <1>1, <1>2, <1>8, <1>9, <1>10 DEF AtEnd, EndInv, p, w
<1>15. MapInv(e, i)' /\ ChannelInv(e, i)'
  BY <1>2, <1>10 DEF AtEnd, MapInv
<1> QED
  BY <1>4, <1>12, <1>13, <1>14, <1>15, BothEnds DEF AtEnd, p

\* A chunk for a stream that is not in the map: the stream was shut down here.
LEMMA LateStep ==
  ASSUME TypeOK, NEW e \in Ends, NEW i \in Ids, StreamInv(i), \A d \in Ends : SameEnd(d, i),
         link, link' = link, wire' = Consumed(e), wire[e] # <<>>,
         IsFrame(Head(wire[e]), "DATA", i), i \notin inMap[e]
  PROVE  StreamInv(i)'
<1> DEFINE p == Peer(e)
           w == wire[e]
<1>1. p \in Ends /\ Peer(p) = e /\ p # e /\ w \in Seq(Frame) /\ wire'[e] = Tail(w)
  BY TwoEnds, EndTypes DEF TypeOK, Consumed
<1>2. AtEnd(e, i) /\ OpenInv(i) /\ Has(w, "DATA", i) /\ ~Silent(w, i)
  BY <1>1, BothEnds, HeadHas
<1>3. writer[e][i] # "none"
  <2> SUFFICES ASSUME writer[e][i] = "none" PROVE FALSE
    OBVIOUS
  <2>1. CASE e = "connector"
    BY <1>1, <1>2, <2>1, OpenBefore DEF OpenInv
  <2>2. CASE e = "pop"
    BY <1>2, <2>2, TwoEnds DEF OpenInv, Untouched
  <2> QED
    BY <2>1, <2>2 DEF Ends
<1>4. resetErr[e][i] # "none"
  BY <1>2, <1>3 DEF AtEnd, MapInv
<1>5. SameEnd(e, i) /\ SameEnd(p, i)
  BY <1>1
<1>6. AtEnd(p, i)' /\ OpenInv(i)'
  <2>1. Head(w).type # "OPEN"
    BY DEF IsFrame
  <2> QED
    BY <1>3, <1>5, <2>1, FrontTaken DEF SameEnd
<1>7. Has(Tail(w), "CLOSE", i) => Has(w, "CLOSE", i)
  BY <1>1, TailKeeps
<1>8. /\ Queued(e, i)' = Queued(e, i) /\ Taken(e, i)' = Taken(e, i)
      /\ (Ended(p, i)' <=> Ended(p, i)) /\ (ChannelInv(e, i)' <=> ChannelInv(e, i))
  BY <1>5 DEF Queued, Taken, Ended, ChannelInv, SameEnd
<1> HIDE DEF p, w
<1>9. AtEnd(e, i)'
  BY <1>1, <1>2, <1>4, <1>5, <1>7, <1>8
     DEF AtEnd, LoopInv, WireInv, EndInv, MapInv, SameEnd, p, w
<1> QED
  BY <1>6, <1>9, BothEnds DEF p

\* deliver enqueues the chunk the read loop holds, or drops it when the stream
\* was shut down.
LEMMA DeliverStep ==
  ASSUME TypeOK, NEW e \in Ends, NEW i \in Ids, StreamInv(i), SameEnd(Peer(e), i),
         link' = link, wire' = wire, NEW f \in Frame, Pending(e, i) = {f}, Pending(e, i)' = {},
         \/ inbound'[e][i] = Append(inbound[e][i], f.n)
         \/ (resetErr[e][i] # "none" /\ inbound'[e][i] = inbound[e][i]),
         i \in inMap'[e] <=> i \in inMap[e], remoteEOF'[e][i] = remoteEOF[e][i],
         resetErr'[e][i] = resetErr[e][i], localDone'[e][i] = localDone[e][i],
         writer'[e][i] = writer[e][i], reader'[e][i] = reader[e][i],
         sent'[e][i] = sent[e][i], got'[e][i] = got[e][i]
  PROVE  StreamInv(i)'
<1> DEFINE p == Peer(e)
<1>1. p \in Ends /\ Peer(p) = e /\ p # e
  BY TwoEnds
<1>2. AtEnd(e, i) /\ AtEnd(p, i) /\ OpenInv(i)
  BY BothEnds
<1>3. writer[e][i] # "none"
  BY <1>2 DEF OpenInv, Untouched
<1>4. f.n = Queued(e, i) + 1 /\ ~remoteEOF[e][i]
  BY <1>2 DEF AtEnd, LoopInv
<1>5. /\ Queued(e, i) \in Nat /\ sent[p][i] \in Nat /\ Taken(e, i) = Queued(e, i) + 1
      /\ inbound[e][i] \in Seq(0 .. MaxData) /\ got[e][i] \in Seq(1 .. MaxData)
      /\ remoteEOF[e][i] = FALSE
  BY <1>1, <1>4, EndTypes
<1>6. ChannelInv(e, i)' /\ (Queued(e, i)' = Queued(e, i) + 1
                              \/ (resetErr[e][i] # "none" /\ Queued(e, i)' = Queued(e, i)))
  <2>1. InLine(got[e][i], inbound[e][i], FALSE)
    BY <1>2, <1>5 DEF AtEnd, ChannelInv
  <2>2. CASE inbound'[e][i] = Append(inbound[e][i], f.n)
    <3>1. f.n \in 0 .. MaxData
      BY DEF Frame
    <3>2. /\ InLine(got[e][i], Append(inbound[e][i], f.n), FALSE)
          /\ Chunks(got[e][i], Append(inbound[e][i], f.n)) = f.n
      BY <1>4, <1>5, <2>1, <3>1, AddChunk DEF Queued
    <3> QED
      BY <1>4, <1>5, <2>2, <3>2 DEF ChannelInv, Queued
  <2>3. CASE resetErr[e][i] # "none" /\ inbound'[e][i] = inbound[e][i]
    BY <1>2, <2>3 DEF AtEnd, ChannelInv, Queued
  <2> QED
    BY <2>2, <2>3
<1>7. /\ Taken(e, i)' = Queued(e, i)' /\ (Ended(p, i)' <=> Ended(p, i))
      /\ (Ended(e, i)' <=> Ended(e, i))
      /\ sent'[p][i] = sent[p][i] /\ writer'[p][i] = writer[p][i]
  <2>1. Queued(e, i)' \in Nat
    BY <1>5, <1>6
  <2> QED
    BY <2>1 DEF Taken, Ended, SameEnd
<1>8. AtEnd(p, i)'
  BY <1>1, <1>2, <1>7, EndKeeps
<1>9. OpenInv(i)'
  BY <1>2, <1>3, OpenKeeps
<1> HIDE DEF p
<1>10. LoopInv(e, i)'
  <2>1. Taken(e, i) <= sent[p][i]
    BY <1>2 DEF AtEnd, LoopInv, p
  <2>2. Taken(e, i)' <= sent[Peer(e)][i]'
    BY <1>5, <1>6, <1>7, <2>1 DEF p
  <2> QED
    BY <2>2 DEF LoopInv
<1>11. WireInv(e, i)'
  <2>1. resetErr[e][i] = "none" => Taken(e, i)' = Taken(e, i)
    BY <1>5, <1>6, <1>7
  <2> QED
    BY <1>2, <1>7, <2>1 DEF AtEnd, WireInv, p
<1>12. EndInv(e, i)' /\ MapInv(e, i)'
  BY <1>2, <1>4, <1>7 DEF AtEnd, EndInv, MapInv, p
<1> QED
  BY <1>6, <1>8, <1>9, <1>10, <1>11, <1>12, BothEnds DEF AtEnd, p

\* remoteClose: the end of the stream arrives after all its data.
LEMMA CloseStep ==
  ASSUME TypeOK, NEW e \in Ends, NEW i \in Ids, StreamInv(i), SameEnd(Peer(e), i),
         link, link' = link, wire' = Consumed(e), wire[e] # <<>>,
         IsFrame(Head(wire[e]), "CLOSE", i), i \in inMap[e],
         Pending(e, i) = {}, Pending(e, i)' = {}, remoteEOF'[e][i] = TRUE,
         \/ inbound'[e][i] = Append(inbound[e][i], Sentinel)
         \/ inbound'[e][i] = inbound[e][i],
         resetErr'[e][i] = resetErr[e][i], localDone'[e][i] = localDone[e][i],
         writer'[e][i] = writer[e][i], reader'[e][i] = reader[e][i],
         sent'[e][i] = sent[e][i], got'[e][i] = got[e][i]
  PROVE  StreamInv(i)'
<1> DEFINE p == Peer(e)
           w == wire[e]
<1>1. p \in Ends /\ Peer(p) = e /\ p # e /\ w \in Seq(Frame) /\ wire'[e] = Tail(w)
  BY TwoEnds, EndTypes DEF TypeOK, Consumed
<1>2. AtEnd(e, i) /\ OpenInv(i) /\ resetErr[e][i] = "none" /\ writer[e][i] # "none"
  BY BothEnds DEF AtEnd, MapInv, OpenInv, Untouched
<1>3. Head(w).type # "OPEN" /\ ~IsFrame(Head(w), "DATA", i)
  BY DEF IsFrame
<1>4. AtEnd(p, i)' /\ OpenInv(i)'
  BY <1>2, <1>3, FrontTaken
<1>5. Ended(p, i) /\ ~remoteEOF[e][i]
  BY <1>1, <1>2, HeadHas DEF AtEnd, EndInv
<1>6. /\ Queued(e, i) \in Nat /\ sent[p][i] \in Nat /\ Taken(e, i) = Queued(e, i)
      /\ inbound[e][i] \in Seq(0 .. MaxData) /\ got[e][i] \in Seq(1 .. MaxData)
      /\ remoteEOF[e][i] = FALSE
  BY <1>1, <1>5, EndTypes
<1>7. /\ Ascending(w, i, Queued(e, i), sent[p][i]) /\ Gapless(w, i, Queued(e, i), sent[p][i])
      /\ Queued(e, i) <= sent[p][i]
  BY <1>2, <1>6 DEF AtEnd, WireInv, LoopInv
<1>8. Queued(e, i) = sent[p][i] /\ ~Has(Tail(w), "DATA", i) /\ ~Has(Tail(w), "CLOSE", i)
  BY <1>1, <1>6, <1>7, TakeClose
<1>9. /\ Ascending(Tail(w), i, Queued(e, i), sent[p][i])
      /\ Gapless(Tail(w), i, Queued(e, i), sent[p][i])
  BY <1>1, <1>3, <1>7, TailKeeps
<1>10. ChannelInv(e, i)' /\ Queued(e, i)' = Queued(e, i)
  <2>1. InLine(got[e][i], inbound[e][i], FALSE)
    BY <1>2, <1>6 DEF AtEnd, ChannelInv
  <2>2. /\ InLine(got[e][i], inbound[e][i], TRUE)
        /\ InLine(got[e][i], Append(inbound[e][i], Sentinel), TRUE)
        /\ Chunks(got[e][i], Append(inbound[e][i], Sentinel)) = Chunks(got[e][i], inbound[e][i])
    BY <1>6, <2>1, AddMark
  <2> QED
    BY <2>2 DEF ChannelInv, Queued
<1>11. /\ Taken(e, i)' = Queued(e, i) /\ Ended(p, i)'
       /\ sent'[p][i] = sent[p][i] /\ writer'[p][i] = writer[p][i] /\ writer[p][i] = "done"
  BY <1>5, <1>6, <1>10 DEF Taken, Ended, SameEnd
<1> HIDE DEF p, w
<1>12. LoopInv(e, i)'
  BY <1>7, <1>11 DEF LoopInv, p
<1>13. WireInv(e, i)'
  BY <1>1, <1>9, <1>11 DEF WireInv, p
<1>14. EndInv(e, i)'
  BY <1>1, <1>2, <1>8, <1>10, <1>11 DEF AtEnd, EndInv, p
<1>15. MapInv(e, i)'
  BY <1>1, <1>2, <1>8, <1>11 DEF MapInv, p
<1> QED
  BY <1>4, <1>10, <1>12, <1>13, <1>14, <1>15, BothEnds DEF AtEnd, p

\* An end sends a frame that is not OPEN on a stream it knows.
LEMMA FrameSent ==
  ASSUME TypeOK, NEW e \in Ends, NEW i \in Ids, OpenInv(i), SameEnd(Peer(e), i), link, link' = link,
         writer[e][i] # "none", writer'[e][i] # "none",
         NEW f \in Frame,
         (IsFrame(f, "DATA", i) /\ ~Has(wire[Peer(e)], "CLOSE", i)) \/ IsFrame(f, "CLOSE", i),
         f.n = sent[e][i] + 1 \/ f.type = "CLOSE",
         wire'[Peer(e)] = Append(wire[Peer(e)], f), wire'[e] = wire[e]
  PROVE  OpenInv(i)'
<1> DEFINE p == Peer(e)
           w == wire[p]
           v == Append(w, f)
<1>1. p \in Ends /\ Peer(p) = e /\ p # e /\ w \in Seq(Frame) /\ \A d \in Ends : d = e \/ d = p
  BY TwoEnds, EndTypes
<1>2. ~IsFrame(f, "OPEN", i)
  BY DEF IsFrame
<1>3. /\ Has(v, "OPEN", i) <=> Has(w, "OPEN", i)
      /\ OneOpen(w, i) => OneOpen(v, i)
  BY <1>1, <1>2, AppendKeeps
<1>4. OpenFirst(w, i) /\ Has(w, "OPEN", i) => OpenFirst(v, i)
  <2>1. CASE IsFrame(f, "CLOSE", i)
    <3>1. ~IsFrame(f, "DATA", i)
      BY <2>1 DEF IsFrame
    <3> QED
      BY <1>1, <3>1, AppendKeeps
  <2>2. CASE IsFrame(f, "DATA", i) /\ ~Has(w, "CLOSE", i)
    <3>1. f.n = sent[e][i] + 1 /\ sent[e][i] \in Nat /\ 0 <= sent[e][i]
      BY <2>2, EndTypes DEF IsFrame
    <3> QED
      BY <1>1, <2>2, <3>1, AppendData
  <2> QED
    BY <2>1, <2>2
<1>5. writer["connector"][i] = "none" /\ p = "connector" => Has(w, "OPEN", i)
  <2>1. p = "connector" => e = "pop"
    BY <1>1, TwoEnds
  <2> QED
    BY <2>1 DEF OpenInv
<1>6. /\ wire'[e] = wire[e] /\ wire'[p] = v
      /\ \A d \in Ends : d # p => wire'[d] = wire[d]
  BY <1>1
<1> HIDE DEF v
<1>7. /\ Has(wire'["pop"], "OPEN", i) => Has(wire["pop"], "OPEN", i)
      /\ Has(wire'["connector"], "OPEN", i) <=> Has(wire["connector"], "OPEN", i)
      /\ OneOpen(wire["connector"], i) => OneOpen(wire'["connector"], i)
  <2>1. "pop" \in Ends /\ "connector" \in Ends
    BY TwoEnds
  <2> QED
    BY <1>3, <1>6, <2>1
<1>8. writer["connector"][i] = "none" /\ OpenFirst(wire["connector"], i) =>
        OpenFirst(wire'["connector"], i)
  BY <1>4, <1>5, <1>6, TwoEnds
<1> QED
  BY <1>6, <1>7, <1>8, OpenKeeps

\* A pump writes a chunk.
LEMMA WriteStep ==
  ASSUME TypeOK, NEW e \in Ends, NEW i \in Ids, StreamInv(i), SameEnd(Peer(e), i),
         link, link' = link, writer[e][i] = "run", writer'[e][i] = writer[e][i],
         NEW f \in Frame, IsFrame(f, "DATA", i), f.n = sent[e][i] + 1,
         wire'[Peer(e)] = Append(wire[Peer(e)], f), wire'[e] = wire[e],
         sent'[e][i] = sent[e][i] + 1,
         Pending(e, i)' = Pending(e, i), i \in inMap'[e] <=> i \in inMap[e],
         inbound'[e][i] = inbound[e][i], remoteEOF'[e][i] = remoteEOF[e][i],
         resetErr'[e][i] = resetErr[e][i], localDone'[e][i] = localDone[e][i],
         reader'[e][i] = reader[e][i], got'[e][i] = got[e][i]
  PROVE  StreamInv(i)'
<1> DEFINE p == Peer(e)
           w == wire[p]
<1>1. p \in Ends /\ Peer(p) = e /\ p # e /\ w \in Seq(Frame)
  BY TwoEnds, EndTypes
<1>2. AtEnd(e, i) /\ AtEnd(p, i) /\ OpenInv(i) /\ ~Ended(e, i)
  BY BothEnds DEF Ended
<1>3. ~Has(w, "CLOSE", i) /\ ~remoteEOF[p][i] /\ reader[p][i] # "eof"
  BY <1>1, <1>2 DEF AtEnd, EndInv
<1>4. OpenInv(i)'
  BY <1>2, <1>3, FrameSent
<1>5. /\ Queued(p, i)' = Queued(p, i) /\ Taken(p, i)' = Taken(p, i)
      /\ Queued(e, i)' = Queued(e, i) /\ Taken(e, i)' = Taken(e, i)
      /\ (Ended(p, i)' <=> Ended(p, i)) /\ (ChannelInv(p, i)' <=> ChannelInv(p, i))
      /\ (ChannelInv(e, i)' <=> ChannelInv(e, i))
  BY DEF Queued, Taken, Ended, ChannelInv, SameEnd
<1>6. AtEnd(e, i)'
  BY <1>2, <1>5 DEF AtEnd, LoopInv, WireInv, EndInv, MapInv, SameEnd
<1>7. Taken(p, i) \in Nat /\ sent[e][i] \in Nat /\ Taken(p, i) <= sent[e][i]
  BY <1>1, <1>2, EndTypes DEF AtEnd, LoopInv
<1>8. /\ Ascending(w, i, Taken(p, i), sent[e][i]) =>
           Ascending(Append(w, f), i, Taken(p, i), sent[e][i] + 1)
      /\ Gapless(w, i, Taken(p, i), sent[e][i]) =>
           Gapless(Append(w, f), i, Taken(p, i), sent[e][i] + 1)
  BY <1>1, <1>3, <1>7, AppendData
<1>9. ~Has(Append(w, f), "CLOSE", i)
  <2>1. ~IsFrame(f, "CLOSE", i)
    BY DEF IsFrame
  <2> QED
    BY <1>1, <1>3, <2>1, AppendKeeps
<1> HIDE DEF p, w
<1>10. LoopInv(p, i)'
  <2>1. Taken(p, i) <= sent[e][i] + 1
    BY <1>7
  <2> QED
    BY <1>1, <1>2, <1>5, <2>1 DEF AtEnd, LoopInv, SameEnd, p
<1>11. WireInv(p, i)'
  BY <1>1, <1>2, <1>5, <1>8 DEF AtEnd, WireInv, SameEnd, p, w
<1>12. EndInv(p, i)'
  <2>1. wire'[p] = Append(w, f) /\ SameEnd(p, i)
    BY DEF p, w
  <2> QED
    BY <1>1, <1>2, <1>3, <1>9, <2>1 DEF AtEnd, EndInv, SameEnd
<1>13. MapInv(p, i)'
  BY <1>1, <1>2 DEF AtEnd, MapInv, SameEnd, p
<1> QED
  BY <1>2, <1>4, <1>5, <1>6, <1>10, <1>11, <1>12, <1>13, BothEnds DEF AtEnd, p

\* Close sends CLOSE, and the entry goes when the peer has closed too.
LEMMA EndStep ==
  ASSUME TypeOK, MuxInv, NEW e \in Ends, NEW i \in Ids, StreamInv(i), SameEnd(Peer(e), i),
         link' = link, writer[e][i] = "closing", writer'[e][i] = "done",
         NEW f \in Frame, IsFrame(f, "CLOSE", i), wire' = Wrote(e, f),
         i \in inMap'[e] <=> i \in inMap[e] /\ ~remoteEOF[e][i],
         Pending(e, i)' = Pending(e, i), sent'[e][i] = sent[e][i],
         inbound'[e][i] = inbound[e][i], remoteEOF'[e][i] = remoteEOF[e][i],
         resetErr'[e][i] = resetErr[e][i], localDone'[e][i] = localDone[e][i],
         reader'[e][i] = reader[e][i], got'[e][i] = got[e][i]
  PROVE  StreamInv(i)'
<1> DEFINE p == Peer(e)
           w == wire[p]
<1>1. p \in Ends /\ Peer(p) = e /\ p # e /\ w \in Seq(Frame) /\ wire[e] \in Seq(Frame)
  BY TwoEnds, EndTypes
<1>2. AtEnd(e, i) /\ AtEnd(p, i) /\ OpenInv(i) /\ ~Ended(e, i)
  BY BothEnds DEF Ended
<1>3. ~Has(w, "CLOSE", i) /\ ~remoteEOF[p][i] /\ reader[p][i] # "eof" /\ localDone[e][i]
  BY <1>1, <1>2 DEF AtEnd, EndInv
<1>4. wire'[e] = wire[e] /\ wire'[p] = IF link THEN Append(w, f) ELSE w
  BY <1>1 DEF Wrote, TypeOK
<1>5. OpenInv(i)'
  <2>1. CASE link
    <3>1. f.type = "CLOSE"
      BY DEF IsFrame
    <3> QED
      BY <1>2, <1>4, <2>1, <3>1, FrameSent
  <2>2. CASE ~link
    <3>1. wire' = wire
      BY <2>2 DEF Wrote
    <3> QED
      BY <1>2, <3>1, OpenKeeps
  <2> QED
    BY <2>1, <2>2
<1>6. /\ Queued(p, i)' = Queued(p, i) /\ Taken(p, i)' = Taken(p, i)
      /\ Queued(e, i)' = Queued(e, i) /\ Taken(e, i)' = Taken(e, i)
      /\ (Ended(p, i)' <=> Ended(p, i)) /\ (ChannelInv(p, i)' <=> ChannelInv(p, i))
      /\ (ChannelInv(e, i)' <=> ChannelInv(e, i)) /\ Ended(e, i)'
  BY <1>3 DEF Queued, Taken, Ended, ChannelInv, SameEnd
<1>7. /\ Taken(e, i) \in Nat /\ sent[p][i] \in Nat /\ Queued(e, i) \in Nat
      /\ Taken(e, i) <= sent[p][i] /\ Queued(e, i) <= Taken(e, i)
  <2>1. /\ Taken(e, i) \in Nat /\ sent[p][i] \in Nat /\ Queued(e, i) \in Nat
        /\ Taken(e, i) = IF Pending(e, i) = {} THEN Queued(e, i) ELSE Queued(e, i) + 1
    BY <1>1, EndTypes
  <2>2. Taken(e, i) <= sent[p][i]
    BY <1>2 DEF AtEnd, LoopInv
  <2> QED
    BY <2>1, <2>2
<1>8. ASSUME remoteEOF[e][i]
      PROVE  writer[p][i] = "done" /\ (resetErr[e][i] = "none" => ~Has(wire[e], "DATA", i))
  <2>1. Ended(p, i) /\ Queued(e, i) = sent[p][i]
    BY <1>2, <1>8 DEF AtEnd, EndInv
  <2>2. Taken(e, i) = sent[p][i]
    BY <1>7, <2>1
  <2>3. resetErr[e][i] = "none" => Ascending(wire[e], i, sent[p][i], sent[p][i])
    BY <1>2, <2>2 DEF AtEnd, WireInv
  <2> QED
    BY <1>1, <1>7, <2>1, <2>3, NoMoreData DEF Ended
<1>9. AtEnd(e, i)'
  <2>1. LoopInv(e, i)' /\ WireInv(e, i)' /\ EndInv(e, i)'
    BY <1>2, <1>4, <1>6 DEF AtEnd, LoopInv, WireInv, EndInv, SameEnd
  <2>2. MapInv(e, i)'
    BY <1>2, <1>4, <1>8 DEF AtEnd, MapInv, SameEnd
  <2> QED
    BY <1>2, <1>6, <2>1, <2>2 DEF AtEnd
<1>10. /\ \A b, s : Ascending(w, i, b, s) => Ascending(wire'[p], i, b, s)
       /\ \A b, s : Gapless(w, i, b, s) => Gapless(wire'[p], i, b, s)
       /\ Has(wire'[p], "DATA", i) => Has(w, "DATA", i)
  <2>1. ~IsFrame(f, "DATA", i)
    BY DEF IsFrame
  <2>2. CASE link
    BY <1>1, <1>3, <1>4, <2>1, <2>2, AppendClose, AppendKeeps
  <2>3. CASE ~link
    BY <1>4, <2>3
  <2> QED
    BY <2>2, <2>3
<1> HIDE DEF p, w
<1>11. LoopInv(p, i)'
  BY <1>1, <1>2, <1>6 DEF AtEnd, LoopInv, SameEnd, p
<1>12. WireInv(p, i)'
  BY <1>1, <1>2, <1>6, <1>10 DEF AtEnd, WireInv, SameEnd, p, w
<1>13. EndInv(p, i)'
  BY <1>1, <1>2, <1>3, <1>6 DEF AtEnd, EndInv, SameEnd, p
<1>14. MapInv(p, i)'
  BY <1>1, <1>2, <1>10 DEF AtEnd, MapInv, SameEnd, p, w
<1> QED
  BY <1>2, <1>5, <1>6, <1>9, <1>11, <1>12, <1>13, <1>14, BothEnds DEF AtEnd, p

-----------------------------------------------------------------------------
(* The actions keep the invariant of every stream. *)

\* What a step does to the streams whose frames it does not move.
LEMMA WiresOfOthers ==
  ASSUME TypeOK
  PROVE  /\ link' = link /\ wire' = wire => \A j \in Ids : SameWires(j)
         /\ \A e \in Ends : \A f \in Frame :
              link' = link /\ wire' = Wrote(e, f) => \A j \in Ids : f.id # j => SameWires(j)
         /\ \A e \in Ends :
              link' = link /\ wire[e] # <<>> /\ wire' = Consumed(e) =>
                \A j \in Ids : Head(wire[e]).id # j => SameWires(j)
<1>1. \A d \in Ends : wire[d] \in Seq(Frame)
  BY DEF TypeOK
<1>2. \A d \in Ends : \A j : SameFrames(wire[d], wire[d], j)
  BY <1>1, OtherFrames
<1>3. ASSUME link' = link, wire' = wire PROVE \A j \in Ids : SameWires(j)
  BY <1>2, <1>3 DEF SameWires
<1>4. ASSUME NEW e \in Ends, NEW f \in Frame, link' = link, wire' = Wrote(e, f), NEW j \in Ids,
             f.id # j
      PROVE  SameWires(j)
  <2>1. CASE ~link
    BY <1>3, <1>4, <2>1 DEF Wrote
  <2>2. CASE link
    <3>1. /\ wire'[Peer(e)] = Append(wire[Peer(e)], f)
          /\ \A d \in Ends : d # Peer(e) => wire'[d] = wire[d]
      <4>1. wire' = [wire EXCEPT ![Peer(e)] = Append(wire[Peer(e)], f)]
        BY <1>4, <2>2 DEF Wrote
      <4>2. Peer(e) \in Ends /\ wire \in [Ends -> Seq(Frame)]
        BY TwoEnds DEF TypeOK
      <4> QED
        BY <4>1, <4>2
    <3>2. SameFrames(wire[Peer(e)], wire'[Peer(e)], j)
      BY <1>1, <1>4, <3>1, OtherFrames, TwoEnds
    <3> QED
      BY <1>2, <1>4, <3>1, <3>2 DEF SameWires
  <2> QED
    BY <2>1, <2>2
<1>5. ASSUME NEW e \in Ends, link' = link, wire[e] # <<>>, wire' = Consumed(e), NEW j \in Ids,
             Head(wire[e]).id # j
      PROVE  SameWires(j)
  <2>1. wire'[e] = Tail(wire[e]) /\ \A d \in Ends : d # e => wire'[d] = wire[d]
    BY <1>5 DEF Consumed, TypeOK
  <2>2. SameFrames(wire[e], wire'[e], j)
    BY <1>1, <1>5, <2>1, OtherFrames
  <2> QED
    BY <1>2, <1>5, <2>1, <2>2 DEF SameWires
<1> QED
  BY <1>3, <1>4, <1>5

\* A step of end e on stream i.
LEMMA OneStream ==
  ASSUME \A j \in Ids : StreamInv(j), NEW e \in Ends, NEW i \in Ids,
         \A d \in Ends, j \in Ids : d # e \/ j # i => SameEnd(d, j),
         \A j \in Ids : j # i => SameWires(j), StreamInv(i)'
  PROVE  \A j \in Ids : StreamInv(j)'
<1> SUFFICES ASSUME NEW j \in Ids, j # i PROVE StreamInv(j)'
  OBVIOUS
<1> QED
  BY OtherStream

\* The reader of a stream.
LEMMA ReaderStream ==
  ASSUME IInv, NEW e \in Ends, NEW i \in Ids,
         ReadCall(e, i) \/ ReadChunk(e, i) \/ ReadEOF(e, i) \/ ReadDone(e, i) \/ SinkFail(e, i)
  PROVE  \A j \in Ids : StreamInv(j)'
<1> DEFINE g == got[e][i]
           q == inbound[e][i]
           p == Peer(e)
<1>1. TypeOK /\ StreamInv(i) /\ \A j \in Ids : StreamInv(j)
  BY DEF IInv
<1>2. AtEnd(e, i) /\ OpenInv(i)
  BY <1>1, BothEnds
<1>3. reader[e][i] \in {"run", "select"} /\ link' = link /\ wire' = wire
  BY DEF ReadCall, ReadChunk, ReadEOF, ReadDone, SinkFail, muxVars
<1>4. writer[e][i] # "none"
  BY <1>2, <1>3 DEF OpenInv, Untouched
<1>5. \A d \in Ends, j \in Ids : d # e \/ j # i => SameEnd(d, j)
  <2> SUFFICES ASSUME NEW d \in Ends, NEW j \in Ids, d # e \/ j # i PROVE SameEnd(d, j)
    OBVIOUS
  <2>1. Pending(d, j)' = Pending(d, j) /\ (j \in inMap'[d] <=> j \in inMap[d])
    BY DEF Pending, ReadCall, ReadChunk, ReadEOF, ReadDone, SinkFail, muxVars
  <2>2. /\ remoteEOF' = remoteEOF /\ resetErr' = resetErr
        /\ localDone' = localDone /\ writer' = writer /\ sent' = sent
    BY DEF ReadCall, ReadChunk, ReadEOF, ReadDone, SinkFail, streamVars
  <2>3. inbound'[d][j] = inbound[d][j] /\ got'[d][j] = got[d][j]
    <3>1. CASE ReadCall(e, i) \/ ReadDone(e, i) \/ SinkFail(e, i)
      BY <3>1 DEF ReadCall, ReadDone, SinkFail, streamVars
    <3>2. CASE ReadChunk(e, i)
      BY <1>1, <3>2 DEF TypeOK, ReadChunk
    <3>3. CASE ReadEOF(e, i)
      BY <1>1, <3>3 DEF TypeOK, ReadEOF
    <3> QED
      BY <3>1, <3>2, <3>3
  <2>4. reader'[d][j] = reader[d][j]
    <3>1. \E x : reader' = [reader EXCEPT ![e][i] = x]
      BY Zenon DEF ReadCall, ReadChunk, ReadEOF, ReadDone, SinkFail
    <3> QED
      BY <1>1, <3>1 DEF TypeOK
  <2> QED
    BY <2>1, <2>2, <2>3, <2>4 DEF SameEnd
<1>6. \A j \in Ids : SameWires(j)
  BY <1>1, <1>3, WiresOfOthers
<1>7. /\ Pending(e, i)' = Pending(e, i) /\ (i \in inMap'[e] <=> i \in inMap[e])
      /\ remoteEOF' = remoteEOF /\ resetErr' = resetErr
      /\ localDone' = localDone /\ writer' = writer /\ sent' = sent
  BY DEF Pending, ReadCall, ReadChunk, ReadEOF, ReadDone, SinkFail, muxVars, streamVars
<1>8. /\ g \in Seq(1 .. MaxData) /\ q \in Seq(0 .. MaxData) /\ remoteEOF[e][i] \in BOOLEAN
      /\ InLine(g, q, remoteEOF[e][i])
  BY <1>1, <1>2, EndTypes DEF AtEnd, ChannelInv
<1>9. /\ ChannelInv(e, i)' /\ Queued(e, i)' = Queued(e, i)
      /\ reader'[e][i] = "eof" => Ended(p, i) /\ Len(got'[e][i]) = sent[p][i]
  <2>1. CASE ReadCall(e, i) \/ ReadDone(e, i) \/ SinkFail(e, i)
    <3>1. got' = got /\ inbound' = inbound
      BY <2>1 DEF ReadCall, ReadDone, SinkFail, streamVars
    <3>2. reader'[e][i] # "eof"
      BY <1>1, <2>1 DEF TypeOK, ReadCall, ReadDone, SinkFail
    <3> QED
      BY <1>2, <1>7, <3>1, <3>2 DEF AtEnd, ChannelInv, Queued
  <2>2. CASE ReadChunk(e, i)
    <3>1. q # <<>> /\ Head(q) # Sentinel
      BY <2>2 DEF ReadChunk
    <3>2. /\ inbound'[e][i] = Tail(q) /\ got'[e][i] = Append(g, Head(q))
          /\ reader'[e][i] # "eof"
      BY <1>1, <2>2 DEF ReadChunk, TypeOK
    <3>3. /\ InLine(Append(g, Head(q)), Tail(q), remoteEOF[e][i])
          /\ Chunks(Append(g, Head(q)), Tail(q)) = Chunks(g, q)
      BY <1>8, <3>1, TakeChunk
    <3> QED
      BY <1>7, <3>2, <3>3 DEF ChannelInv, Queued
  <2>3. CASE ReadEOF(e, i)
    <3>1. q # <<>> /\ Head(q) = Sentinel
      BY <2>3 DEF ReadEOF
    <3>2. inbound'[e][i] = Tail(q) /\ got' = got
      BY <1>1, <2>3 DEF ReadEOF, TypeOK
    <3>3. /\ remoteEOF[e][i] /\ InLine(g, Tail(q), remoteEOF[e][i])
          /\ Chunks(g, q) = Len(g) /\ Chunks(g, Tail(q)) = Len(g)
      BY <1>8, <3>1, TakeMark
    <3>4. Ended(p, i) /\ Queued(e, i) = sent[p][i]
      BY <1>2, <3>3 DEF AtEnd, EndInv
    <3> QED
      BY <1>7, <3>2, <3>3, <3>4 DEF ChannelInv, Queued
  <2> QED
    BY <2>1, <2>2, <2>3
<1>10. SameEnd(p, i)
  BY <1>5, TwoEnds
<1>11. StreamInv(i)'
  <2> HIDE DEF g, q
  <2> QED
    BY <1>1, <1>3, <1>4, <1>7, <1>9, <1>10, ReadStep
<1> QED
  BY <1>1, <1>5, <1>6, <1>11, OneStream

\* A pump starts, or begins to close.
LEMMA PumpStream ==
  ASSUME IInv, NEW e \in Ends, NEW i \in Ids,
         (e = "connector" /\ DialOK(i)) \/ CloseStream(e, i)
  PROVE  \A j \in Ids : StreamInv(j)'
<1>1. TypeOK /\ StreamInv(i) /\ \A j \in Ids : StreamInv(j)
  BY DEF IInv
<1>2. /\ link' = link /\ wire' = wire /\ loop' = loop /\ inMap' = inMap /\ inbound' = inbound
      /\ remoteEOF' = remoteEOF /\ resetErr' = resetErr /\ sent' = sent /\ got' = got
  BY DEF DialOK, CloseStream, muxVars, streamVars
<1>3. /\ writer[e][i] \in {"dial", "run"} /\ writer'[e][i] \in {"run", "closing"}
      /\ writer'[e][i] = "closing" => localDone'[e][i]
      /\ reader'[e][i] = "eof" => reader[e][i] = "eof"
  BY <1>1 DEF TypeOK, DialOK, CloseStream, streamVars
<1>4. ASSUME NEW d \in Ends, NEW j \in Ids, d # e \/ j # i PROVE SameEnd(d, j)
  <2>1. writer'[d][j] = writer[d][j]
    BY <1>1, <1>4 DEF TypeOK, DialOK, CloseStream
  <2>2. reader' = [reader EXCEPT ![e][i] = "run"] \/ reader' = reader
    BY DEF DialOK, CloseStream
  <2>3. reader'[d][j] = reader[d][j]
    BY <1>1, <1>4, <2>2 DEF TypeOK
  <2>4. localDone'[d][j] = localDone[d][j]
    BY <1>1, <1>4 DEF TypeOK, DialOK, CloseStream, streamVars
  <2> QED
    BY <1>2, <2>1, <2>3, <2>4 DEF SameEnd, Pending
<1>5. \A j \in Ids : SameWires(j)
  BY <1>1, <1>2, WiresOfOthers
<1>6. SameEnd(Peer(e), i) /\ Pending(e, i)' = Pending(e, i)
  BY <1>2, <1>4, TwoEnds DEF Pending
<1>7. StreamInv(i)'
  <2>1. writer[e][i] \notin {"none", "done"} /\ writer'[e][i] \notin {"none", "done"}
    BY <1>3
  <2> QED
    BY <1>1, <1>2, <1>3, <1>6, <2>1, PumpStep
<1> QED
  BY <1>1, <1>4, <1>5, <1>7, OneStream

\* A dial or a write fails.
LEMMA FailStream ==
  ASSUME IInv, NEW e \in Ends, NEW i \in Ids,
         (e = "connector" /\ DialFail(i)) \/ WriteFail(e, i)
  PROVE  \A j \in Ids : StreamInv(j)'
<1>1. TypeOK /\ StreamInv(i) /\ \A j \in Ids : StreamInv(j)
  BY DEF IInv
<1> DEFINE f == [type |-> "RST", id |-> i, n |-> 0]
<1>2. f \in Frame /\ IsFrame(f, "RST", i) /\ f.id = i
  BY CapAssumption DEF Frame, IsFrame
<1> HIDE DEF f
<1>3. /\ link' = link /\ loop' = loop /\ inbound' = inbound /\ remoteEOF' = remoteEOF
      /\ localDone' = localDone /\ reader' = reader /\ sent' = sent /\ got' = got
      /\ inMap' = [inMap EXCEPT ![e] = inMap[e] \ {i}]
  BY DEF DialFail, WriteFail, pumpVars
<1>4. wire' = wire \/ wire' = Wrote(e, f)
  BY DEF DialFail, WriteFail, f
<1>5. /\ writer[e][i] # "none"
      /\ writer'[e][i] = writer[e][i] \/ (writer[e][i] = "dial" /\ writer'[e][i] = "done")
  BY <1>1 DEF TypeOK, DialFail, WriteFail, pumpVars
<1>6. /\ resetErr'[e][i] # "none"
      /\ \A d \in Ends, j \in Ids : d # e \/ j # i => resetErr'[d][j] = resetErr[d][j]
  <2>1. Shut(e, i, "reset") \/ Shut(e, i, "mux")
    BY DEF DialFail, WriteFail
  <2>2. resetErr \in [Ends -> [Ids -> {"none", "reset", "mux"}]]
    BY <1>1 DEF TypeOK
  <2> QED
    BY <2>1, <2>2 DEF Shut
<1>7. ASSUME NEW d \in Ends, NEW j \in Ids, d # e \/ j # i PROVE SameEnd(d, j)
  <2>1. writer'[d][j] = writer[d][j]
    <3>1. writer' = [writer EXCEPT ![e][i] = "done"] \/ writer' = writer
      BY DEF DialFail, WriteFail, pumpVars
    <3> QED
      BY <1>1, <1>7, <3>1 DEF TypeOK
  <2>2. j \in inMap'[d] <=> j \in inMap[d]
    BY <1>1, <1>3, <1>7 DEF TypeOK
  <2> QED
    BY <1>3, <1>6, <1>7, <2>1, <2>2 DEF SameEnd, Pending
<1>8. \A j \in Ids : j # i => SameWires(j)
  BY <1>1, <1>2, <1>3, <1>4, WiresOfOthers
<1>9. KeptWires(i) /\ wire'[e] = wire[e]
  <2>1. CASE wire' = wire
    BY <1>1, <1>3, <2>1, WiresOfOthers DEF SameWires, KeptWires, SameFrames
  <2>2. CASE wire' = Wrote(e, f) /\ link
    <3>1. /\ wire'[Peer(e)] = Append(wire[Peer(e)], f)
          /\ \A d \in Ends : d # Peer(e) => wire'[d] = wire[d]
          /\ \A d \in Ends : wire[d] \in Seq(Frame)
      BY <1>1, <2>2, TwoEnds DEF Wrote, TypeOK
    <3>2. KeptFrames(wire[Peer(e)], wire'[Peer(e)], i)
      <4>1. wire[Peer(e)] \in Seq(Frame)
        BY <3>1, TwoEnds
      <4> QED
        BY <1>2, <3>1, <4>1, ResetFrames
    <3>3. \A d \in Ends : KeptFrames(wire[d], wire[d], i)
      BY <3>1, OtherFrames DEF SameFrames
    <3> QED
      BY <1>3, <3>1, <3>2, <3>3, TwoEnds DEF KeptWires
  <2>3. CASE wire' = Wrote(e, f) /\ ~link
    BY <2>1, <2>3 DEF Wrote
  <2> QED
    BY <1>4, <2>1, <2>2, <2>3
<1>10. SameEnd(Peer(e), i) /\ Pending(e, i)' = Pending(e, i) /\ i \notin inMap'[e]
  BY <1>1, <1>3, <1>7, TwoEnds DEF Pending, TypeOK
<1>11. StreamInv(i)'
  BY <1>1, <1>3, <1>5, <1>6, <1>9, <1>10, ShutStep
<1> QED
  BY <1>1, <1>7, <1>8, <1>11, OneStream

\* RST arrives.
LEMMA ResetStream ==
  ASSUME IInv, NEW e \in Ends, RecvReset(e)
  PROVE  \A j \in Ids : StreamInv(j)'
<1>1. TypeOK /\ \A j \in Ids : StreamInv(j)
  BY DEF IInv
<1>2. /\ wire[e] \in Seq(Frame) /\ wire[e] # <<>> /\ wire' = Consumed(e) /\ link' = link
      /\ Head(wire[e]).type = "RST"
  BY <1>1, EndTypes DEF TypeOK, RecvReset, Takes
<1>3. PICK i \in Ids : i = Head(wire[e]).id /\ IsFrame(Head(wire[e]), "RST", i)
  <2>1. Head(wire[e]) \in Frame
    BY <1>2, TailAt
  <2> QED
    BY <1>2, <2>1 DEF Frame, IsFrame
<1>4. /\ loop' = loop /\ inbound' = inbound /\ remoteEOF' = remoteEOF
      /\ localDone' = localDone /\ reader' = reader /\ sent' = sent /\ got' = got
      /\ writer' = writer
  BY DEF RecvReset, pumpVars
<1>5. \A j \in Ids : j # i => SameWires(j)
  BY <1>1, <1>2, <1>3, WiresOfOthers
<1>6. SameWires(i)
  <2>1. wire'[e] = Tail(wire[e]) /\ \A d \in Ends : d # e => wire'[d] = wire[d]
    BY <1>1, <1>2 DEF Consumed, TypeOK
  <2>2. SameFrames(wire[e], wire'[e], i)
    BY <1>2, <1>3, <2>1, ResetFrames
  <2>3. \A d \in Ends : SameFrames(wire[d], wire[d], i)
    BY <1>1, OtherFrames DEF TypeOK
  <2> QED
    BY <1>2, <2>1, <2>2, <2>3 DEF SameWires
<1>7. CASE i \notin inMap[e]
  <2>1. resetErr' = resetErr /\ inMap' = inMap
    BY <1>3, <1>7 DEF RecvReset
  <2>2. \A d \in Ends, j \in Ids : SameEnd(d, j)
    BY <1>4, <2>1 DEF SameEnd, Pending
  <2>3. \A j \in Ids : SameWires(j)
    BY <1>5, <1>6
  <2> QED
    BY <1>1, <2>2, <2>3, OtherStream
<1>8. CASE i \in inMap[e]
  <2>1. Shut(e, i, "reset") /\ inMap' = [inMap EXCEPT ![e] = inMap[e] \ {i}]
    BY <1>3, <1>8 DEF RecvReset
  <2>2. /\ resetErr'[e][i] # "none"
        /\ \A d \in Ends, j \in Ids : d # e \/ j # i => resetErr'[d][j] = resetErr[d][j]
    BY <1>1, <1>3, <2>1 DEF TypeOK, Shut
  <2>3. ASSUME NEW d \in Ends, NEW j \in Ids, d # e \/ j # i PROVE SameEnd(d, j)
    <3>1. j \in inMap'[d] <=> j \in inMap[d]
      BY <1>1, <2>1, <2>3 DEF TypeOK
    <3> QED
      BY <1>4, <2>2, <2>3, <3>1 DEF SameEnd, Pending
  <2>4. SameEnd(Peer(e), i) /\ Pending(e, i)' = Pending(e, i) /\ i \notin inMap'[e]
    BY <1>1, <1>3, <1>4, <2>1, <2>3, TwoEnds DEF Pending, TypeOK
  <2>5. writer[e][i] # "none"
    BY <1>1, <1>3, <1>8 DEF StreamInv, OpenInv, Untouched
  <2>6. KeptWires(i) /\ (Silent(wire[e], i) => Silent(wire'[e], i))
    <3>1. Silent(<<>>, i)
      BY EmptyWire
    <3> QED
      BY <1>6, <3>1 DEF SameWires, KeptWires, SameFrames
  <2>7. StreamInv(i)'
    BY <1>1, <1>3, <1>4, <2>2, <2>4, <2>5, <2>6, ShutStep
  <2> QED
    BY <1>1, <1>3, <1>5, <2>3, <2>7, OneStream
<1> QED
  BY <1>7, <1>8

\* The connection breaks.
LEMMA LinkStream ==
  ASSUME IInv, LinkFail
  PROVE  \A j \in Ids : StreamInv(j)'
<1>1. \A j \in Ids : StreamInv(j)
  BY DEF IInv
<1>2. link' = FALSE /\ \A d \in Ends : wire'[d] = <<>>
  BY DEF LinkFail
<1>3. \A d \in Ends, j \in Ids : SameEnd(d, j)
  BY DEF LinkFail, SameEnd, Pending, streamVars, pumpVars
<1>4. \A j \in Ids : SameWires(j)
  BY <1>2 DEF SameWires
<1> QED
  BY <1>1, <1>3, <1>4, OtherStream

\* An end closes all streams of its map.
LEMMA CloseAllStream ==
  ASSUME IInv, NEW e \in Ends, CloseAll(e)
  PROVE  \A j \in Ids : StreamInv(j)'
<1> SUFFICES ASSUME NEW j \in Ids PROVE StreamInv(j)'
  OBVIOUS
<1>1. TypeOK /\ StreamInv(j)
  BY DEF IInv
<1>2. link' = FALSE /\ \A d \in Ends : wire'[d] = <<>>
  BY DEF CloseAll
<1>3. /\ loop' = loop /\ inbound' = inbound /\ remoteEOF' = remoteEOF
      /\ localDone' = localDone /\ reader' = reader /\ sent' = sent /\ got' = got
      /\ writer' = writer
  BY DEF CloseAll, pumpVars
<1>4. inMap'[e] = {} /\ \A d \in Ends : d # e => inMap'[d] = inMap[d]
  BY <1>1 DEF CloseAll, TypeOK
<1>5. /\ resetErr'[e][j] = IF j \in inMap[e] /\ resetErr[e][j] = "none" THEN "mux" ELSE resetErr[e][j]
      /\ \A d \in Ends : d # e => resetErr'[d][j] = resetErr[d][j]
  <2>1. resetErr \in [Ends -> [Ids -> {"none", "reset", "mux"}]]
    BY <1>1 DEF TypeOK
  <2> QED
    BY <2>1 DEF CloseAll
<1>6. SameWires(j) /\ KeptWires(j)
  BY <1>2 DEF SameWires, KeptWires
<1>7. \A d \in Ends : d # e => SameEnd(d, j)
  BY <1>3, <1>4, <1>5 DEF SameEnd, Pending
<1>8. CASE j \notin inMap[e]
  <2>1. SameEnd(e, j)
    BY <1>3, <1>4, <1>5, <1>8 DEF SameEnd, Pending
  <2> QED
    BY <1>1, <1>6, <1>7, <2>1, OtherStream
<1>9. CASE j \in inMap[e]
  <2>1. writer[e][j] # "none"
    BY <1>1, <1>9 DEF StreamInv, OpenInv, Untouched
  <2>2. resetErr'[e][j] # "none" /\ j \notin inMap'[e] /\ Pending(e, j)' = Pending(e, j)
    BY <1>3, <1>4, <1>5, <1>9 DEF Pending
  <2>3. SameEnd(Peer(e), j) /\ Silent(wire'[e], j)
    BY <1>2, <1>7, TwoEnds, EmptyWire
  <2> QED
    BY <1>1, <1>3, <1>6, <2>1, <2>2, <2>3, ShutStep
<1> QED
  BY <1>8, <1>9

\* The PoP opens a stream.
LEMMA OpenedStream ==
  ASSUME IInv, NEW i \in Ids, OpenStream(i)
  PROVE  \A j \in Ids : StreamInv(j)'
<1> DEFINE f == [type |-> "OPEN", id |-> i, n |-> 0]
<1>1. TypeOK /\ StreamInv(i) /\ \A j \in Ids : StreamInv(j)
  BY DEF IInv
<1>2. f \in Frame /\ IsFrame(f, "OPEN", i) /\ f.id = i
  BY CapAssumption DEF Frame, IsFrame
<1>3. /\ link /\ link' = link /\ loop' = loop /\ inbound' = inbound /\ remoteEOF' = remoteEOF
      /\ resetErr' = resetErr /\ localDone' = localDone /\ sent' = sent /\ got' = got
      /\ wire' = Wrote("pop", f) /\ writer["pop"][i] = "none"
  BY DEF OpenStream, streamVars
<1> HIDE DEF f
<1>4. ASSUME NEW d \in Ends, NEW j \in Ids, d # "pop" \/ j # i PROVE SameEnd(d, j)
  <2>1. writer'[d][j] = writer[d][j] /\ reader'[d][j] = reader[d][j]
    BY <1>1, <1>4 DEF TypeOK, OpenStream
  <2>2. j \in inMap'[d] <=> j \in inMap[d]
    BY <1>1, <1>4 DEF TypeOK, OpenStream
  <2> QED
    BY <1>3, <2>1, <2>2 DEF SameEnd, Pending
<1>5. /\ writer'["pop"][i] = "run" /\ reader'["pop"][i] = "run" /\ i \in inMap'["pop"]
      /\ Pending("pop", i)' = Pending("pop", i)
  BY <1>1, <1>3, TwoEnds DEF TypeOK, OpenStream, Pending
<1>6. wire'["pop"] = wire["pop"] /\ wire'["connector"] = Append(wire["connector"], f)
  BY <1>1, <1>3, TwoEnds DEF TypeOK, Wrote
<1>7. SameEnd("connector", i) /\ "pop" \in Ends
  BY <1>4, TwoEnds
<1>8. StreamInv(i)'
  BY <1>1, <1>2, <1>3, <1>5, <1>6, <1>7, OpenStep
<1>9. \A j \in Ids : j # i => SameWires(j)
  BY <1>1, <1>2, <1>3, <1>7, WiresOfOthers
<1> QED
  BY <1>1, <1>4, <1>7, <1>8, <1>9, OneStream

\* A pump writes a chunk.
LEMMA WriteStream ==
  ASSUME IInv, NEW e \in Ends, NEW i \in Ids, Write(e, i)
  PROVE  \A j \in Ids : StreamInv(j)'
<1> DEFINE f == [type |-> "DATA", id |-> i, n |-> sent[e][i] + 1]
<1>1. TypeOK /\ StreamInv(i) /\ \A j \in Ids : StreamInv(j)
  BY DEF IInv
<1>2. f \in Frame /\ IsFrame(f, "DATA", i) /\ f.id = i /\ f.n = sent[e][i] + 1
  <2>1. sent[e][i] \in 0 .. MaxData /\ sent[e][i] < MaxData
    BY <1>1 DEF TypeOK, Write
  <2>2. sent[e][i] + 1 \in 0 .. MaxData
    BY <2>1, CapAssumption
  <2> QED
    BY <2>2 DEF Frame, IsFrame
<1>3. /\ link /\ link' = link /\ loop' = loop /\ inMap' = inMap
      /\ inbound' = inbound /\ remoteEOF' = remoteEOF
      /\ resetErr' = resetErr /\ localDone' = localDone /\ got' = got
      /\ writer' = writer /\ reader' = reader
      /\ wire' = Wrote(e, f) /\ writer[e][i] = "run"
  BY DEF Write, streamVars
<1>4. PICK h \in Frame : h = f
  BY <1>2
<1> HIDE DEF f
<1>5. /\ sent'[e][i] = sent[e][i] + 1
      /\ \A d \in Ends, j \in Ids : d # e \/ j # i => sent'[d][j] = sent[d][j]
  BY <1>1 DEF TypeOK, Write
<1>6. \A d \in Ends, j \in Ids : d # e \/ j # i => SameEnd(d, j)
  BY <1>3, <1>5 DEF SameEnd, Pending
<1>7. wire'[e] = wire[e] /\ wire'[Peer(e)] = Append(wire[Peer(e)], h)
  BY <1>1, <1>3, <1>4, TwoEnds DEF TypeOK, Wrote
<1>8. SameEnd(Peer(e), i) /\ Pending(e, i)' = Pending(e, i)
  BY <1>3, <1>6, TwoEnds DEF Pending
<1>9. StreamInv(i)'
  BY <1>1, <1>2, <1>3, <1>4, <1>5, <1>7, <1>8, WriteStep
<1>10. \A j \in Ids : j # i => SameWires(j)
  BY <1>1, <1>2, <1>3, WiresOfOthers
<1> QED
  BY <1>1, <1>6, <1>9, <1>10, OneStream

\* Close sends CLOSE.
LEMMA SendCloseStream ==
  ASSUME IInv, NEW e \in Ends, NEW i \in Ids, SendClose(e, i)
  PROVE  \A j \in Ids : StreamInv(j)'
<1> DEFINE f == [type |-> "CLOSE", id |-> i, n |-> 0]
<1>1. TypeOK /\ MuxInv /\ StreamInv(i) /\ \A j \in Ids : StreamInv(j)
  BY DEF IInv
<1>2. f \in Frame /\ IsFrame(f, "CLOSE", i) /\ f.id = i
  BY CapAssumption DEF Frame, IsFrame
<1>3. /\ link' = link /\ loop' = loop /\ inbound' = inbound /\ remoteEOF' = remoteEOF
      /\ resetErr' = resetErr /\ localDone' = localDone /\ sent' = sent /\ got' = got
      /\ reader' = reader
      /\ wire' = Wrote(e, f) /\ writer[e][i] = "closing"
      /\ writer' = [writer EXCEPT ![e][i] = "done"]
      /\ inMap' = [inMap EXCEPT ![e] = Reaped(e, i, remoteEOF[e][i])]
  BY DEF SendClose, streamVars
<1> HIDE DEF f
<1>4. /\ writer'[e][i] = "done"
      /\ \A d \in Ends, j \in Ids : d # e \/ j # i => writer'[d][j] = writer[d][j]
  BY <1>1, <1>3 DEF TypeOK
<1>5. /\ inMap'[e] = Reaped(e, i, remoteEOF[e][i])
      /\ \A d \in Ends : d # e => inMap'[d] = inMap[d]
  BY <1>1, <1>3 DEF TypeOK
<1>6. /\ i \in inMap'[e] <=> i \in inMap[e] /\ ~remoteEOF[e][i]
      /\ \A j \in Ids : j # i => (j \in inMap'[e] <=> j \in inMap[e])
  BY <1>5 DEF Reaped
<1>7. \A d \in Ends, j \in Ids : d # e \/ j # i => SameEnd(d, j)
  BY <1>3, <1>4, <1>5, <1>6 DEF SameEnd, Pending
<1>8. SameEnd(Peer(e), i) /\ Pending(e, i)' = Pending(e, i)
  BY <1>3, <1>7, TwoEnds DEF Pending
<1>9. StreamInv(i)'
  BY <1>1, <1>2, <1>3, <1>4, <1>6, <1>8, EndStep
<1>10. \A j \in Ids : j # i => SameWires(j)
  BY <1>1, <1>2, <1>3, WiresOfOthers
<1> QED
  BY <1>1, <1>7, <1>9, <1>10, OneStream

\* The frame the read loop takes.
LEMMA FrameTaken ==
  ASSUME IInv, NEW e \in Ends, NEW t, Takes(e, t), wire' = Consumed(e), link' = link
  PROVE  \E i \in Ids :
           /\ i = Head(wire[e]).id /\ IsFrame(Head(wire[e]), t, i) /\ wire[e] \in Seq(Frame)
           /\ Head(wire[e]) \in Frame /\ Head(wire[e]).type = t
           /\ wire[e] # <<>> /\ loop[e] = {} /\ link /\ wire'[e] = Tail(wire[e])
           /\ \A d \in Ends : d # e => wire'[d] = wire[d]
           /\ \A j \in Ids : j # i => SameWires(j)
<1>1. TypeOK /\ MuxInv /\ wire[e] # <<>> /\ loop[e] = {} /\ Head(wire[e]).type = t
  BY DEF IInv, Takes, Idle
<1>2. wire[e] \in Seq(Frame) /\ Head(wire[e]) \in Frame
  <2>1. wire[e] \in Seq(Frame)
    BY <1>1 DEF TypeOK
  <2> QED
    BY <1>1, <2>1, TailAt
<1>3. Head(wire[e]).id \in Ids
  BY <1>2 DEF Frame
<1>4. link /\ wire'[e] = Tail(wire[e]) /\ \A d \in Ends : d # e => wire'[d] = wire[d]
  BY <1>1 DEF MuxInv, TypeOK, Consumed
<1>5. \A j \in Ids : j # Head(wire[e]).id => SameWires(j)
  BY <1>1, WiresOfOthers
<1> QED
  BY <1>1, <1>2, <1>3, <1>4, <1>5 DEF IsFrame

\* OPEN arrives, at the connector.
LEMMA RecvOpenStream ==
  ASSUME IInv, NEW e \in Ends, RecvOpen(e)
  PROVE  \A j \in Ids : StreamInv(j)'
<1>1. TypeOK /\ \A j \in Ids : StreamInv(j)
  BY DEF IInv
<1>2. /\ Takes(e, "OPEN") /\ wire' = Consumed(e) /\ link' = link
      /\ loop' = loop /\ inbound' = inbound /\ remoteEOF' = remoteEOF
      /\ resetErr' = resetErr /\ localDone' = localDone /\ sent' = sent /\ got' = got
      /\ reader' = reader
  BY DEF RecvOpen, streamVars
<1>3. PICK i \in Ids :
        /\ i = Head(wire[e]).id /\ IsFrame(Head(wire[e]), "OPEN", i) /\ wire[e] \in Seq(Frame)
        /\ wire[e] # <<>> /\ wire'[e] = Tail(wire[e])
        /\ \A d \in Ends : d # e => wire'[d] = wire[d]
        /\ \A j \in Ids : j # i => SameWires(j)
  BY <1>2, FrameTaken
<1>4. e = "connector"
  <2>1. Has(wire[e], "OPEN", i)
    BY <1>3, HeadHas
  <2>2. ~Has(wire["pop"], "OPEN", i)
    BY <1>1 DEF StreamInv, OpenInv
  <2> QED
    BY <2>1, <2>2 DEF Ends
<1>5. /\ inMap' = [inMap EXCEPT ![e] = inMap[e] \cup {i}]
      /\ writer' = [writer EXCEPT ![e][i] = "dial"]
  BY <1>3, <1>4 DEF RecvOpen
<1>6. ASSUME NEW d \in Ends, NEW j \in Ids, d # e \/ j # i PROVE SameEnd(d, j)
  <2>1. writer'[d][j] = writer[d][j]
    BY <1>1, <1>5, <1>6 DEF TypeOK
  <2>2. j \in inMap'[d] <=> j \in inMap[d]
    BY <1>1, <1>5, <1>6 DEF TypeOK
  <2> QED
    BY <1>2, <2>1, <2>2 DEF SameEnd, Pending
<1>7. /\ writer'["connector"][i] = "dial" /\ i \in inMap'["connector"]
      /\ Pending("connector", i)' = Pending("connector", i)
  BY <1>1, <1>2, <1>4, <1>5, TwoEnds DEF TypeOK, Pending
<1>8. SameEnd("pop", i) /\ wire'["pop"] = wire["pop"]
  BY <1>3, <1>4, <1>6, TwoEnds
<1>9. StreamInv(i)'
  BY <1>1, <1>2, <1>3, <1>4, <1>7, <1>8, AcceptStep
<1> QED
  BY <1>1, <1>3, <1>6, <1>9, OneStream

\* DATA arrives.
LEMMA RecvDataStream ==
  ASSUME IInv, NEW e \in Ends, RecvData(e)
  PROVE  \A j \in Ids : StreamInv(j)'
<1>1. TypeOK /\ \A j \in Ids : StreamInv(j)
  BY DEF IInv
<1>2. /\ Takes(e, "DATA") /\ wire' = Consumed(e) /\ link' = link /\ inMap' = inMap
      /\ inbound' = inbound /\ remoteEOF' = remoteEOF
      /\ resetErr' = resetErr /\ localDone' = localDone /\ sent' = sent /\ got' = got
      /\ reader' = reader /\ writer' = writer
      /\ loop' = IF Head(wire[e]).id \in inMap[e] THEN [loop EXCEPT ![e] = {Head(wire[e])}]
                 ELSE loop
  BY DEF RecvData, streamVars, pumpVars
<1>3. PICK i \in Ids :
        /\ i = Head(wire[e]).id /\ IsFrame(Head(wire[e]), "DATA", i) /\ wire[e] \in Seq(Frame)
        /\ wire[e] # <<>> /\ loop[e] = {} /\ link
        /\ \A j \in Ids : j # i => SameWires(j)
  BY <1>2, FrameTaken
<1>4. CASE i \in inMap[e]
  <2>1. /\ loop'[e] = {Head(wire[e])} /\ \A d \in Ends : d # e => loop'[d] = loop[d]
    BY <1>1, <1>2, <1>3, <1>4 DEF TypeOK
  <2>2. Pending(e, i)' = {Head(wire[e])} /\ Pending(e, i) = {}
    BY <1>3, <2>1 DEF Pending
  <2>3. \A d \in Ends, j \in Ids : d # e \/ j # i => Pending(d, j)' = Pending(d, j)
    BY <1>3, <2>1 DEF Pending
  <2>4. \A d \in Ends, j \in Ids : d # e \/ j # i => SameEnd(d, j)
    BY <1>2, <2>3 DEF SameEnd
  <2>5. SameEnd(Peer(e), i)
    BY <2>4, TwoEnds
  <2>6. StreamInv(i)'
    BY <1>1, <1>2, <1>3, <1>4, <2>2, <2>5, TakeStep
  <2> QED
    BY <1>1, <1>3, <2>4, <2>6, OneStream
<1>5. CASE i \notin inMap[e]
  <2>1. loop' = loop
    BY <1>2, <1>3, <1>5
  <2>2. \A d \in Ends, j \in Ids : SameEnd(d, j)
    BY <1>2, <2>1 DEF SameEnd, Pending
  <2>3. StreamInv(i)'
    BY <1>1, <1>2, <1>3, <1>5, <2>2, LateStep
  <2> QED
    BY <1>1, <1>3, <2>2, <2>3, OneStream
<1> QED
  BY <1>4, <1>5

\* deliver gets rid of the chunk.
LEMMA DeliverStream ==
  ASSUME IInv, NEW e \in Ends, Deliver(e)
  PROVE  \A j \in Ids : StreamInv(j)'
<1>1. TypeOK /\ MuxInv /\ \A j \in Ids : StreamInv(j)
  BY DEF IInv
<1>2. /\ wire' = wire /\ link' = link /\ inMap' = inMap /\ remoteEOF' = remoteEOF
      /\ resetErr' = resetErr /\ localDone' = localDone /\ sent' = sent /\ got' = got
      /\ reader' = reader /\ writer' = writer /\ loop' = [loop EXCEPT ![e] = {}]
  BY DEF Deliver, pumpVars
<1>3. PICK f \in loop[e] :
        \/ inbound' = [inbound EXCEPT ![e][f.id] = Append(inbound[e][f.id], f.n)]
        \/ resetErr[e][f.id] # "none" /\ inbound' = inbound
  BY DEF Deliver
<1>4. f \in Frame /\ loop[e] = {f} /\ f.id \in Ids
  <2>1. f \in Frame
    BY <1>1, <1>3 DEF TypeOK
  <2> QED
    BY <1>1, <2>1 DEF MuxInv, Frame
<1>5. PICK i \in Ids : i = f.id
  BY <1>4
<1>6. loop'[e] = {} /\ \A d \in Ends : d # e => loop'[d] = loop[d]
  BY <1>1, <1>2 DEF TypeOK
<1>7. Pending(e, i) = {f} /\ Pending(e, i)' = {}
  BY <1>4, <1>5, <1>6 DEF Pending
<1>8. ASSUME NEW d \in Ends, NEW j \in Ids, d # e \/ j # i PROVE SameEnd(d, j)
  <2>1. Pending(d, j)' = Pending(d, j)
    BY <1>4, <1>5, <1>6, <1>8 DEF Pending
  <2>2. inbound'[d][j] = inbound[d][j]
    <3>1. CASE inbound' = inbound
      BY <3>1
    <3>2. CASE inbound' = [inbound EXCEPT ![e][i] = Append(inbound[e][i], f.n)]
      BY <1>1, <1>8, <3>2 DEF TypeOK
    <3> QED
      BY <1>3, <1>5, <3>1, <3>2
  <2> QED
    BY <1>2, <2>1, <2>2 DEF SameEnd
<1>9. \/ inbound'[e][i] = Append(inbound[e][i], f.n)
      \/ resetErr[e][i] # "none" /\ inbound'[e][i] = inbound[e][i]
  BY <1>1, <1>3, <1>5 DEF TypeOK
<1>10. SameEnd(Peer(e), i)
  BY <1>8, TwoEnds
<1>11. StreamInv(i)'
  BY <1>1, <1>2, <1>4, <1>7, <1>9, <1>10, DeliverStep
<1>12. \A j \in Ids : SameWires(j)
  BY <1>1, <1>2, WiresOfOthers
<1> QED
  BY <1>1, <1>8, <1>11, <1>12, OneStream

\* The channels, with the end mark in that of stream i.
Marked(e, i) == [inbound EXCEPT ![e][i] = Append(inbound[e][i], Sentinel)]

\* What the arrival of a CLOSE changes, and what it leaves alone.
LEMMA CloseEffect ==
  ASSUME NEW e, RecvClose(e), NEW i, i = Head(wire[e]).id
  PROVE  /\ Takes(e, "CLOSE") /\ wire' = Consumed(e) /\ link' = link /\ loop' = loop
         /\ closed' = closed /\ resetErr' = resetErr /\ localDone' = localDone
         /\ sent' = sent /\ got' = got /\ reader' = reader /\ writer' = writer
         /\ i \in inMap[e] =>
              /\ remoteEOF' = [remoteEOF EXCEPT ![e][i] = TRUE]
              /\ (Len(inbound[e][i]) < Cap /\ inbound' = Marked(e, i)) \/ inbound' = inbound
              /\ inMap' = [inMap EXCEPT ![e] = Reaped(e, i, localDone[e][i])]
         /\ i \notin inMap[e] => remoteEOF' = remoteEOF /\ inbound' = inbound /\ inMap' = inMap
BY Zenon DEF RecvClose, Marked, pumpVars

\* CLOSE arrives.
LEMMA RecvCloseStream ==
  ASSUME IInv, NEW e \in Ends, RecvClose(e)
  PROVE  \A j \in Ids : StreamInv(j)'
<1>1. TypeOK /\ \A j \in Ids : StreamInv(j)
  BY DEF IInv
<1>2. /\ Takes(e, "CLOSE") /\ wire' = Consumed(e) /\ link' = link /\ loop' = loop
      /\ resetErr' = resetErr /\ localDone' = localDone /\ sent' = sent /\ got' = got
      /\ reader' = reader /\ writer' = writer
  BY Zenon, CloseEffect
<1>3. PICK i \in Ids :
        /\ i = Head(wire[e]).id /\ IsFrame(Head(wire[e]), "CLOSE", i) /\ wire[e] \in Seq(Frame)
        /\ wire[e] # <<>> /\ loop[e] = {} /\ link /\ wire'[e] = Tail(wire[e])
        /\ \A d \in Ends : d # e => wire'[d] = wire[d]
        /\ \A j \in Ids : j # i => SameWires(j)
  BY <1>2, FrameTaken
<1>4. CASE i \in inMap[e]
  <2>1. /\ remoteEOF' = [remoteEOF EXCEPT ![e][i] = TRUE]
        /\ inbound' = Marked(e, i) \/ inbound' = inbound
        /\ inMap' = [inMap EXCEPT ![e] = Reaped(e, i, localDone[e][i])]
    BY Zenon, <1>3, <1>4, CloseEffect
  <2>2. ASSUME NEW d \in Ends, NEW j \in Ids, d # e \/ j # i PROVE SameEnd(d, j)
    <3>1. remoteEOF'[d][j] = remoteEOF[d][j]
      BY <1>1, <2>1, <2>2 DEF TypeOK
    <3>2. inbound'[d][j] = inbound[d][j]
      BY <1>1, <2>1, <2>2 DEF Marked, TypeOK
    <3>3. j \in inMap'[d] <=> j \in inMap[d]
      <4>1. inMap'[e] = Reaped(e, i, localDone[e][i]) /\ (d # e => inMap'[d] = inMap[d])
        BY <1>1, <2>1 DEF TypeOK
      <4> QED
        BY <2>2, <4>1 DEF Reaped
    <3> QED
      BY <1>2, <3>1, <3>2, <3>3 DEF SameEnd, Pending
  <2>3. remoteEOF'[e][i] = TRUE
    BY <1>1, <2>1 DEF TypeOK
  <2>4. inbound'[e][i] = Append(inbound[e][i], Sentinel) \/ inbound'[e][i] = inbound[e][i]
    BY <1>1, <2>1 DEF Marked, TypeOK
  <2>5. SameEnd(Peer(e), i) /\ Pending(e, i) = {} /\ Pending(e, i)' = {}
    <3>1. Peer(e) \in Ends /\ Peer(e) # e
      BY TwoEnds
    <3> QED
      BY Zenon, <1>2, <1>3, <2>2, <3>1 DEF Pending
  <2>6. StreamInv(i)'
    BY Zenon, <1>1, <1>2, <1>3, <1>4, <2>3, <2>4, <2>5, CloseStep
  <2> QED
    BY <1>1, <1>3, <2>2, <2>6, OneStream
<1>5. CASE i \notin inMap[e]
  <2>1. remoteEOF' = remoteEOF /\ inbound' = inbound /\ inMap' = inMap
    BY Zenon, <1>3, <1>5, CloseEffect
  <2>2. \A d \in Ends, j \in Ids : SameEnd(d, j)
    BY <1>2, <2>1 DEF SameEnd, Pending
  <2>3. SameFrames(wire[e], wire'[e], i)
    BY <1>3, ResetFrames
  <2>4. \A d \in Ends : SameFrames(wire[d], wire[d], i)
    BY <1>1, OtherFrames DEF TypeOK
  <2>5. SameWires(i)
    BY <1>2, <1>3, <2>3, <2>4 DEF SameWires
  <2>6. \A j \in Ids : SameWires(j)
    BY <1>3, <2>5
  <2> QED
    BY <1>1, <2>2, <2>6, OtherStream
<1> QED
  BY <1>4, <1>5

-----------------------------------------------------------------------------
(* Types, and the connection. *)

\* A frame is written, or taken: the connection holds frames, and none when down.
LEMMA WiresTyped ==
  ASSUME TypeOK, MuxInv
  PROVE  /\ Ends # {}
         /\ \A e \in Ends : \A f \in Frame :
              Wrote(e, f) \in [Ends -> Seq(Frame)] /\ (~link => Wrote(e, f) = wire)
         /\ \A e \in Ends : wire[e] # <<>> => Consumed(e) \in [Ends -> Seq(Frame)] /\ link
<1>1. \A e \in Ends : wire[e] \in Seq(Frame) /\ Peer(e) \in Ends
  BY TwoEnds DEF TypeOK
<1>2. ASSUME NEW e \in Ends, NEW f \in Frame
      PROVE  Wrote(e, f) \in [Ends -> Seq(Frame)] /\ (~link => Wrote(e, f) = wire)
  <2>1. Append(wire[Peer(e)], f) \in Seq(Frame)
    BY <1>1, AppendAt
  <2> QED
    BY <1>1, <2>1 DEF Wrote, TypeOK
<1>3. ASSUME NEW e \in Ends, wire[e] # <<>> PROVE Consumed(e) \in [Ends -> Seq(Frame)] /\ link
  <2>1. Tail(wire[e]) \in Seq(Frame)
    BY <1>1, <1>3, TailAt
  <2> QED
    BY <1>1, <1>3, <2>1 DEF Consumed, TypeOK, MuxInv
<1> QED
  BY <1>2, <1>3, TwoEnds

\* The frames the model writes.
LEMMA FramesTyped ==
  ASSUME TypeOK, NEW i \in Ids
  PROVE  /\ [type |-> "OPEN", id |-> i, n |-> 0] \in Frame
         /\ [type |-> "RST", id |-> i, n |-> 0] \in Frame
         /\ [type |-> "CLOSE", id |-> i, n |-> 0] \in Frame
         /\ \A e \in Ends : sent[e][i] < MaxData =>
              /\ sent[e][i] + 1 \in 0 .. MaxData
              /\ [type |-> "DATA", id |-> i, n |-> sent[e][i] + 1] \in Frame
<1>1. 0 \in 0 .. MaxData
  BY CapAssumption
<1>2. ASSUME NEW e \in Ends, sent[e][i] < MaxData PROVE sent[e][i] + 1 \in 0 .. MaxData
  <2>1. sent[e][i] \in 0 .. MaxData
    BY DEF TypeOK
  <2> QED
    BY <1>2, <2>1, CapAssumption
<1> QED
  BY <1>1, <1>2 DEF Frame

\* One stream of one end is updated.
LEMMA Updated ==
  ASSUME NEW S, NEW F \in [Ends -> [Ids -> S]], NEW e \in Ends, NEW i \in Ids, NEW x \in S
  PROVE  /\ [F EXCEPT ![e][i] = x] \in [Ends -> [Ids -> S]]
         /\ \A d \in Ends, j \in Ids :
              [F EXCEPT ![e][i] = x][d][j] = IF d = e /\ j = i THEN x ELSE F[d][j]
OBVIOUS

\* A step of the connection or of the read loops keeps the types.
LEMMA LoopTypes ==
  ASSUME IInv, NEW e \in Ends,
         LinkFail \/ RecvOpen(e) \/ RecvData(e) \/ Deliver(e) \/ RecvClose(e) \/ RecvReset(e)
           \/ CloseAll(e)
  PROVE  TypeOK' /\ MuxInv'
<1>1. TypeOK /\ MuxInv
  BY DEF IInv
<1>a. /\ inMap \in [Ends -> SUBSET Ids] /\ remoteEOF \in [Ends -> [Ids -> BOOLEAN]]
      /\ resetErr \in [Ends -> [Ids -> {"none", "reset", "mux"}]]
      /\ writer \in [Ends -> [Ids -> {"none", "dial", "run", "closing", "done"}]]
  BY <1>1 DEF TypeOK
<1>2. CASE LinkFail
  <2>1. wire' = [d \in Ends |-> <<>>] /\ link' = FALSE /\ UNCHANGED <<loop, closed>>
    BY <1>2 DEF LinkFail
  <2>2. wire' \in [Ends -> Seq(Frame)] /\ \A d \in Ends : wire'[d] = <<>>
    BY <2>1
  <2>3. TypeOK'
    BY <1>1, <1>2, <2>1, <2>2 DEF LinkFail, TypeOK, streamVars, pumpVars
  <2> QED
    BY <1>1, <2>1, <2>2, <2>3 DEF MuxInv
<1>3. CASE RecvOpen(e)
  <2>1. wire' \in [Ends -> Seq(Frame)] /\ link /\ link' = link /\ loop' = loop /\ closed' = closed
    BY <1>1, <1>3, WiresTyped DEF RecvOpen, Takes
  <2>2. PICK i \in Ids : i = Head(wire[e]).id
    BY <1>3, FrameTaken DEF RecvOpen
  <2>3. /\ inMap' \in [Ends -> SUBSET Ids]
        /\ writer' \in [Ends -> [Ids -> {"none", "dial", "run", "closing", "done"}]]
    <3>1. inMap' = inMap \/ inMap' = [inMap EXCEPT ![e] = inMap[e] \cup {i}]
      BY <1>3, <2>2 DEF RecvOpen
    <3>2. writer' = writer \/ writer' = [writer EXCEPT ![e][i] = "dial"]
      BY <1>3, <2>2 DEF RecvOpen
    <3>3. inMap' \in [Ends -> SUBSET Ids]
      BY <1>a, <3>1
    <3>4. writer' \in [Ends -> [Ids -> {"none", "dial", "run", "closing", "done"}]]
      <4>1. [writer EXCEPT ![e][i] = "dial"] \in [Ends -> [Ids -> {"none", "dial", "run", "closing", "done"}]]
        <5>1. "dial" \in {"none", "dial", "run", "closing", "done"}
          OBVIOUS
        <5> QED
          BY <1>a, <5>1, Updated
      <4> QED
        BY <1>a, <3>2, <4>1
    <3> QED
      BY <3>3, <3>4
  <2> QED
    BY <1>1, <1>3, <2>1, <2>3 DEF RecvOpen, TypeOK, MuxInv, streamVars
<1>4. CASE RecvData(e)
  <2>1. wire' \in [Ends -> Seq(Frame)] /\ link /\ link' = link /\ closed' = closed
    BY <1>1, <1>4, WiresTyped DEF RecvData, Takes
  <2>2. Head(wire[e]) \in Frame
    BY <1>4, FrameTaken DEF RecvData
  <2>3. loop' \in [Ends -> SUBSET Frame] /\ \A d \in Ends : \A f, g \in loop'[d] : f = g
    BY <1>1, <1>4, <2>2 DEF RecvData, TypeOK, MuxInv
  <2> QED
    BY <1>1, <1>4, <2>1, <2>3 DEF RecvData, TypeOK, MuxInv, streamVars, pumpVars
<1>5. CASE Deliver(e)
  <2>1. PICK f \in loop[e] :
          \/ /\ Len(inbound[e][f.id]) < Cap
             /\ inbound' = [inbound EXCEPT ![e][f.id] = Append(inbound[e][f.id], f.n)]
          \/ inbound' = inbound
    BY <1>5 DEF Deliver
  <2>2. f.id \in Ids /\ f.n \in 0 .. MaxData
    <3>1. f \in Frame
      BY <1>1, <2>1 DEF TypeOK
    <3> QED
      BY <3>1 DEF Frame
  <2>3. /\ inbound' \in [Ends -> [Ids -> Seq(0 .. MaxData)]]
        /\ \A d \in Ends, j \in Ids : Len(inbound'[d][j]) <= Cap
    <3>1. CASE inbound' = inbound
      BY <1>1, <3>1 DEF TypeOK
    <3>2. CASE /\ Len(inbound[e][f.id]) < Cap
               /\ inbound' = [inbound EXCEPT ![e][f.id] = Append(inbound[e][f.id], f.n)]
      <4> DEFINE q == inbound[e][f.id]
      <4>1. q \in Seq(0 .. MaxData) /\ inbound \in [Ends -> [Ids -> Seq(0 .. MaxData)]]
        BY <1>1, <2>2 DEF TypeOK
      <4>2. Append(q, f.n) \in Seq(0 .. MaxData) /\ Len(Append(q, f.n)) = Len(q) + 1 /\ Len(q) \in Nat
        BY <2>2, <4>1, AppendAt
      <4>3. Len(Append(q, f.n)) <= Cap
        BY <3>2, <4>2, CapAssumption
      <4> HIDE DEF q
      <4>4. \A d \in Ends, j \in Ids :
              inbound'[d][j] = IF d = e /\ j = f.id THEN Append(q, f.n) ELSE inbound[d][j]
        BY <2>2, <3>2, <4>1, <4>2, Updated DEF q
      <4>5. inbound' \in [Ends -> [Ids -> Seq(0 .. MaxData)]]
        BY <2>2, <3>2, <4>1, <4>2, Updated DEF q
      <4>6. \A d \in Ends, j \in Ids : Len(inbound[d][j]) <= Cap
        BY <1>1 DEF TypeOK
      <4> QED
        BY <4>3, <4>4, <4>5, <4>6
    <3> QED
      BY <2>1, <3>1, <3>2
  <2>4. loop' \in [Ends -> SUBSET Frame] /\ \A d \in Ends : \A h, g \in loop'[d] : h = g
    BY <1>1, <1>5 DEF Deliver, TypeOK, MuxInv
  <2> QED
    BY <1>1, <1>5, <2>3, <2>4 DEF Deliver, TypeOK, MuxInv, pumpVars
<1>6. CASE RecvClose(e)
  <2>0. /\ Takes(e, "CLOSE") /\ wire' = Consumed(e) /\ link' = link /\ loop' = loop
        /\ closed' = closed /\ resetErr' = resetErr /\ localDone' = localDone
        /\ sent' = sent /\ got' = got /\ reader' = reader /\ writer' = writer
    BY Zenon, <1>6, CloseEffect
  <2>1. wire' \in [Ends -> Seq(Frame)] /\ link
    BY <1>1, <2>0, WiresTyped DEF Takes
  <2>2. PICK i \in Ids : i = Head(wire[e]).id
    BY Zenon, <2>0, FrameTaken
  <2>3. /\ inbound' \in [Ends -> [Ids -> Seq(0 .. MaxData)]]
        /\ \A d \in Ends, j \in Ids : Len(inbound'[d][j]) <= Cap
    <3>1. CASE inbound' = inbound
      BY <1>1, <3>1 DEF TypeOK
    <3>2. CASE Len(inbound[e][i]) < Cap /\ inbound' = Marked(e, i)
      <4> DEFINE q == inbound[e][i]
      <4>1. q \in Seq(0 .. MaxData) /\ inbound \in [Ends -> [Ids -> Seq(0 .. MaxData)]]
        BY <1>1 DEF TypeOK
      <4>2. /\ Append(q, Sentinel) \in Seq(0 .. MaxData) /\ Len(Append(q, Sentinel)) = Len(q) + 1
            /\ Len(q) \in Nat
        <5>1. Sentinel \in 0 .. MaxData
          BY CapAssumption DEF Sentinel
        <5> QED
          BY <4>1, <5>1, AppendAt
      <4>3. Len(Append(q, Sentinel)) <= Cap
        BY <3>2, <4>2, CapAssumption
      <4> HIDE DEF q
      <4>4. \A d \in Ends, j \in Ids :
              inbound'[d][j] = IF d = e /\ j = i THEN Append(q, Sentinel) ELSE inbound[d][j]
        BY <3>2, <4>1, <4>2, Updated DEF q, Marked
      <4>5. inbound' \in [Ends -> [Ids -> Seq(0 .. MaxData)]]
        BY <3>2, <4>1, <4>2, Updated DEF q, Marked
      <4>6. \A d \in Ends, j \in Ids : Len(inbound[d][j]) <= Cap
        BY <1>1 DEF TypeOK
      <4> QED
        BY <4>3, <4>4, <4>5, <4>6
    <3>3. (Len(inbound[e][i]) < Cap /\ inbound' = Marked(e, i)) \/ inbound' = inbound
      BY Zenon, <1>6, <2>2, CloseEffect
    <3> QED
      BY Zenon, <3>1, <3>2, <3>3
  <2>4. /\ inMap' \in [Ends -> SUBSET Ids] /\ remoteEOF' \in [Ends -> [Ids -> BOOLEAN]]
    <3>1. inMap' = inMap \/ inMap' = [inMap EXCEPT ![e] = Reaped(e, i, localDone[e][i])]
      BY Zenon, <1>6, <2>2, CloseEffect
    <3>2. remoteEOF' = remoteEOF \/ remoteEOF' = [remoteEOF EXCEPT ![e][i] = TRUE]
      BY Zenon, <1>6, <2>2, CloseEffect
    <3>3. Reaped(e, i, localDone[e][i]) \in SUBSET Ids
      BY <1>1 DEF TypeOK, Reaped
    <3>4. inMap' \in [Ends -> SUBSET Ids]
      BY <1>a, <3>1, <3>3
    <3>5. remoteEOF' \in [Ends -> [Ids -> BOOLEAN]]
      <4>1. [remoteEOF EXCEPT ![e][i] = TRUE] \in [Ends -> [Ids -> BOOLEAN]]
        <5>1. TRUE \in BOOLEAN
          OBVIOUS
        <5> QED
          BY <1>a, <5>1, Updated
      <4> QED
        BY <1>a, <3>2, <4>1
    <3> QED
      BY <3>4, <3>5
  <2> QED
    BY <1>1, <2>0, <2>1, <2>3, <2>4 DEF TypeOK, MuxInv
<1>7. CASE RecvReset(e)
  <2>1. /\ wire' \in [Ends -> Seq(Frame)] /\ link /\ link' = link /\ closed' = closed
        /\ loop' = loop
    BY <1>1, <1>7, WiresTyped DEF RecvReset, Takes
  <2>2. PICK i \in Ids : i = Head(wire[e]).id
    BY <1>7, FrameTaken DEF RecvReset
  <2>3. resetErr' \in [Ends -> [Ids -> {"none", "reset", "mux"}]] /\ inMap' \in [Ends -> SUBSET Ids]
    <3>1. inMap' = inMap \/ inMap' = [inMap EXCEPT ![e] = inMap[e] \ {i}]
      BY <1>7, <2>2 DEF RecvReset
    <3>2. resetErr' = resetErr \/ resetErr' = [resetErr EXCEPT ![e][i] = "reset"]
      BY <1>7, <2>2 DEF RecvReset, Shut
    <3>3. inMap' \in [Ends -> SUBSET Ids]
      BY <1>a, <3>1
    <3>4. resetErr' \in [Ends -> [Ids -> {"none", "reset", "mux"}]]
      <4>1. [resetErr EXCEPT ![e][i] = "reset"] \in [Ends -> [Ids -> {"none", "reset", "mux"}]]
        <5>1. "reset" \in {"none", "reset", "mux"}
          OBVIOUS
        <5> QED
          BY <1>a, <5>1, Updated
      <4> QED
        BY <1>a, <3>2, <4>1
    <3> QED
      BY <3>3, <3>4
  <2> QED
    BY <1>1, <1>7, <2>1, <2>3 DEF RecvReset, TypeOK, MuxInv, pumpVars
<1>8. CASE CloseAll(e)
  <2>1. /\ resetErr' \in [Ends -> [Ids -> {"none", "reset", "mux"}]]
        /\ inMap' \in [Ends -> SUBSET Ids] /\ closed' \in [Ends -> BOOLEAN]
        /\ link' = FALSE /\ wire' = [d \in Ends |-> <<>>]
    BY <1>1, <1>8 DEF CloseAll, TypeOK
  <2>2. wire' \in [Ends -> Seq(Frame)] /\ \A d \in Ends : wire'[d] = <<>>
    BY <2>1
  <2>3. TypeOK'
    BY <1>1, <1>8, <2>1, <2>2 DEF CloseAll, TypeOK, pumpVars
  <2>4. loop' = loop
    BY <1>8 DEF CloseAll
  <2> QED
    BY <1>1, <2>1, <2>2, <2>3, <2>4 DEF MuxInv
<1> QED
  BY <1>2, <1>3, <1>4, <1>5, <1>6, <1>7, <1>8

\* The values a stream's variables may take, updated.
LEMMA StreamTypes ==
  ASSUME TypeOK, NEW e \in Ends, NEW i \in Ids
  PROVE  /\ \A x \in {"none", "dial", "run", "closing", "done"} :
              [writer EXCEPT ![e][i] = x]
                \in [Ends -> [Ids -> {"none", "dial", "run", "closing", "done"}]]
         /\ \A x \in {"none", "run", "select"} \cup Finished :
              [reader EXCEPT ![e][i] = x] \in [Ends -> [Ids -> {"none", "run", "select"} \cup Finished]]
         /\ \A x \in {"none", "reset", "mux"} :
              [resetErr EXCEPT ![e][i] = x] \in [Ends -> [Ids -> {"none", "reset", "mux"}]]
         /\ [localDone EXCEPT ![e][i] = TRUE] \in [Ends -> [Ids -> BOOLEAN]]
         /\ \A x \in 0 .. MaxData : [sent EXCEPT ![e][i] = x] \in [Ends -> [Ids -> 0 .. MaxData]]
         /\ \A x \in Seq(1 .. MaxData) :
              [got EXCEPT ![e][i] = x] \in [Ends -> [Ids -> Seq(1 .. MaxData)]]
         /\ \A x \in SUBSET Ids : [inMap EXCEPT ![e] = x] \in [Ends -> SUBSET Ids]
         /\ \A x \in Seq(0 .. MaxData) : Len(x) <= Cap =>
              /\ [inbound EXCEPT ![e][i] = x] \in [Ends -> [Ids -> Seq(0 .. MaxData)]]
              /\ \A d \in Ends, j \in Ids : Len([inbound EXCEPT ![e][i] = x][d][j]) <= Cap
<1>1. writer \in [Ends -> [Ids -> {"none", "dial", "run", "closing", "done"}]]
  BY DEF TypeOK
<1>2. reader \in [Ends -> [Ids -> {"none", "run", "select"} \cup Finished]]
  BY DEF TypeOK
<1>3. resetErr \in [Ends -> [Ids -> {"none", "reset", "mux"}]]
  BY DEF TypeOK
<1>4. localDone \in [Ends -> [Ids -> BOOLEAN]] /\ TRUE \in BOOLEAN
  BY DEF TypeOK
<1>5. sent \in [Ends -> [Ids -> 0 .. MaxData]]
  BY DEF TypeOK
<1>6. got \in [Ends -> [Ids -> Seq(1 .. MaxData)]]
  BY DEF TypeOK
<1>7. inMap \in [Ends -> SUBSET Ids]
  BY DEF TypeOK
<1>8. /\ inbound \in [Ends -> [Ids -> Seq(0 .. MaxData)]]
      /\ \A d \in Ends, j \in Ids : Len(inbound[d][j]) <= Cap
  BY DEF TypeOK
<1>9. ASSUME NEW x \in Seq(0 .. MaxData), Len(x) <= Cap
      PROVE  /\ [inbound EXCEPT ![e][i] = x] \in [Ends -> [Ids -> Seq(0 .. MaxData)]]
             /\ \A d \in Ends, j \in Ids : Len([inbound EXCEPT ![e][i] = x][d][j]) <= Cap
  <2>1. /\ [inbound EXCEPT ![e][i] = x] \in [Ends -> [Ids -> Seq(0 .. MaxData)]]
        /\ \A d \in Ends, j \in Ids :
             [inbound EXCEPT ![e][i] = x][d][j] = IF d = e /\ j = i THEN x ELSE inbound[d][j]
    BY <1>8, Updated
  <2> QED
    BY <1>8, <1>9, <2>1
<1>10. \A x \in {"none", "dial", "run", "closing", "done"} :
         [writer EXCEPT ![e][i] = x]
           \in [Ends -> [Ids -> {"none", "dial", "run", "closing", "done"}]]
  BY <1>1, Updated
<1>11. \A x \in {"none", "run", "select"} \cup Finished :
         [reader EXCEPT ![e][i] = x] \in [Ends -> [Ids -> {"none", "run", "select"} \cup Finished]]
  BY <1>2, Updated
<1>12. \A x \in {"none", "reset", "mux"} :
         [resetErr EXCEPT ![e][i] = x] \in [Ends -> [Ids -> {"none", "reset", "mux"}]]
  BY <1>3, Updated
<1>13. [localDone EXCEPT ![e][i] = TRUE] \in [Ends -> [Ids -> BOOLEAN]]
  BY <1>4, Updated
<1>14. \A x \in 0 .. MaxData : [sent EXCEPT ![e][i] = x] \in [Ends -> [Ids -> 0 .. MaxData]]
  BY <1>5, Updated
<1>15. \A x \in Seq(1 .. MaxData) :
         [got EXCEPT ![e][i] = x] \in [Ends -> [Ids -> Seq(1 .. MaxData)]]
  BY <1>6, Updated
<1>16. \A x \in SUBSET Ids : [inMap EXCEPT ![e] = x] \in [Ends -> SUBSET Ids]
  BY <1>7
<1> QED
  BY <1>9, <1>10, <1>11, <1>12, <1>13, <1>14, <1>15, <1>16

\* A pump's step keeps the types.
LEMMA PumpTypes ==
  ASSUME IInv, NEW e \in Ends, NEW i \in Ids,
         Write(e, i) \/ WriteFail(e, i) \/ CloseStream(e, i) \/ SendClose(e, i)
  PROVE  TypeOK' /\ MuxInv'
<1>1. TypeOK /\ MuxInv
  BY DEF IInv
<1>2. CASE Write(e, i)
  <2>1. /\ sent[e][i] + 1 \in 0 .. MaxData
        /\ [type |-> "DATA", id |-> i, n |-> sent[e][i] + 1] \in Frame
    BY <1>1, <1>2, FramesTyped DEF Write
  <2>2. wire' \in [Ends -> Seq(Frame)] /\ link /\ link' = link /\ loop' = loop /\ closed' = closed
    BY <1>1, <1>2, <2>1, WiresTyped DEF Write
  <2>3. sent' \in [Ends -> [Ids -> 0 .. MaxData]]
    BY <1>1, <1>2, <2>1, StreamTypes DEF Write
  <2> QED
    BY <1>1, <1>2, <2>2, <2>3 DEF Write, TypeOK, MuxInv, streamVars
<1>3. CASE WriteFail(e, i)
  <2>1. inMap[e] \ {i} \in SUBSET Ids
    BY <1>1 DEF TypeOK
  <2>2. inMap' \in [Ends -> SUBSET Ids]
    BY <1>1, <1>3, <2>1, StreamTypes DEF WriteFail
  <2>3. resetErr' \in [Ends -> [Ids -> {"none", "reset", "mux"}]]
    BY <1>1, <1>3, StreamTypes DEF WriteFail, Shut
  <2> QED
    BY <1>1, <1>3, <2>2, <2>3 DEF WriteFail, TypeOK, MuxInv, pumpVars
<1>4. CASE CloseStream(e, i)
  <2>1. /\ writer' \in [Ends -> [Ids -> {"none", "dial", "run", "closing", "done"}]]
        /\ localDone' \in [Ends -> [Ids -> BOOLEAN]]
    BY <1>1, <1>4, StreamTypes DEF CloseStream
  <2> QED
    BY <1>1, <1>4, <2>1 DEF CloseStream, TypeOK, MuxInv, muxVars
<1>5. CASE SendClose(e, i)
  <2>1. [type |-> "CLOSE", id |-> i, n |-> 0] \in Frame
    BY <1>1, FramesTyped
  <2>2. /\ wire' \in [Ends -> Seq(Frame)] /\ link' = link /\ loop' = loop /\ closed' = closed
        /\ ~link => wire' = wire
    BY <1>1, <1>5, <2>1, WiresTyped DEF SendClose
  <2>3. Reaped(e, i, remoteEOF[e][i]) \in SUBSET Ids
    BY <1>1 DEF TypeOK, Reaped
  <2>4. /\ writer' \in [Ends -> [Ids -> {"none", "dial", "run", "closing", "done"}]]
        /\ inMap' \in [Ends -> SUBSET Ids]
    BY <1>1, <1>5, <2>3, StreamTypes DEF SendClose
  <2> QED
    BY <1>1, <1>5, <2>2, <2>4 DEF SendClose, TypeOK, MuxInv, streamVars
<1> QED
  BY <1>2, <1>3, <1>4, <1>5

\* A stream is opened, or its dial ends: the types are kept.
LEMMA OpenTypes ==
  ASSUME IInv, NEW i \in Ids, OpenStream(i) \/ DialOK(i) \/ DialFail(i)
  PROVE  TypeOK' /\ MuxInv'
<1>1. TypeOK /\ MuxInv
  BY DEF IInv
<1>2. CASE OpenStream(i)
  <2>1. [type |-> "OPEN", id |-> i, n |-> 0] \in Frame
    BY <1>1, FramesTyped
  <2>2. wire' \in [Ends -> Seq(Frame)] /\ link /\ link' = link /\ loop' = loop /\ closed' = closed
    BY <1>1, <1>2, <2>1, WiresTyped, TwoEnds DEF OpenStream
  <2>3. inMap["pop"] \cup {i} \in SUBSET Ids
    BY <1>1, TwoEnds DEF TypeOK
  <2>4. /\ writer' \in [Ends -> [Ids -> {"none", "dial", "run", "closing", "done"}]]
        /\ reader' \in [Ends -> [Ids -> {"none", "run", "select"} \cup Finished]]
        /\ inMap' \in [Ends -> SUBSET Ids]
    BY <1>1, <1>2, <2>3, StreamTypes, TwoEnds DEF OpenStream
  <2> QED
    BY <1>1, <1>2, <2>2, <2>4 DEF OpenStream, TypeOK, MuxInv, streamVars
<1>3. CASE DialOK(i)
  <2>1. /\ writer' \in [Ends -> [Ids -> {"none", "dial", "run", "closing", "done"}]]
        /\ reader' \in [Ends -> [Ids -> {"none", "run", "select"} \cup Finished]]
    BY <1>1, <1>3, StreamTypes, TwoEnds DEF DialOK
  <2> QED
    BY <1>1, <1>3, <2>1 DEF DialOK, TypeOK, MuxInv, muxVars, streamVars
<1>4. CASE DialFail(i)
  <2>1. [type |-> "RST", id |-> i, n |-> 0] \in Frame
    BY <1>1, FramesTyped
  <2>2. /\ wire' \in [Ends -> Seq(Frame)] /\ link' = link /\ loop' = loop /\ closed' = closed
        /\ ~link => wire' = wire
    <3>1. wire \in [Ends -> Seq(Frame)]
      BY <1>1 DEF TypeOK
    <3> QED
      BY <1>1, <1>4, <2>1, <3>1, WiresTyped, TwoEnds DEF DialFail
  <2>3. inMap["connector"] \ {i} \in SUBSET Ids
    BY <1>1, TwoEnds DEF TypeOK
  <2>4. /\ writer' \in [Ends -> [Ids -> {"none", "dial", "run", "closing", "done"}]]
        /\ inMap' \in [Ends -> SUBSET Ids]
    BY <1>1, <1>4, <2>3, StreamTypes, TwoEnds DEF DialFail
  <2>5. resetErr' \in [Ends -> [Ids -> {"none", "reset", "mux"}]]
    <3>1. resetErr \in [Ends -> [Ids -> {"none", "reset", "mux"}]]
      BY <1>1 DEF TypeOK
    <3> QED
      BY <1>1, <1>4, <3>1, StreamTypes, TwoEnds DEF DialFail, Shut
  <2> QED
    BY <1>1, <1>4, <2>2, <2>4, <2>5 DEF DialFail, TypeOK, MuxInv
<1> QED
  BY <1>2, <1>3, <1>4

\* A reader's step keeps the types.
LEMMA ReaderTypes ==
  ASSUME IInv, NEW e \in Ends, NEW i \in Ids,
         ReadCall(e, i) \/ ReadChunk(e, i) \/ ReadEOF(e, i) \/ ReadDone(e, i) \/ SinkFail(e, i)
  PROVE  TypeOK' /\ MuxInv'
<1> DEFINE q == inbound[e][i]
<1>1. TypeOK /\ MuxInv
  BY DEF IInv
<1>2. reader' \in [Ends -> [Ids -> {"none", "run", "select"} \cup Finished]]
  <2>1. reader[e][i] \in {"none", "run", "select"} \cup Finished
    BY <1>1 DEF TypeOK
  <2>2. PICK x \in {"none", "run", "select"} \cup Finished : reader' = [reader EXCEPT ![e][i] = x]
    BY <2>1 DEF ReadCall, ReadChunk, ReadEOF, ReadDone, SinkFail, Finished
  <2>3. [reader EXCEPT ![e][i] = x] \in [Ends -> [Ids -> {"none", "run", "select"} \cup Finished]]
    BY <1>1, StreamTypes
  <2> QED
    BY <2>2, <2>3
<1>3. CASE ReadCall(e, i) \/ ReadDone(e, i) \/ SinkFail(e, i)
  <2>1. UNCHANGED <<link, wire, loop, closed, inMap, inbound, remoteEOF, resetErr, localDone,
                    writer, sent, got>>
    BY <1>3 DEF ReadCall, ReadDone, SinkFail, muxVars, streamVars
  <2> QED
    BY <1>1, <1>2, <2>1 DEF TypeOK, MuxInv
<1>4. ASSUME q # <<>>
      PROVE  /\ [inbound EXCEPT ![e][i] = Tail(q)] \in [Ends -> [Ids -> Seq(0 .. MaxData)]]
             /\ \A d \in Ends, j \in Ids : Len([inbound EXCEPT ![e][i] = Tail(q)][d][j]) <= Cap
  <2>1. q \in Seq(0 .. MaxData) /\ Len(q) <= Cap
    BY <1>1 DEF TypeOK
  <2>2. Tail(q) \in Seq(0 .. MaxData) /\ Len(q) \in Nat /\ Len(Tail(q)) = Len(q) - 1
    BY <1>4, <2>1, TailAt
  <2>3. Len(Tail(q)) <= Cap
    BY <2>1, <2>2, CapAssumption
  <2> QED
    BY <1>1, <2>2, <2>3, StreamTypes
<1>5. CASE ReadChunk(e, i)
  <2>1. /\ q # <<>> /\ Head(q) # Sentinel /\ inbound' = [inbound EXCEPT ![e][i] = Tail(q)]
        /\ got' = [got EXCEPT ![e][i] = Append(got[e][i], Head(q))]
    BY <1>5 DEF ReadChunk
  <2>2. /\ q \in Seq(0 .. MaxData) /\ got[e][i] \in Seq(1 .. MaxData)
        /\ remoteEOF[e][i] \in BOOLEAN /\ InLine(got[e][i], q, remoteEOF[e][i])
    BY <1>1, EndTypes DEF IInv, StreamInv, ChannelInv
  <2>3. Head(q) \in 1 .. MaxData
    BY <2>1, <2>2, TakeChunk
  <2>4. Append(got[e][i], Head(q)) \in Seq(1 .. MaxData)
    BY <2>2, <2>3, AppendAt
  <2>5. got' \in [Ends -> [Ids -> Seq(1 .. MaxData)]]
    BY <1>1, <2>1, <2>4, StreamTypes
  <2>6. /\ inbound' \in [Ends -> [Ids -> Seq(0 .. MaxData)]]
        /\ \A d \in Ends, j \in Ids : Len(inbound'[d][j]) <= Cap
    BY <1>4, <2>1
  <2> HIDE DEF q
  <2> QED
    BY <1>1, <1>2, <1>5, <2>5, <2>6 DEF ReadChunk, TypeOK, MuxInv, muxVars
<1>6. CASE ReadEOF(e, i)
  <2>1. q # <<>> /\ inbound' = [inbound EXCEPT ![e][i] = Tail(q)]
    BY <1>6 DEF ReadEOF
  <2>2. /\ inbound' \in [Ends -> [Ids -> Seq(0 .. MaxData)]]
        /\ \A d \in Ends, j \in Ids : Len(inbound'[d][j]) <= Cap
    BY <1>4, <2>1
  <2> HIDE DEF q
  <2> QED
    BY <1>1, <1>2, <1>6, <2>2 DEF ReadEOF, TypeOK, MuxInv, muxVars
<1> QED
  BY <1>3, <1>5, <1>6

-----------------------------------------------------------------------------
(* The invariant is inductive. *)

\* Initially.
LEMMA IInit ==
  ASSUME Init
  PROVE  IInv
<1>1. /\ \A d \in Ends : wire[d] = <<>> /\ loop[d] = {} /\ closed[d] = FALSE /\ inMap[d] = {}
      /\ \A d \in Ends, j \in Ids :
           /\ inbound[d][j] = <<>> /\ remoteEOF[d][j] = FALSE /\ resetErr[d][j] = "none"
           /\ localDone[d][j] = FALSE /\ writer[d][j] = "none" /\ reader[d][j] = "none"
           /\ sent[d][j] = 0 /\ got[d][j] = <<>>
  BY DEF Init, PerStream
<1>2. TypeOK
  <2>1. /\ inbound \in [Ends -> [Ids -> Seq(0 .. MaxData)]]
        /\ got \in [Ends -> [Ids -> Seq(1 .. MaxData)]] /\ wire \in [Ends -> Seq(Frame)]
    BY DEF Init, PerStream
  <2>2. /\ remoteEOF \in [Ends -> [Ids -> BOOLEAN]] /\ localDone \in [Ends -> [Ids -> BOOLEAN]]
        /\ closed \in [Ends -> BOOLEAN] /\ link \in BOOLEAN
    BY DEF Init, PerStream
  <2>3. /\ resetErr \in [Ends -> [Ids -> {"none", "reset", "mux"}]]
        /\ writer \in [Ends -> [Ids -> {"none", "dial", "run", "closing", "done"}]]
        /\ reader \in [Ends -> [Ids -> {"none", "run", "select"} \cup Finished]]
    BY DEF Init, PerStream
  <2>4. sent \in [Ends -> [Ids -> 0 .. MaxData]]
    BY CapAssumption DEF Init, PerStream
  <2>5. loop \in [Ends -> SUBSET Frame] /\ inMap \in [Ends -> SUBSET Ids]
    BY DEF Init
  <2>6. \A d \in Ends, j \in Ids : Len(inbound[d][j]) <= Cap
    BY <1>1, CapAssumption
  <2> QED
    BY <2>1, <2>2, <2>3, <2>4, <2>5, <2>6 DEF TypeOK
<1>3. MuxInv
  BY <1>1 DEF MuxInv
<1>4. ASSUME NEW j \in Ids PROVE StreamInv(j)
  <2>1. /\ ~HasMark(<<>>) /\ \A r : InLine(<<>>, <<>>, r)
    BY DEF HasMark, InLine
  <2>2. Chunks(<<>>, <<>>) = 0
    BY <2>1 DEF Chunks
  <2>3. \A d \in Ends : /\ ChannelInv(d, j) /\ Queued(d, j) = 0 /\ Pending(d, j) = {}
                        /\ Taken(d, j) = 0
    BY <1>1, <2>1, <2>2 DEF ChannelInv, Queued, Pending, Taken
  <2>4. /\ \A d \in Ends : Silent(wire[d], j) /\ Ascending(wire[d], j, 0, 0)
                             /\ OneOpen(wire[d], j) /\ OpenFirst(wire[d], j)
        /\ \A d \in Ends : \A t : ~Has(wire[d], t, j)
    BY <1>1, EmptyWire
  <2>5. \A w : Gapless(w, j, 0, 0)
    BY DEF Gapless
  <2>6. ASSUME NEW d \in Ends
        PROVE  LoopInv(d, j) /\ WireInv(d, j) /\ EndInv(d, j) /\ MapInv(d, j) /\ Untouched(d, j)
    <3>1. Peer(d) \in Ends
      BY TwoEnds
    <3>2. LoopInv(d, j)
      BY <1>1, <2>3, <3>1 DEF LoopInv
    <3>3. WireInv(d, j)
      BY <1>1, <2>3, <2>4, <2>5, <3>1 DEF WireInv
    <3>4. EndInv(d, j)
      BY <1>1, <2>4 DEF EndInv
    <3>5. MapInv(d, j) /\ Untouched(d, j)
      BY <1>1, <2>3, <2>4, <3>1 DEF MapInv, Untouched
    <3> QED
      BY <3>2, <3>3, <3>4, <3>5
  <2>7. OpenInv(j)
    BY <1>1, <2>4, <2>6, TwoEnds DEF OpenInv
  <2> QED
    BY <2>3, <2>6, <2>7 DEF StreamInv
<1> QED
  BY <1>2, <1>3, <1>4 DEF IInv

\* Every step.
LEMMA IStep ==
  ASSUME IInv, [Next]_vars
  PROVE  IInv'
<1>1. CASE UNCHANGED vars
  <2>1. /\ link' = link /\ wire' = wire /\ loop' = loop /\ closed' = closed /\ inMap' = inMap
        /\ inbound' = inbound /\ remoteEOF' = remoteEOF /\ resetErr' = resetErr
        /\ localDone' = localDone /\ writer' = writer /\ reader' = reader /\ sent' = sent
        /\ got' = got
    BY <1>1 DEF vars, muxVars, streamVars, pumpVars
  <2>2. TypeOK' /\ MuxInv'
    BY <2>1 DEF IInv, TypeOK, MuxInv
  <2>3. \A j \in Ids : SameWires(j) /\ \A d \in Ends : SameEnd(d, j)
    BY <2>1, WiresOfOthers DEF IInv, SameEnd, Pending
  <2> QED
    BY <2>2, <2>3, OtherStream DEF IInv
<1>2. CASE LinkFail
  BY <1>2, LoopTypes, LinkStream, TwoEnds DEF IInv
<1>3. ASSUME NEW i \in Ids, OpenStream(i) \/ DialOK(i) \/ DialFail(i) PROVE IInv'
  BY <1>3, OpenTypes, OpenedStream, PumpStream, FailStream, TwoEnds DEF IInv
<1>4. ASSUME NEW e \in Ends,
             RecvOpen(e) \/ RecvData(e) \/ Deliver(e) \/ RecvClose(e) \/ RecvReset(e) \/ CloseAll(e)
      PROVE  IInv'
  BY <1>4, LoopTypes, RecvOpenStream, RecvDataStream, DeliverStream, RecvCloseStream,
     ResetStream, CloseAllStream DEF IInv
<1>5. ASSUME NEW e \in Ends, NEW i \in Ids,
             Write(e, i) \/ WriteFail(e, i) \/ CloseStream(e, i) \/ SendClose(e, i)
      PROVE  IInv'
  BY <1>5, PumpTypes, WriteStream, FailStream, PumpStream, SendCloseStream DEF IInv
<1>6. ASSUME NEW e \in Ends, NEW i \in Ids,
             ReadCall(e, i) \/ ReadChunk(e, i) \/ ReadEOF(e, i) \/ ReadDone(e, i) \/ SinkFail(e, i)
      PROVE  IInv'
  BY <1>6, ReaderTypes, ReaderStream DEF IInv
<1> QED
  BY <1>1, <1>2, <1>3, <1>4, <1>5, <1>6 DEF Next

\* The invariant holds in every reachable state.
LEMMA Invariance == Spec => []IInv
BY IInit, IStep, PTL DEF Spec

\* The variables of the multiplexer always have their types, and no channel
\* holds more than streamReadBuf chunks (stream.go).
THEOREM TypeCorrect == Spec => []TypeOK
<1>1. IInv => TypeOK
  BY DEF IInv
<1> QED
  BY <1>1, Invariance, PTL

\* Read returns a gapless prefix, in order, of what the peer wrote on the
\* stream, whatever is reset, closed or lost meanwhile (readLoop, deliver, Read).
THEOREM ReadsInOrder == Spec => []InOrder
<1>1. ASSUME IInv PROVE InOrder
  <2> SUFFICES ASSUME NEW e \in Ends, NEW i \in Ids
               PROVE  /\ Len(got[e][i]) <= sent[Peer(e)][i]
                      /\ \A k \in 1 .. Len(got[e][i]) : got[e][i][k] = k
    BY DEF InOrder
  <2>1. TypeOK /\ ChannelInv(e, i) /\ LoopInv(e, i)
    BY <1>1 DEF IInv, StreamInv
  <2>2. /\ Queued(e, i) \in Nat /\ Len(got[e][i]) <= Queued(e, i) /\ Len(got[e][i]) \in Nat
        /\ Taken(e, i) = (IF Pending(e, i) = {} THEN Queued(e, i) ELSE Queued(e, i) + 1)
        /\ sent[Peer(e)][i] \in Nat
    BY <2>1, EndTypes, TwoEnds
  <2>3. Taken(e, i) <= sent[Peer(e)][i]
    BY <2>1 DEF LoopInv
  <2>4. Len(got[e][i]) <= sent[Peer(e)][i]
    BY <2>2, <2>3
  <2> QED
    BY <2>1, <2>4 DEF ChannelInv, InLine
<1> QED
  BY <1>1, Invariance, PTL

\* When Read returns io.EOF, the peer has closed its side and every chunk it
\* wrote has been read (remoteClose, Read).
THEOREM EofNotPremature == Spec => []EofComplete
<1>1. ASSUME IInv PROVE EofComplete
  <2>1. \A e \in Ends, i \in Ids : EndInv(e, i)
    BY <1>1 DEF IInv, StreamInv
  <2> QED
    BY <2>1 DEF EofComplete, EndInv, Ended
<1> QED
  BY <1>1, Invariance, PTL
=============================================================================
