-------------------------- MODULE DpSession_proofs --------------------------
(***************************************************************************)
(* Proofs about DpSession, for any block size, any width of the two        *)
(* windows and any number of counters: type correctness, at-most-once      *)
(* delivery, the exactness of the replay window, and the repair of one     *)
(* loss per block.                                                         *)
(***************************************************************************)
EXTENDS DpSession, FiniteSetTheorems, TLAPS

Wins == [seen : BOOLEAN, last : Nat, bitmap : SUBSET (0 .. Window - 1)]
Blocks == UNION {[A -> FecBlock] : A \in SUBSET Nat}
Decs == [seen : BOOLEAN, highest : Nat, blocks : Blocks]
Counts == [Ctr -> Nat]
Receivers == [win : Wins, dec : Decs, times : Counts]

Receiver == [win |-> win, dec |-> dec, times |-> times]

\* The counters that were delivered t[c] > 0 times.
Seen(t) == {c \in Ctr : t[c] > 0}

Counted(t, c) == [t EXCEPT ![c] = @ + 1]

Exact(w, t) ==
  IF w.seen
  THEN /\ w.last \in Seen(t)
       /\ \A c \in Seen(t) : c <= w.last
       /\ w.bitmap = {i \in 0 .. Window - 1 : w.last - i \in Seen(t)}
  ELSE Seen(t) = {}

\* What the receiver's window and its deliveries have to do with each other.
WinOK(w, t) ==
  /\ Exact(w, t)
  /\ \A c \in Ctr : t[c] <= 1
  /\ ~w.seen => w.last = 0

\* The blocks of the decoder are inside its window.
DecOK(d) ==
  /\ \A b \in DOMAIN d.blocks : d.seen /\ b <= d.highest /\ d.highest - b <= FecWindow
  /\ ~d.seen => d.highest = 0

\* Counters are natural numbers.
LEMMA CtrNat == Ctr \subseteq Nat
BY SessionAssumption DEF Ctr
-----------------------------------------------------------------------------
(* The replay window. *)

\* A counter that is accepted was not delivered before.
LEMMA AcceptsNew ==
  ASSUME NEW w \in Wins, NEW t \in Counts, WinOK(w, t), NEW c \in Ctr, Accepts(w, c)
  PROVE  c \notin Seen(t)
BY CtrNat, SessionAssumption DEF Accepts, WinOK, Exact, Wins

\* A counter that is refused was delivered before, or is too old.
LEMMA RefusesOld ==
  ASSUME NEW w \in Wins, NEW t \in Counts, WinOK(w, t), NEW c \in Ctr, ~Accepts(w, c)
  PROVE  c \in Seen(t) \/ w.last - c >= Window
<1>1. w.seen /\ c <= w.last /\ c \in Nat /\ w.last \in Nat /\ Window \in Nat
  BY CtrNat, SessionAssumption DEF Accepts, Wins
<1>2. CASE c = w.last
  BY <1>1, <1>2 DEF WinOK, Exact
<1>3. CASE c < w.last /\ w.last - c < Window
  <2>1. w.last - c \in w.bitmap /\ w.last - (w.last - c) = c
    BY <1>1, <1>3 DEF Accepts
  <2> QED
    BY <1>1, <2>1 DEF WinOK, Exact
<1> QED
  BY <1>1, <1>2, <1>3

\* The window records what it accepts: it stays exact, and the counter is
\* delivered once.
LEMMA RecordedExact ==
  ASSUME NEW w \in Wins, NEW t \in Counts, WinOK(w, t), NEW c \in Ctr, Accepts(w, c)
  PROVE  /\ Recorded(w, c) \in Wins /\ Counted(t, c) \in Counts
         /\ WinOK(Recorded(w, c), Counted(t, c))
         /\ Seen(Counted(t, c)) = Seen(t) \cup {c}
         /\ Recorded(w, c).last >= w.last
         /\ Recorded(w, c).last >= c
<1> DEFINE u == Counted(t, c)
<1>1. u \in Counts /\ Seen(u) = Seen(t) \cup {c}
  BY DEF Counts, Seen, Counted
<1>2. c \notin Seen(t)
  BY AcceptsNew
<1>3. \A i \in Ctr : u[i] <= 1
  <2>1. t[c] = 0
    BY <1>2 DEF Seen, Counts
  <2> QED
    BY <2>1 DEF WinOK, Counts, Counted
<1>4. c \in Nat /\ Seen(t) \subseteq Nat /\ Window \in Nat /\ Window > 0
  <2>1. Seen(t) \subseteq Ctr
    BY DEF Seen
  <2>2. Window \in Nat /\ Window > 0
    BY SessionAssumption
  <2> QED
    BY <2>1, <2>2, CtrNat
<1>5. CASE ~w.seen
  <2>1. Recorded(w, c) = [seen |-> TRUE, last |-> c, bitmap |-> {0}] /\ Seen(t) = {}
    BY <1>5 DEF Recorded, WinOK, Exact
  <2>2. {0} = {i \in 0 .. Window - 1 : c - i \in Seen(u)}
    BY <1>1, <1>4, <2>1
  <2>3. Recorded(w, c) \in Wins
    BY <1>4, <2>1 DEF Wins
  <2>4. Exact(Recorded(w, c), u)
    BY <1>1, <1>4, <2>1, <2>2 DEF Exact
  <2> QED
    BY <1>1, <1>3, <1>4, <1>5, <2>1, <2>3, <2>4 DEF WinOK, Wins
<1>6. CASE w.seen /\ c > w.last
  <2> DEFINE m == Shift(w.bitmap, c - w.last) \cup {0}
  <2>1. Recorded(w, c) = [seen |-> TRUE, last |-> c, bitmap |-> m]
    BY <1>6 DEF Recorded
  <2>2. w.last \in Nat /\ w.bitmap = {i \in 0 .. Window - 1 : w.last - i \in Seen(t)}
        /\ \A s \in Seen(t) : s <= w.last
    BY <1>6 DEF WinOK, Exact, Wins
  <2>3. m = {i \in 0 .. Window - 1 : c - i \in Seen(u)}
    <3>1. ASSUME NEW i \in 1 .. Window - 1 PROVE i \in m <=> c - i \in Seen(u)
      <4>1. i \in m <=> i >= c - w.last /\ i - (c - w.last) \in w.bitmap
        BY <1>4, <1>6, <2>2 DEF Shift
      <4>2. c - i \in Seen(u) <=> c - i \in Seen(t)
        BY <1>1, <1>4
      <4>3. w.last - (i - (c - w.last)) = c - i
        BY <1>4, <2>2
      <4>4. c - i \in Seen(t) => c - i <= w.last
        BY <2>2
      <4> QED
        BY <1>4, <1>6, <2>2, <4>1, <4>2, <4>3, <4>4
    <3>2. 0 \in m /\ c - 0 \in Seen(u)
      BY <1>1, <1>4
    <3>3. m \subseteq 0 .. Window - 1
      BY <1>4, <1>6, <2>2 DEF Shift
    <3>4. 0 .. Window - 1 = {0} \cup 1 .. Window - 1
      BY <1>4
    <3> HIDE DEF m
    <3> QED
      BY <1>4, <3>1, <3>2, <3>3, <3>4
  <2> HIDE DEF m
  <2>4. Recorded(w, c) \in Wins
    BY <1>4, <2>1, <2>3 DEF Wins
  <2>5. Exact(Recorded(w, c), u)
    BY <1>1, <1>4, <1>6, <2>1, <2>2, <2>3 DEF Exact
  <2> QED
    BY <1>1, <1>3, <1>4, <1>6, <2>1, <2>2, <2>4, <2>5 DEF WinOK
<1>7. CASE w.seen /\ ~(c > w.last)
  <2> DEFINE m == w.bitmap \cup {w.last - c}
  <2>1. Recorded(w, c) = [w EXCEPT !.bitmap = m]
    BY <1>7 DEF Recorded
  <2>2. /\ w.last \in Nat /\ w.bitmap = {i \in 0 .. Window - 1 : w.last - i \in Seen(t)}
        /\ \A s \in Seen(t) : s <= w.last
        /\ w.last \in Seen(t)
    BY <1>7 DEF WinOK, Exact, Wins
  <2>3. c < w.last /\ w.last - c < Window
    BY <1>7, <2>2 DEF Accepts
  <2>4. m = {i \in 0 .. Window - 1 : w.last - i \in Seen(u)}
    BY <1>1, <1>4, <2>2, <2>3
  <2>5. m \in SUBSET (0 .. Window - 1)
    BY <2>4
  <2> HIDE DEF m
  <2>6. Recorded(w, c) \in Wins /\ Recorded(w, c).seen = w.seen /\ Recorded(w, c).last = w.last
        /\ Recorded(w, c).bitmap = m
    BY <2>1, <2>5 DEF Wins
  <2>7. Exact(Recorded(w, c), u)
    BY <1>1, <1>4, <1>7, <2>2, <2>3, <2>4, <2>6 DEF Exact
  <2> QED
    BY <1>1, <1>3, <1>4, <2>2, <2>3, <2>6, <2>7 DEF WinOK
<1> QED
  BY <1>5, <1>6, <1>7

\* openAndAccept: the window stays exact, and afterwards the packet has been
\* delivered or is too old.
LEMMA Delivers ==
  ASSUME NEW r \in Receivers, WinOK(r.win, r.times), NEW c \in Ctr
  PROVE  /\ Deliver(r, c) \in Receivers
         /\ WinOK(Deliver(r, c).win, Deliver(r, c).times)
         /\ Deliver(r, c).dec = r.dec
         /\ Deliver(r, c).win.last >= r.win.last
         /\ Seen(r.times) \subseteq Seen(Deliver(r, c).times)
         /\ Seen(Deliver(r, c).times) \subseteq Seen(r.times) \cup {c}
         /\ c \in Seen(Deliver(r, c).times) \/ Deliver(r, c).win.last - c >= Window
         /\ Accepts(r.win, c) => c \in Seen(Deliver(r, c).times)
<1>1. r.win \in Wins /\ r.times \in Counts /\ r.dec \in Decs /\ r.win.last \in Nat
  BY DEF Receivers, Wins
<1>2. CASE Accepts(r.win, c)
  <2> DEFINE w == Recorded(r.win, c)
             u == Counted(r.times, c)
             q == [r EXCEPT !.win = w]
  <2>1. w \in Wins /\ u \in Counts /\ WinOK(w, u) /\ w.last >= r.win.last
        /\ Seen(u) = Seen(r.times) \cup {c}
    BY <1>1, <1>2, RecordedExact
  <2>2. Deliver(r, c) = [q EXCEPT !.times = u]
    BY <1>1, <1>2 DEF Deliver, Receivers, Counted
  <2> HIDE DEF w, u
  <2>3. q \in Receivers /\ q.win = w /\ q.times = r.times /\ q.dec = r.dec
    BY <2>1 DEF Receivers
  <2> HIDE DEF q
  <2>4. Deliver(r, c) \in Receivers /\ Deliver(r, c).win = w /\ Deliver(r, c).times = u
        /\ Deliver(r, c).dec = r.dec
    BY <2>1, <2>2, <2>3 DEF Receivers
  <2> QED
    BY <2>1, <2>4
<1>3. CASE ~Accepts(r.win, c)
  <2>1. Deliver(r, c) = r
    BY <1>3 DEF Deliver
  <2> QED
    BY <1>1, <1>3, <2>1, RefusesOld
<1> QED
  BY <1>2, <1>3
-----------------------------------------------------------------------------
(* The decoder. *)

\* The content of a block, whether the decoder holds it or not.
BlockOf(d, b) == IF b \in DOMAIN d.blocks THEN d.blocks[b] ELSE NoBlock

\* A decoder's blocks are functions from block numbers.
LEMMA BlocksOK ==
  ASSUME NEW d \in Decs
  PROVE  /\ DOMAIN d.blocks \subseteq Nat
         /\ \A b \in DOMAIN d.blocks : d.blocks[b] \in FecBlock
         /\ \A b : BlockOf(d, b) \in FecBlock
<1>1. d.blocks \in Blocks
  BY DEF Decs
<1>2. PICK A \in SUBSET Nat : d.blocks \in [A -> FecBlock]
  BY <1>1 DEF Blocks
<1>3. NoBlock \in FecBlock
  BY DEF NoBlock, FecBlock
<1> QED
  BY <1>2, <1>3 DEF BlockOf

\* block: the decoder holds the block afterwards, keeps every other one that
\* is inside its window, and no more.
LEMMA GetsBlock ==
  ASSUME NEW d \in Decs, DecOK(d), NEW b \in Nat, ~TooOld(d, b), NEW e, e = WithBlock(d, b)
  PROVE  /\ e \in Decs /\ DecOK(e) /\ e.seen /\ e.highest >= b
         /\ e.highest >= d.highest
         /\ b \in DOMAIN e.blocks
         /\ \A i \in Nat : e.highest - i <= FecWindow => BlockOf(e, i) = BlockOf(d, i)
<1>1. DOMAIN d.blocks \subseteq Nat /\ \A i \in DOMAIN d.blocks : d.blocks[i] \in FecBlock
  BY BlocksOK
<1>2. d.highest \in Nat /\ d.seen \in BOOLEAN /\ FecWindow \in Nat
  BY SessionAssumption DEF Decs
<1>3. CASE b \in DOMAIN d.blocks
  <2>1. e = d
    BY <1>3 DEF WithBlock
  <2>2. d.seen /\ b <= d.highest
    BY <1>3 DEF DecOK
  <2> QED
    BY <1>2, <1>3, <2>1, <2>2
<1>4. CASE b \notin DOMAIN d.blocks
  <2> DEFINE h == IF d.seen /\ b <= d.highest THEN d.highest ELSE b
             D == Kept(d, b, h)
             f == [i \in D |-> IF i \in DOMAIN d.blocks THEN d.blocks[i] ELSE NoBlock]
  <2>1. e = [seen |-> TRUE, highest |-> h, blocks |-> f]
    BY <1>4 DEF WithBlock
  <2>2. h \in Nat /\ h >= b /\ h >= d.highest /\ h - b <= FecWindow
    BY <1>2 DEF TooOld, DecOK
  <2>3. /\ D \in SUBSET Nat /\ b \in D
        /\ \A i \in Nat : i \in D <=> (i \in DOMAIN d.blocks \/ i = b) /\ h - i <= FecWindow
    BY <1>1, <2>2 DEF Kept
  <2>4. \A i \in DOMAIN d.blocks : d.seen /\ i <= d.highest
    BY DEF DecOK
  <2> HIDE DEF h, D
  <2>5. f \in [D -> FecBlock]
    BY BlocksOK DEF BlockOf
  <2>6. f \in Blocks
    BY <2>3, <2>5 DEF Blocks
  <2>7. DOMAIN f = D /\ \A i \in D : f[i] = BlockOf(d, i)
    BY DEF BlockOf
  <2> HIDE DEF f
  <2>8. e \in Decs /\ e.seen /\ e.highest = h /\ e.blocks = f
    BY <2>1, <2>2, <2>6 DEF Decs
  <2>9. DecOK(e)
    <3>1. ASSUME NEW i \in D PROVE i <= h /\ h - i <= FecWindow
      <4>1. i \in Nat /\ h - i <= FecWindow /\ (i \in DOMAIN d.blocks \/ i = b)
        BY <2>3
      <4> QED
        BY <1>2, <2>2, <2>4, <4>1
    <3> QED
      BY <2>7, <2>8, <3>1 DEF DecOK
  <2>10. ASSUME NEW i \in Nat, e.highest - i <= FecWindow PROVE BlockOf(e, i) = BlockOf(d, i)
    <3>1. CASE i \in D
      BY <2>7, <2>8, <3>1 DEF BlockOf
    <3>2. CASE i \notin D
      <4>1. i \notin DOMAIN d.blocks
        BY <2>3, <2>8, <2>10, <3>2
      <4> QED
        BY <2>7, <2>8, <3>2, <4>1 DEF BlockOf
    <3> QED
      BY <3>1, <3>2
  <2> QED
    BY <2>2, <2>3, <2>7, <2>8, <2>9, <2>10
<1> QED
  BY <1>3, <1>4

\* A block with a frame added is a block.
LEMMA NewBlockOK ==
  ASSUME NEW o \in FecBlock, NEW f \in Frame
  PROVE  /\ NewBlock(o, f) \in FecBlock
         /\ f.type = "data" => /\ NewBlock(o, f).data = o.data \cup f.body
                               /\ NewBlock(o, f).parity = o.parity
                               /\ NewBlock(o, f).hasParity = o.hasParity
         /\ f.type # "data" => /\ NewBlock(o, f).data = o.data
                               /\ NewBlock(o, f).parity = f.body
                               /\ NewBlock(o, f).hasParity = TRUE
<1>1. CASE f.type = "data"
  BY <1>1 DEF NewBlock, FecBlock, Frame
<1>2. CASE f.type # "data"
  <2> DEFINE p == [o EXCEPT !.parity = f.body]
  <2>1. p \in FecBlock /\ p.data = o.data /\ p.parity = f.body
    BY DEF FecBlock, Frame
  <2>2. NewBlock(o, f) = [p EXCEPT !.hasParity = TRUE]
    BY <1>2 DEF NewBlock
  <2> HIDE DEF p
  <2> QED
    BY <1>2, <2>1, <2>2 DEF FecBlock
<1> QED
  BY <1>1, <1>2

\* addData, addParity: only the frame's own block changes.
LEMMA Adds ==
  ASSUME NEW d \in Decs, DecOK(d), NEW f \in Frame, ~TooOld(d, f.block), NEW e, e = Added(d, f)
  PROVE  /\ e \in Decs /\ DecOK(e) /\ e.highest >= d.highest /\ e.highest >= f.block
         /\ f.block \in DOMAIN e.blocks
         /\ e.blocks[f.block] = NewBlock(BlockOf(d, f.block), f)
         /\ \A i \in Nat : i # f.block /\ e.highest - i <= FecWindow =>
              BlockOf(e, i) = BlockOf(d, i)
<1> DEFINE b == f.block
           g == WithBlock(d, b)
           o == g.blocks[b]
           c == [g.blocks EXCEPT ![b] = NewBlock(o, f)]
<1>1. b \in Nat
  BY DEF Frame
<1>2. /\ g \in Decs /\ DecOK(g) /\ g.seen /\ g.highest >= b /\ g.highest >= d.highest
      /\ b \in DOMAIN g.blocks
      /\ \A i \in Nat : g.highest - i <= FecWindow => BlockOf(g, i) = BlockOf(d, i)
  BY <1>1, GetsBlock
<1>3. e = [g EXCEPT !.blocks = c]
  BY DEF Added
<1>4. PICK A \in SUBSET Nat : g.blocks \in [A -> FecBlock]
  BY <1>2 DEF Decs, Blocks
<1> HIDE DEF g
<1>5. o \in FecBlock /\ o = BlockOf(d, b)
  <2>1. g.highest - b <= FecWindow
    BY <1>2 DEF DecOK
  <2> QED
    BY <1>1, <1>2, <1>4, <2>1 DEF BlockOf
<1>6. NewBlock(o, f) \in FecBlock
  BY <1>5, NewBlockOK
<1> HIDE DEF o
<1>7. c \in [A -> FecBlock] /\ c[b] = NewBlock(o, f) /\ \A i \in A : i # b => c[i] = g.blocks[i]
  BY <1>2, <1>4, <1>6
<1>8. c \in Blocks /\ DOMAIN c = DOMAIN g.blocks
  BY <1>4, <1>7 DEF Blocks
<1> HIDE DEF c
<1>9. e \in Decs /\ e.seen = g.seen /\ e.highest = g.highest /\ e.blocks = c
  BY <1>2, <1>3, <1>8 DEF Decs
<1>10. DecOK(e)
  BY <1>2, <1>8, <1>9 DEF DecOK
<1>11. ASSUME NEW i \in Nat, i # b, e.highest - i <= FecWindow PROVE BlockOf(e, i) = BlockOf(d, i)
  <2>1. BlockOf(e, i) = BlockOf(g, i)
    BY <1>4, <1>7, <1>8, <1>9, <1>11 DEF BlockOf
  <2> QED
    BY <1>2, <1>9, <1>11, <2>1
<1> QED
  BY <1>2, <1>5, <1>7, <1>8, <1>9, <1>10, <1>11

\* tryRecover forgets the block, and no other.
LEMMA Forgets ==
  ASSUME NEW d \in Decs, DecOK(d), NEW b, NEW e, e = WithoutBlock(d, b)
  PROVE  /\ e \in Decs /\ DecOK(e) /\ e.highest = d.highest
         /\ \A i \in Nat : i # b => BlockOf(e, i) = BlockOf(d, i)
<1> DEFINE c == [i \in DOMAIN d.blocks \ {b} |-> d.blocks[i]]
<1>1. e = [d EXCEPT !.blocks = c]
  BY DEF WithoutBlock
<1>2. PICK A \in SUBSET Nat : d.blocks \in [A -> FecBlock]
  BY DEF Decs, Blocks
<1>3. c \in [A \ {b} -> FecBlock] /\ \A i \in A \ {b} : c[i] = d.blocks[i]
  BY <1>2
<1> HIDE DEF c
<1>4. c \in Blocks
  BY <1>3 DEF Blocks
<1>5. e \in Decs /\ e.seen = d.seen /\ e.highest = d.highest /\ e.blocks = c
  BY <1>1, <1>4 DEF Decs
<1>6. DecOK(e)
  BY <1>2, <1>3, <1>5 DEF DecOK
<1> QED
  BY <1>2, <1>3, <1>5, <1>6 DEF BlockOf
-----------------------------------------------------------------------------
(* Open. *)

\* The receiver is in order.
Good(r) == r \in Receivers /\ WinOK(r.win, r.times) /\ DecOK(r.dec)

\* The receiver has moved on: nothing is undelivered, no window moves back.
Later(r, q) ==
  /\ q.win.last >= r.win.last
  /\ q.dec.highest >= r.dec.highest
  /\ Seen(r.times) \subseteq Seen(q.times)

\* It is in order after a delivery.
LEMMA GoodDelivers ==
  ASSUME NEW r, Good(r), NEW c \in Ctr
  PROVE  Good(Deliver(r, c)) /\ Later(r, Deliver(r, c))
<1>1. r.dec.highest \in Nat
  BY DEF Good, Receivers, Decs
<1> QED
  BY <1>1, Delivers DEF Good, Later

\* It is in order after a change of the decoder.
LEMMA GoodDecoder ==
  ASSUME NEW r, Good(r), NEW d \in Decs, DecOK(d), NEW q, q = [r EXCEPT !.dec = d]
  PROVE  /\ Good(q) /\ q.win = r.win /\ q.times = r.times /\ q.dec = d
         /\ d.highest >= r.dec.highest => Later(r, q)
<1>1. r \in Receivers
  BY DEF Good
<1>2. q \in Receivers /\ q.win = r.win /\ q.times = r.times /\ q.dec = d
  BY <1>1 DEF Receivers
<1>3. r.win.last \in Nat
  BY <1>1 DEF Receivers, Wins
<1> QED
  BY <1>2, <1>3 DEF Good, Later

\* Later is an order.
LEMMA LaterTrans ==
  ASSUME NEW r, NEW s, NEW q, Good(r), Good(s), Good(q), Later(r, s), Later(s, q)
  PROVE  Later(r, q)
<1>1. /\ r.win.last \in Nat /\ s.win.last \in Nat /\ q.win.last \in Nat
      /\ r.dec.highest \in Nat /\ s.dec.highest \in Nat /\ q.dec.highest \in Nat
  BY DEF Good, Receivers, Wins, Decs
<1> QED
  BY <1>1 DEF Later

\* The three ways through the decoder: the frame does not reach it or its
\* block is gone; the frame is added; the block is complete but for one frame
\* and is given up, with that frame delivered if it authenticates.
Skips(r, f) == ~FecOn \/ TooOld(r.dec, f.block)
Keeps(r, f) == ~Skips(r, f) /\ ~Recoverable(Added(r.dec, f), f)
Repairs(r, f) == ~Skips(r, f) /\ Recoverable(Added(r.dec, f), f)
GaveUp(r, f) == [r EXCEPT !.dec = WithoutBlock(Added(r.dec, f), f.block)]
Lost(r, f) == Missing(Added(r.dec, f), f.block)

\* Decode, case by case.
LEMMA DecodeCases ==
  ASSUME NEW r, NEW f
  PROVE  /\ Skips(r, f) => Decode(r, f) = r
         /\ Keeps(r, f) => Decode(r, f) = [r EXCEPT !.dec = Added(r.dec, f)]
         /\ Repairs(r, f) =>
              IF \E c \in Ctr : Lost(r, f) = {c} /\ DataFrame(c, f.block) \in net
              THEN \E c \in Ctr : /\ Lost(r, f) = {c} /\ DataFrame(c, f.block) \in net
                                  /\ Decode(r, f) = Deliver(GaveUp(r, f), c)
              ELSE Decode(r, f) = GaveUp(r, f)
         /\ Skips(r, f) \/ Keeps(r, f) \/ Repairs(r, f)
<1>1. Skips(r, f) => Decode(r, f) = r
  BY DEF Decode, Skips
<1>2. Keeps(r, f) => Decode(r, f) = [r EXCEPT !.dec = Added(r.dec, f)]
  BY DEF Decode, Keeps, Skips
<1>3. ASSUME Repairs(r, f)
      PROVE  IF \E c \in Ctr : Lost(r, f) = {c} /\ DataFrame(c, f.block) \in net
             THEN \E c \in Ctr : /\ Lost(r, f) = {c} /\ DataFrame(c, f.block) \in net
                                 /\ Decode(r, f) = Deliver(GaveUp(r, f), c)
             ELSE Decode(r, f) = GaveUp(r, f)
  <2>1. Decode(r, f) = IF \E c \in Ctr : Lost(r, f) = {c} /\ DataFrame(c, f.block) \in net
                       THEN Deliver(GaveUp(r, f), CHOOSE c \in Ctr : Lost(r, f) = {c})
                       ELSE GaveUp(r, f)
    BY <1>3 DEF Decode, Repairs, Skips, Lost, GaveUp
  <2>2. ASSUME NEW c \in Ctr, Lost(r, f) = {c}
        PROVE  c = CHOOSE x \in Ctr : Lost(r, f) = {x}
    BY <2>2
  <2> HIDE DEF Lost
  <2> QED
    BY <2>1, <2>2
<1> QED
  BY <1>1, <1>2, <1>3 DEF Skips, Keeps, Repairs

\* The receiver is in order after the decoder has seen a frame.
LEMMA GoodDecodes ==
  ASSUME NEW r, Good(r), NEW f \in Frame
  PROVE  Good(Decode(r, f)) /\ Later(r, Decode(r, f))
<1>0. r.dec \in Decs /\ DecOK(r.dec)
  BY DEF Good, Receivers
<1>1. CASE Skips(r, f)
  <2>1. r.win.last \in Nat /\ r.dec.highest \in Nat
    BY DEF Good, Receivers, Wins, Decs
  <2> QED
    BY <1>1, <2>1, DecodeCases DEF Later
<1>2. CASE ~Skips(r, f)
  <2> DEFINE d == Added(r.dec, f)
             e == WithoutBlock(d, f.block)
  <2>1. d \in Decs /\ DecOK(d) /\ d.highest >= r.dec.highest
    BY <1>0, <1>2, Adds DEF Skips
  <2>2. CASE Keeps(r, f)
    <3> HIDE DEF d
    <3> QED
      BY <2>1, <2>2, DecodeCases, GoodDecoder DEF d
  <2>3. CASE Repairs(r, f)
    <3>1. e \in Decs /\ DecOK(e) /\ e.highest >= r.dec.highest
      <4> HIDE DEF d
      <4> QED
        BY <2>1, Forgets
    <3>2. Good(GaveUp(r, f)) /\ Later(r, GaveUp(r, f))
      <4>1. GaveUp(r, f) = [r EXCEPT !.dec = e]
        BY DEF GaveUp
      <4> HIDE DEF e
      <4> QED
        BY <3>1, <4>1, GoodDecoder
    <3>3. \A c \in Ctr : Good(Deliver(GaveUp(r, f), c)) /\ Later(r, Deliver(GaveUp(r, f), c))
      BY <3>2, GoodDelivers, LaterTrans
    <3> QED
      BY <2>3, <3>2, <3>3, DecodeCases
  <2> QED
    BY <1>2, <2>2, <2>3, DecodeCases
<1> QED
  BY <1>1, <1>2

\* A data frame carries one packet.
Carries(f, c) == c \in Ctr /\ f.body = {c}

\* Open, case by case.
LEMMA OpenedCases ==
  ASSUME NEW r, NEW f
  PROVE  /\ f.type = "parity" => Opened(r, f) = Decode(r, f)
         /\ \A c : f.type # "parity" /\ Carries(f, c) =>
              IF Accepts(r.win, c) THEN Opened(r, f) = Decode(Deliver(r, c), f)
              ELSE Opened(r, f) = r
<1>1. ASSUME NEW c, Carries(f, c) PROVE c = CHOOSE x \in Ctr : f.body = {x}
  BY <1>1 DEF Carries
<1> QED
  BY <1>1 DEF Opened

\* The receiver is in order after Open.
LEMMA GoodOpens ==
  ASSUME NEW r, Good(r), NEW f \in Frame, f.type = "data" => \E c : Carries(f, c)
  PROVE  Good(Opened(r, f)) /\ Later(r, Opened(r, f))
<1>1. CASE f.type = "parity"
  BY <1>1, OpenedCases, GoodDecodes
<1>2. CASE f.type = "data"
  <2>1. PICK c : Carries(f, c)
    BY <1>2
  <2>2. c \in Ctr
    BY <2>1 DEF Carries
  <2>3. CASE Accepts(r.win, c)
    <3>1. Good(Deliver(r, c)) /\ Later(r, Deliver(r, c))
      BY <2>2, GoodDelivers
    <3>2. Good(Decode(Deliver(r, c), f)) /\ Later(Deliver(r, c), Decode(Deliver(r, c), f))
      BY <3>1, GoodDecodes
    <3> QED
      BY <1>2, <2>1, <2>3, <3>1, <3>2, OpenedCases, LaterTrans
  <2>4. CASE ~Accepts(r.win, c)
    <3>1. r.win.last \in Nat /\ r.dec.highest \in Nat
      BY DEF Good, Receivers, Wins, Decs
    <3> QED
      BY <1>2, <2>1, <2>4, <3>1, OpenedCases DEF Later
  <2> QED
    BY <2>3, <2>4
<1> QED
  BY <1>1, <1>2 DEF Frame
-----------------------------------------------------------------------------
(* The sender and the network. *)

\* The packets of a block.
Packets(b) == b * K .. b * K + K - 1

\* A frame is what its type says; the frames of a block whose parity was sent
\* were sent.
FrameOK(f, N) ==
  /\ f \in Frame
  /\ f.type = "data" => \E c : Carries(f, c) /\ (FecOn => c \in Packets(f.block))
  /\ f.type = "parity" => /\ f.body = Packets(f.block)
                          /\ \A c \in f.body : DataFrame(c, f.block) \in N
NetInv == arrived \subseteq net /\ \A f \in net : FrameOK(f, net)

\* The encoder has combined the packets of its block that were sent.
EncInv ==
  /\ sendCtr \in 0 .. RekeyAfter
  /\ enc \in [block : Nat, count : Nat, parity : SUBSET Ctr]
  /\ FecOn => /\ enc.count < K
              /\ sendCtr = enc.block * K + enc.count
              /\ enc.parity = enc.block * K .. sendCtr - 1
              /\ \A c \in enc.parity : DataFrame(c, enc.block) \in net

\* Blocks are K apart.
LEMMA Product ==
  ASSUME NEW b \in Nat
  PROVE  b * K \in Nat /\ (b + 1) * K = b * K + K
BY SessionAssumption

\* Sealing keeps the sender's invariants.
LEMMA SealStep == ASSUME NetInv, EncInv, Seal PROVE NetInv' /\ EncInv'
<1> DEFINE x == Xor(enc.parity, {sendCtr})
           b == IF FecOn THEN enc.block ELSE sendCtr
           f == DataFrame(sendCtr, b)
           p == ParityFrame(b, x)
<1>0. /\ sendCtr \in Ctr /\ sendCtr \in Nat /\ sendCtr' = sendCtr + 1 /\ sendCtr' \in 0 .. RekeyAfter
      /\ b \in Nat /\ enc.block \in Nat /\ enc.count \in Nat /\ enc.parity \in SUBSET Ctr
      /\ K \in Nat /\ arrived' = arrived
  BY SessionAssumption DEF Seal, EncInv, Ctr
<1>1. net' = net \cup {f} \cup (IF Completes THEN {p} ELSE {})
  BY DEF Seal
<1>2. x \in SUBSET Ctr
  BY <1>0 DEF Xor
<1>3. FecOn => /\ b * K \in Nat /\ (b + 1) * K = b * K + K
               /\ x = b * K .. sendCtr /\ sendCtr \in Packets(b)
  <2> SUFFICES ASSUME FecOn PROVE /\ b * K \in Nat /\ (b + 1) * K = b * K + K
                                  /\ x = b * K .. sendCtr /\ sendCtr \in Packets(b)
    OBVIOUS
  <2>1. b = enc.block /\ b * K \in Nat /\ (b + 1) * K = b * K + K
    BY <1>0, Product
  <2> DEFINE B == b * K
  <2>2. sendCtr = B + enc.count /\ enc.count < K /\ enc.parity = B .. sendCtr - 1 /\ B \in Nat
    BY <2>1 DEF EncInv
  <2> HIDE DEF b, B
  <2>3. x = B .. sendCtr
    BY <1>0, <2>2 DEF Xor
  <2>4. sendCtr \in B .. B + K - 1
    BY <1>0, <2>2
  <2> QED
    BY <2>1, <2>3, <2>4 DEF Packets, B
<1>4. f \in Frame /\ f.type = "data" /\ f.block = b /\ f.body = {sendCtr}
  BY <1>0 DEF DataFrame, Frame
<1>5. p \in Frame /\ p.type = "parity" /\ p.block = b /\ p.body = x
  BY <1>0, <1>2 DEF ParityFrame, Frame
<1>6. FrameOK(f, net')
  <2>1. Carries(f, sendCtr)
    BY <1>0, <1>4 DEF Carries
  <2> HIDE DEF f, b
  <2> QED
    BY <1>3, <1>4, <2>1 DEF FrameOK
<1>7. ASSUME Completes PROVE FrameOK(p, net')
  <2>0. FecOn /\ enc.count + 1 >= K
    BY <1>7 DEF Completes
  <2>1. x = Packets(b)
    <3> DEFINE B == b * K
    <3>1. sendCtr = B + enc.count /\ enc.count < K /\ b = enc.block
      BY <2>0 DEF EncInv
    <3>2. x = B .. sendCtr /\ B \in Nat
      BY <1>3, <2>0
    <3> HIDE DEF B
    <3>3. sendCtr = B + K - 1
      BY <1>0, <2>0, <3>1, <3>2
    <3> QED
      BY <3>2, <3>3 DEF Packets, B
  <2>2. \A c \in x : DataFrame(c, b) \in net'
    <3>1. \A c \in enc.parity : DataFrame(c, b) \in net
      BY <2>0 DEF EncInv
    <3>2. x \subseteq enc.parity \cup {sendCtr}
      BY DEF Xor
    <3> QED
      BY <1>1, <3>1, <3>2
  <2> HIDE DEF p, x, b
  <2> QED
    BY <1>5, <2>1, <2>2 DEF FrameOK
<1>8. \A g \in net : FrameOK(g, net')
  BY <1>1 DEF NetInv, FrameOK
<1>9. NetInv'
  BY <1>0, <1>1, <1>6, <1>7, <1>8 DEF NetInv
<1>10. CASE Completes
  <2>0. FecOn /\ enc.count + 1 >= K /\ b = enc.block
    BY <1>10 DEF Completes
  <2>1. enc' = [block |-> b + 1, count |-> 0, parity |-> {}]
    BY <1>10 DEF Seal
  <2>2. sendCtr' = (b + 1) * K /\ K > 0
    <3>1. sendCtr = b * K + enc.count /\ enc.count < K
      BY <2>0 DEF EncInv
    <3>2. b * K \in Nat /\ (b + 1) * K = b * K + K
      BY <1>3, <2>0
    <3> HIDE DEF b
    <3> QED
      BY <1>0, <2>0, <3>1, <3>2 DEF FecOn
  <2> HIDE DEF b
  <2>3. enc'.block = b + 1 /\ enc'.count = 0 /\ enc'.parity = {}
        /\ enc' \in [block : Nat, count : Nat, parity : SUBSET Ctr]
    BY <1>0, <2>1
  <2>4. enc'.block * K = sendCtr' /\ sendCtr' \in Nat
    BY <1>0, <2>2, <2>3
  <2>5. enc'.block * K .. sendCtr' - 1 = {} /\ sendCtr' = enc'.block * K + 0
    BY <2>4
  <2> QED
    BY <1>0, <2>2, <2>3, <2>5, <1>9 DEF EncInv
<1>11. CASE ~Completes /\ FecOn
  <2>1. enc' = [block |-> b, count |-> enc.count + 1, parity |-> x] /\ b = enc.block
    BY <1>11 DEF Seal
  <2>2. sendCtr = b * K + enc.count /\ enc.count + 1 < K
    BY <1>0, <1>11, <2>1 DEF EncInv, Completes
  <2>3. \A c \in x : DataFrame(c, b) \in net'
    <3>1. \A c \in enc.parity : DataFrame(c, b) \in net
      BY <1>11 DEF EncInv
    <3>2. x \subseteq enc.parity \cup {sendCtr}
      BY DEF Xor
    <3> QED
      BY <1>1, <3>1, <3>2
  <2> DEFINE B == b * K
  <2>4. x = B .. sendCtr /\ B \in Nat
    BY <1>3, <1>11
  <2> HIDE DEF x, b
  <2>5. enc'.block = b /\ enc'.count = enc.count + 1 /\ enc'.parity = x
        /\ enc' \in [block : Nat, count : Nat, parity : SUBSET Ctr]
    BY <1>0, <1>2, <2>1
  <2>6. sendCtr = B + enc.count /\ enc'.block * K = B
    BY <2>2, <2>5
  <2> HIDE DEF B
  <2>7. sendCtr' = B + enc'.count /\ x = B .. sendCtr' - 1
    <3>1. sendCtr' = sendCtr + 1 /\ sendCtr \in Nat /\ enc.count \in Nat /\ B \in Nat
      BY <1>0, <2>4
    <3>2. sendCtr' = B + enc'.count
      BY <2>5, <2>6, <3>1
    <3>3. sendCtr' - 1 = sendCtr
      BY <3>1
    <3> QED
      BY <2>4, <3>2, <3>3
  <2> QED
    BY <1>0, <1>9, <2>2, <2>3, <2>5, <2>6, <2>7 DEF EncInv
<1>12. CASE ~FecOn
  BY <1>0, <1>9, <1>12 DEF EncInv, Seal, Completes
<1> QED
  BY <1>9, <1>10, <1>11, <1>12

\* The invariants of sender, network and receiver together.
BaseInv == NetInv /\ EncInv /\ Good(Receiver)

\* They hold initially.
LEMMA BaseInit == Init => BaseInv
<1> SUFFICES ASSUME Init PROVE BaseInv
  OBVIOUS
<1>1. NetInv
  BY DEF Init, NetInv
<1>2. EncInv
  BY SessionAssumption DEF Init, EncInv, FecOn
<1>3. win \in Wins /\ times \in Counts /\ WinOK(win, times)
  BY SessionAssumption DEF Init, Wins, Counts, WinOK, Exact, Seen
<1>4. dec \in Decs /\ DecOK(dec)
  <2>1. [b \in {} |-> NoBlock] \in [{} -> FecBlock]
    OBVIOUS
  <2>2. [b \in {} |-> NoBlock] \in Blocks
    BY <2>1 DEF Blocks
  <2> QED
    BY <2>2 DEF Init, Decs, DecOK
<1>5. Good(Receiver)
  BY <1>3, <1>4 DEF Good, Receiver, Receivers
<1> QED
  BY <1>1, <1>2, <1>5 DEF BaseInv

\* The receiver after Open.
LEMMA OpenReceiver ==
  ASSUME NEW f, Open(f), Good(Opened(Receiver, f))
  PROVE  Receiver' = Opened(Receiver, f)
<1>1. win' = Opened(Receiver, f).win /\ dec' = Opened(Receiver, f).dec
      /\ times' = Opened(Receiver, f).times
  BY DEF Open, Receiver
<1> HIDE DEF Opened
<1> QED
  BY <1>1 DEF Receiver, Good, Receivers

\* Every step preserves them, and moves the receiver on.
LEMMA BaseStep == ASSUME BaseInv, [Next]_vars PROVE BaseInv' /\ Later(Receiver, Receiver')
<1>0. Later(Receiver, Receiver)
  <2>1. Receiver.win.last \in Nat /\ Receiver.dec.highest \in Nat
    BY DEF BaseInv, Good, Receivers, Wins, Decs
  <2> QED
    BY <2>1 DEF Later
<1>1. CASE UNCHANGED vars
  <2>1. Receiver' = Receiver
    BY <1>1 DEF vars, Receiver
  <2> QED
    BY <1>0, <1>1, <2>1 DEF vars, BaseInv, NetInv, EncInv
<1>2. CASE Seal
  <2>1. Receiver' = Receiver
    BY <1>2 DEF Seal, Receiver
  <2> QED
    BY <1>0, <1>2, <2>1, SealStep DEF BaseInv
<1>3. ASSUME NEW f \in net, Open(f) PROVE BaseInv' /\ Later(Receiver, Receiver')
  <2>1. f \in Frame /\ (f.type = "data" => \E c : Carries(f, c))
    BY DEF BaseInv, NetInv, FrameOK
  <2>2. Good(Opened(Receiver, f)) /\ Later(Receiver, Opened(Receiver, f))
    BY <2>1, GoodOpens DEF BaseInv
  <2>3. Receiver' = Opened(Receiver, f)
    BY <1>3, <2>2, OpenReceiver
  <2>4. NetInv' /\ EncInv'
    BY <1>3 DEF Open, BaseInv, NetInv, EncInv
  <2> QED
    BY <2>2, <2>3, <2>4 DEF BaseInv
<1> QED
  BY <1>1, <1>2, <1>3 DEF Next

\* The invariants give the types, with the bound on the decoder's blocks.
LEMMA BaseType == BaseInv => TypeOK
<1> SUFFICES ASSUME BaseInv PROVE TypeOK
  OBVIOUS
<1>1. Receiver \in Receivers /\ DecOK(Receiver.dec)
  BY DEF BaseInv, Good
<1>2. win \in Wins /\ dec \in Decs /\ times \in Counts /\ DecOK(dec)
  BY <1>1 DEF Receiver, Receivers
<1>3. DOMAIN dec.blocks \subseteq Nat /\ \A b \in DOMAIN dec.blocks : dec.blocks[b] \in FecBlock
  BY <1>2, BlocksOK
<1>4. Cardinality(DOMAIN dec.blocks) <= FecWindow + 1
  <2>1. dec.highest \in Nat /\ FecWindow \in Nat
    BY <1>2, SessionAssumption DEF Decs
  <2> DEFINE S == dec.highest - FecWindow .. dec.highest
  <2>2. DOMAIN dec.blocks \in SUBSET S
    BY <1>2, <1>3, <2>1 DEF DecOK
  <2>3. IsFiniteSet(S) /\ Cardinality(S) = FecWindow + 1
    <3> DEFINE low == dec.highest - FecWindow
               high == dec.highest
    <3>1. /\ low \in Int /\ high \in Int
          /\ (IF low > high THEN 0 ELSE high - low + 1) = FecWindow + 1
      BY <2>1
    <3> HIDE DEF low, high
    <3>2. IsFiniteSet(low .. high) /\ Cardinality(low .. high) = FecWindow + 1
      BY <3>1, FS_Interval
    <3> QED
      BY <3>2 DEF low, high
  <2> HIDE DEF S
  <2>4. IsFiniteSet(DOMAIN dec.blocks) /\ Cardinality(DOMAIN dec.blocks) <= Cardinality(S)
    BY <2>2, <2>3, FS_Subset
  <2> QED
    BY <2>3, <2>4
<1>5. net \subseteq Frame /\ arrived \subseteq net
  BY DEF BaseInv, NetInv, FrameOK
<1>6. win \in [seen : BOOLEAN, last : Nat, bitmap : SUBSET (0 .. Window - 1)]
  BY <1>2 DEF Wins
<1>7. dec.seen \in BOOLEAN /\ dec.highest \in Nat
  BY <1>2 DEF Decs
<1> QED
  BY <1>2, <1>3, <1>4, <1>5, <1>6, <1>7 DEF TypeOK, BaseInv, EncInv, Counts

\* The variables keep their types, and the decoder never holds more blocks
\* than its window has: evict keeps up with block.
THEOREM TypeCorrect == Spec => []TypeOK
<1>1. BaseInv /\ [Next]_vars => BaseInv'
  BY BaseStep
<1> QED
  BY <1>1, BaseInit, BaseType, PTL DEF Spec

\* No packet is delivered twice, whatever the network repeats and the decoder
\* recovers.
THEOREM AtMostOnce == Spec => []NoDuplicate
<1>1. BaseInv /\ [Next]_vars => BaseInv'
  BY BaseStep
<1>2. BaseInv => NoDuplicate
  BY DEF BaseInv, Good, WinOK, Receiver, NoDuplicate
<1> QED
  BY <1>1, <1>2, BaseInit, PTL DEF Spec

\* The replay window remembers exactly what was delivered within its width.
THEOREM ExactWindow == Spec => []WindowExact
<1>1. BaseInv /\ [Next]_vars => BaseInv'
  BY BaseStep
<1>2. BaseInv => WindowExact
  BY DEF BaseInv, Good, WinOK, Exact, Seen, Receiver, WindowExact, Delivered
<1> QED
  BY <1>1, <1>2, BaseInit, PTL DEF Spec
-----------------------------------------------------------------------------
(* The repair of one loss per block. *)

\* The block has not left the windows.
Current(r, b) == r.dec.highest - b <= FecWindow /\ r.win.last - b * K < Window

\* All its packets have been delivered.
Whole(r, b) == Packets(b) \subseteq Seen(r.times)

\* The decoder knows what has arrived of it, A, and nothing more can be
\* recovered from that; got are the packets that were delivered but have not
\* been given to the decoder yet.
Tracked(r, A, b, got) ==
  LET o == BlockOf(r.dec, b)
  IN  /\ o.data \cup got = Seen(r.times) \cap Packets(b)
      /\ \A f \in A : f.block = b => IF f.type = "data" THEN f.body \subseteq o.data ELSE o.hasParity
      /\ o.hasParity => ParityFrame(b, o.parity) \in net /\ Cardinality(o.data) # K - 1

RepairInv == FecOn => \A b \in Nat : Current(Receiver, b) =>
               Whole(Receiver, b) \/ Tracked(Receiver, arrived, b, {})

\* Blocks have no packet in common.
LEMMA Disjoint ==
  ASSUME NEW a \in Nat, NEW b \in Nat, NEW c \in Packets(a), c \in Packets(b), K > 0
  PROVE  a = b
<1>1. ASSUME NEW x \in Nat, NEW y \in Nat, x < y PROVE x * K + K <= y * K
  <2>1. PICK d \in Nat : y = x + 1 + d
    <3>1. y - x - 1 \in Nat /\ y = x + 1 + (y - x - 1)
      BY <1>1
    <3> QED
      BY <3>1
  <2>2. y * K = (x + 1) * K + d * K
    <3>1. \A p, q, k \in Nat : (p + q) * k = p * k + q * k
      OBVIOUS
    <3>2. x + 1 \in Nat /\ K \in Nat
      BY SessionAssumption
    <3> QED
      BY <2>1, <3>1, <3>2
  <2>3. (x + 1) * K = x * K + K /\ x * K \in Nat /\ d * K \in Nat
    BY <2>1, Product
  <2> QED
    BY <2>2, <2>3, SessionAssumption
<1>2. a * K \in Nat /\ b * K \in Nat
  BY Product
<1>3. c \in Int /\ a * K <= c /\ c < a * K + K /\ b * K <= c /\ c < b * K + K
  BY <1>2, SessionAssumption DEF Packets
<1> QED
  BY <1>1, <1>2, <1>3, SessionAssumption

\* If one of S is missing from D, the difference is that one.
LEMMA OneMissing ==
  ASSUME NEW S, IsFiniteSet(S), NEW D \in SUBSET S, Cardinality(D) = Cardinality(S) - 1
  PROVE  \E c : Xor(S, D) = {c} /\ c \in S /\ S = D \cup {c}
<1>1. IsFiniteSet(D) /\ Cardinality(S) \in Nat
  BY FS_Subset, FS_CardinalityType
<1>2. IsFiniteSet(S \ D) /\ Cardinality(S \ D) = Cardinality(S) - Cardinality(D)
  <2>1. S \cap D = D
    OBVIOUS
  <2>2. IsFiniteSet(S \ D) /\ Cardinality(S \ D) = Cardinality(S) - Cardinality(S \cap D)
    BY FS_Difference
  <2> QED
    BY <2>1, <2>2
<1>3. Cardinality(S \ D) = 1
  BY <1>1, <1>2
<1>4. PICK c : S \ D = {c}
  BY <1>2, <1>3, FS_Singleton
<1>5. Xor(S, D) = S \ D
  BY DEF Xor
<1> QED
  BY <1>4, <1>5

\* The packets of a block are finitely many: K.
LEMMA PacketsFinite ==
  ASSUME NEW b \in Nat
  PROVE  IsFiniteSet(Packets(b)) /\ Cardinality(Packets(b)) = K
<1> DEFINE B == b * K
<1>1. B \in Nat /\ K \in Nat
  BY Product, SessionAssumption
<1> HIDE DEF B
<1>2. IsFiniteSet(B .. B + K - 1) /\ Cardinality(B .. B + K - 1) = IF B > B + K - 1 THEN 0 ELSE B + K - 1 - B + 1
  BY <1>1, FS_Interval
<1>3. (IF B > B + K - 1 THEN 0 ELSE B + K - 1 - B + 1) = K
  BY <1>1
<1> QED
  BY <1>2, <1>3 DEF Packets, B

\* A parity frame on the network covers its block, whose frames were sent.
LEMMA ParityCovers ==
  ASSUME NetInv, NEW b \in Nat, NEW x, ParityFrame(b, x) \in net
  PROVE  x = Packets(b) /\ Packets(b) \subseteq Ctr /\ \A c \in Packets(b) : DataFrame(c, b) \in net
<1> DEFINE p == ParityFrame(b, x)
<1>1. p.type = "parity" /\ p.block = b /\ p.body = x
  BY DEF ParityFrame
<1>2. FrameOK(p, net)
  BY DEF NetInv
<1> HIDE DEF p
<1> QED
  BY <1>1, <1>2 DEF FrameOK, Frame

\* A frame on the network is made of its fields.
LEMMA FrameForm ==
  ASSUME NetInv, NEW f \in net
  PROVE  /\ f \in Frame
         /\ f.type # "data" => f = ParityFrame(f.block, f.body)
         /\ \A c : f.type = "data" /\ f.body = {c} => f = DataFrame(c, f.block)
BY DEF NetInv, FrameOK, Frame, ParityFrame, DataFrame

\* The decoder either tracks the block or, with the last missing packet,
\* makes it whole.
LEMMA DecodeTracks ==
  ASSUME NetInv, FecOn, NEW r, Good(r), NEW f \in net, NEW A, NEW b \in Nat,
         Current(Decode(r, f), b),
         Tracked(r, A, b, IF f.type = "data" /\ f.block = b THEN f.body ELSE {})
  PROVE  Whole(Decode(r, f), b) \/ Tracked(Decode(r, f), A \cup {f}, b, {})
<1> DEFINE q == Decode(r, f)
           d == Added(r.dec, f)
           o == BlockOf(r.dec, b)
           got == IF f.type = "data" /\ f.block = b THEN f.body ELSE {}
<1> SUFFICES Whole(q, b) \/ Tracked(q, A \cup {f}, b, {})
  OBVIOUS
<1>0. /\ f \in Frame /\ f.block \in Nat /\ K \in Nat /\ K > 1
      /\ Good(q) /\ Later(r, q)
      /\ r.dec \in Decs /\ DecOK(r.dec) /\ r.times \in Counts
      /\ r.dec.highest \in Nat /\ FecWindow \in Nat /\ Window \in Nat
  BY FrameForm, GoodDecodes, SessionAssumption DEF Good, Receivers, Decs, Frame, FecOn
<1>1. /\ o.data \cup got = Seen(r.times) \cap Packets(b)
      /\ \A g \in A : g.block = b => IF g.type = "data" THEN g.body \subseteq o.data ELSE o.hasParity
      /\ o.hasParity => ParityFrame(b, o.parity) \in net /\ Cardinality(o.data) # K - 1
  BY DEF Tracked
<1>2. q.dec.highest - b <= FecWindow /\ q.win.last - b * K < Window
  BY DEF Current
<1>3. ASSUME f.block # b, BlockOf(q.dec, b) = o, Seen(q.times) \cap Packets(b) = Seen(r.times) \cap Packets(b)
      PROVE  Tracked(q, A \cup {f}, b, {})
  <2>1. got = {}
    BY <1>3
  <2> HIDE DEF q, o, got
  <2> QED
    BY <1>1, <1>3, <2>1 DEF Tracked
<1>4. CASE Skips(r, f)
  <2>1. q = r
    BY <1>4, DecodeCases
  <2>2. f.block # b
    BY <1>0, <1>2, <1>4, <2>1 DEF Skips, TooOld
  <2> HIDE DEF q
  <2> QED
    BY <1>3, <2>1, <2>2
<1>5. ASSUME ~Skips(r, f)
      PROVE  /\ d \in Decs /\ DecOK(d) /\ d.highest >= r.dec.highest
             /\ f.block \in DOMAIN d.blocks
             /\ d.blocks[f.block] = NewBlock(BlockOf(r.dec, f.block), f)
             /\ \A i \in Nat : i # f.block /\ d.highest - i <= FecWindow =>
                  BlockOf(d, i) = BlockOf(r.dec, i)
  BY <1>0, <1>5, Adds DEF Skips
<1>6. CASE Keeps(r, f)
  <2>0. ~Skips(r, f) /\ ~Recoverable(d, f)
    BY <1>6 DEF Keeps
  <2>1. q.dec = d /\ q.times = r.times
    BY <1>5, <1>6, <2>0, DecodeCases, GoodDecoder
  <2> HIDE DEF q, d
  <2>2. CASE f.block # b
    BY <1>2, <1>3, <1>5, <2>0, <2>1, <2>2 DEF o
  <2>3. CASE f.block = b
    <3> DEFINE x == NewBlock(o, f)
    <3>1. BlockOf(q.dec, b) = x /\ d.blocks[b] = x
      BY <1>5, <2>0, <2>1, <2>3 DEF BlockOf
    <3>2. o \in FecBlock
      BY <1>0, BlocksOK
    <3>3. ~(x.hasParity /\ Cardinality(x.data) = K - 1)
      BY <2>0, <2>3, <3>1 DEF Recoverable
    <3> HIDE DEF o
    <3>4. CASE f.type = "data"
      <4>1. x.data = o.data \cup f.body /\ x.parity = o.parity /\ x.hasParity = o.hasParity
        BY <1>0, <3>2, <3>4, NewBlockOK
      <4>2. got = f.body
        BY <2>3, <3>4
      <4> HIDE DEF x, got
      <4> QED
        BY <1>1, <2>1, <3>1, <3>3, <3>4, <4>1, <4>2 DEF Tracked
    <3>5. CASE f.type # "data"
      <4>1. x.data = o.data /\ x.parity = f.body /\ x.hasParity
        BY <1>0, <3>2, <3>5, NewBlockOK
      <4>2. got = {} /\ ParityFrame(b, f.body) \in net
        BY <2>3, <3>5, FrameForm
      <4> HIDE DEF x, got
      <4> QED
        BY <1>1, <2>1, <3>1, <3>3, <3>5, <4>1, <4>2 DEF Tracked
    <3> QED
      BY <3>4, <3>5
  <2> QED
    BY <2>2, <2>3
<1>7. CASE Repairs(r, f)
  <2>0. ~Skips(r, f) /\ Recoverable(d, f)
    BY <1>7 DEF Repairs
  <2> DEFINE s == GaveUp(r, f)
             e == WithoutBlock(d, f.block)
  <2>1. /\ e \in Decs /\ DecOK(e) /\ e.highest = d.highest
        /\ \A i \in Nat : i # f.block => BlockOf(e, i) = BlockOf(d, i)
    <3> HIDE DEF d
    <3> QED
      BY <1>5, <2>0, Forgets
  <2>2. Good(s) /\ s.dec = e /\ s.times = r.times
    <3>1. s = [r EXCEPT !.dec = e]
      BY DEF GaveUp
    <3> HIDE DEF e, s
    <3> QED
      BY <2>1, <3>1, GoodDecoder
  <2>3. IF \E c \in Ctr : Lost(r, f) = {c} /\ DataFrame(c, f.block) \in net
        THEN \E c \in Ctr : /\ Lost(r, f) = {c} /\ DataFrame(c, f.block) \in net
                            /\ q = Deliver(s, c)
        ELSE q = s
    BY <1>7, DecodeCases
  <2>4. Lost(r, f) = Xor(d.blocks[f.block].parity, d.blocks[f.block].data)
    BY DEF Lost, Missing
  <2>5. \A c \in Ctr : /\ Deliver(s, c).dec = e
                       /\ Seen(r.times) \subseteq Seen(Deliver(s, c).times)
                       /\ Seen(Deliver(s, c).times) \subseteq Seen(r.times) \cup {c}
                       /\ c \in Seen(Deliver(s, c).times) \/ Deliver(s, c).win.last - c >= Window
    <3> HIDE DEF s, e
    <3> QED
      BY <2>2, Delivers DEF Good
  <2> HIDE DEF q, d, e, s
  <2>6. q.dec = e
    BY <2>2, <2>3, <2>5
  <2>7. CASE f.block # b
    <3>1. BlockOf(q.dec, b) = o
      BY <1>2, <1>5, <2>0, <2>1, <2>6, <2>7 DEF o
    <3>2. Seen(q.times) \cap Packets(b) = Seen(r.times) \cap Packets(b)
      <4>1. CASE q = s
        BY <2>2, <4>1
      <4>2. ASSUME NEW c \in Ctr, DataFrame(c, f.block) \in net, q = Deliver(s, c)
            PROVE  Seen(q.times) \cap Packets(b) = Seen(r.times) \cap Packets(b)
        <5>1. c \in Packets(f.block)
          <6> DEFINE g == DataFrame(c, f.block)
          <6>1. g.type = "data" /\ g.block = f.block /\ g.body = {c}
            BY DEF DataFrame
          <6>2. FrameOK(g, net)
            BY <4>2 DEF NetInv
          <6> HIDE DEF g
          <6> QED
            BY <6>1, <6>2 DEF FrameOK, Carries
        <5>2. c \notin Packets(b)
          BY <1>0, <2>7, <5>1, Disjoint
        <5> QED
          BY <2>5, <4>2, <5>2
      <4> QED
        BY <2>3, <4>1, <4>2
    <3> QED
      BY <1>3, <2>7, <3>1, <3>2
  <2>8. CASE f.block = b
    <3> DEFINE x == NewBlock(o, f)
    <3>1. d.blocks[b] = x /\ o \in FecBlock
      BY <1>0, <1>5, <2>0, <2>8, BlocksOK
    <3>2. x.hasParity /\ Cardinality(x.data) = K - 1
      BY <2>0, <2>8, <3>1 DEF Recoverable
    <3> HIDE DEF o
    <3>3. x.data = Seen(r.times) \cap Packets(b) /\ ParityFrame(b, x.parity) \in net
      <4>1. CASE f.type = "data"
        <5>1. x.data = o.data \cup f.body /\ x.parity = o.parity /\ x.hasParity = o.hasParity
          BY <1>0, <3>1, <4>1, NewBlockOK
        <5>2. got = f.body
          BY <2>8, <4>1
        <5> HIDE DEF x, got
        <5> QED
          BY <1>1, <3>2, <5>1, <5>2
      <4>2. CASE f.type # "data"
        <5>1. x.data = o.data /\ x.parity = f.body
          BY <1>0, <3>1, <4>2, NewBlockOK
        <5>2. got = {} /\ ParityFrame(b, f.body) \in net
          BY <2>8, <4>2, FrameForm
        <5> HIDE DEF x, got
        <5> QED
          BY <1>1, <5>1, <5>2
      <4> QED
        BY <4>1, <4>2
    <3> HIDE DEF x
    <3>4. /\ x.parity = Packets(b) /\ Packets(b) \subseteq Ctr
          /\ \A c \in Packets(b) : DataFrame(c, b) \in net
      BY <3>3, ParityCovers
    <3>5. PICK c : Xor(Packets(b), x.data) = {c} /\ c \in Packets(b) /\ Packets(b) = x.data \cup {c}
      <4>1. x.data \in SUBSET Packets(b) /\ Cardinality(x.data) = Cardinality(Packets(b)) - 1
            /\ IsFiniteSet(Packets(b))
        BY <3>2, <3>3, PacketsFinite
      <4> QED
        BY <4>1, OneMissing
    <3>6. Lost(r, f) = {c} /\ c \in Ctr /\ DataFrame(c, f.block) \in net
      BY <2>4, <2>8, <3>1, <3>4, <3>5
    <3>7. q = Deliver(s, c)
      BY <2>3, <3>6
    <3>8. q.win.last - c < Window
      <4> DEFINE B == b * K
      <4>1. B \in Nat
        BY Product
      <4>2. q.win.last \in Nat
        BY <1>0 DEF Good, Receivers, Wins
      <4>3. c \in Int /\ c >= B
        BY <1>0, <3>5, <4>1 DEF Packets
      <4>4. q.win.last - B < Window
        BY <1>2
      <4> HIDE DEF B
      <4> QED
        BY <1>0, <4>1, <4>2, <4>3, <4>4
    <3>9. c \in Seen(q.times) /\ Seen(r.times) \subseteq Seen(q.times)
      <4>1. q.win.last \in Nat /\ c \in Nat
        BY <1>0, <3>6, CtrNat DEF Good, Receivers, Wins
      <4> QED
        BY <1>0, <2>5, <3>6, <3>7, <3>8, <4>1
    <3>10. Whole(q, b)
      BY <3>3, <3>5, <3>9 DEF Whole
    <3> QED
      BY <3>10
  <2> QED
    BY <2>7, <2>8
<1> QED
  BY <1>4, <1>6, <1>7, DecodeCases

\* A block that is current after a step was current before it.
LEMMA CurrentBefore ==
  ASSUME NEW r, NEW q, Good(r), Good(q), Later(r, q), NEW b \in Nat, Current(q, b)
  PROVE  Current(r, b)
<1> DEFINE B == b * K
<1>1. B \in Nat /\ FecWindow \in Nat /\ Window \in Nat
  BY Product, SessionAssumption
<1>2. r.win.last \in Nat /\ q.win.last \in Nat /\ r.dec.highest \in Nat /\ q.dec.highest \in Nat
  BY DEF Good, Receivers, Wins, Decs
<1>3. q.dec.highest - b <= FecWindow /\ q.win.last - B < Window
  BY DEF Current
<1> HIDE DEF B
<1>4. r.dec.highest - b <= FecWindow /\ r.win.last - B < Window
  BY <1>1, <1>2, <1>3 DEF Later
<1> QED
  BY <1>4 DEF Current, B

\* Open keeps a current block whole or tracked.
LEMMA OpenTracks ==
  ASSUME NetInv, FecOn, NEW r, Good(r), NEW f \in net, NEW A, NEW b \in Nat,
         Current(Opened(r, f), b), Tracked(r, A, b, {})
  PROVE  Whole(Opened(r, f), b) \/ Tracked(Opened(r, f), A \cup {f}, b, {})
<1> DEFINE q == Opened(r, f)
           o == BlockOf(r.dec, b)
<1> SUFFICES Whole(q, b) \/ Tracked(q, A \cup {f}, b, {})
  OBVIOUS
<1>0. /\ o.data = Seen(r.times) \cap Packets(b)
      /\ \A g \in A : g.block = b => IF g.type = "data" THEN g.body \subseteq o.data ELSE o.hasParity
      /\ o.hasParity => ParityFrame(b, o.parity) \in net /\ Cardinality(o.data) # K - 1
  BY DEF Tracked
<1>1. CASE f.type = "parity"
  <2>1. q = Decode(r, f)
    BY <1>1, OpenedCases
  <2>2. (IF f.type = "data" /\ f.block = b THEN f.body ELSE {}) = {}
    BY <1>1
  <2> QED
    BY <2>1, <2>2, DecodeTracks
<1>2. CASE f.type # "parity"
  <2>0. f.type = "data" /\ f.block \in Nat /\ FrameOK(f, net)
    BY <1>2 DEF NetInv, FrameOK, Frame
  <2>1. PICK c : Carries(f, c) /\ c \in Packets(f.block)
    BY <2>0 DEF FrameOK
  <2>2. c \in Ctr /\ f.body = {c} /\ c \in Nat
    BY <2>1, CtrNat DEF Carries
  <2>3. f.block # b => c \notin Packets(b)
    <3>1. K > 0
      BY SessionAssumption DEF FecOn
    <3> QED
      BY <2>0, <2>1, <3>1, Disjoint
  <2>4. CASE Accepts(r.win, c)
    <3> DEFINE s == Deliver(r, c)
               got == IF f.type = "data" /\ f.block = b THEN f.body ELSE {}
    <3>1. q = Decode(s, f)
      BY <1>2, <2>1, <2>4, OpenedCases
    <3>2. /\ Good(s) /\ s.dec = r.dec
          /\ Seen(s.times) = Seen(r.times) \cup {c}
      BY <2>2, <2>4, GoodDelivers, Delivers DEF Good
    <3>3. o.data \cup got = Seen(s.times) \cap Packets(b)
      BY <1>0, <2>0, <2>1, <2>2, <2>3, <3>2
    <3>4. Tracked(s, A, b, got)
      <4> HIDE DEF s, got
      <4> QED
        BY <1>0, <3>2, <3>3 DEF Tracked
    <3> HIDE DEF s
    <3> QED
      BY <3>1, <3>2, <3>4, DecodeTracks
  <2>5. CASE ~Accepts(r.win, c)
    <3>1. q = r
      BY <1>2, <2>1, <2>5, OpenedCases
    <3>2. f.block = b => f.body \subseteq o.data
      <4> SUFFICES ASSUME f.block = b PROVE c \in o.data
        BY <2>2
      <4>1. r.win \in Wins /\ r.times \in Counts /\ WinOK(r.win, r.times) /\ r.win.last \in Nat
        BY DEF Good, Receivers, Wins
      <4>2. c \in Seen(r.times) \/ r.win.last - c >= Window
        BY <2>2, <2>5, <4>1, RefusesOld
      <4>3. r.win.last - c < Window
        <5> DEFINE B == b * K
        <5>1. B \in Nat /\ K \in Nat /\ Window \in Nat
          BY Product, SessionAssumption
        <5>2. r.win.last - B < Window
          BY <3>1 DEF Current
        <5>3. c >= B
          BY <2>1, <2>2, <5>1 DEF Packets
        <5> HIDE DEF B
        <5> QED
          BY <2>2, <4>1, <5>1, <5>2, <5>3
      <4>4. c \in Seen(r.times)
        BY <2>2, <4>1, <4>2, <4>3, SessionAssumption
      <4> QED
        BY <1>0, <2>1, <4>4
    <3> HIDE DEF o, q
    <3> QED
      BY <1>0, <2>0, <3>1, <3>2 DEF Tracked, o
  <2> QED
    BY <2>4, <2>5
<1> QED
  BY <1>1, <1>2

\* Tracked refers to the frames sent, which only grow.
LEMMA TrackedGrows ==
  ASSUME NEW r, NEW A, NEW b, Tracked(r, A, b, {}), net \subseteq net',
         Receiver' = r, arrived' = A
  PROVE  Tracked(Receiver, arrived, b, {})'
<1>1. \A x : ParityFrame(b, x) \in net => ParityFrame(b, x) \in net'
  OBVIOUS
<1> HIDE DEF Receiver
<1> QED
  BY <1>1 DEF Tracked

\* RepairInv is preserved.
LEMMA RepairStep == ASSUME BaseInv, RepairInv, [Next]_vars PROVE RepairInv'
<1>0. /\ NetInv /\ Good(Receiver) /\ Good(Receiver') /\ Later(Receiver, Receiver')
      /\ FecOn' = FecOn
  BY BaseStep DEF BaseInv, FecOn
<1>1. net \subseteq net'
  BY DEF Next, Seal, Open, vars
<1> SUFFICES ASSUME FecOn, NEW b \in Nat, Current(Receiver', b)
             PROVE  Whole(Receiver', b) \/ Tracked(Receiver, arrived, b, {})'
  BY <1>0 DEF RepairInv, Whole, Current
<1>2. Current(Receiver, b)
  BY <1>0, CurrentBefore
<1>3. CASE Whole(Receiver, b)
  BY <1>0, <1>3 DEF Whole, Later
<1>4. CASE Tracked(Receiver, arrived, b, {})
  <2>1. CASE Seal \/ UNCHANGED vars
    <3>1. Receiver' = Receiver /\ arrived' = arrived
      BY <2>1 DEF Seal, vars, Receiver
    <3> QED
      BY <1>1, <1>4, <3>1, TrackedGrows
  <2>2. ASSUME NEW f \in net, Open(f)
        PROVE  Whole(Receiver', b) \/ Tracked(Receiver, arrived, b, {})'
    <3>1. f \in Frame /\ (f.type = "data" => \E c : Carries(f, c))
      BY <1>0 DEF NetInv, FrameOK
    <3>2. Receiver' = Opened(Receiver, f)
      BY <1>0, <2>2, <3>1, GoodOpens, OpenReceiver
    <3>3. arrived' = arrived \cup {f}
      BY <2>2 DEF Open
    <3>4. Whole(Opened(Receiver, f), b) \/ Tracked(Opened(Receiver, f), arrived \cup {f}, b, {})
      BY <1>0, <1>4, <3>2, OpenTracks
    <3> QED
      BY <1>1, <3>2, <3>3, <3>4, TrackedGrows
  <2> QED
    BY <2>1, <2>2 DEF Next
<1> QED
  BY <1>2, <1>3, <1>4 DEF RepairInv

\* Nothing has arrived initially.
LEMMA RepairInit == Init => RepairInv
<1> SUFFICES ASSUME Init, NEW b \in Nat PROVE Tracked(Receiver, arrived, b, {})
  BY DEF RepairInv
<1>1. BlockOf(dec, b) = NoBlock /\ Seen(times) = {} /\ arrived = {}
  BY DEF Init, BlockOf, Seen
<1>2. NoBlock.data = {} /\ NoBlock.hasParity = FALSE
  BY DEF NoBlock
<1>3. Receiver.dec = dec /\ Receiver.times = times
  BY DEF Receiver
<1> QED
  BY <1>1, <1>2, <1>3 DEF Tracked

\* A block of which all data frames but one and the parity have arrived is
\* whole.
LEMMA RepairOK == BaseInv /\ RepairInv => OneLossRepaired
<1> SUFFICES ASSUME BaseInv, RepairInv, FecOn, NEW p \in arrived, p.type = "parity",
                    NEW got, got = {f \in arrived : f.type = "data" /\ f.block = p.block},
                    Cardinality(got) >= K - 1, dec.highest - p.block <= FecWindow,
                    win.last - p.block * K < Window
             PROVE  p.body \subseteq Delivered
  BY DEF OneLossRepaired
<1> DEFINE b == p.block
<1>0. Receiver.dec = dec /\ Receiver.win = win /\ Receiver.times = times /\ Delivered = Seen(times)
  BY DEF Receiver, Delivered, Seen
<1>1. NetInv /\ p \in net /\ b \in Nat /\ p.body = Packets(b) /\ K \in Nat
  BY SessionAssumption DEF BaseInv, NetInv, FrameOK, Frame
<1>2. Whole(Receiver, b) \/ Tracked(Receiver, arrived, b, {})
  BY <1>0, <1>1 DEF RepairInv, Current
<1>3. CASE Whole(Receiver, b)
  BY <1>0, <1>1, <1>3 DEF Whole
<1>4. CASE Tracked(Receiver, arrived, b, {})
  <2> DEFINE D == BlockOf(dec, b).data
  <2>1. /\ D = Seen(times) \cap Packets(b)
        /\ Cardinality(D) # K - 1
        /\ \A f \in got : f.body \subseteq D
    BY <1>0, <1>4 DEF Tracked
  <2>2. D \in SUBSET Packets(b) /\ IsFiniteSet(Packets(b)) /\ Cardinality(Packets(b)) = K
    BY <1>1, <2>1, PacketsFinite
  <2> HIDE DEF D
  <2>3. IsFiniteSet(D) /\ Cardinality(D) \in Nat /\ Cardinality(D) <= K
        /\ (Cardinality(D) = K => D = Packets(b))
    BY <2>2, FS_Subset, FS_CardinalityType
  <2>4. Cardinality(got) <= Cardinality(D) /\ Cardinality(got) \in Nat
    <3> DEFINE h == [f \in got |-> CHOOSE c : f.body = {c}]
    <3>1. ASSUME NEW f \in got PROVE f.body = {h[f]} /\ f = DataFrame(h[f], b) /\ h[f] \in D
      <4>1. f \in net /\ f.type = "data" /\ f.block = b
        BY <1>1 DEF NetInv
      <4>2. \E c : f.body = {c}
        BY <1>1, <4>1 DEF NetInv, FrameOK, Carries
      <4>3. f.body = {h[f]}
        BY <4>2
      <4> HIDE DEF h
      <4> QED
        BY <1>1, <2>1, <4>1, <4>3, FrameForm
    <3>2. h \in [got -> D]
      BY <3>1
    <3> HIDE DEF h
    <3>3. h \in Injection(got, D)
      <4>1. ASSUME NEW f \in got, NEW g \in got, h[f] = h[g] PROVE f = g
        BY <3>1, <4>1
      <4> QED
        BY <3>2, <4>1 DEF Injection, IsInjective
    <3>4. IsFiniteSet(got) /\ Cardinality(got) <= Cardinality(D)
      BY <2>3, <3>3, FS_Injection
    <3> QED
      BY <3>4, FS_CardinalityType
  <2>5. Cardinality(D) = K
    BY <1>1, <2>1, <2>3, <2>4
  <2> QED
    BY <1>0, <1>1, <2>1, <2>3, <2>5
<1> QED
  BY <1>2, <1>3, <1>4

\* One lost frame per block is repaired, in any order of arrival and with any
\* duplicates, as long as the block is within the windows.
THEOREM LossRepaired == Spec => []OneLossRepaired
<1>1. BaseInv /\ RepairInv /\ [Next]_vars => BaseInv' /\ RepairInv'
  BY BaseStep, RepairStep
<1> QED
  BY <1>1, BaseInit, RepairInit, RepairOK, PTL DEF Spec
=============================================================================
