----------------------------- MODULE DpSession -----------------------------
(***************************************************************************)
(* One direction of a data-plane tunnel session (internal/dptunnel:        *)
(* session.go, replay.go, fec.go): the sender seals packets under a        *)
(* counter and adds an XOR parity frame after every K of them; the         *)
(* receiver authenticates, keeps a sliding replay window, and repairs a    *)
(* block with one missing frame.                                           *)
(*                                                                         *)
(* UDP loses, duplicates and reorders: every frame ever sent may arrive    *)
(* any number of times, in any order, or never.  A packet is its counter.  *)
(* The XOR of data bodies is the symmetric difference of the counters      *)
(* combined; a result that is not one counter is garbage, which AEAD (an   *)
(* external library) rejects.                                              *)
(***************************************************************************)
EXTENDS Integers, FiniteSets

CONSTANTS
  K,          \* fecK: data frames per parity frame; at most 1 disables FEC
  Window,     \* replayWindowSize
  FecWindow,  \* fecWindow
  RekeyAfter  \* rekeyAfter: counters a session may use

ASSUME SessionAssumption ==
  K \in Nat /\ Window \in Nat \ {0} /\ FecWindow \in Nat /\ RekeyAfter \in Nat

VARIABLES
  sendCtr,  \* Session.sendCtr
  enc,      \* fecEncoder: block, data frames in it, their XOR
  net,      \* frames ever sent
  win,      \* replayWindow
  dec,      \* fecDecoder
  times,    \* how often the packet of a counter was delivered
  arrived   \* history: frames that Open has processed

vars == <<sendCtr, enc, net, win, dec, times, arrived>>

FecOn == K > 1
Ctr == 0 .. RekeyAfter - 1
Xor(a, b) == (a \ b) \cup (b \ a)
NoBlock == [data |-> {}, parity |-> {}, hasParity |-> FALSE]

Init ==
  /\ sendCtr = 0
  /\ enc = [block |-> 0, count |-> 0, parity |-> {}]
  /\ net = {}
  /\ win = [seen |-> FALSE, last |-> 0, bitmap |-> {}]
  /\ dec = [seen |-> FALSE, highest |-> 0, blocks |-> [b \in {} |-> NoBlock]]
  /\ times = [c \in Ctr |-> 0]
  /\ arrived = {}

-----------------------------------------------------------------------------
(* The sender. *)

DataFrame(c, b) == [type |-> "data", block |-> b, body |-> {c}]
ParityFrame(b, x) == [type |-> "parity", block |-> b, body |-> x]

\* fecEncoder.add: does this data frame complete its block?
Completes == FecOn /\ enc.count + 1 >= K

\* Seal, with peek, add and sealParity of the encoder.  At RekeyAfter the
\* session refuses to send.
Seal ==
  /\ sendCtr < RekeyAfter
  /\ sendCtr' = sendCtr + 1
  /\ LET x == Xor(enc.parity, {sendCtr})
         b == IF FecOn THEN enc.block ELSE sendCtr
     IN  /\ net' = net \cup {DataFrame(sendCtr, b)}
                       \cup (IF Completes THEN {ParityFrame(b, x)} ELSE {})
         /\ enc' = IF Completes THEN [block |-> b + 1, count |-> 0, parity |-> {}]
                   ELSE IF FecOn THEN [block |-> b, count |-> enc.count + 1, parity |-> x]
                   ELSE enc
  /\ UNCHANGED <<win, dec, times, arrived>>

-----------------------------------------------------------------------------
(* The replay window: bit i of the bitmap says that last - i was seen. *)

\* Mutant: the bit of a counter inside the window is not looked at.
AcceptsMut(w, c) == ~w.seen \/ c > w.last \/ (c < w.last /\ w.last - c < Window)

\* replayWindow.accept: its result
Accepts(w, c) ==
  \/ ~w.seen
  \/ c > w.last
  \/ c < w.last /\ w.last - c < Window /\ (w.last - c) \notin w.bitmap

\* Mutant: the last bit of the window is lost when it moves.
ShiftMut(bitmap, d) == {i \in d .. Window - 2 : i - d \in bitmap}

\* bitmap << d in a word of Window bits
Shift(bitmap, d) == {i \in d .. Window - 1 : i - d \in bitmap}

\* replayWindow.accept: its effect, when it accepts
Recorded(w, c) ==
  IF ~w.seen THEN [seen |-> TRUE, last |-> c, bitmap |-> {0}]
  ELSE IF c > w.last
  THEN [seen |-> TRUE, last |-> c, bitmap |-> Shift(w.bitmap, c - w.last) \cup {0}]
  ELSE [w EXCEPT !.bitmap = @ \cup {w.last - c}]

-----------------------------------------------------------------------------
(* The FEC decoder. *)

\* Mutant: blocks that leave the window are kept.
KeptMut(d, b, h) == DOMAIN d.blocks \cup {b}

\* evict: the blocks inside the window that ends at h.  (The hard limit
\* fecMaxBlocks is larger than the window: see TypeOK.)
Kept(d, b, h) == {i \in DOMAIN d.blocks \cup {b} : h - i <= FecWindow}

TooOld(d, b) == d.seen /\ d.highest - b > FecWindow

\* block: get the block, or create it and evict old ones.
WithBlock(d, b) ==
  IF b \in DOMAIN d.blocks THEN d
  ELSE LET h == IF d.seen /\ b <= d.highest THEN d.highest ELSE b
       IN  [seen |-> TRUE, highest |-> h,
            blocks |-> [i \in Kept(d, b, h) |->
                          IF i \in DOMAIN d.blocks THEN d.blocks[i] ELSE NoBlock]]

\* What a frame adds to its block.
NewBlock(o, f) ==
  IF f.type = "data" THEN [o EXCEPT !.data = @ \cup f.body]
  ELSE [o EXCEPT !.parity = f.body, !.hasParity = TRUE]

\* addData and addParity, before tryRecover
Added(d, f) == [WithBlock(d, f.block) EXCEPT !.blocks[f.block] = NewBlock(@, f)]

\* Mutant: recovery is tried only when the parity frame arrives.
RecoverableMut(d, f) ==
  /\ f.type = "parity"
  /\ Cardinality(d.blocks[f.block].data) = K - 1

\* tryRecover: there is parity, and exactly one data frame is missing.
Recoverable(d, f) ==
  /\ d.blocks[f.block].hasParity
  /\ Cardinality(d.blocks[f.block].data) = K - 1

\* tryRecover: the missing body
Missing(d, b) == Xor(d.blocks[b].parity, d.blocks[b].data)

WithoutBlock(d, b) == [d EXCEPT !.blocks = [i \in DOMAIN d.blocks \ {b} |-> d.blocks[i]]]

-----------------------------------------------------------------------------
(* Open, the whole handler, on a receiver state [win, dec, times]. *)

\* openAndAccept of an authentic body.
Deliver(r, c) ==
  IF Accepts(r.win, c)
  THEN [r EXCEPT !.win = Recorded(r.win, c), !.times[c] = @ + 1] ELSE r

\* The frame goes through the decoder; a recovered body is delivered too if
\* it authenticates as the missing frame of the block.
Decode(r, f) ==
  LET d == Added(r.dec, f)
      m == Missing(d, f.block)
  IN  IF ~FecOn \/ TooOld(r.dec, f.block) THEN r
      ELSE IF ~Recoverable(d, f) THEN [r EXCEPT !.dec = d]
      ELSE LET s == [r EXCEPT !.dec = WithoutBlock(d, f.block)]
           IN  IF \E c \in Ctr : m = {c} /\ DataFrame(c, f.block) \in net
               THEN Deliver(s, CHOOSE c \in Ctr : m = {c}) ELSE s

\* Open.  A data frame that is a replay or too old is not given to the
\* decoder.
Opened(r, f) ==
  IF f.type = "parity" THEN Decode(r, f)
  ELSE LET c == CHOOSE x \in Ctr : f.body = {x}
       IN  IF Accepts(r.win, c) THEN Decode(Deliver(r, c), f) ELSE r

Open(f) ==
  /\ LET r == Opened([win |-> win, dec |-> dec, times |-> times], f)
     IN  win' = r.win /\ dec' = r.dec /\ times' = r.times
  /\ arrived' = arrived \cup {f}
  /\ UNCHANGED <<sendCtr, enc, net>>

Next == Seal \/ \E f \in net : Open(f)

Spec == Init /\ [][Next]_vars

-----------------------------------------------------------------------------
(* Properties. *)

Frame == [type : {"data", "parity"}, block : Nat, body : SUBSET Ctr]
FecBlock == [data : SUBSET Ctr, parity : SUBSET Ctr, hasParity : BOOLEAN]
Delivered == {c \in Ctr : times[c] > 0}

\* The variables have their types; the bitmap has Window bits, and the decoder
\* never holds more blocks than its window has, so that fecMaxBlocks is never
\* reached (block, evict).
TypeOK ==
  /\ sendCtr \in 0 .. RekeyAfter
  /\ enc \in [block : Nat, count : Nat, parity : SUBSET Ctr]
  /\ net \subseteq Frame
  /\ win \in [seen : BOOLEAN, last : Nat, bitmap : SUBSET (0 .. Window - 1)]
  /\ dec.seen \in BOOLEAN /\ dec.highest \in Nat
  /\ DOMAIN dec.blocks \subseteq Nat
  /\ Cardinality(DOMAIN dec.blocks) <= FecWindow + 1
  /\ \A b \in DOMAIN dec.blocks : dec.blocks[b] \in FecBlock
  /\ times \in [Ctr -> Nat]
  /\ arrived \subseteq net

\* No packet is delivered twice, however often its frames arrive and whether
\* it came by itself or was recovered first (accept, appendRecovered).
NoDuplicate == \A c \in Ctr : times[c] <= 1

\* The window is exact: it remembers every delivered counter it still covers
\* and no other, so a packet inside the window is refused only if it was
\* delivered before (accept).
WindowExact ==
  IF win.seen
  THEN /\ win.last \in Delivered
       /\ \A c \in Delivered : c <= win.last
       /\ win.bitmap = {i \in 0 .. Window - 1 : win.last - i \in Delivered}
  ELSE Delivered = {}

\* One lost frame per block is repaired: once the parity frame and all data
\* frames of a block but one have arrived, in any order and with duplicates,
\* every packet of the block has been delivered, provided that the block has
\* not left the windows meanwhile (addData, addParity, tryRecover).
OneLossRepaired ==
  FecOn => \A p \in arrived : p.type = "parity" =>
    LET got == {f \in arrived : f.type = "data" /\ f.block = p.block}
    IN  /\ Cardinality(got) >= K - 1
        /\ dec.highest - p.block <= FecWindow
        /\ win.last - p.block * K < Window
        => p.body \subseteq Delivered
=============================================================================
