----------------------------- MODULE RevStream -----------------------------
(***************************************************************************)
(* The stream multiplexer of the reverse tunnel                            *)
(* (internal/revtunnel/stream.go, stream_connector.go) between a PoP and   *)
(* an App Connector, with the two copy loops ("pumps") that use a stream   *)
(* on either side: pipeBidir (internal/pop/ztnaterm/redirect.go) and       *)
(* handleConnectorOpen.                                                    *)
(*                                                                         *)
(* Payload is abstracted to its position: the k-th DATA frame a side       *)
(* writes on a stream carries k.  The physical connection is one FIFO of   *)
(* frames per direction; it is external (TCP), holds at most WireCap       *)
(* frames, and writing to a full one blocks.                               *)
(***************************************************************************)
EXTENDS Integers, Sequences, FiniteSets

CONSTANTS
  Ids,        \* stream ids, allocated by the PoP
  Cap,        \* streamReadBuf: frames a stream's inbound channel holds
  WireCap,    \* frames in flight per direction
  MaxData,    \* bound: DATA frames a side writes on a stream
  LinkFailures, \* may the connection break or be replaced?
  SinkFailures  \* may the pumps' other ends (client, upstream) fail?

ASSUME CapAssumption == Cap \in Nat \ {0} /\ WireCap \in Nat \ {0} /\ MaxData \in Nat
ASSUME FailuresAssumption == LinkFailures \in BOOLEAN /\ SinkFailures \in BOOLEAN

Ends == {"pop", "connector"}
Peer(e) == IF e = "pop" THEN "connector" ELSE "pop"
Sentinel == 0          \* the nil chunk that remoteClose enqueues
Frame == [type : {"OPEN", "DATA", "CLOSE", "RST"}, id : Ids, n : 0 .. MaxData]

VARIABLES
  link,      \* is the physical connection up?
  wire,      \* frames on their way to an end
  loop,      \* readLoop: the DATA frame deliver is blocked on, if any
  closed,    \* muxConn.closed
  inMap,     \* ids in muxConn.streams
  inbound,   \* stream.inbound
  remoteEOF, \* stream.remoteEOF
  resetErr,  \* stream.resetErr, set exactly when doneCh is closed
  localDone, \* stream.localDone
  writer,    \* the pump that writes to the stream
  reader,    \* the pump that reads from it
  sent,      \* DATA frames written by an end
  got        \* chunks Read has returned at an end

muxVars    == <<link, wire, loop, closed, inMap>>
streamVars == <<inbound, remoteEOF, resetErr, localDone>>
pumpVars   == <<writer, reader, sent, got>>
vars       == <<muxVars, streamVars, pumpVars>>

PerStream(v) == [e \in Ends |-> [i \in Ids |-> v]]

Init ==
  /\ link = TRUE
  /\ wire = [e \in Ends |-> <<>>]
  /\ loop = [e \in Ends |-> {}]
  /\ closed = [e \in Ends |-> FALSE]
  /\ inMap = [e \in Ends |-> {}]
  /\ inbound = PerStream(<<>>)
  /\ remoteEOF = PerStream(FALSE)
  /\ resetErr = PerStream("none")
  /\ localDone = PerStream(FALSE)
  /\ writer = PerStream("none")
  /\ reader = PerStream("none")
  /\ sent = PerStream(0)
  /\ got = PerStream(<<>>)

-----------------------------------------------------------------------------
(* Building blocks. *)

\* writeFrame from end e blocks while the connection takes no more; on a
\* broken connection it fails at once.
CanWrite(e) == link => Len(wire[Peer(e)]) < WireCap
Wrote(e, f) == IF link THEN [wire EXCEPT ![Peer(e)] = Append(@, f)] ELSE wire

\* shutdown: closeOnce makes the first cause stick.
Shut(e, i, cause) ==
  resetErr' = IF resetErr[e][i] = "none" THEN [resetErr EXCEPT ![e][i] = cause] ELSE resetErr

\* Mutant: the map entry of a closed stream is never removed.
ReapedMut(e, i, other) == inMap[e]

\* reapIfDone, for a stream that has just become closed on one side and is
\* closed on the other if "other" says so.
Reaped(e, i, other) == IF other THEN inMap[e] \ {i} ELSE inMap[e]

-----------------------------------------------------------------------------
(* Opening a stream. *)

\* openStream on the PoP, by proxyConn, which then starts its pumps.
OpenStream(i) ==
  /\ ~closed["pop"] /\ link
  /\ writer["pop"][i] = "none"
  /\ CanWrite("pop")
  /\ inMap' = [inMap EXCEPT !["pop"] = @ \cup {i}]
  /\ wire' = Wrote("pop", [type |-> "OPEN", id |-> i, n |-> 0])
  /\ writer' = [writer EXCEPT !["pop"][i] = "run"]
  /\ reader' = [reader EXCEPT !["pop"][i] = "run"]
  /\ UNCHANGED <<link, loop, closed, streamVars, sent, got>>

\* handleConnectorOpen: the upstream answers and both pumps start.
DialOK(i) ==
  /\ writer["connector"][i] = "dial"
  /\ writer' = [writer EXCEPT !["connector"][i] = "run"]
  /\ reader' = [reader EXCEPT !["connector"][i] = "run"]
  /\ UNCHANGED <<muxVars, streamVars, sent, got>>

\* handleConnectorOpen: the dial fails and the stream is reset.
DialFail(i) ==
  /\ writer["connector"][i] = "dial"
  /\ CanWrite("connector")
  /\ wire' = IF resetErr["connector"][i] = "none"
             THEN Wrote("connector", [type |-> "RST", id |-> i, n |-> 0]) ELSE wire
  /\ Shut("connector", i, "reset")
  /\ inMap' = [inMap EXCEPT !["connector"] = @ \ {i}]
  /\ writer' = [writer EXCEPT !["connector"][i] = "done"]
  /\ UNCHANGED <<link, loop, closed, inbound, remoteEOF, localDone, reader, sent, got>>

-----------------------------------------------------------------------------
(* The read loop of an end. *)

\* Mutant: the loop goes on to the next frame while deliver is blocked.
IdleMut(e) == ~closed[e]

Idle(e) == ~closed[e] /\ loop[e] = {}
Takes(e, type) == Idle(e) /\ wire[e] # <<>> /\ Head(wire[e]).type = type
Consumed(e) == [wire EXCEPT ![e] = Tail(@)]

\* dispatch OPEN: the connector enters the stream before the next frame is
\* looked at, and dials in a goroutine.
RecvOpen(e) ==
  /\ Takes(e, "OPEN")
  /\ wire' = Consumed(e)
  /\ IF e = "connector"
     THEN LET i == Head(wire[e]).id
          IN  /\ inMap' = [inMap EXCEPT ![e] = @ \cup {i}]
              /\ writer' = [writer EXCEPT ![e][i] = "dial"]
     ELSE UNCHANGED <<inMap, writer>>
  /\ UNCHANGED <<link, loop, closed, streamVars, reader, sent, got>>

\* dispatch DATA: look the stream up and start to deliver.
RecvData(e) ==
  /\ Takes(e, "DATA")
  /\ wire' = Consumed(e)
  /\ loop' = IF Head(wire[e]).id \in inMap[e]
             THEN [loop EXCEPT ![e] = {Head(wire[e])}] ELSE loop
  /\ UNCHANGED <<link, closed, inMap, streamVars, pumpVars>>

\* Mutant: a full channel drops the chunk instead of blocking the loop.
DeliverMut(e) ==
  /\ \E f \in loop[e] :
       inbound' = IF Len(inbound[e][f.id]) < Cap
                  THEN [inbound EXCEPT ![e][f.id] = Append(@, f.n)] ELSE inbound
  /\ loop' = [loop EXCEPT ![e] = {}]
  /\ UNCHANGED <<link, wire, closed, inMap, remoteEOF, resetErr, localDone, pumpVars>>

\* deliver: enqueue when there is room, or drop when doneCh is closed; blocks
\* the read loop otherwise.
Deliver(e) ==
  /\ \E f \in loop[e] :
       \/ /\ Len(inbound[e][f.id]) < Cap
          /\ inbound' = [inbound EXCEPT ![e][f.id] = Append(@, f.n)]
       \/ /\ resetErr[e][f.id] # "none"
          /\ inbound' = inbound
  /\ loop' = [loop EXCEPT ![e] = {}]
  /\ UNCHANGED <<link, wire, closed, inMap, remoteEOF, resetErr, localDone, pumpVars>>

\* dispatch CLOSE: remoteClose marks the stream and wakes its reader with a
\* sentinel, unless the channel is full.
RecvClose(e) ==
  /\ Takes(e, "CLOSE")
  /\ wire' = Consumed(e)
  /\ LET i == Head(wire[e]).id
     IN  IF i \in inMap[e]
         THEN /\ remoteEOF' = [remoteEOF EXCEPT ![e][i] = TRUE]
              /\ inbound' = IF Len(inbound[e][i]) < Cap
                            THEN [inbound EXCEPT ![e][i] = Append(@, Sentinel)] ELSE inbound
              /\ inMap' = [inMap EXCEPT ![e] = Reaped(e, i, localDone[e][i])]
         ELSE UNCHANGED <<remoteEOF, inbound, inMap>>
  /\ UNCHANGED <<link, loop, closed, resetErr, localDone, pumpVars>>

\* dispatch RST
RecvReset(e) ==
  /\ Takes(e, "RST")
  /\ wire' = Consumed(e)
  /\ LET i == Head(wire[e]).id
     IN  IF i \in inMap[e]
         THEN Shut(e, i, "reset") /\ inMap' = [inMap EXCEPT ![e] = @ \ {i}]
         ELSE UNCHANGED <<resetErr, inMap>>
  /\ UNCHANGED <<link, loop, closed, inbound, remoteEOF, localDone, pumpVars>>

\* The connection breaks; what was on it is lost.
LinkFail ==
  /\ LinkFailures /\ link
  /\ link' = FALSE
  /\ wire' = [e \in Ends |-> <<>>]
  /\ UNCHANGED <<loop, closed, inMap, streamVars, pumpVars>>

\* closeAll, at the end of readLoop or because a newer connector replaced
\* this one (Registry.registerStream): all streams of the map are shut down
\* and the connection is closed.
CloseAll(e) ==
  /\ ~closed[e]
  /\ \/ ~link /\ loop[e] = {}
     \/ LinkFailures /\ e = "pop"
  /\ closed' = [closed EXCEPT ![e] = TRUE]
  /\ resetErr' = [resetErr EXCEPT ![e] =
       [i \in Ids |-> IF i \in inMap[e] /\ @[i] = "none" THEN "mux" ELSE @[i]]]
  /\ inMap' = [inMap EXCEPT ![e] = {}]
  /\ link' = FALSE
  /\ wire' = [d \in Ends |-> <<>>]
  /\ UNCHANGED <<loop, inbound, remoteEOF, localDone, pumpVars>>

-----------------------------------------------------------------------------
(* The pumps. *)

\* io.Copy into the stream: Write sends one DATA frame.
Write(e, i) ==
  /\ writer[e][i] = "run"
  /\ resetErr[e][i] = "none"
  /\ link /\ CanWrite(e)
  /\ sent[e][i] < MaxData
  /\ sent' = [sent EXCEPT ![e][i] = @ + 1]
  /\ wire' = Wrote(e, [type |-> "DATA", id |-> i, n |-> sent[e][i] + 1])
  /\ UNCHANGED <<link, loop, closed, inMap, streamVars, writer, reader, got>>

\* Write on a broken connection shuts the stream down.
WriteFail(e, i) ==
  /\ writer[e][i] = "run"
  /\ resetErr[e][i] = "none"
  /\ ~link
  /\ Shut(e, i, "mux")
  /\ inMap' = [inMap EXCEPT ![e] = @ \ {i}]
  /\ UNCHANGED <<link, wire, loop, closed, inbound, remoteEOF, localDone, pumpVars>>

\* The source is exhausted, or Write returned an error: the pump calls Close,
\* which marks the stream first.
CloseStream(e, i) ==
  /\ writer[e][i] = "run"
  /\ writer' = [writer EXCEPT ![e][i] = "closing"]
  /\ localDone' = [localDone EXCEPT ![e][i] = TRUE]
  /\ UNCHANGED <<muxVars, inbound, remoteEOF, resetErr, reader, sent, got>>

\* Mutant: Close forgets the CLOSE frame.
SendCloseMut(e, i) ==
  /\ writer[e][i] = "closing"
  /\ writer' = [writer EXCEPT ![e][i] = "done"]
  /\ inMap' = [inMap EXCEPT ![e] = Reaped(e, i, remoteEOF[e][i])]
  /\ UNCHANGED <<wire, link, loop, closed, streamVars, reader, sent, got>>

\* Close then sends CLOSE (half-close), which may block, and removes the
\* stream from the map if the peer has closed too.
SendClose(e, i) ==
  /\ writer[e][i] = "closing"
  /\ CanWrite(e)
  /\ writer' = [writer EXCEPT ![e][i] = "done"]
  /\ wire' = Wrote(e, [type |-> "CLOSE", id |-> i, n |-> 0])
  /\ inMap' = [inMap EXCEPT ![e] = Reaped(e, i, remoteEOF[e][i])]
  /\ UNCHANGED <<link, loop, closed, streamVars, reader, sent, got>>

\* Read is called: it fails at once on a stream that was shut down, and
\* waits in its select otherwise.
ReadCall(e, i) ==
  /\ reader[e][i] = "run"
  /\ reader' = [reader EXCEPT ![e][i] = IF resetErr[e][i] = "none" THEN "select" ELSE "error"]
  /\ UNCHANGED <<muxVars, streamVars, writer, sent, got>>

\* Mutant: Read passes the sentinel on like data.
ReadChunkMut(e, i) ==
  /\ reader[e][i] = "select"
  /\ inbound[e][i] # <<>>
  /\ inbound' = [inbound EXCEPT ![e][i] = Tail(@)]
  /\ got' = [got EXCEPT ![e][i] = Append(@, Head(inbound[e][i]))]
  /\ reader' = [reader EXCEPT ![e][i] = "run"]
  /\ UNCHANGED <<muxVars, remoteEOF, resetErr, localDone, writer, sent>>

\* Read takes a chunk, which the pump passes on.
ReadChunk(e, i) ==
  /\ reader[e][i] = "select"
  /\ inbound[e][i] # <<>> /\ Head(inbound[e][i]) # Sentinel
  /\ inbound' = [inbound EXCEPT ![e][i] = Tail(@)]
  /\ got' = [got EXCEPT ![e][i] = Append(@, Head(inbound[e][i]))]
  /\ reader' = [reader EXCEPT ![e][i] = "run"]
  /\ UNCHANGED <<muxVars, remoteEOF, resetErr, localDone, writer, sent>>

\* Read takes the sentinel: end of file if nothing is behind it.
ReadEOF(e, i) ==
  /\ reader[e][i] = "select"
  /\ inbound[e][i] # <<>> /\ Head(inbound[e][i]) = Sentinel
  /\ inbound' = [inbound EXCEPT ![e][i] = Tail(@)]
  /\ reader' = [reader EXCEPT ![e][i] =
       IF remoteEOF[e][i] /\ Tail(inbound[e][i]) = <<>> THEN "eof" ELSE @]
  /\ UNCHANGED <<muxVars, remoteEOF, resetErr, localDone, writer, sent, got>>

\* Read is woken by doneCh.
ReadDone(e, i) ==
  /\ reader[e][i] = "select"
  /\ resetErr[e][i] # "none"
  /\ reader' = [reader EXCEPT ![e][i] = "error"]
  /\ UNCHANGED <<muxVars, streamVars, writer, sent, got>>

\* The pump cannot pass a chunk on (the client or the upstream is gone) and
\* ends; it leaves the stream as it is.
SinkFail(e, i) ==
  /\ SinkFailures
  /\ reader[e][i] = "run" /\ got[e][i] # <<>>
  /\ reader' = [reader EXCEPT ![e][i] = "gone"]
  /\ UNCHANGED <<muxVars, streamVars, writer, sent, got>>

ReadLoop(e) == RecvOpen(e) \/ RecvData(e) \/ Deliver(e) \/ RecvClose(e) \/ RecvReset(e)
Reading(e, i) == ReadCall(e, i) \/ ReadChunk(e, i) \/ ReadEOF(e, i) \/ ReadDone(e, i)

Next ==
  \/ LinkFail
  \/ \E i \in Ids : OpenStream(i) \/ DialOK(i) \/ DialFail(i)
  \/ \E e \in Ends : RecvOpen(e) \/ RecvData(e) \/ Deliver(e) \/ RecvClose(e)
                       \/ RecvReset(e) \/ CloseAll(e)
  \/ \E e \in Ends, i \in Ids :
       \/ Write(e, i) \/ WriteFail(e, i) \/ CloseStream(e, i) \/ SendClose(e, i)
       \/ ReadCall(e, i) \/ ReadChunk(e, i) \/ ReadEOF(e, i) \/ ReadDone(e, i)
       \/ SinkFail(e, i)

Spec == Init /\ [][Next]_vars

\* The goroutines run; dials return and sources end.  Nothing forces a stream
\* to be opened, data to be written, or anything to fail.
Fairness ==
  /\ \A e \in Ends : WF_vars(ReadLoop(e)) /\ WF_vars(CloseAll(e) /\ ~link)
  /\ \A i \in Ids : WF_vars(DialOK(i) \/ DialFail(i))
  /\ \A e \in Ends, i \in Ids :
       /\ WF_vars(WriteFail(e, i)) /\ WF_vars(CloseStream(e, i)) /\ WF_vars(SendClose(e, i))
       /\ WF_vars(Reading(e, i))

FairSpec == Spec /\ Fairness

-----------------------------------------------------------------------------
(* Properties. *)

Finished == {"eof", "error", "gone"}

\* The variables have their types; no channel holds more than streamReadBuf.
TypeOK ==
  /\ link \in BOOLEAN
  /\ wire \in [Ends -> Seq(Frame)]
  /\ loop \in [Ends -> SUBSET Frame]
  /\ closed \in [Ends -> BOOLEAN]
  /\ inMap \in [Ends -> SUBSET Ids]
  /\ inbound \in [Ends -> [Ids -> Seq(0 .. MaxData)]]
  /\ remoteEOF \in [Ends -> [Ids -> BOOLEAN]]
  /\ resetErr \in [Ends -> [Ids -> {"none", "reset", "mux"}]]
  /\ localDone \in [Ends -> [Ids -> BOOLEAN]]
  /\ writer \in [Ends -> [Ids -> {"none", "dial", "run", "closing", "done"}]]
  /\ reader \in [Ends -> [Ids -> {"none", "run", "select"} \cup Finished]]
  /\ sent \in [Ends -> [Ids -> 0 .. MaxData]]
  /\ got \in [Ends -> [Ids -> Seq(1 .. MaxData)]]
  /\ \A e \in Ends, i \in Ids : Len(inbound[e][i]) <= Cap

\* What Read has returned on a stream is a gapless prefix, in order, of what
\* the peer wrote on that stream, whatever is reset, closed or replaced
\* meanwhile (readLoop, deliver, Read).
InOrder ==
  \A e \in Ends, i \in Ids :
    /\ Len(got[e][i]) <= sent[Peer(e)][i]
    /\ \A k \in 1 .. Len(got[e][i]) : got[e][i][k] = k

\* End of file is never premature: when Read returns io.EOF, the peer has
\* closed its side and every chunk it wrote has been read (remoteClose, Read).
EofComplete ==
  \A e \in Ends, i \in Ids : reader[e][i] = "eof" =>
    /\ localDone[Peer(e)][i]
    /\ Len(got[e][i]) = sent[Peer(e)][i]

\* remoteClose found the channel full: the end of file will never be read.
LostEof(e, i) == /\ remoteEOF[e][i] /\ resetErr[e][i] = "none"
                 /\ \A k \in 1 .. Len(inbound[e][i]) : inbound[e][i][k] # Sentinel

NoPumpGivesUp == \A e \in Ends, i \in Ids : reader[e][i] # "gone"

\* No pump hangs: every reader ends, by end of file or by an error, once the
\* peer closes, the dial or the connection fails, or a newer connector takes
\* over.  The one exception the code has is LostEof, an end mark that found
\* the queue full and was dropped (remoteClose); a pump whose other end fails
\* leaves its stream unread, blocks the read loop, and is excluded.
ReadersFinish ==
  []NoPumpGivesUp =>
    \A e \in Ends, i \in Ids :
      (reader[e][i] = "run") ~> (reader[e][i] \in Finished \/ LostEof(e, i))

\* Every stream entry is eventually removed from the map of the mux, so a
\* long-lived connection does not accumulate the entries of short streams
\* (reapIfDone, shutdown, closeAll).
EntriesReaped ==
  []NoPumpGivesUp =>
    \A e \in Ends, i \in Ids : (i \in inMap[e]) ~> (i \notin inMap[e])
=============================================================================
