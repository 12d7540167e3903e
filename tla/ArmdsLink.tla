------------------------------ MODULE ArmdsLink ------------------------------
(***************************************************************************)
(* The ARM DS backend (src/backend_armds.c) and the bridge server it talks *)
(* to (armds_bridge_server.c).                                             *)
(*                                                                         *)
(* A TLP crosses a TCP connection as its header structure and, behind it,  *)
(* its payload.  The header says how long the payload is, and nothing in   *)
(* the stream says where the next header starts: both ends stay in step    *)
(* only as long as each reads what the other wrote.  The library polls the *)
(* connection with a non-blocking read; the bridge forwards one TLP at a   *)
(* time and sends back what the FPGA answered.  A header is two units of   *)
(* the stream, so that it can be cut; a payload is one unit per length.    *)
(***************************************************************************)
EXTENDS Naturals, Sequences, SequencesExt

CONSTANTS
    Shapes,         \* [len, data]: length field, and whether data is attached
    SplitHeaders,   \* TRUE iff TCP may hand over half of a header
    Capacity,       \* units the socket buffers of one direction hold
    MaxSent,        \* bound: requests of one connection
    MaxAnswers      \* bound: answers of one connection

ASSUME ShapeAssumption == \A s \in Shapes : s.len \in Nat /\ s.data \in BOOLEAN
ASSUME LinkAssumption ==
    /\ SplitHeaders \in BOOLEAN
    /\ Capacity \in Nat \ {0, 1} /\ MaxSent \in Nat /\ MaxAnswers \in Nat

Lens == {s.len : s \in Shapes}

\* The n-th TLP of its direction, and what a reader out of step takes for one.
Tlp(n, s) == [id |-> n, len |-> s.len, data |-> s.data]
Garbled(l) == [id |-> 0, len |-> l, data |-> TRUE]
NoTlp == Garbled(0)

Head1(m) == <<"head1", m>>
Head2(m) == <<"head2", m>>
Header(m) == <<Head1(m), Head2(m)>>

\* The payload the header promises, and the one that is sent: only data that
\* is there.
Payload(m) == [i \in 1 .. m.len |-> <<"data", m>>]
Sendable(m) == IF m.data THEN Payload(m) ELSE <<>>

VARIABLES
    client,     \* [at, tlp]: the call of the library that is under way
    sock,       \* "none" (arm_ds_sock = -1) or "open"
    nonblock,   \* O_NONBLOCK is set on the socket of the library
    server,     \* [at, tlp]: the step of the bridge
    up, down,   \* units sent and not read: to the bridge, to the library
    sent, forwarded,        \* history: requests sent, handed to the FPGA
    answered, delivered,    \* history: answers sent, returned by recv
    tornUp, tornDown        \* history: a header or payload was cut

cvars == <<client, sock, nonblock>>
upward == <<up, sent, forwarded, tornUp>>
downward == <<down, answered, delivered, tornDown>>
vars == <<cvars, server, upward, downward>>

Idle == [at |-> "idle", tlp |-> NoTlp]
At(p, m) == [at |-> p, tlp |-> m]

\* The part of units that fits behind what a buffer holds, at once or before
\* the timeout.
Fitting(buffer, units) == Min({Len(units), Capacity - Len(buffer)})

\* What a reader makes of the first two units.
ReadHeader(units) ==
    LET u == units[1]
    IN  IF units = Header(u[2]) THEN {u[2]} ELSE {Garbled(l) : l \in Lens}

\* ... and of the payload it reads after it.
ReadTlp(m, units) == IF units = Payload(m) THEN m ELSE Garbled(m.len)

Drop(s, k) == SubSeq(s, k + 1, Len(s))
Take(s, k) == SubSeq(s, 1, k)

\* How many units of a header one recv returns, when some are there.
HeaderReads(buffer) ==
    IF SplitHeaders THEN 1 .. Min({2, Len(buffer)}) ELSE {Min({2, Len(buffer)})}

-----------------------------------------------------------------------------
(* The library: arm_ds_connect, arm_ds_send, arm_ds_recv, arm_ds_close.     *)

\* The first call connects and sends the device id, which the bridge reads
\* before its loop.  A refused connection changes nothing.
Connect ==
    /\ sock = "none" /\ server.at = "listening"
    /\ sock' = "open" /\ nonblock' = FALSE
    /\ server' = At("header", NoTlp)
    /\ up' = <<>> /\ down' = <<>>
    /\ sent' = <<>> /\ forwarded' = <<>> /\ answered' = <<>> /\ delivered' = <<>>
    /\ tornUp' = FALSE /\ tornDown' = FALSE
    /\ UNCHANGED client

\* arm_ds_send, the header: a short send returns -1 and what went out stays.
SendHeader(s) ==
    /\ sock = "open" /\ client = Idle /\ Len(sent) < MaxSent
    /\ LET m == Tlp(Len(sent) + 1, s)
           k == Fitting(up, Header(m))
       IN  /\ up' = up \o Take(Header(m), k)
           /\ IF k = 2
              THEN client' = At("send", m) /\ sent' = Append(sent, m) /\ UNCHANGED tornUp
              ELSE tornUp' = (tornUp \/ k > 0) /\ UNCHANGED <<client, sent>>
    /\ UNCHANGED <<sock, nonblock, server, forwarded, downward>>

\* Fault: the payload is not sent.
SendPayloadForgotten ==
    /\ client.at = "send"
    /\ client' = Idle
    /\ UNCHANGED <<sock, nonblock, server, upward, downward>>

\* arm_ds_send, the payload.
SendPayload ==
    /\ client.at = "send"
    /\ LET m == client.tlp
           k == Fitting(up, Sendable(m))
       IN  /\ up' = up \o Take(Sendable(m), k)
           /\ tornUp' = (tornUp \/ k < Len(Sendable(m)))
    /\ client' = Idle
    /\ UNCHANGED <<sock, nonblock, server, sent, forwarded, downward>>

\* arm_ds_recv finds nothing or an error, or half of a header, and returns -1
\* with the socket as it has set it.
RecvNothing ==
    /\ sock = "open" /\ client = Idle
    /\ nonblock' = TRUE
    /\ UNCHANGED <<client, sock, server, upward, downward>>

RecvShort ==
    /\ sock = "open" /\ client = Idle /\ down # <<>>
    /\ 1 \in HeaderReads(down)
    /\ down' = Drop(down, 1) /\ tornDown' = TRUE
    /\ nonblock' = TRUE
    /\ UNCHANGED <<client, sock, server, upward, answered, delivered>>

\* The bridge is gone: the connection is closed.
RecvClosed ==
    /\ sock = "open" /\ client = Idle /\ down = <<>> /\ server.at = "stopped"
    /\ sock' = "none" /\ nonblock' = FALSE
    /\ UNCHANGED <<client, server, upward, downward>>

\* Fault: a payload is expected behind every header.
RecvHeaderAlways ==
    /\ sock = "open" /\ client = Idle
    /\ Len(down) >= 2
    /\ \E m \in ReadHeader(Take(down, 2)) : client' = At("recv", m)
    /\ down' = Drop(down, 2)
    /\ UNCHANGED <<sock, nonblock, server, upward, answered, delivered, tornDown>>

\* A whole header: the flags read at the start of the call are restored, which
\* an earlier call may have left non-blocking.
RecvHeader ==
    /\ sock = "open" /\ client = Idle
    /\ Len(down) >= 2
    /\ \E m \in ReadHeader(Take(down, 2)) :
         /\ down' = Drop(down, 2)
         /\ IF m.len > 0
            THEN client' = At("recv", m) /\ UNCHANGED delivered
            ELSE delivered' = Append(delivered, m) /\ UNCHANGED client
    /\ UNCHANGED <<sock, nonblock, server, upward, answered, tornDown>>

\* Fault: the payload is left in the stream.
RecvPayloadUnread ==
    /\ client.at = "recv"
    /\ delivered' = Append(delivered, client.tlp)
    /\ client' = Idle
    /\ UNCHANGED <<sock, nonblock, server, upward, down, answered, tornDown>>

RecvPayload ==
    /\ client.at = "recv" /\ Len(down) >= client.tlp.len
    /\ down' = Drop(down, client.tlp.len)
    /\ delivered' = Append(delivered, ReadTlp(client.tlp, Take(down, client.tlp.len)))
    /\ client' = Idle
    /\ UNCHANGED <<sock, nonblock, server, upward, answered, tornDown>>

\* The payload is not there within the timeout, or at once on a non-blocking
\* socket, or has no memory: -1, and what was read is lost.
RecvPayloadShort ==
    /\ client.at = "recv"
    /\ \E k \in 0 .. Min({Len(down), client.tlp.len - 1}) :
         /\ ~nonblock /\ Len(down) >= client.tlp.len => k = 0
         /\ down' = Drop(down, k)
    /\ tornDown' = TRUE
    /\ client' = Idle
    /\ UNCHANGED <<sock, nonblock, server, upward, answered, delivered>>

Close ==
    /\ sock = "open" /\ client = Idle
    /\ sock' = "none" /\ nonblock' = FALSE
    /\ UNCHANGED <<client, server, upward, downward>>

-----------------------------------------------------------------------------
(* The bridge.                                                              *)

\* A header: half of one is reported, and the loop goes on behind it.
ServeShort ==
    /\ server.at = "header" /\ up # <<>>
    /\ 1 \in HeaderReads(up)
    /\ up' = Drop(up, 1) /\ tornUp' = TRUE
    /\ UNCHANGED <<cvars, server, sent, forwarded, downward>>

ServeHeader ==
    /\ server.at = "header" /\ Len(up) >= 2
    /\ \E m \in ReadHeader(Take(up, 2)) :
         /\ up' = Drop(up, 2)
         /\ IF m.len > 0
            THEN server' = At("payload", m) /\ UNCHANGED forwarded
            ELSE server' = At("respond", NoTlp) /\ forwarded' = Append(forwarded, m)
    /\ UNCHANGED <<cvars, sent, tornUp, downward>>

\* Fault: the payload is left in the stream.
ServePayloadUnread ==
    /\ server.at = "payload"
    /\ forwarded' = Append(forwarded, server.tlp)
    /\ server' = At("respond", NoTlp)
    /\ UNCHANGED <<cvars, up, sent, tornUp, downward>>

\* The payload: MSG_WAITALL, without a timeout.
ServePayload ==
    /\ server.at = "payload" /\ Len(up) >= server.tlp.len
    /\ up' = Drop(up, server.tlp.len)
    /\ forwarded' = Append(forwarded, ReadTlp(server.tlp, Take(up, server.tlp.len)))
    /\ server' = At("respond", NoTlp)
    /\ UNCHANGED <<cvars, sent, tornUp, downward>>

\* At most one answer of the FPGA is sent back after each request.
NoAnswer ==
    /\ server.at = "respond"
    /\ server' = At("header", NoTlp)
    /\ UNCHANGED <<cvars, upward, downward>>

Answer(s) ==
    /\ server.at = "respond" /\ Len(answered) < MaxAnswers
    /\ LET m == Tlp(Len(answered) + 1, s)
       IN  /\ Len(down) + 2 <= Capacity
           /\ down' = down \o Header(m)
           /\ answered' = Append(answered, m)
           /\ server' = At("answer", m)
    /\ UNCHANGED <<cvars, upward, delivered, tornDown>>

AnswerPayload ==
    /\ server.at = "answer"
    /\ Len(down) + Len(Sendable(server.tlp)) <= Capacity
    /\ down' = down \o Sendable(server.tlp)
    /\ server' = At("header", NoTlp)
    /\ UNCHANGED <<cvars, upward, answered, delivered, tornDown>>

\* The library disconnected, a call of the bridge failed or the user stopped
\* it: the program ends.
Stop ==
    /\ server.at \notin {"listening", "stopped"}
    /\ server' = At("stopped", NoTlp)
    /\ UNCHANGED <<cvars, upward, downward>>

\* The user starts it again.  (Bound: after the library noticed.)
Start ==
    /\ server.at = "stopped" /\ sock = "none"
    /\ server' = At("listening", NoTlp)
    /\ UNCHANGED <<cvars, upward, downward>>

-----------------------------------------------------------------------------
Init ==
    /\ client = Idle /\ sock = "none" /\ nonblock = FALSE
    /\ server = At("listening", NoTlp)
    /\ up = <<>> /\ down = <<>>
    /\ sent = <<>> /\ forwarded = <<>> /\ answered = <<>> /\ delivered = <<>>
    /\ tornUp = FALSE /\ tornDown = FALSE

Library ==
    \/ Connect \/ Close
    \/ \E s \in Shapes : SendHeader(s)
    \/ SendPayload
    \/ RecvNothing \/ RecvShort \/ RecvClosed
    \/ RecvHeader \/ RecvPayload \/ RecvPayloadShort

Serve ==
    \/ ServeShort \/ ServeHeader \/ ServePayload \/ NoAnswer
    \/ \E s \in Shapes : Answer(s)
    \/ AnswerPayload

Next == Library \/ Serve \/ Stop \/ Start

Spec == Init /\ [][Next]_vars

\* The bridge loop runs on as long as it is not blocked.
FairSpec == Spec /\ WF_vars(Serve)

-----------------------------------------------------------------------------
(* Properties.                                                              *)

\* Types; the library waits for a payload only behind a header that promises
\* one, on an open socket.
TypeOK ==
    /\ client.at \in {"idle", "send", "recv"}
    /\ client.at = "recv" => client.tlp.len > 0
    /\ sock \in {"none", "open"} /\ nonblock \in BOOLEAN
    /\ sock = "none" => client = Idle /\ ~nonblock
    /\ server.at \in {"listening", "header", "payload", "respond", "answer", "stopped"}
    /\ Len(up) <= Capacity /\ Len(down) <= Capacity
    /\ Len(sent) <= MaxSent /\ Len(answered) <= MaxAnswers
    /\ tornUp \in BOOLEAN /\ tornDown \in BOOLEAN

\* As long as no send and no read was cut, the FPGA gets the requests as they
\* were sent, in order, none invented (header and payload of arm_ds_send
\* against the loop of the bridge).
RequestsInOrder ==
    ~tornUp => IsPrefix(forwarded, sent)

\* As long as no read was cut, pcie_recv returns the answers of the FPGA as
\* they were, in order (arm_ds_recv).
AnswersInOrder ==
    ~tornDown => IsPrefix(delivered, answered)

\* The library goes on: its calls return, all of them having a timeout, and it
\* polls while something is there to read.
LibraryPolls ==
    WF_vars(SendPayload \/ RecvShort \/ RecvHeader \/ RecvPayload \/ RecvPayloadShort)

\* Both ends may be waiting for the other to read: the bridge stands before a
\* buffer full of answers, with requests behind it that fill the other one.
\* Polling is enough to undo this: a request sent whole then reaches the FPGA,
\* whatever the polls make of the answers, unless the stream of requests is cut,
\* the bridge stops, or the library gives up the connection (arm_ds_recv, loop
\* of the bridge).
RequestsArrive ==
    LibraryPolls =>
        \A n \in 1 .. MaxSent :
            Len(sent) = n /\ client = Idle ~>
                \/ Len(forwarded) >= n \/ Len(sent) < n
                \/ tornUp \/ server.at \in {"stopped", "listening"}
                \/ sock = "none"
=============================================================================
