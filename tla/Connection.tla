----------------------------- MODULE Connection -----------------------------
(***************************************************************************)
(* Network::Connection, in one direction: the side "w" sends through        *)
(* mOutcomingMessagesQueue, writeHeader and writeBody on its write strand;  *)
(* the side "r" receives through readHeader, readBody and mMessageBuffer on *)
(* its read strand, and hands messages to the incoming queue of its owner.  *)
(* The other direction is another instance of the same code.                *)
(*                                                                          *)
(* The n-th message given to send() is the number n; sent[n] is what it     *)
(* was: its type, the type of its body, and the units its body takes on the *)
(* wire.  The wire is a stream of units; reading a header takes one of them, *)
(* whatever it is, and reading a body as many as the header announced.      *)
(***************************************************************************)
EXTENDS Serialization, Sequences, Selections

CONSTANTS Templates,       \* the messages that callers send: [type, body, units]
          Owner,           \* mOwner of the receiving side: "SERVER" or "CLIENT"
          SocketMayBlock,  \* may the send buffer be full when a header is written?
          Faults,          \* may the link fail?
          MaxSend          \* bound: messages given to send()

ASSUME ConnectionAssumption ==
    /\ Templates \subseteq [type : MessageType, body : STRING, units : Nat]
    /\ \A t \in Templates : t.units > 0
    /\ Owner \in {"SERVER", "CLIENT"}
    /\ SocketMayBlock \in BOOLEAN
    /\ Faults \in BOOLEAN
    /\ MaxSend \in Nat

VARIABLES sent,      \* history: every message given to send(), in order
          posted,    \* sends posted to the write strand and not run yet
          out,       \* mOutcomingMessagesQueue
          writes,    \* async_writes in progress: [kind, id, units left to transmit]
          wire,      \* what is between the two sockets
          reading,   \* the async_read in progress: "none", "header" or "body"
          buffer,    \* mMessageBuffer
          incoming,  \* mIncomingMessagesQueueLink: what this connection has put there
          open,      \* per side: mSocket.is_open()
          closing,   \* per side: disconnect() has posted a close
          link       \* the network between the two hosts works

writer == <<posted, out, writes>>
reader == <<reading, buffer, incoming>>
sockets == <<open, closing, link>>
vars == <<sent, writer, wire, reader, sockets>>

Sides == {"w", "r"}
NoBody == [type |-> "none", id |-> 0]
Without(s, i) == SubSeq(s, 1, i - 1) \o SubSeq(s, i + 1, Len(s))

Init == /\ sent = <<>> /\ posted = <<>> /\ out = <<>> /\ writes = <<>> /\ wire = <<>>
        /\ reading = "none"
        /\ buffer = [id |-> 0, type |-> "ServerAccept", size |-> 0, body |-> NoBody]
        /\ incoming = <<>>
        /\ open = [s \in Sides |-> TRUE]
        /\ closing = [s \in Sides |-> FALSE]
        /\ link = TRUE

------------------------------------------------------------------------------
(* The sending side.                                                        *)

SizeOf(n) == SerializedUnits(sent[n].type, sent[n].body, sent[n].units)
HeaderOf_NoSize(n) == [k |-> "H", id |-> n, type |-> sent[n].type, size |-> 0]
HeaderOf(n) == [k |-> "H", id |-> n, type |-> sent[n].type, size |-> SizeOf(n)]
BodyOf(n) == [u \in 1 .. SizeOf(n) |-> [k |-> "B", id |-> n, unit |-> u]]

MaxUnits == 2
Garbage == [k : {"H"}, id : {0}, type : MessageType, size : 0 .. MaxUnits]

\* The header that async_write transmits.  It is a local variable of
\* writeHeader: if the socket cannot take it at once, it is read after the
\* function has returned and is anything.
HeaderUnits(n) == {HeaderOf(n)} \cup (IF SocketMayBlock THEN Garbage ELSE {})

\* writeHeader() with this queue: the front is serialized, and only if that
\* succeeds is a write started.
Serializable(n) == Serializes(sent[n].type, sent[n].body)
WriteHeader(queue, others) ==
    IF Serializable(Head(queue))
    THEN \E h \in HeaderUnits(Head(queue)) :
            writes' = Append(others, [kind |-> "header", id |-> Head(queue), units |-> <<h>>])
    ELSE writes' = others

\* send(): the message is posted to the write strand.
Ticket == Len(sent) + 1
Send(t) ==
    /\ Len(sent) < MaxSend
    /\ sent' = Append(sent, t)
    /\ posted' = Append(posted, Ticket)
    /\ UNCHANGED <<out, writes, wire, reader, sockets>>

\* The posted function: the message joins the queue, and if the queue was
\* empty the write of its header starts.
StartsWrite == out = <<>>
Enqueue ==
    /\ posted # <<>>
    /\ posted' = Tail(posted)
    /\ out' = Append(out, Head(posted))
    /\ IF StartsWrite THEN WriteHeader(out', writes) ELSE UNCHANGED writes
    /\ UNCHANGED <<sent, wire, reader, sockets>>

\* The socket takes the next unit of a write.
Transmit(i) ==
    /\ writes[i].units # <<>>
    /\ open["w"] /\ link
    /\ wire' = Append(wire, Head(writes[i].units))
    /\ writes' = [writes EXCEPT ![i].units = Tail(@)]
    /\ UNCHANGED <<sent, posted, out, reader, sockets>>

\* The end of both handlers: the front leaves the queue, and the header of the
\* next message, if there is one, is written.
NextMessage_Stop(i) ==
    /\ out' = Tail(out)
    /\ writes' = Without(writes, i)
NextMessage(i) ==
    /\ out' = Tail(out)
    /\ IF out' = <<>> THEN writes' = Without(writes, i)
                      ELSE WriteHeader(out', Without(writes, i))

\* writeHeaderHandler without error: a front that has a body, be it one that
\* serialized to nothing, is followed by writeBody.
HasBody_Never(n) == FALSE
HasBody(n) == sent[n].body # "none"
HeaderWritten(i) ==
    /\ writes[i].kind = "header" /\ writes[i].units = <<>>
    /\ IF HasBody(Head(out))
       THEN /\ writes' = [writes EXCEPT ![i] = [kind |-> "body", id |-> Head(out),
                                                units |-> BodyOf(writes[i].id)]]
            /\ UNCHANGED out
       ELSE NextMessage(i)
    /\ UNCHANGED <<sent, posted, wire, reader, sockets>>

BodyWritten(i) ==
    /\ writes[i].kind = "body" /\ writes[i].units = <<>>
    /\ NextMessage(i)
    /\ UNCHANGED <<sent, posted, wire, reader, sockets>>

\* Either handler with an error: the socket is closed and nothing else happens.
WriteFailed(i) ==
    /\ ~(open["w"] /\ open["r"] /\ link)
    /\ writes' = Without(writes, i)
    /\ open' = [open EXCEPT !["w"] = FALSE]
    /\ UNCHANGED <<sent, posted, out, wire, reader, closing, link>>

------------------------------------------------------------------------------
(* The receiving side.                                                      *)

\* connectToClient on a server, the handler of async_connect on a client.
StartReading ==
    /\ reading = "none" /\ incoming = <<>> /\ open["r"]
    /\ reading' = "header"
    /\ UNCHANGED <<sent, writer, wire, buffer, incoming, sockets>>

\* addToIncomingMessageQueue: a copy of the buffer is queued, and the next
\* header is read.
Received(m) ==
    /\ incoming' = Append(incoming, [id |-> m.id, type |-> m.type, body |-> m.body,
                                     remote |-> Owner = "SERVER"])
    /\ reading' = "header"

\* readHeaderHandler without error: the header in the buffer is overwritten,
\* and its body is not.
Headers(unit) == IF unit.k = "H" THEN {unit} ELSE Garbage
HeaderRead ==
    /\ reading = "header" /\ open["r"] /\ wire # <<>>
    /\ wire' = Tail(wire)
    /\ \E h \in Headers(Head(wire)) :
         /\ buffer' = [buffer EXCEPT !.id = h.id, !.type = h.type, !.size = h.size]
         /\ IF h.size > 0 THEN reading' = "body" /\ UNCHANGED incoming
                          ELSE Received(buffer')
    /\ UNCHANGED <<sent, writer, sockets>>

\* What the bytes decode to: the body of a message if they are exactly that
\* body, and the type in the header asks for its type; nothing if they do not
\* load.
Decoded(units, type) ==
    {n \in 1 .. Len(sent) : units = BodyOf(n) /\ Deserializes(type, sent[n].body)}

\* readBodyHandler without error.  A body that is not restored leaves the one
\* that was there, and the result of the chain decides about the message.
RestoredBody_Dropped(units) == buffer.body
RestoredBody(units) ==
    IF Decoded(units, buffer.type) = {} THEN buffer.body
    ELSE LET n == CHOOSE n \in Decoded(units, buffer.type) : TRUE
         IN  [type |-> sent[n].body, id |-> n]
BodyRead ==
    /\ reading = "body" /\ open["r"] /\ Len(wire) >= buffer.size
    /\ wire' = SubSeq(wire, buffer.size + 1, Len(wire))
    /\ LET units == SubSeq(wire, 1, buffer.size)
       IN  /\ buffer' = [buffer EXCEPT !.body = RestoredBody(units)]
           /\ IF IncomingResult(Decoded(units, buffer.type) # {}) = "SUCCESS"
              THEN Received(buffer')
              ELSE reading' = "none" /\ UNCHANGED incoming
    /\ UNCHANGED <<sent, writer, sockets>>

\* A read fails when its socket was closed, the link is down, or the other
\* side has closed: what is still on the wire may then be lost or not.
ReadFailed_KeepOpen ==
    /\ reading # "none"
    /\ ~(open["w"] /\ open["r"] /\ link)
    /\ reading' = "none"
    /\ UNCHANGED <<sent, writer, wire, buffer, incoming, sockets>>
ReadFailed ==
    /\ reading # "none"
    /\ ~(open["w"] /\ open["r"] /\ link)
    /\ reading' = "none"
    /\ open' = [open EXCEPT !["r"] = FALSE]
    /\ UNCHANGED <<sent, writer, wire, buffer, incoming, closing, link>>

------------------------------------------------------------------------------
\* disconnect(): if the socket is open, a close is posted to the context.
Disconnect(s) ==
    /\ Faults /\ open[s]
    /\ closing' = [closing EXCEPT ![s] = TRUE]
    /\ UNCHANGED <<sent, writer, wire, reader, open, link>>

Close(s) ==
    /\ closing[s]
    /\ open' = [open EXCEPT ![s] = FALSE]
    /\ closing' = [closing EXCEPT ![s] = FALSE]
    /\ UNCHANGED <<sent, writer, wire, reader, link>>

LinkFails ==
    /\ Faults /\ link
    /\ link' = FALSE
    /\ UNCHANGED <<sent, writer, wire, reader, open, closing>>

Writing == \E i \in DOMAIN writes :
              Transmit(i) \/ HeaderWritten(i) \/ BodyWritten(i) \/ WriteFailed(i)
Reading == StartReading \/ HeaderRead \/ BodyRead \/ ReadFailed
Environment == \/ \E t \in Templates : Send(t)
               \/ \E s \in Sides : Disconnect(s)
               \/ LinkFails

Next == \/ Environment \/ Enqueue \/ Writing \/ Reading
        \/ \E s \in Sides : Close(s)

Spec == Init /\ [][Next]_vars

\* The asio threads run what is ready to run; callers and faults owe nothing.
\* A socket that was closed here fails its own reads and writes; whatever the
\* other side does is learnt through the link, while it works: no option of the
\* socket and no timer tells an idle read that the link has gone.
FairSpec == /\ Spec
            /\ WF_vars(Enqueue)
            /\ WF_vars((link \/ ~open["w"]) /\ Writing)
            /\ WF_vars((link \/ ~open["r"]) /\ Reading)
            /\ \A s \in Sides : WF_vars(Close(s))

------------------------------------------------------------------------------
Ids == 1 .. Len(sent)

\* The queue moves: as long as the socket is open, a non-empty queue has a
\* write in progress, so the message that send() only appends is not forgotten.
QueueMoves == out # <<>> /\ writes = <<>> => ~open["w"]

\* What is on the wire ahead of a read: the header the reader waits for, or
\* the units of the body whose header it has.
FrameAligned ==
    /\ reading = "header" /\ wire # <<>> => wire[1].k = "H"
    /\ reading = "body" => \A u \in 1 .. buffer.size :
          u <= Len(wire) => wire[u] = [k |-> "B", id |-> buffer.id, unit |-> u]

\* The body of a message that was sent with bytes which the receiver knows is
\* the body it was sent with; that of any other is one of an earlier message
\* of this connection, or none: the buffer is not cleared between messages.
BodyOfItselfOrOlder == \A i \in DOMAIN incoming :
    IF SizeOf(i) > 0 /\ Deserializes(sent[i].type, sent[i].body)
    THEN incoming[i].body = [type |-> sent[i].body, id |-> i]
    ELSE incoming[i].body.id < i

\* As long as the link works, a failure on one side reaches the other: no side
\* stays connected for ever to a peer that has closed, if it is reading.
CloseIsNoticed == (~open["w"] /\ reading # "none") ~> (~open["r"] \/ ~link)

------------------------------------------------------------------------------
(* The messages between the two owners, oldest first: the one whose body is  *)
(* being read, those whose header is on the wire, and those of the two       *)
(* queues whose header has not been transmitted.                             *)

Header == [k : {"H"}, id : Nat, type : MessageType, size : Nat]
WireHeaders == Only(wire, Header)
LastTransmitted == IF WireHeaders = <<>> THEN buffer.id
                                         ELSE WireHeaders[Len(WireHeaders)].id
InFlight == (IF reading = "body" THEN <<buffer.id>> ELSE <<>>)
              \o [i \in DOMAIN WireHeaders |-> WireHeaders[i].id]
              \o Only(out, {n \in Ids : n > LastTransmitted}) \o posted

\* A read that has failed in the middle of a message has lost it.
Lost == ~(open["w"] /\ open["r"] /\ link)
Between == IF Lost /\ reading = "none" /\ buffer.id > Len(incoming)
           THEN <<buffer.id>> \o InFlight ELSE InFlight

Channel == INSTANCE MessageChannel
             WITH pipe <- Between, broken <- Lost,
                  got <- [i \in DOMAIN incoming |-> incoming[i].id]

\* Two Connections and the network between them are a message channel, under
\* faults too: messages arrive in the order of the calls of send(), none twice,
\* none missing before one that arrived, and all of them if nothing fails.
ImplementsChannel == Channel!FairSpec
==============================================================================
