--------------------------- MODULE StdioTransport ---------------------------
(***************************************************************************)
(* The newline-delimited stdio transport of an MCP server: the codec that  *)
(* bounds a line while its bytes arrive in chunks, the receive loop, and   *)
(* sends that share the writer under a lock.  The service that drives it   *)
(* drops a receive whenever something else is ready first.                 *)
(*                                                                         *)
(* A byte is CR, LF, a blank, or stands for the JSON of its line: "m" for  *)
(* a message, "d" for JSON that is not one, "s" for a syntax error.        *)
(***************************************************************************)
EXTENDS Integers, FiniteSets, Sequences, SequencesExt

CONSTANTS
    MAX_MCP_STDIO_FRAME_BYTES,
    Streams,                \* what a client may write before it closes
    Senders,                \* send futures of the service
    MaxFaults               \* bound on dropped futures and failed writes

MAX_MCP_STDIO_CODEC_BYTES == MAX_MCP_STDIO_FRAME_BYTES + 1
CR == "r"
LF == "n"
EOF == <<"eof", 0>>

VARIABLES
    stream,                 \* what the client writes
    unread,                 \* the bytes of it that are not read yet
    reader,                 \* FramedRead: buffer, eof, errored
    closed,                 \* BoundedStdioTransport.closed
    receiver,               \* where the receive future is, "idle" when there is none
    delivered,              \* how many messages receive has returned
    lock,                   \* who holds the lock of the writer
    writer,                 \* FramedWrite: open, and the pieces not yet written
    output,                 \* the pieces written, and EOF
    sends,                  \* where each send future is
    faults                  \* futures dropped and writes failed so far

reading == <<stream, unread, reader, delivered>>
writing == <<lock, writer, output>>
transport == <<stream, unread, reader, closed, receiver, delivered, lock, writer, output, sends,
               faults>>

(******************************** the codec *******************************)

WithoutCR(bytes) ==
    IF bytes # <<>> /\ Last(bytes) = CR THEN Front(bytes) ELSE bytes

payload_is_oversized(bytes) == Len(WithoutCR(bytes)) > MAX_MCP_STDIO_FRAME_BYTES

(* How serde_json classifies a line. *)
Parsed(line) ==
    LET json == SelectSeq(line, LAMBDA b : b \notin {" ", CR})
    IN  IF json = <<"m">> THEN "message" ELSE IF json = <<"d">> THEN "data" ELSE "syntax"

Newline(bytes) == SelectInSeq(bytes, LAMBDA b : b = LF)

(* A bound that gives a line no room for its CR while it arrives. *)
PartialOverflows_NoCR(bytes) == Len(bytes) > MAX_MCP_STDIO_FRAME_BYTES

(* A line that has no end yet may be as long as its CR makes it. *)
PartialOverflows(bytes) ==
    /\ Len(bytes) > MAX_MCP_STDIO_FRAME_BYTES
    /\ ~(Len(bytes) = MAX_MCP_STDIO_CODEC_BYTES /\ Last(bytes) = CR)

(* decode takes one line.  A syntax error is skipped with its line, and     *)
(* decode starts over with the rest.                                       *)
decode(bytes) ==
    LET newline == Newline(bytes)
        line == SubSeq(bytes, 1, newline - 1)
        rest == SubSeq(bytes, newline + 1, Len(bytes))
    IN  IF newline = 0
          THEN [item |-> IF PartialOverflows(bytes) THEN "overflow" ELSE "none", rest |-> bytes]
        ELSE IF payload_is_oversized(line) THEN [item |-> "overflow", rest |-> bytes]
        ELSE [item |-> IF Parsed(line) = "syntax" THEN "again" ELSE Parsed(line), rest |-> rest]

(* What is left at the end of the stream has no newline. *)
decode_eof(bytes) ==
    LET line == WithoutCR(bytes)
        item == IF payload_is_oversized(bytes) THEN "overflow"
                ELSE IF line = <<>> \/ Parsed(line) = "syntax" THEN "none"
                ELSE Parsed(line)
    IN  [item |-> item, rest |-> <<>>]

(****************************** the receive loop **************************)

TransportInit ==
    /\ stream \in Streams /\ unread = stream
    /\ reader = [buffer |-> <<>>, eof |-> FALSE, errored |-> FALSE]
    /\ closed = FALSE /\ receiver = "idle" /\ delivered = 0
    /\ lock = "free" /\ writer = [open |-> TRUE, pending |-> <<>>] /\ output = <<>>
    /\ sends = [s \in Senders |-> "new"] /\ faults = 0

Receive ==
    /\ receiver = "idle" /\ ~closed
    /\ receiver' = "reading"
    /\ UNCHANGED <<reading, closed, writing, sends, faults>>

(* The stream ended: close_writer is awaited with closed set. *)
Ended == closed' = TRUE /\ receiver' = "closing" /\ UNCHANGED delivered

(* What the loop makes of an item of the reader. *)
Received(item) ==
    CASE item = "message" -> receiver' = "idle" /\ delivered' = delivered + 1 /\ UNCHANGED closed
      [] item = "data" -> receiver' = "answering" /\ UNCHANGED <<delivered, closed>>
      [] item \in {"overflow", "end"} -> Ended
      [] item = "again" -> UNCHANGED <<receiver, delivered, closed>>

(* FramedRead: an error is followed by the end of the stream; the buffer is *)
(* decoded before more is read; at the end of input decode_eof has the rest. *)
Decode ==
    LET decoded == IF reader.eof THEN decode_eof(reader.buffer) ELSE decode(reader.buffer)
        item == IF reader.errored \/ (decoded.item = "none" /\ reader.eof)
                  THEN "end" ELSE decoded.item
    IN  /\ receiver = "reading" /\ item # "none"
        /\ reader' = [reader EXCEPT !.buffer = IF reader.errored THEN @ ELSE decoded.rest,
                                    !.errored = item \in {"data", "overflow"}]
        /\ Received(item)
        /\ UNCHANGED <<stream, unread, writing, sends, faults>>

ReadMore ==
    /\ receiver = "reading" /\ ~reader.errored /\ ~reader.eof
    /\ decode(reader.buffer).item = "none"
    /\ IF unread = <<>>
         THEN reader' = [reader EXCEPT !.eof = TRUE] /\ UNCHANGED unread
       ELSE \E n \in 1 .. Len(unread) :
              /\ reader' = [reader EXCEPT !.buffer = @ \o SubSeq(unread, 1, n)]
              /\ unread' = SubSeq(unread, n + 1, Len(unread))
    /\ UNCHANGED <<stream, closed, receiver, delivered, writing, sends, faults>>

(* The future of receive is dropped at an await.  A frame it was sending    *)
(* stays pending; a writer it was closing is gone.                         *)
DropReceive ==
    /\ receiver \in {"reading", "answering", "closing"} /\ faults < MaxFaults
    /\ receiver' = "idle" /\ faults' = faults + 1
    /\ lock' = IF lock = "receiver" THEN "free" ELSE lock
    /\ IF lock = "receiver" /\ receiver = "closing"
         THEN writer' = [writer EXCEPT !.pending = <<>>] /\ output' = Append(output, EOF)
       ELSE UNCHANGED <<writer, output>>
    /\ UNCHANGED <<reading, closed, sends>>

(****************************** the shared writer *************************)

(* The pieces of a frame, which the operating system may take apart. *)
Frame(sender) == <<<<sender, 1>>, <<sender, 2>>>>

(* send: the frame is encoded behind what is pending. *)
Acquire(s) ==
    /\ sends[s] = "new" /\ lock = "free"
    /\ IF writer.open
         THEN /\ lock' = s /\ sends' = [sends EXCEPT ![s] = "writing"]
              /\ writer' = [writer EXCEPT !.pending = @ \o Frame(s)]
       ELSE sends' = [sends EXCEPT ![s] = "not_connected"] /\ UNCHANGED <<lock, writer>>
    /\ UNCHANGED <<reading, closed, receiver, output, faults>>

(* The answer to a line that is no message goes through send, too. *)
AcquireAnswer ==
    /\ receiver = "answering" /\ lock = "free"
    /\ IF writer.open
         THEN /\ lock' = "receiver" /\ writer' = [writer EXCEPT !.pending = @ \o Frame("receiver")]
              /\ UNCHANGED <<closed, receiver>>
       ELSE closed' = TRUE /\ receiver' = "closing" /\ UNCHANGED <<lock, writer>>
    /\ UNCHANGED <<reading, output, sends, faults>>

(* close_writer takes the writer out of the lock, and flushes it. *)
AcquireClose ==
    /\ receiver = "closing" /\ lock = "free"
    /\ IF writer.open THEN lock' = "receiver" /\ writer' = [writer EXCEPT !.open = FALSE]
                           /\ UNCHANGED receiver
       ELSE receiver' = "idle" /\ UNCHANGED <<lock, writer>>
    /\ UNCHANGED <<reading, closed, output, sends, faults>>

Flush ==
    /\ lock # "free" /\ writer.pending # <<>>
    /\ output' = Append(output, Head(writer.pending))
    /\ writer' = [writer EXCEPT !.pending = Tail(@)]
    /\ UNCHANGED <<reading, closed, receiver, lock, sends, faults>>

(* Whoever holds the lock is done, or its write has failed. *)
Released(result) ==
    /\ lock' = "free"
    /\ sends' = IF lock \in Senders THEN [sends EXCEPT ![lock] = result] ELSE sends
    /\ UNCHANGED reading

(* A send that returns when its frame is encoded. *)
Sent_Unflushed ==
    /\ lock \in Senders \/ (lock = "receiver" /\ receiver = "answering")
    /\ Released("sent")
    /\ receiver' = IF lock = "receiver" THEN "reading" ELSE receiver
    /\ UNCHANGED <<closed, writer, output, faults>>

Sent ==
    /\ lock \in Senders \/ (lock = "receiver" /\ receiver = "answering")
    /\ writer.pending = <<>>
    /\ Released("sent")
    /\ receiver' = IF lock = "receiver" THEN "reading" ELSE receiver
    /\ UNCHANGED <<closed, writer, output, faults>>

(* A failed write of an answer ends the session; the writer may be closed. *)
SendFails ==
    /\ lock \in Senders \/ (lock = "receiver" /\ receiver = "answering")
    /\ faults < MaxFaults /\ faults' = faults + 1
    /\ Released("failed")
    /\ IF lock = "receiver" THEN closed' = TRUE /\ receiver' = "closing"
       ELSE UNCHANGED <<closed, receiver>>
    /\ UNCHANGED <<writer, output>>

(* The result of closing the writer is ignored. *)
WriterClosed ==
    /\ lock = "receiver" /\ receiver = "closing" /\ writer.pending = <<>>
    /\ Released("sent")
    /\ receiver' = "idle" /\ output' = Append(output, EOF)
    /\ UNCHANGED <<closed, writer, faults>>

DropSend(s) ==
    /\ sends[s] \in {"new", "writing"} /\ faults < MaxFaults
    /\ sends' = [sends EXCEPT ![s] = "dropped"] /\ faults' = faults + 1
    /\ lock' = IF lock = s THEN "free" ELSE lock
    /\ UNCHANGED <<reading, closed, receiver, writer, output>>

Close ==
    /\ receiver = "idle" /\ writer.open
    /\ closed' = TRUE /\ receiver' = "closing"
    /\ UNCHANGED <<reading, writing, sends, faults>>

TransportNext ==
    \/ Receive \/ Decode \/ ReadMore \/ DropReceive \/ Close
    \/ AcquireAnswer \/ AcquireClose \/ Flush \/ Sent \/ SendFails \/ WriterClosed
    \/ \E s \in Senders : Acquire(s) \/ DropSend(s)

=============================================================================
