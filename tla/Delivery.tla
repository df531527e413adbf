------------------------------ MODULE Delivery ------------------------------
(***************************************************************************)
(* One numeric stream, end to end: LMEXResponse and LMEXWriter             *)
(* (backend/src/llm_model_explorer/streaming.py, lmex.py) on the server,   *)
(* ExplorerClient.stream, LmexDecoder and StreamWords (ui/src/api,         *)
(* ui/src/explorers) in the browser.                                       *)
(*                                                                         *)
(* The producer's bytes reach the response in chunks cut anywhere, leave   *)
(* it in DATA frames of whole words, travel over a connection that cuts    *)
(* them again anywhere, and end as words at their place in the buffer of   *)
(* the explorer.  Either side may stop at any time.                        *)
(*                                                                         *)
(* A payload byte is its position in the artifact, a header byte says      *)
(* which header it belongs to, and a JSON payload is one byte long.  The   *)
(* server runs from one await to the next; the browser turns the loop of   *)
(* LmexDecoder.push once per step.                                         *)
(***************************************************************************)
EXTENDS Naturals, Sequences

CONSTANTS
    Word,       \* bytes of a float32 or uint32 (4)
    Header,     \* bytes of a frame header (12)
    MaxData,    \* LMEXWriter.max_data_bytes
    Declared,   \* metadata.byte_length
    Lengths,    \* the lengths the producer's output may have
    Buffer,     \* bytes on the connection from which send() suspends
    Events      \* what may go wrong: see EventKinds

EventKinds == {"metadata", "producer", "revoke", "abort", "cut", "shutdown"}

ASSUME DeliveryAssumption ==
    /\ Word \in Nat \ {0} /\ Header \in Nat \ {0} /\ Buffer \in Nat \ {0}
    /\ MaxData \in Nat \ {0} /\ MaxData % Word = 0
    /\ Declared \in Nat /\ Declared % Word = 0
    /\ Lengths \subseteq Nat
    /\ Events \subseteq EventKinds

VARIABLES
    length,     \* bytes of the consumer's artifact or source
    terminal,   \* consumer.terminal
    held,       \* the consumer has not been disposed of
    taken,      \* bytes read from the consumer
    pc,         \* the delivery task, and then the rest of __call__
    carry,      \* the bytes of an unfinished word
    view,       \* the rest of the chunk
    pending,    \* the parts of the frame not yet sent
    then,       \* where delivery goes on after the frame
    sent,       \* writer.sent
    wire,       \* the bytes on the connection
    link,       \* "up", "ended" after the last body message, or "cut"
    chunk,      \* the rest of the chunk pushed into the decoder
    dec,        \* the decoder
    tail,       \* StreamWords.tail
    received,   \* StreamWords.received
    values,     \* the explorer's buffer: element offset -> word, <<>> if not written
    outcome,    \* of ExplorerClient.stream: "none" while it runs
    aborted,    \* controller.signal.aborted
    deleting    \* a DELETE of the operation is under way

serverVars == <<taken, pc, carry, view, pending, then, sent>>
clientVars == <<chunk, dec, tail, received, values, outcome>>
vars == <<length, terminal, held, serverVars, wire, link, clientVars, aborted, deleting>>

Terminal == {"complete", "error", "cancelled"}

Init ==
    /\ length \in Lengths
    /\ terminal = "none" /\ held = TRUE /\ taken = 0
    /\ pc = "start" /\ carry = <<>> /\ view = <<>> /\ pending = <<>> /\ then = "read"
    /\ sent = 0
    /\ wire = <<>> /\ link = "up"
    /\ chunk = <<>> /\ tail = <<>> /\ received = 0
    /\ dec = [head |-> <<>>, type |-> "none", remaining |-> 0, received |-> 0,
              metadata |-> FALSE, terminal |-> "none"]
    /\ values = [i \in 0..(Declared \div Word) - 1 |-> <<>>]
    /\ outcome = "none" /\ aborted = FALSE /\ deleting = FALSE

Least(m, n) == IF m < n THEN m ELSE n
Drop(s, n) == SubSeq(s, n + 1, Len(s))
First(s, n) == SubSeq(s, 1, n)

-----------------------------------------------------------------------------
(* LMEXResponse._deliver and the writer.                                   *)

\* _frame: the header and the payload are sent separately, the payload if not empty.
HeaderOf(t, n) == [i \in 1..Header |-> [type |-> t, size |-> n, part |-> i]]
Payload(bytes) == [i \in DOMAIN bytes |-> [byte |-> bytes[i]]]
Frame(t, bytes) ==
    <<HeaderOf(t, Len(bytes))>> \o (IF bytes = <<>> THEN <<>> ELSE <<Payload(bytes)>>)

\* A control payload stands for its JSON text.
Json == <<0>>
Control(t) == Frame(t, IF t \in {"meta", "error"} THEN Json ELSE <<>>)

\* await write(frame), then go on at next.
Write(frame, next) ==
    /\ pending' = frame /\ pc' = "write" /\ then' = next

\* await write(writer.error(...)) or (writer.cancelled()), and the end of the body.
Finish(t) == Write(Control(t), "last") /\ UNCHANGED <<carry, view, sent>>

Server == <<length, held, wire, link, clientVars, aborted, deleting>>

\* http.response.start; an exception here leaves _deliver at once.
StartResponse ==
    /\ pc = "start"
    /\ pc' \in {"metadata"} \cup (IF link = "cut" THEN {"close"} ELSE {})
    /\ UNCHANGED <<Server, terminal, taken, carry, view, pending, then, sent>>

\* _metadata: the factory has returned, unless the consumer was cancelled first.
Metadata ==
    /\ pc = "metadata" /\ terminal # "cancelled"
    /\ Write(Control("meta"), "read")
    /\ UNCHANGED <<Server, terminal, taken, carry, view, sent>>

MetadataFails ==
    /\ "metadata" \in Events
    /\ pc = "metadata" /\ terminal # "cancelled"
    /\ Finish("error")
    /\ UNCHANGED <<Server, terminal, taken>>

\* OperationCancelled out of the wait for the metadata or out of read().
Revoked ==
    /\ pc \in {"metadata", "read"} /\ terminal = "cancelled"
    /\ Finish("cancelled")
    /\ UNCHANGED <<Server, terminal, taken>>

ProducerFailed ==
    /\ pc = "read" /\ terminal = "error"
    /\ Finish("error")
    /\ UNCHANGED <<Server, terminal, taken>>

\* The bytes of the chunk that complete the carry.
Needed(v) == Least(Word - Len(carry), Len(v))

\* writer.data: a frame of whole words within the declared length, or ValueError.
Data(bytes, next) ==
    IF sent + Len(bytes) > Declared
    THEN Write(Control("error"), "last") /\ UNCHANGED sent
    ELSE Write(Frame("data", bytes), next) /\ sent' = sent + Len(bytes)

\* read() returns some bytes; those that complete the carry are a frame of their own.
Read ==
    /\ pc = "read" /\ terminal = "none" /\ taken < length
    /\ \E n \in 1..Least(MaxData, length - taken) :
        LET bytes == [i \in 1..n |-> taken + i]
            needed == IF carry = <<>> THEN 0 ELSE Needed(bytes)
            word == carry \o First(bytes, needed)
        IN  /\ taken' = taken + n
            /\ view' = Drop(bytes, needed)
            /\ IF carry # <<>> /\ Len(word) = Word
               THEN Data(word, "view") /\ carry' = <<>>
               ELSE /\ pc' = "view" /\ carry' = word
                    /\ UNCHANGED <<pending, then, sent>>
    /\ UNCHANGED <<Server, terminal>>

Rest(n) == carry \o Drop(view, n)

\* The whole words of the chunk are a frame; the rest is carried to the next read.
View ==
    /\ pc = "view"
    /\ LET aligned == Len(view) - (Len(view) % Word)
       IN  /\ IF aligned > 0
              THEN Data(First(view, aligned), "read")
              ELSE pc' = "read" /\ UNCHANGED <<pending, then, sent>>
           /\ carry' = Rest(aligned)
           /\ view' = <<>>
    /\ UNCHANGED <<Server, terminal, taken>>

\* Mutant: COMPLETE without comparing what was sent with what was declared.
Whole_Unchecked == carry = <<>>
\* No carry is left and writer.complete finds the declared length sent.
Whole == carry = <<>> /\ sent = Declared

\* read() reports the end.
EndOfArtifact ==
    /\ pc = "read" /\ terminal = "none" /\ taken = length
    /\ terminal' = "complete"
    /\ Finish(IF Whole THEN "complete" ELSE "error")
    /\ UNCHANGED <<Server, taken>>

\* One await send(part).  On a cut connection the transport drops the part ...
Send ==
    /\ pc = "write" /\ pending # <<>>
    /\ \/ link = "up" /\ Len(wire) < Buffer /\ wire' = wire \o pending[1]
       \/ link = "cut" /\ UNCHANGED wire
    /\ pending' = Tail(pending)
    /\ UNCHANGED <<length, link, clientVars, aborted, deleting, terminal, held, taken, pc, carry,
                   view, then, sent>>

\* ... or raises: no error frame may follow a frame that was cut short.
SendFailure == pc' = "close" /\ UNCHANGED <<carry, view, pending, then, sent>>
SendFails ==
    /\ pc = "write" /\ pending # <<>> /\ link = "cut"
    /\ SendFailure
    /\ UNCHANGED <<Server, terminal, taken>>

Written ==
    /\ pc = "write" /\ pending = <<>>
    /\ pc' = then
    /\ UNCHANGED <<Server, terminal, taken, carry, view, pending, then, sent>>

\* The last, empty body message ends the response, and __call__ goes to its finally.
EndBody ==
    /\ pc = "last"
    /\ link' = IF link = "up" THEN "ended" ELSE link
    /\ pc' = "close"
    /\ UNCHANGED <<length, wire, clientVars, aborted, deleting, terminal, held, taken, carry,
                   view, pending, then, sent>>

\* receive() reports the disconnection, or the server cancels the response: the delivery
\* is cancelled where it stands.
Disconnect ==
    /\ pc \notin {"close", "closed"}
    /\ link = "cut" \/ "shutdown" \in Events
    /\ pc' = "close"
    /\ UNCHANGED <<Server, terminal, taken, carry, view, pending, then, sent>>

\* Mutant: a consumer that is already cancelled is left to whoever cancelled it.
Disposed_IfLive == held' = (terminal = "cancelled")
Disposed == held' = FALSE

\* The finally block of __call__.  The server drops the connection of a response that
\* was left without its last body message.
CloseConsumer ==
    /\ pc = "close"
    /\ Disposed
    /\ terminal' = IF terminal = "none" THEN "cancelled" ELSE terminal
    /\ pc' = "closed"
    /\ link' = IF link = "up" THEN "cut" ELSE link
    /\ UNCHANGED <<length, taken, carry, view, pending, then, sent, wire, clientVars,
                   aborted, deleting>>

-----------------------------------------------------------------------------
(* What happens to the consumer meanwhile.                                 *)

\* Another client's, the session's or the runtime's cancellation.
Revoke ==
    /\ "revoke" \in Events /\ terminal = "none"
    /\ terminal' = "cancelled"
    /\ UNCHANGED <<length, held, serverVars, wire, link, clientVars, aborted, deleting>>

FailProducer ==
    /\ "producer" \in Events /\ terminal = "none"
    /\ terminal' = "error"
    /\ UNCHANGED <<length, held, serverVars, wire, link, clientVars, aborted, deleting>>

\* The DELETE of cancelOperation arrives, perhaps long after the stream has ended.
DeleteOperation ==
    /\ deleting
    /\ terminal' = IF terminal = "none" THEN "cancelled" ELSE terminal
    /\ deleting' = FALSE
    /\ UNCHANGED <<length, held, serverVars, wire, link, clientVars, aborted>>

-----------------------------------------------------------------------------
(* ExplorerClient.stream, LmexDecoder and StreamWords.                     *)

Client == <<length, terminal, held, serverVars, aborted, deleting>>

\* reader.read() resolves with any non-empty prefix of what has arrived.
Receive ==
    /\ outcome = "none" /\ chunk = <<>> /\ wire # <<>>
    /\ \E n \in 1..Len(wire) : chunk' = First(wire, n) /\ wire' = Drop(wire, n)
    /\ UNCHANGED <<Client, link, dec, tail, received, values, outcome>>

\* A violation of the protocol ends the stream.
Reject ==
    /\ outcome' = "protocol" /\ link' = "cut"
    /\ UNCHANGED <<dec, tail, received, values>>

\* startFrame: the magic, and the checks on the type and the size.
Sound(head) ==
    /\ \A i \in 1..Header : "part" \in DOMAIN head[i] /\ head[i] = [head[1] EXCEPT !.part = i]
    /\ LET t == head[1].type
       IN  /\ dec.metadata \/ t \in {"meta", "error", "cancelled"}
           /\ t = "meta" => ~dec.metadata
           /\ t = "data" => /\ head[1].size % Word = 0
                            /\ head[1].size <= Declared - dec.received
           /\ t \in {"complete", "cancelled"} => head[1].size = 0

\* The header bytes collected so far.
Collected(n) == dec.head \o First(chunk, n)

\* endFrame: what the decoder knows after a frame of type t.
EndFrame(d, t) ==
    [d EXCEPT !.head = <<>>, !.metadata = @ \/ t = "meta",
              !.terminal = IF t \in Terminal THEN t ELSE @]

\* COMPLETE must find the declared number of bytes received.
Ends(d, t) == t = "complete" => d.received = Declared

PushHeader ==
    /\ outcome = "none" /\ chunk # <<>> /\ Len(dec.head) < Header
    /\ LET n == Least(Header - Len(dec.head), Len(chunk))
           head == Collected(n)
           begun == [dec EXCEPT !.head = head, !.type = head[1].type,
                                !.remaining = head[1].size]
       IN  /\ chunk' = Drop(chunk, n)
           /\ \/ dec.terminal # "none" /\ Reject
              \/ /\ dec.terminal = "none" /\ Len(head) < Header
                 /\ dec' = [dec EXCEPT !.head = head]
                 /\ UNCHANGED <<tail, received, values, outcome, link>>
              \/ /\ dec.terminal = "none" /\ Len(head) = Header /\ Sound(head)
                 /\ begun.remaining = 0 => Ends(dec, begun.type)
                 /\ dec' = IF begun.remaining = 0 THEN EndFrame(begun, begun.type) ELSE begun
                 /\ UNCHANGED <<tail, received, values, outcome, link>>
              \/ /\ dec.terminal = "none" /\ Len(head) = Header
                 /\ ~(Sound(head) /\ (begun.remaining = 0 => Ends(dec, begun.type)))
                 /\ Reject
    /\ UNCHANGED <<Client, wire>>

\* Mutant: the unfinished word of the previous bytes is overwritten.
Joined_Fresh(bytes) == bytes
\* The unfinished word and the bytes that follow it.
Joined(bytes) == tail \o bytes

\* StreamWords.push: the words completed by the bytes go to their place at once.
Words(bytes) ==
    LET all == Joined(bytes)
        n == Len(all) \div Word
        start == (received - Len(tail)) \div Word
    IN  /\ values' = [i \in DOMAIN values |->
                        IF i \in start..(start + n) - 1
                        THEN SubSeq(all, (i - start) * Word + 1, (i - start + 1) * Word)
                        ELSE values[i]]
        /\ tail' = Drop(all, n * Word)
        /\ received' = received + Len(bytes)

PushPayload ==
    /\ outcome = "none" /\ chunk # <<>> /\ Len(dec.head) = Header
    /\ LET n == Least(dec.remaining, Len(chunk))
           got == First(chunk, n)
           after == [dec EXCEPT !.remaining = @ - n,
                                !.received = IF dec.type = "data" THEN @ + n ELSE @]
       IN  /\ chunk' = Drop(chunk, n)
           /\ dec' = IF after.remaining = 0 THEN EndFrame(after, dec.type) ELSE after
           /\ IF dec.type = "data"
              THEN Words([i \in 1..n |-> IF "byte" \in DOMAIN got[i] THEN got[i].byte ELSE 0])
              ELSE UNCHANGED <<tail, received, values>>
    /\ UNCHANGED <<Client, wire, link, outcome>>

\* finish(): only the end of the body makes a terminal frame the outcome.
Verdict == IF dec.terminal = "none" \/ dec.head # <<>> THEN "transport"
           ELSE IF dec.terminal = "error" THEN "backend" ELSE dec.terminal

EndOfBody ==
    /\ outcome = "none" /\ chunk = <<>> /\ wire = <<>> /\ link = "ended"
    /\ outcome' = Verdict
    /\ UNCHANGED <<Client, wire, link, chunk, dec, tail, received, values>>

\* The connection breaks, whatever of the rest had arrived is lost.
ConnectionLost ==
    /\ outcome = "none" /\ chunk = <<>> /\ link = "cut"
    /\ outcome' = "transport" /\ wire' = <<>>
    /\ UNCHANGED <<Client, link, chunk, dec, tail, received, values>>

\* cancel() of the operation or an abort of the caller's signal; cancel() also asks the
\* server, if it knows the operation, that is, if the headers have arrived.
Abort ==
    /\ "abort" \in Events
    /\ outcome = "none" /\ chunk = <<>>
    /\ aborted' = TRUE /\ outcome' = "cancelled"
    /\ link' = "cut" /\ wire' = <<>>
    /\ deleting' \in {FALSE} \cup (IF pc = "start" THEN {} ELSE {TRUE})
    /\ UNCHANGED <<length, terminal, held, serverVars, chunk, dec, tail, received, values>>

\* The network fails.
Cut ==
    /\ "cut" \in Events /\ link = "up"
    /\ link' = "cut"
    /\ UNCHANGED <<length, terminal, held, serverVars, wire, clientVars, aborted, deleting>>

-----------------------------------------------------------------------------
\* A delivery that waits for room on the connection is not a step.
Serve ==
    \/ StartResponse \/ Metadata \/ MetadataFails \/ Revoked \/ ProducerFailed
    \/ Read \/ View \/ EndOfArtifact \/ Send \/ SendFails \/ Written \/ EndBody
    \/ Disconnect \/ CloseConsumer

Browse == Receive \/ PushHeader \/ PushPayload \/ EndOfBody \/ ConnectionLost

Next ==
    \/ Serve \/ Browse
    \/ Revoke \/ FailProducer \/ DeleteOperation \/ Abort \/ Cut

Spec == Init /\ [][Next]_vars

\* The server's loop runs, read() returns (OperationRuntime.ReadReturns) and receive()
\* reports a disconnection.  Of the browser nothing is assumed: it may stop reading.
LiveSpec == Spec /\ WF_vars(Serve)

-----------------------------------------------------------------------------
(* Safety.                                                                 *)

TypeOK ==
    /\ length \in Lengths /\ terminal \in {"none", "complete", "cancelled", "error"} /\ held \in BOOLEAN
    /\ taken \in 0..length /\ Len(carry) < Word /\ sent \in 0..Declared
    /\ pc \in {"start", "metadata", "read", "view", "write", "last", "close", "closed"}
    /\ then \in {"read", "view", "last"}
    /\ link \in {"up", "ended", "cut"} /\ aborted \in BOOLEAN /\ deleting \in BOOLEAN
    /\ Len(dec.head) <= Header /\ dec.received \in 0..Declared
    /\ received = dec.received /\ Len(tail) < Word
    /\ outcome \in {"none", "complete", "cancelled", "backend", "transport", "protocol"}

\* Word i of the artifact.
Produced(i) == [b \in 1..Word |-> i * Word + b]

\* However the producer, the response and the connection cut the bytes, the buffer of
\* the explorer holds the artifact's words from the first, each at its own place and none
\* twice: exactly those whose last byte has been decoded.
WordsInPlace ==
    /\ TypeOK
    /\ \A i \in DOMAIN values :
         values[i] = IF (i + 1) * Word <= dec.received THEN Produced(i) ELSE <<>>

\* The browser is told what happened.  Success means that the whole artifact was produced
\* and decoded; an error or a cancellation of the server that there was one; and what the
\* writer sends, up to wherever it stops, is never a violation of the protocol.
TruthfulOutcome ==
    /\ outcome = "complete" =>
         /\ terminal = "complete" /\ length = Declared /\ dec.received = Declared
         /\ \A i \in DOMAIN values : values[i] = Produced(i)
    /\ outcome = "backend" => terminal = "error" \/ length # Declared \/ ~dec.metadata
    /\ outcome = "cancelled" => aborted \/ terminal = "cancelled"
    /\ outcome # "protocol"

(* Liveness.                                                               *)

\* The consumer, and with it the production nobody else needs, is released once the
\* connection is gone, even if the browser had stopped reading and send() was suspended;
\* and no stream stays open for ever if the browser does read.
Released ==
    /\ link = "cut" ~> ~held
    /\ WF_vars(Browse) => (outcome = "none" ~> outcome # "none" /\ ~held)

=============================================================================
