----------------------------- MODULE LogEvents ------------------------------
(* The live log page: the console numbers the entries of an archived log,  *)
(* sends them in batches as server-sent events (console/handler.go), and   *)
(* the page, whose connection can break at any time, asks again with the   *)
(* ID of the last event it received.  Entry n of the log is the number n.  *)
EXTENDS Naturals, Sequences, FiniteSets, FiniteSetsExt, SequencesExt, TLC

CONSTANTS MaxLines,                      \* entries of the log
          EntryBytes(_),                 \* encoded size of an entry
          BatchEntryLimit, BatchByteLimit,
          MaxBreaks                      \* connections that break in a behaviour

VARIABLES lines,     \* entries in the archive
          logOver,   \* whether the archive is complete
          stream,    \* the request the console serves
          wire,      \* events on their way to the page
          page,      \* the page: what it shows, lastEventId, whether it closed the source
          breaks

evars == <<lines, logOver, stream, wire, page, breaks>>

NoStream == [open |-> FALSE, since |-> 0, logID |-> 0, batch |-> <<>>]

EventsInit ==
    /\ lines = 0 /\ logOver = FALSE /\ stream = NoStream /\ wire = <<>>
    /\ page = [shown |-> <<>>, last |-> 0, closed |-> FALSE] /\ breaks = 0

Grow ==
    /\ ~logOver
    /\ \/ lines < MaxLines /\ lines' = lines + 1 /\ UNCHANGED logOver
       \/ logOver' = TRUE /\ UNCHANGED lines
    /\ UNCHANGED <<stream, wire, page, breaks>>

(* The browser connects, and connects again, with Last-Event-ID.           *)
Connect ==
    /\ ~stream.open /\ ~page.closed /\ wire = <<>>
    /\ stream' = [NoStream EXCEPT !.open = TRUE, !.since = page.last]
    /\ UNCHANGED <<lines, logOver, wire, page, breaks>>

BreaksOff ==
    /\ stream.open \/ wire # <<>>
    /\ breaks < MaxBreaks /\ breaks' = breaks + 1
    /\ stream' = NoStream /\ wire' = <<>>
    /\ UNCHANGED <<lines, logOver, page>>

-----------------------------------------------------------------------------
Bytes(batch) == FoldLeft(LAMBDA sum, n : sum + EntryBytes(n), 0, batch)

FirstLogEvent(batch) == [id |-> batch[1], entries |-> batch]

LogEvent(batch) == [id |-> batch[Len(batch)], entries |-> batch]

(* flushBatch *)
Flushed(batch) == IF batch = <<>> THEN <<>> ELSE <<LogEvent(batch)>>

IsFull(batch) == Len(batch) = BatchEntryLimit \/ Bytes(batch) >= BatchByteLimit

Skipped(n) == n <= stream.since

Splits(n) == stream.batch # <<>> /\ Bytes(stream.batch) + EntryBytes(n) > BatchByteLimit

(* An entry is read: it is counted, and left out if the page has it.  The  *)
(* batch goes first when the entry would make it too long, and with the    *)
(* entry when it is full.                                                  *)
ReadEntry ==
    LET n == stream.logID + 1
        before == IF Splits(n) THEN Flushed(stream.batch) ELSE <<>>
        batch == Append(IF Splits(n) THEN <<>> ELSE stream.batch, n)
    IN  /\ stream.open /\ n <= lines
        /\ IF Skipped(n)
           THEN stream' = [stream EXCEPT !.logID = n] /\ UNCHANGED wire
           ELSE /\ wire' = wire \o before \o (IF IsFull(batch) THEN Flushed(batch) ELSE <<>>)
                /\ stream' = [stream EXCEPT !.logID = n, !.batch = IF IsFull(batch) THEN <<>> ELSE batch]
        /\ UNCHANGED <<lines, logOver, page, breaks>>

(* batchTicker and the heartbeat.                                          *)
BatchTick ==
    /\ stream.open /\ stream.batch # <<>>
    /\ wire' = wire \o Flushed(stream.batch) /\ stream' = [stream EXCEPT !.batch = <<>>]
    /\ UNCHANGED <<lines, logOver, page, breaks>>

EndEvent == [id |-> 0, entries |-> <<>>]

EndAfter(batch) == Append(Flushed(batch), EndEvent)

EndStream ==
    /\ stream.open /\ logOver /\ stream.logID = lines
    /\ wire' = wire \o EndAfter(stream.batch)
    /\ stream' = NoStream
    /\ UNCHANGED <<lines, logOver, page, breaks>>

(* The page shows the entries of an event and remembers its ID; the end    *)
(* event closes the source.                                                *)
Show ==
    /\ wire # <<>> /\ wire' = Tail(wire)
    /\ page' = IF Head(wire).entries = <<>> THEN [page EXCEPT !.closed = TRUE]
               ELSE [page EXCEPT !.shown = @ \o Head(wire).entries, !.last = Head(wire).id]
    /\ UNCHANGED <<lines, logOver, stream, breaks>>

ConsoleStep == Connect \/ ReadEntry \/ EndStream \/ Show

EventsNext == Grow \/ BreaksOff \/ BatchTick \/ ConsoleStep

-----------------------------------------------------------------------------
(* The page shows every entry once and in order, whenever its connection   *)
(* broke off.                                                              *)
ShownOnce == page.shown = [n \in 1..Len(page.shown) |-> n]
=============================================================================
