-------------------------------- MODULE Broker --------------------------------
(***************************************************************************)
(* Telemetry from log_telemetry to the clients of the host broker: events  *)
(* encoded as Postcard records, appended to telemetry.bin, read back in    *)
(* chunks by tail_file, decoded and broadcast.                             *)
(* Source: telemetry/src/lib.rs, host/telemetry_broker.py.                 *)
(***************************************************************************)
EXTENDS Naturals, Sequences, FiniteSetsExt

CONSTANTS
    Events,      \* the trace events the kernel may log
    Client,      \* sockets that may connect
    CHUNK,       \* bytes tail_file asks for at once (4096), at least 1
    CONT,        \* continuation bit of a varint byte (128), above the tags
    MAX_EVENTS   \* events logged, a bound

VARIABLES
    logged,    \* events logged so far, in the order of their records
    file,      \* bytes of telemetry.bin
    tell,      \* f.tell(): bytes of the file read so far
    stream,    \* contents of the BytesIO
    pos,       \* its position, from 1
    parsing,   \* tail_file is in the loop over events
    clients,   \* connected sockets
    closed,    \* sockets whose peer has gone
    events     \* events broadcast so far

brokerVars == <<logged, file, tell, stream, pos, parsing, clients, closed, events>>

-----------------------------------------------------------------------------
(* The wire format                                                          *)

\* Postcard's varint of a number below CONT^2.
varint(n) == IF n < CONT THEN <<n>> ELSE <<CONT + (n % CONT), n \div CONT>>

\* postcard::to_slice: the variant's number, u8 fields as they are, u32 fields
\* as varints. An event is <<variant, field, ...>>.
to_slice(event) ==
    CASE event[1] = "TaskSwap"          -> <<0, event[2], event[3]>> \o varint(event[4])
      [] event[1] = "IpcTransfer"       -> <<1, event[2], event[3]>>
      [] event[1] = "FaultInterception" -> <<2>> \o varint(event[2]) \o varint(event[3])

\* Where the varint at byte p of s ends; 0 if the bytes run out.
VarintEnd(s, p) ==
    LET ends == {q \in p .. Len(s) : s[q] < CONT}
    IN  IF ends = {} THEN 0 ELSE Min(ends)

read_varint(s, p) ==
    MapThenSumSet(LAMBDA q : (s[q] % CONT) * CONT^(q - p), p .. VarintEnd(s, p))

\* The outcome of parse_event: an event and the position after it, or None
\* for a record cut short and for an unknown tag.
None == [some |-> FALSE]
Some(event, next) == [some |-> TRUE, event |-> event, next |-> next]

parse_event(s, p) ==
    LET fields == VarintEnd(s, p) + 1
        tag    == read_varint(s, p)
        second == VarintEnd(s, fields) + 1
    IN  CASE fields = 1 -> None
          [] fields > 1 /\ tag = 0 ->
                IF fields + 2 > Len(s) \/ VarintEnd(s, fields + 2) = 0 THEN None
                ELSE Some(<<"TaskSwap", s[fields], s[fields + 1], read_varint(s, fields + 2)>>,
                          VarintEnd(s, fields + 2) + 1)
          [] fields > 1 /\ tag = 1 ->
                IF fields + 1 > Len(s) THEN None
                ELSE Some(<<"IpcTransfer", s[fields], s[fields + 1]>>, fields + 2)
          [] fields > 1 /\ tag = 2 ->
                IF second = 1 THEN None
                ELSE IF VarintEnd(s, second) = 0 THEN None
                ELSE Some(<<"FaultInterception", read_varint(s, fields), read_varint(s, second)>>,
                          VarintEnd(s, second) + 1)
          [] OTHER -> None

-----------------------------------------------------------------------------

Init ==
    /\ logged = <<>> /\ file = <<>> /\ tell = 0
    /\ stream = <<>> /\ pos = 1 /\ parsing = FALSE
    /\ clients = {} /\ closed = {} /\ events = <<>>

\* A hart logs an event; the hook appends its record to the file in one write.
log_telemetry(event) ==
    /\ Len(logged) < MAX_EVENTS
    /\ logged' = Append(logged, event)
    /\ file' = file \o to_slice(event)
    /\ UNCHANGED <<tell, stream, pos, parsing, clients, closed, events>>

\* f.read, then stream.write at position 0: the chunk replaces as many bytes
\* of the rest kept in stream as it has. A read that returns nothing changes
\* nothing: the file is opened for appending and never shrinks.
ReadsChunk ==
    LET n == Min({CHUNK, Len(file) - tell}) IN
    /\ ~parsing /\ n > 0
    /\ stream' = SubSeq(file, tell + 1, tell + n) \o SubSeq(stream, n + 1, Len(stream))
    /\ tell' = tell + n
    /\ pos' = 1 /\ parsing' = TRUE
    /\ UNCHANGED <<logged, file, clients, closed, events>>

\* parse_event finds an event: broadcast sends it to every client and drops
\* those the send fails for.
Broadcasts ==
    LET parsed == parse_event(stream, pos) IN
    /\ parsing /\ parsed.some
    /\ events' = Append(events, parsed.event)
    /\ clients' = clients \ closed
    /\ pos' = parsed.next
    /\ UNCHANGED <<logged, file, tell, stream, parsing, closed>>

\* It finds none: the unread bytes go to a new stream, whose position is 0.
KeepsRest ==
    /\ parsing /\ ~parse_event(stream, pos).some
    /\ stream' = SubSeq(stream, pos, Len(stream))
    /\ pos' = 1 /\ parsing' = FALSE
    /\ UNCHANGED <<logged, file, tell, clients, closed, events>>

tail_file == ReadsChunk \/ Broadcasts \/ KeepsRest

\* server_loop accepts a connection and handle_client lists it.
handle_client(c) ==
    /\ c \notin clients \cup closed
    /\ clients' = clients \cup {c}
    /\ UNCHANGED <<logged, file, tell, stream, pos, parsing, closed, events>>

\* The peer of a client goes away.
Closes(c) ==
    /\ c \in clients \ closed
    /\ closed' = closed \cup {c}
    /\ UNCHANGED <<logged, file, tell, stream, pos, parsing, clients, events>>

Next ==
    \/ \E event \in Events : log_telemetry(event)
    \/ tail_file
    \/ \E c \in Client : handle_client(c) \/ Closes(c)

Spec == Init /\ [][Next]_brokerVars

-----------------------------------------------------------------------------

\* README.md: the broker "decodes the Postcard wire format, and re-broadcasts
\* each event as JSON": what tail_file broadcasts is what log_telemetry wrote,
\* event by event.
RebroadcastsEachEvent ==
    /\ Len(events) <= Len(logged)
    /\ \A n \in 1 .. Len(events) : events[n] = logged[n]

=============================================================================
