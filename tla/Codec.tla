-------------------------------- MODULE Codec --------------------------------
(***************************************************************************)
(* The codec (codec/encoder.rs, codec/decoder.rs) where a subscriber uses  *)
(* it: the encoder puts a header of HEADER_SIZE bytes (compression flag,   *)
(* length) before a message, a datagram carries exactly one, and the       *)
(* decoder, a state machine made for byte streams, is driven by tokio's    *)
(* UdpFramed over one datagram after another.  Its state outlives the      *)
(* datagram, and so do the bytes a failed call leaves unread.              *)
(*                                                                         *)
(* Any process may send to a multicast group, so datagrams the encoder did *)
(* not make arrive too.                                                    *)
(***************************************************************************)
EXTENDS Integers, Sequences

CONSTANTS
    Message,            \* encoded messages, as strings of bytes
    Parses,             \* the strings of bytes Message::decode accepts
    Foreign,            \* datagrams that come from elsewhere
    MAX_PAYLOAD_SIZE

HEADER_SIZE == 3
Byte == 0 .. 255

\* What the encoder writes parses.  No message begins with a byte 0: in the
\* wire format of protobuf it would be field number 0, which there is not.
ASSUME CodecAssumption ==
    /\ Message \subseteq Parses
    /\ Parses \subseteq Seq(Byte)
    /\ \A b \in Parses : b # << >> => b[1] # 0
    /\ << >> \in Parses
    /\ Foreign \subseteq Seq(Byte)
    /\ MAX_PAYLOAD_SIZE \in Nat /\ MAX_PAYLOAD_SIZE < 256 * 256

VARIABLES
    state,          \* the decoder's: ReadHeader, or ReadBody with a length
    rd,             \* the bytes of a datagram that are not consumed yet
    is_readable,    \* rd is to be decoded before the socket is read
    expected,       \* history: the message encoded in the last datagram, as a
                    \* set: empty for a foreign one
    results,        \* history: what polls have returned since it came
    clean           \* history: no foreign datagram has come so far

vars == <<state, rd, is_readable, expected, results, clean>>

-----------------------------------------------------------------------------
(* Encoder::encode into an empty buffer                                    *)

Encoded(m) == <<0, Len(m) \div 256, Len(m) % 256>> \o m

\* A message too large is an error, and no datagram
Own == {m \in Message : Len(m) <= MAX_PAYLOAD_SIZE}

-----------------------------------------------------------------------------
(* Decoder::decode: the state and the bytes it leaves behind, and what it  *)
(* returns: nothing, one message, or an error.                             *)

ReadHeader == [step |-> "ReadHeader", len |-> 0]
ReadBody(len) == [step |-> "ReadBody", len |-> len]

Nothing == [kind |-> "None", body |-> << >>]
Error == [kind |-> "Err", body |-> << >>]
Item(b) == [kind |-> "Ok", body |-> b]

After(b, i) == SubSeq(b, i + 1, Len(b))

\* Mutation of DecodeBody: the state is only reset by an error
BodyKeepsState(len, b) ==
    IF Len(b) < len THEN {<<ReadBody(len), b, Nothing>>}
    ELSE IF b \in Parses THEN {<<ReadBody(len), << >>, Item(b)>>}
    ELSE {<<ReadHeader, After(b, i), Error>> : i \in 0 .. Len(b)}

\* Mutation of DecodeBody: a short body is thrown away
BodySkipped(len, b) ==
    IF Len(b) < len THEN {<<ReadBody(len), << >>, Nothing>>}
    ELSE IF b \in Parses THEN {<<ReadHeader, << >>, Item(b)>>}
    ELSE {<<ReadBody(len), After(b, i), Error>> : i \in 0 .. Len(b)}

\* Message::decode takes the whole buffer, not len bytes of it; when it fails
\* it has consumed some of it or none, and the state stays as it is
DecodeBody(len, b) ==
    IF Len(b) < len THEN {<<ReadBody(len), b, Nothing>>}
    ELSE IF b \in Parses THEN {<<ReadHeader, << >>, Item(b)>>}
    ELSE {<<ReadBody(len), After(b, i), Error>> : i \in 0 .. Len(b)}

\* Mutation of Decode: the length counts the header
DecodeLengthOfFrame(st, b) ==
    IF st # ReadHeader THEN DecodeBody(st.len, b)
    ELSE IF Len(b) < HEADER_SIZE THEN {<<st, b, Nothing>>}
    ELSE IF b[1] # 0 THEN {<<st, Tail(b), Error>>}
    ELSE DecodeBody(256 * b[2] + b[3] - HEADER_SIZE, After(b, HEADER_SIZE))

Decode(st, b) ==
    IF st # ReadHeader THEN DecodeBody(st.len, b)
    ELSE IF Len(b) < HEADER_SIZE THEN {<<st, b, Nothing>>}
    ELSE IF b[1] # 0 THEN {<<st, Tail(b), Error>>}
    ELSE DecodeBody(256 * b[2] + b[3], After(b, HEADER_SIZE))

-----------------------------------------------------------------------------
TypeOK ==
    /\ state \in [step : {"ReadHeader", "ReadBody"}, len : Nat]
    /\ rd \in Seq(Byte)
    /\ is_readable \in BOOLEAN
    /\ expected \subseteq Message
    /\ \A r \in results : r \in [kind : {"Ok", "Err"}, body : Parses]
    /\ clean \in BOOLEAN

Init ==
    /\ state = ReadHeader
    /\ rd = << >>
    /\ is_readable = FALSE
    /\ expected = {}
    /\ results = {}
    /\ clean = TRUE

(* UdpFramed::poll_next: rd is decoded until nothing is left of it, and     *)
(* decode_eof makes an error of a remainder the decoder has no use for.     *)

Poll ==
    /\ is_readable
    /\ \E o \in Decode(state, rd) :
        /\ state' = o[1]
        /\ rd' = o[2]
        /\ IF o[3] # Nothing
           THEN results' = results \union {o[3]} /\ UNCHANGED is_readable
           ELSE IF o[2] # << >>
           THEN results' = results \union {Error} /\ UNCHANGED is_readable
           ELSE is_readable' = FALSE /\ UNCHANGED results
    /\ UNCHANGED <<expected, clean>>

Receive(datagram) ==
    /\ ~ is_readable
    /\ rd' = datagram
    /\ is_readable' = TRUE
    /\ results' = {}
    /\ UNCHANGED state

ReceiveOwn ==
    \E m \in Own : Receive(Encoded(m)) /\ expected' = {m} /\ UNCHANGED clean

ReceiveForeign ==
    \E d \in Foreign : Receive(d) /\ expected' = {} /\ clean' = FALSE

Next == Poll \/ ReceiveOwn \/ ReceiveForeign

Spec == Init /\ [][Next]_vars

-----------------------------------------------------------------------------
(* Properties *)

\* Among publishers and subscribers that share this codec the decoder is back
\* at a header for every datagram, never errs, and yields from each datagram
\* its one message, up to the largest, the empty one included
\* (decoder.rs:51-83 undoing encoder.rs:25-44, datagram after datagram).
OwnTrafficDecodes ==
    clean =>
        /\ state = ReadHeader
        /\ results \subseteq {Item(m) : m \in expected}
        /\ ~ is_readable => results = {Item(m) : m \in expected}

\* A message in a well-formed datagram is never lost without a sign, whatever
\* came before it: by the time the socket is read again the polls have
\* returned it, or an error.  It may be an error because a foreign header
\* without a body left the decoder waiting for one; it is one because the
\* flag of the next header is not the beginning of a message
\* (decoder.rs:68-82).
NeverLostSilently ==
    ~ is_readable =>
        \A m \in expected : Item(m) \in results \/ Error \in results
==============================================================================
