----------------------------- MODULE Codec_proofs -----------------------------
(***************************************************************************)
(* The decoder undoes the encoder, whatever the messages, their largest    *)
(* size and the foreign datagrams are.                                     *)
(***************************************************************************)
EXTENDS Codec, SequenceTheorems, TLAPS

-----------------------------------------------------------------------------
(* One call of the decoder.                                                *)

\* The bytes of an encoded message: a header, of which the first byte is 0 and
\* the other two give the length, and the message.
LEMMA EncodedBytes ==
  ASSUME NEW m \in Seq(Byte), Len(m) <= 65535
  PROVE  /\ Encoded(m) \in Seq(Byte)
         /\ Len(Encoded(m)) = 3 + Len(m)
         /\ Encoded(m)[1] = 0
         /\ 256 * Encoded(m)[2] + Encoded(m)[3] = Len(m)
         /\ After(Encoded(m), HEADER_SIZE) = m
<1> DEFINE L == Len(m)
           h == <<0, L \div 256, L % 256>>
<1>1. L \in Nat /\ L <= 65535
  BY LenProperties
<1>2. /\ L \div 256 \in 0 .. 255 /\ L % 256 \in 0 .. 255
      /\ 256 * (L \div 256) + (L % 256) = L
  <2> HIDE DEF L
  <2>1. QED BY <1>1
<1>3. h \in Seq(Byte) /\ Len(h) = 3 /\ h[1] = 0 /\ h[2] = L \div 256 /\ h[3] = L % 256
  BY <1>2 DEF Byte
<1> HIDE DEF h
<1>4. /\ Encoded(m) = h \o m
      /\ Encoded(m) \in Seq(Byte)
      /\ Len(Encoded(m)) = 3 + L
  BY <1>3, ConcatProperties DEF Encoded, h
<1>5. /\ \A i \in 1 .. 3 : Encoded(m)[i] = h[i]
      /\ \A i \in 1 .. L : Encoded(m)[i + 3] = m[i]
  BY <1>1, <1>3, <1>4, ConcatProperties
<1>6. After(Encoded(m), HEADER_SIZE) = m
  <2> DEFINE b == Encoded(m)
             a == SubSeq(b, 4, Len(b))
  <2>1. /\ a \in Seq(Byte) /\ Len(a) = L
        /\ \A i \in 1 .. L : a[i] = b[i + 3]
    BY <1>1, <1>4, SubSeqProperties
  <2>2. a = m
    BY <1>5, <2>1, SeqEqual
  <2>3. QED BY <2>2 DEF After, HEADER_SIZE
<1>7. QED BY <1>2, <1>3, <1>4, <1>5, <1>6

\* What is left of a string of bytes is one.
LEMMA AfterBytes ==
  ASSUME NEW b \in Seq(Byte), NEW i \in 0 .. Len(b)
  PROVE  After(b, i) \in Seq(Byte)
BY SubSeqProperties, LenProperties DEF After

\* The length of a payload fits the two bytes of the header.
LEMMA PayloadFits == MAX_PAYLOAD_SIZE \in Int /\ MAX_PAYLOAD_SIZE <= 65535
BY CodecAssumption, SMT

\* The messages that fit a datagram.
LEMMA OwnMessages ==
  ASSUME NEW m \in Own
  PROVE  m \in Message /\ m \in Parses /\ m \in Seq(Byte) /\ Len(m) <= 65535
<1>1. m \in Message /\ m \in Parses /\ m \in Seq(Byte)
  BY CodecAssumption DEF Own
<1>2. Len(m) \in Nat /\ Len(m) <= MAX_PAYLOAD_SIZE
  BY <1>1, LenProperties DEF Own
<1>3. MAX_PAYLOAD_SIZE \in Int /\ MAX_PAYLOAD_SIZE <= 65535
  BY PayloadFits, SMT
<1>4. Len(m) <= 65535
  <2> DEFINE n == Len(m)
  <2>1. n \in Nat /\ n <= MAX_PAYLOAD_SIZE
    BY <1>2
  <2> HIDE DEF n
  <2>2. n <= 65535
    BY <2>1, <1>3
  <2>3. QED BY <2>2 DEF n
<1>5. QED BY <1>1, <1>4

\* A decoder that waits for a header takes one datagram of the encoder for what
\* it is (encoder.rs:25-44, decoder.rs:51-83).
LEMMA HeaderUndone ==
  ASSUME NEW m \in Own
  PROVE  Decode(ReadHeader, Encoded(m)) = {<<ReadHeader, << >>, Item(m)>>}
<1>1. m \in Parses /\ Len(m) \in Nat
  BY OwnMessages, LenProperties
<1>2. /\ Len(Encoded(m)) = 3 + Len(m) /\ Encoded(m)[1] = 0
      /\ 256 * Encoded(m)[2] + Encoded(m)[3] = Len(m)
      /\ After(Encoded(m), HEADER_SIZE) = m
  BY OwnMessages, EncodedBytes
<1>3. DecodeBody(Len(m), m) = {<<ReadHeader, << >>, Item(m)>>}
  BY <1>1 DEF DecodeBody
<1>4. QED BY <1>1, <1>2, <1>3 DEF Decode, HEADER_SIZE

\* Nor does it make anything of nothing.
LEMMA NothingUndone == Decode(ReadHeader, << >>) = {<<ReadHeader, << >>, Nothing>>}
BY DEF Decode, HEADER_SIZE

\* A decoder that waits for a body takes no datagram of the encoder for one:
\* it waits for more, or fails.
LEMMA NoHeaderIsBody ==
  ASSUME NEW m \in Own, NEW len \in Nat, NEW o \in DecodeBody(len, Encoded(m))
  PROVE  o[3] = Error \/ (o[3] = Nothing /\ o[2] # << >>)
<1>1. Encoded(m) \in Seq(Byte) /\ Len(Encoded(m)) > 0 /\ Encoded(m)[1] = 0
  BY OwnMessages, EncodedBytes, LenProperties
<1>2. Encoded(m) # << >>
  BY <1>1
<1>3. Encoded(m) \notin Parses
  BY <1>1, <1>2, CodecAssumption
<1>4. QED BY <1>2, <1>3 DEF DecodeBody

-----------------------------------------------------------------------------
(* The types.                                                              *)

\* What the decoder leaves behind has the type of what it was given.
LEMMA DecodeTypes ==
  ASSUME NEW st \in [step : {"ReadHeader", "ReadBody"}, len : Nat], NEW b \in Seq(Byte),
         NEW o \in Decode(st, b)
  PROVE  /\ o[1] \in [step : {"ReadHeader", "ReadBody"}, len : Nat]
         /\ o[2] \in Seq(Byte)
         /\ o[3] # Nothing => o[3] \in [kind : {"Ok", "Err"}, body : Parses]
<1> DEFINE Good(p) == /\ p[1] \in [step : {"ReadHeader", "ReadBody"}, len : Nat]
                      /\ p[2] \in Seq(Byte)
                      /\ p[3] # Nothing => p[3] \in [kind : {"Ok", "Err"}, body : Parses]
<1>1. << >> \in Parses /\ << >> \in Seq(Byte) /\ Len(b) \in Nat
  BY CodecAssumption, LenProperties
<1>2. ASSUME NEW len \in Nat, NEW c \in Seq(Byte), NEW p \in DecodeBody(len, c)
      PROVE  Good(p)
  <2>1. CASE Len(c) < len
    BY <1>2, <2>1 DEF DecodeBody, ReadBody, Nothing
  <2>2. CASE ~ (Len(c) < len) /\ c \in Parses
    <3>1. p = <<ReadHeader, << >>, Item(c)>>
      BY <1>2, <2>2 DEF DecodeBody
    <3>2. Item(c) \in [kind : {"Ok", "Err"}, body : Parses]
      BY <2>2 DEF Item
    <3>3. QED BY <1>1, <3>1, <3>2 DEF ReadHeader
  <2>3. CASE ~ (Len(c) < len) /\ c \notin Parses
    <3>1. PICK i \in 0 .. Len(c) : p = <<ReadBody(len), After(c, i), Error>>
      BY <1>2, <2>3 DEF DecodeBody
    <3>2. QED BY <1>1, <3>1, AfterBytes DEF ReadBody, Error
  <2>4. QED BY <2>1, <2>2, <2>3
<1>3. CASE st # ReadHeader
  BY <1>2, <1>3 DEF Decode
<1>4. CASE st = ReadHeader /\ Len(b) < HEADER_SIZE
  BY <1>4 DEF Decode
<1>5. CASE st = ReadHeader /\ ~ (Len(b) < HEADER_SIZE) /\ b[1] # 0
  <2>1. Tail(b) \in Seq(Byte)
    BY <1>1, <1>5, HeadTailProperties DEF HEADER_SIZE
  <2>2. o = <<st, Tail(b), Error>>
    BY <1>5 DEF Decode
  <2>3. Error \in [kind : {"Ok", "Err"}, body : Parses]
    BY <1>1 DEF Error
  <2>4. o[1] = st /\ o[2] = Tail(b) /\ o[3] = Error
    BY <2>2
  <2>5. QED BY <2>1, <2>3, <2>4
<1>6. CASE st = ReadHeader /\ ~ (Len(b) < HEADER_SIZE) /\ b[1] = 0
  <2>1. After(b, HEADER_SIZE) \in Seq(Byte)
    BY <1>1, <1>6, AfterBytes DEF HEADER_SIZE
  <2>2. b[2] \in Nat /\ b[3] \in Nat
    <3>1. 2 \in 1 .. Len(b) /\ 3 \in 1 .. Len(b)
      BY <1>1, <1>6 DEF HEADER_SIZE
    <3>2. b[2] \in Byte /\ b[3] \in Byte
      BY <3>1, ElementOfSeq
    <3>3. Byte \subseteq Nat
      BY DEF Byte
    <3>4. QED BY <3>2, <3>3
  <2>3. 256 * b[2] + b[3] \in Nat
    BY <2>2
  <2>4. o \in DecodeBody(256 * b[2] + b[3], After(b, HEADER_SIZE))
    BY <1>6 DEF Decode
  <2>5. QED BY <1>2, <2>1, <2>3, <2>4
<1>7. QED BY <1>3, <1>4, <1>5, <1>6

\* Every poll and every datagram keeps the types.
LEMMA TypePreserved == TypeOK /\ [Next]_vars => TypeOK'
<1>1. SUFFICES ASSUME TypeOK, [Next]_vars PROVE TypeOK'
  OBVIOUS
<1>2. CASE Poll
  <2>1. PICK o \in Decode(state, rd) :
          /\ state' = o[1] /\ rd' = o[2]
          /\ \/ o[3] # Nothing /\ results' = results \union {o[3]} /\ UNCHANGED is_readable
             \/ results' = results \union {Error} /\ UNCHANGED is_readable
             \/ is_readable' = FALSE /\ UNCHANGED results
    BY <1>2 DEF Poll
  <2>2. Error \in [kind : {"Ok", "Err"}, body : Parses]
    BY CodecAssumption DEF Error
  <2>3. state' \in [step : {"ReadHeader", "ReadBody"}, len : Nat] /\ rd' \in Seq(Byte)
    BY <1>1, <2>1, DecodeTypes DEF TypeOK
  <2>4. \A r \in results' : r \in [kind : {"Ok", "Err"}, body : Parses]
    BY <1>1, <2>1, <2>2, DecodeTypes DEF TypeOK
  <2>5. is_readable' \in BOOLEAN
    BY <1>1, <2>1, Zenon DEF TypeOK
  <2>6. QED BY <1>1, <1>2, <2>3, <2>4, <2>5 DEF TypeOK, Poll
<1>3. CASE ReceiveOwn
  <2>1. PICK m \in Own : Receive(Encoded(m)) /\ expected' = {m} /\ UNCHANGED clean
    BY <1>3 DEF ReceiveOwn
  <2>2. m \in Message /\ Encoded(m) \in Seq(Byte)
    BY OwnMessages, EncodedBytes
  <2>3. is_readable' \in BOOLEAN
    BY <2>1, Zenon DEF Receive
  <2>4. QED BY <1>1, <2>1, <2>2, <2>3 DEF TypeOK, Receive
<1>4. CASE ReceiveForeign
  <2>1. PICK d \in Foreign : Receive(d) /\ expected' = {} /\ clean' = FALSE
    BY <1>4 DEF ReceiveForeign
  <2>2. d \in Seq(Byte)
    BY CodecAssumption
  <2>3. is_readable' \in BOOLEAN /\ clean' \in BOOLEAN
    BY <2>1, Zenon DEF Receive
  <2>4. QED BY <1>1, <2>1, <2>2, <2>3 DEF TypeOK, Receive
<1>5. CASE UNCHANGED vars
  BY <1>1, <1>5 DEF TypeOK, vars
<1>6. QED BY <1>1, <1>2, <1>3, <1>4, <1>5 DEF Next

\* Whatever arrives, every variable keeps its type; a length read from two
\* bytes is a natural number (decoder.rs:56-66).
THEOREM TypeCorrect == Spec => []TypeOK
<1>1. Init => TypeOK
  <2>1. ASSUME Init PROVE is_readable \in BOOLEAN /\ clean \in BOOLEAN
    BY <2>1, Zenon DEF Init
  <2>2. ASSUME Init PROVE state \in [step : {"ReadHeader", "ReadBody"}, len : Nat]
    BY <2>2 DEF Init, ReadHeader
  <2>3. ASSUME Init PROVE rd \in Seq(Byte) /\ expected \subseteq Message /\ results = {}
    BY <2>3 DEF Init
  <2>4. QED BY <2>1, <2>2, <2>3 DEF TypeOK
<1>2. QED BY <1>1, TypePreserved, PTL DEF Spec

-----------------------------------------------------------------------------
(* What becomes of a datagram.                                             *)

\* Among encoders, a datagram is in one of three places: not decoded yet,
\* decoded but for the poll that finds nothing more, or done with.
Undone ==
    clean =>
        /\ state = ReadHeader
        /\ \/ /\ ~ is_readable /\ rd = << >>
              /\ results = {Item(m) : m \in expected}
           \/ \E m \in Own : /\ is_readable /\ expected = {m}
                             /\ \/ rd = Encoded(m) /\ results = {}
                                \/ rd = << >> /\ results = {Item(m)}

\* Every poll and every datagram of an encoder leaves it in one of the three.
LEMMA UndonePreserved == Undone /\ [Next]_vars => Undone'
<1>1. SUFFICES ASSUME Undone, [Next]_vars, clean' PROVE Undone'
  BY DEF Undone
<1>2. CASE Poll
  <2>1. PICK m \in Own : /\ is_readable /\ expected = {m} /\ state = ReadHeader
                         /\ \/ rd = Encoded(m) /\ results = {}
                            \/ rd = << >> /\ results = {Item(m)}
    BY <1>1, <1>2 DEF Undone, Poll
  <2>2. expected' = {m}
    BY <1>2, <2>1 DEF Poll
  <2>3. CASE rd = Encoded(m) /\ results = {}
    <3>1. PICK o \in {<<ReadHeader, << >>, Item(m)>>} :
            /\ state' = o[1] /\ rd' = o[2]
            /\ o[3] # Nothing => results' = results \union {o[3]} /\ UNCHANGED is_readable
      BY <1>2, <2>1, <2>3, HeaderUndone DEF Poll
    <3>2. Item(m) # Nothing
      BY DEF Item, Nothing
    <3>3. state' = ReadHeader /\ rd' = << >> /\ results' = {Item(m)} /\ is_readable' = is_readable
      BY <2>3, <3>1, <3>2
    <3>4. QED BY <2>1, <2>2, <3>3 DEF Undone
  <2>4. CASE rd = << >> /\ results = {Item(m)}
    <3>1. state' = ReadHeader /\ rd' = << >> /\ is_readable' = FALSE /\ results' = results
      <4>1. PICK o \in {<<ReadHeader, << >>, Nothing>>} :
              /\ state' = o[1] /\ rd' = o[2]
              /\ o[3] = Nothing /\ o[2] = << >> => is_readable' = FALSE /\ results' = results
        BY <1>2, <2>1, <2>4, NothingUndone DEF Poll
      <4>2. QED BY <4>1
    <3>2. {Item(k) : k \in expected'} = {Item(m)}
      BY <2>2
    <3>3. QED BY <2>4, <3>1, <3>2 DEF Undone
  <2>5. QED BY <2>1, <2>3, <2>4
<1>3. CASE ReceiveOwn
  <2>1. PICK m \in Own : Receive(Encoded(m)) /\ expected' = {m} /\ UNCHANGED clean
    BY <1>3 DEF ReceiveOwn
  <2>2. QED BY <1>1, <2>1 DEF Undone, Receive
<1>4. CASE ReceiveForeign
  BY <1>1, <1>4 DEF ReceiveForeign
<1>5. CASE UNCHANGED vars
  BY <1>1, <1>5 DEF vars, Undone
<1>6. QED BY <1>1, <1>2, <1>3, <1>4, <1>5 DEF Next

\* Among publishers and subscribers that share this codec, every datagram gives
\* back its one message and leaves the decoder as it was, whatever the largest
\* payload is below 2^16 (encoder.rs:25-44, decoder.rs:51-83).
THEOREM OwnTrafficIsDecoded == Spec => []OwnTrafficDecodes
<1>1. Init => Undone
  BY DEF Init, Undone
<1>2. Undone => OwnTrafficDecodes
  BY DEF Undone, OwnTrafficDecodes
<1>3. QED BY <1>1, <1>2, UndonePreserved, PTL DEF Spec

\* A message is in a datagram the decoder has not looked at yet, or was
\* returned, or an error was.
Answered ==
    /\ expected \subseteq Own
    /\ \A m \in expected : \/ is_readable /\ rd = Encoded(m)
                           \/ Item(m) \in results
                           \/ Error \in results

\* A poll that consumes an encoded datagram returns its message or an error.
LEMMA AnsweredPreserved == TypeOK /\ Answered /\ [Next]_vars => Answered'
<1>1. SUFFICES ASSUME TypeOK, Answered, [Next]_vars PROVE Answered'
  OBVIOUS
<1>2. CASE Poll
  <2>1. expected' = expected /\ results \subseteq results'
    BY <1>2 DEF Poll
  <2>2. SUFFICES ASSUME NEW m \in expected, rd = Encoded(m), m \in Own
                 PROVE  Item(m) \in results' \/ Error \in results'
    BY <1>1, <2>1 DEF Answered
  <2>3. PICK o \in Decode(state, Encoded(m)) :
          /\ o[3] # Nothing => results' = results \union {o[3]}
          /\ o[3] = Nothing /\ o[2] # << >> => results' = results \union {Error}
    BY <1>2, <2>2 DEF Poll
  <2>4. CASE state = ReadHeader
    <3>1. o = <<ReadHeader, << >>, Item(m)>>
      BY <2>2, <2>3, <2>4, HeaderUndone
    <3>2. Item(m) # Nothing
      BY DEF Item, Nothing
    <3>3. QED BY <2>3, <3>1, <3>2
  <2>5. CASE state # ReadHeader
    <3>1. state.len \in Nat /\ o \in DecodeBody(state.len, Encoded(m))
      BY <1>1, <2>3, <2>5 DEF TypeOK, Decode
    <3>2. o[3] = Error \/ (o[3] = Nothing /\ o[2] # << >>)
      BY <2>2, <3>1, NoHeaderIsBody
    <3>3. Error # Nothing
      BY DEF Error, Nothing
    <3>4. QED BY <2>3, <3>2, <3>3
  <2>6. QED BY <2>4, <2>5
<1>3. CASE ReceiveOwn
  BY <1>3 DEF ReceiveOwn, Receive, Answered
<1>4. CASE ReceiveForeign
  BY <1>4 DEF ReceiveForeign, Answered
<1>5. CASE UNCHANGED vars
  BY <1>1, <1>5 DEF vars, Answered
<1>6. QED BY <1>1, <1>2, <1>3, <1>4, <1>5 DEF Next

\* Whatever foreign datagrams came before, a message that arrives whole is
\* returned or an error is: the flag at the front of a header is not the
\* beginning of a message (decoder.rs:68-82).
THEOREM NothingLostSilently == Spec => []NeverLostSilently
<1>1. Init => Answered
  BY DEF Init, Answered
<1>2. Answered => NeverLostSilently
  BY DEF Answered, NeverLostSilently
<1>3. QED BY <1>1, <1>2, TypeCorrect, AnsweredPreserved, PTL DEF Spec
==============================================================================
