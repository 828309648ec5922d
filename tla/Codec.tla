-------------------------------- MODULE Codec --------------------------------
(***************************************************************************)
(* The framing of every TCP connection of the two servers (class Codec): a *)
(* message is preceded by its length in four bytes, least significant byte *)
(* first.  A byte is a digit of base Base, so that a small base makes      *)
(* short messages use several digits of the length; the code's base is 256 *)
(* and its limit 2^20.                                                     *)
(*                                                                         *)
(* A message is the sequence of its serialized bytes.  Whether such a      *)
(* sequence parses is a fact about protobuf: Unparsable are the ones that  *)
(* do not.                                                                 *)
(***************************************************************************)
EXTENDS Integers, Sequences

CONSTANTS Base,            \* values of a byte
          MaxMessageSize,  \* MAX_MESSAGE_SIZE
          Unparsable,      \* byte sequences that ParseFromArray refuses
          NoMessage        \* std::nullopt

Byte == 0 .. Base - 1

ASSUME CodecAssumption ==
    /\ Base \in Nat \ {0, 1}
    /\ MaxMessageSize \in 0 .. Base * Base * Base * Base - 1
    /\ NoMessage \notin Seq(Byte)

HeaderSize == 4

\* A length without its least significant byte.
Shifted(n) == n \div Base

\* Mutant: the most significant byte first.
HeaderBigEndian(message) ==
    LET n == Len(message)
    IN <<Shifted(Shifted(Shifted(n))) % Base, Shifted(Shifted(n)) % Base,
         Shifted(n) % Base, n % Base>>

\* The length field that encode() writes: the casts keep one byte each.
Header(message) ==
    LET n == Len(message)
    IN <<n % Base, Shifted(n) % Base, Shifted(Shifted(n)) % Base,
         Shifted(Shifted(Shifted(n))) % Base>>

encode(message) == Header(message) \o message

\* The length field at the front of a buffer of at least four bytes.
FrameLength(buffer) ==
    buffer[1] + Base * (buffer[2] + Base * (buffer[3] + Base * buffer[4]))

Parsed(body) == IF body \in Unparsable THEN NoMessage ELSE body

\* Mutant: the limit refuses a message of exactly the maximal size.
TooLongAtLimit(length) == length >= MaxMessageSize

TooLong(length) == length > MaxMessageSize

\* One call of tryDecode: the message it returns and the buffer it leaves.
\* An oversized length empties the buffer; a frame that does not parse is
\* taken out of it, and the call returns nothing either way.
tryDecode(buffer) ==
    LET nothing(rest) == [message |-> NoMessage, buffer |-> rest]
        size == HeaderSize + FrameLength(buffer)
    IN IF Len(buffer) < HeaderSize THEN nothing(buffer)
       ELSE IF TooLong(FrameLength(buffer)) THEN nothing(<<>>)
       ELSE IF Len(buffer) < size THEN nothing(buffer)
       ELSE [message |-> Parsed(SubSeq(buffer, HeaderSize + 1, size)),
             buffer  |-> SubSeq(buffer, size + 1, Len(buffer))]

\* The loop of the read handlers: the messages it has been given, the buffer
\* of the codec, and whether a call has returned nothing.
Loop == [messages : Seq(Seq(Byte)), buffer : Seq(Byte), done : BOOLEAN]

Entered(buffer) == [messages |-> <<>>, buffer |-> buffer, done |-> FALSE]

\* One turn of the loop.
Turned[loop \in Loop] ==
    LET call == tryDecode(loop.buffer)
    IN IF loop.done THEN loop
       ELSE IF call.message = NoMessage
       THEN [loop EXCEPT !.buffer = call.buffer, !.done = TRUE]
       ELSE [loop EXCEPT !.buffer = call.buffer,
                         !.messages = Append(@, call.message)]

\* Mutant: the loop is a single test.
DrainedOnce(buffer, most) == [Turned[Entered(buffer)] EXCEPT !.done = TRUE]

\* The loop left after most messages at the latest.
Drained(buffer, most) ==
    LET after[n \in Nat] == IF n = 0 THEN Entered(buffer) ELSE Turned[after[n - 1]]
    IN after[most]

\* Every message that the loop returns: a frame takes at least a header.
DrainedAll(buffer) == Drained(buffer, Len(buffer) \div HeaderSize + 1)

==============================================================================
