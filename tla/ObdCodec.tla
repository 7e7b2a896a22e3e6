------------------------------- MODULE ObdCodec -------------------------------
(***************************************************************************)
(* One request on its way through the codec: recv fills OBD_t.data, the    *)
(* event loop measures it and takes its command, and a worker turns its    *)
(* text into bytes (OBD_struct.h, string_ops.h, read_func_cb of main-ev.c).*)
(*                                                                         *)
(* Memory is one array of cells: data, data_length and hex lie one after   *)
(* the other in OBD_t, and the loop of the decoder may run from one into   *)
(* the next.  data_length, i and j are u8_t: they count modulo BufSize,    *)
(* which stands for 256 both as BUF_SIZE and as the number of u8_t values. *)
(* Characters are their ASCII codes; the bytes of data after the text are 0.*)
(***************************************************************************)
EXTENDS Integers, Sequences

CONSTANTS
  BufSize,     \* BUF_SIZE, and 2^8
  Texts,       \* what a recv can return: a sequence of characters
  Unset        \* begin before it is looked for; id before it is taken

ASSUME CodecAssumption ==
  /\ BufSize \in Nat /\ BufSize >= 4 /\ BufSize % 2 = 0
  /\ \A t \in Texts : t \in Seq(1 .. 127) /\ Len(t) \in 0 .. BufSize
  /\ Unset \notin Int

VARIABLES
  text,        \* what one recv returned, up to its first NUL
  dataLength,  \* obd->data_length
  id,          \* obd->id
  hex,         \* obd->hex
  begin,       \* where the decoder found "BB"
  i, j, flag,  \* the locals of OBD_filter_escape_and_transfer_to_hex
  stage        \* "recv", "dropped", "queued", "loop", "rejected", "decoded"

locals == <<i, j, flag>>
codecVars == <<text, dataLength, id, hex, begin, i, j, flag, stage>>

Escape == 170  \* 0xAA

U8(n) == n % BufSize

\* asc2hex and str2hex, on unsigned bytes
Asc2Hex(c) ==
  IF c \in 65 .. 89 THEN c - 55
  ELSE IF c \in 97 .. 121 THEN c - 87
  ELSE (c - 48) % 256

\* asc2hex(m) << 4 | asc2hex(n): the low half of the second is always kept, and
\* a high half of it that is not 0 is or-ed into the first.
HighOr(m, n) ==
  LET bit(x, k) == (x \div 2^k) % 2
      or(k) == IF bit(m, k) = 1 \/ bit(n, k + 4) = 1 THEN 2^(k + 4) ELSE 0
  IN or(0) + or(1) + or(2) + or(3)

Str2Hex(m, n) == HighOr(Asc2Hex(m), Asc2Hex(n)) + (Asc2Hex(n) % 16)

\* The cell a places after the first of data.
Cell(a) ==
  IF a < Len(text) THEN text[a + 1]
  ELSE IF a < BufSize THEN 0
  ELSE IF a = BufSize THEN dataLength
  ELSE hex[a - BufSize - 1]

\* strstr for two equal characters: where they may be found first.
Occurrences(c) == {k \in 0 .. Len(text) - 2 : text[k + 1] = c /\ text[k + 2] = c}
FirstAt(k, c) == k \in Occurrences(c) /\ \A m \in Occurrences(c) : k <= m

-------------------------------------------------------------------------------
CodecInit ==
  /\ text \in Texts
  /\ dataLength = 0 /\ id = Unset
  /\ hex = [k \in 0 .. BufSize - 1 |-> 0]
  /\ begin = Unset
  /\ i = 0 /\ j = 0 /\ flag = FALSE
  /\ stage = "recv"

\* read_func_cb: a length that is 0 as a u8_t drops the request with no answer.
Measure ==
  /\ stage = "recv"
  /\ dataLength' = U8(Len(text))
  /\ \/ dataLength' = 0 /\ stage' = "dropped" /\ UNCHANGED id
     \/ /\ dataLength' # 0
        /\ id' = Str2Hex(Cell(2), Cell(3))
        /\ stage' = "queued"
  /\ UNCHANGED <<text, hex, begin, locals>>

\* No "BB", no "EE", or the first "EE" before the first "BB".
Reject ==
  /\ stage = "queued"
  /\ \/ Occurrences(66) = {} \/ Occurrences(69) = {}
     \/ \E b, e \in 0 .. Len(text) : FirstAt(b, 66) /\ FirstAt(e, 69) /\ e < b
  /\ stage' = "rejected"
  /\ UNCHANGED <<text, dataLength, id, hex, begin, locals>>

Enter ==
  /\ stage = "queued"
  /\ \E b, e \in 0 .. Len(text) :
       FirstAt(b, 66) /\ FirstAt(e, 69) /\ b <= e /\ begin' = b
  /\ stage' = "loop"
  /\ UNCHANGED <<text, dataLength, id, hex, locals>>

LoopsOnEqual == stage = "loop" /\ i <= dataLength             \* mutant
InLoop == stage = "loop" /\ i < dataLength

AtNext(k) == U8(k + 2)

\* obd->hex[j] = tmp; j++; i += 2
Store(byte) ==
  /\ hex' = [hex EXCEPT ![j] = byte]
  /\ j' = U8(j + 1)
  /\ i' = AtNext(i)
  /\ UNCHANGED <<text, dataLength, id, begin, stage>>

Pair == Str2Hex(Cell(begin + i), Cell(begin + i + 1))

PlainPair ==
  /\ InLoop /\ ~flag
  /\ Pair # Escape
  /\ Store(Pair)
  /\ UNCHANGED flag

EscapePair ==
  /\ InLoop /\ ~flag
  /\ Pair = Escape
  /\ flag' = TRUE
  /\ i' = AtNext(i)
  /\ UNCHANGED <<text, dataLength, id, hex, begin, j, stage>>

EscapedFirst ==                                            \* mutant
  /\ InLoop /\ flag
  /\ Store(Str2Hex(Cell(begin + i), Cell(begin + i)))
  /\ flag' = FALSE

\* After an escape the second character of the pair is read twice.
EscapedPair ==
  /\ InLoop /\ flag
  /\ Store(Str2Hex(Cell(begin + i + 1), Cell(begin + i + 1)))
  /\ flag' = FALSE

Leave ==
  /\ stage = "loop" /\ ~InLoop
  /\ stage' = "decoded"
  /\ UNCHANGED <<text, dataLength, id, hex, begin, locals>>

CodecNext ==
  \/ Measure \/ Reject \/ Enter
  \/ PlainPair \/ EscapePair \/ EscapedPair \/ Leave

CodecSpec == CodecInit /\ [][CodecNext]_codecVars

\* The thread that decodes runs on.
FairCodecSpec == CodecSpec /\ WF_codecVars(CodecNext)

-------------------------------------------------------------------------------
(***************************************************************************)
(* Properties                                                              *)
(***************************************************************************)

\* Overlong is the length that i, going up by 2 modulo BufSize, never reaches.
Overlong == dataLength = BufSize - 1

\* A clean frame: it starts with "BB", is even, and has no escape pair.
Clean ==
  /\ dataLength % 2 = 0
  /\ begin = 0
  /\ \A k \in 0 .. (dataLength \div 2) - 1 :
       Str2Hex(text[2 * k + 1], text[2 * k + 2]) # Escape

\* A clean frame comes out as its pairs of characters, each one byte, in order,
\* and all of them: nothing after the frame, nothing of hex itself.
CleanFrameDecoded ==
  stage = "decoded" /\ Clean =>
    /\ 2 * j = dataLength
    /\ \A k \in 0 .. BufSize - 1 :
         hex[k] = IF k < j THEN Str2Hex(text[2 * k + 1], text[2 * k + 2]) ELSE 0

\* What the first pairs of the frame stand for, read out of data alone: the bytes,
\* and whether the last pair is an escape that waits for its successor.
Data(a) == IF a < Len(text) THEN text[a + 1] ELSE 0

Decoding[k \in 0 .. BufSize] ==
  IF k = 0 THEN [bytes |-> <<>>, escaped |-> FALSE]
  ELSE LET before == Decoding[k - 1]
           first == Data(begin + 2 * k - 2)
           second == Data(begin + 2 * k - 1)
           byte == Str2Hex(IF before.escaped THEN second ELSE first, second)
       IN IF ~before.escaped /\ byte = Escape
          THEN [bytes |-> before.bytes, escaped |-> TRUE]
          ELSE [bytes |-> Append(before.bytes, byte), escaped |-> FALSE]

\* The decoder's pairs (the last one may be half outside the frame), and how many
\* of them data has room for.
Pairs == (dataLength + 1) \div 2
Room == (BufSize - begin) \div 2
PairsInData == IF Pairs <= Room THEN Pairs ELSE Room

\* With escapes and wherever the frame begins, its pairs in data come out as the
\* bytes they stand for, and what a late frame reads behind data, of data_length
\* and of hex, does not spoil them: the u8_t counters do not come round, and
\* nothing of hex is written over.  A frame that ends before data does comes out
\* as these bytes alone.
FrameDecoded ==
  stage = "decoded" =>
    LET bytes == Decoding[PairsInData].bytes
    IN /\ Len(bytes) <= j
       /\ Pairs <= Room => j = Len(bytes)
       /\ \A k \in 0 .. BufSize - 1 :
            /\ k < Len(bytes) => hex[k] = bytes[k + 1]
            /\ k >= j => hex[k] = 0

\* Every request that is not overlong leaves the decoder.
DecodeEnds == stage = "queued" /\ ~Overlong ~> stage \in {"decoded", "rejected"}
===============================================================================
