----------------------------- MODULE UbxFrames -----------------------------
(***************************************************************************)
(* The UBX frames the driver sends to the receiver: ublox.cpp's builders,  *)
(* the checksum, and the test a frame must pass on the other side.         *)
(***************************************************************************)
EXTENDS Integers, SequencesExt

CONSTANT Capacity    \* kUbxBufferSize

ASSUME CapacityAssumption == Capacity \in Nat

Byte == 0 .. 255
Overhead == 8
Zeros(n) == [i \in 1 .. n |-> 0]

LittleEndian16(n) == <<n % 256, (n \div 256) % 256>>
LittleEndian32(n) == LittleEndian16(n % 65536) \o LittleEndian16(n \div 65536)

\* Faulty variant of Checksum: class and id are left out.
ChecksumOfPayload(bytes) ==
  FoldLeft(LAMBDA c, x : <<(c[1] + x) % 256, (c[2] + c[1] + x) % 256>>, <<0, 0>>,
           SubSeq(bytes, 3, Len(bytes)))

\* computeChecksum, 8-bit Fletcher.
Checksum(bytes) ==
  FoldLeft(LAMBDA c, x : <<(c[1] + x) % 256, (c[2] + c[1] + x) % 256>>, <<0, 0>>, bytes)

\* buildFrame, which gives nothing when the frame does not fit.
Frame(class, id, payload) ==
  LET body == <<class, id>> \o LittleEndian16(Len(payload)) \o payload
  IN  IF Overhead + Len(payload) > Capacity THEN <<>>
      ELSE <<181, 98>> \o body \o Checksum(body)

ValidFrame(f) ==
  /\ Len(f) >= Overhead
  /\ f[1] = 181 /\ f[2] = 98
  /\ Len(f) = Overhead + f[5] + 256 * f[6]
  /\ SubSeq(f, Len(f) - 1, Len(f)) = Checksum(SubSeq(f, 3, Len(f) - 2))

-----------------------------------------------------------------------------
\* The configuration messages; class CFG is 6, and NMEA sentences are of class
\* 240.  Only UART1, port 1, is given a rate.
CfgMsg(id, rate) == Frame(6, 1, <<240, id, 0, rate, 0, 0, 0, 0>>)

\* One port, 8N1, UBX and NMEA both ways.
CfgPrtUart1(baud) ==
  Frame(6, 0, <<1, 0, 0, 0>> \o LittleEndian32(2256) \o LittleEndian32(baud)
              \o <<3, 0, 3, 0>> \o Zeros(4))

CfgRateHz(hertz) ==
  IF hertz = 0 THEN <<>> ELSE Frame(6, 8, LittleEndian16(1000 \div hertz) \o <<1, 0, 1, 0>>)

CfgNav5DynamicModel(model) == Frame(6, 36, <<1, 0, model>> \o Zeros(33))

CfgRstHotStart == Frame(6, 4, <<0, 0, 2, 0>>)

-----------------------------------------------------------------------------
\* The receiver's side (external): what it is set to by a frame it accepts.
Word(f, i) == f[6 + i] + 256 * f[7 + i]
Setting(f) ==
  CASE f[4] = 0 -> [baud |-> Word(f, 9) + 65536 * Word(f, 11), mode |-> Word(f, 5)]
    [] f[4] = 1 -> [sentence |-> f[8], rate |-> f[10]]
    [] f[4] = 4 -> [erased |-> Word(f, 1), reset |-> f[9]]
    [] f[4] = 8 -> [period |-> Word(f, 1)]
    [] f[4] = 36 -> [model |-> f[9], applied |-> Word(f, 1)]
=============================================================================
