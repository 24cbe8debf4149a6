--------------------------- MODULE NumericRegister ---------------------------
(***************************************************************************)
(* The accessors of the NumericAddressedBackend for registers with one     *)
(* channel (NumericAddressedBackendRegisterAccessor) and with several      *)
(* multiplexed ones (NumericAddressedBackendMuxedRegisterAccessor): how    *)
(* the bytes of the register are found for each sample of each channel,    *)
(* and what they become.                                                   *)
(*                                                                         *)
(* A layout has the number of samples, the pitch in bytes, and channels    *)
(* with the offset in bytes and the format.                                *)
(***************************************************************************)
EXTENDS Conversion, SequencesExt

CONSTANTS
  Layouts,
  UserTypes,
  Memories(_),    \* contents of the register to begin with, by layout
  Values(_)       \* what the application writes, by type

VARIABLES
  layout, userType,
  memory,     \* the bytes of the register, and of what follows it up to a word
  ioBuffer,   \* _ioBuffer, or the buffer of the low-level element
  buffer,     \* buffer_2D[channel][sample]
  phase       \* "idle", "read", "set", "written"

numericVars == <<layout, userType, memory, ioBuffer, buffer, phase>>

Channels == DOMAIN layout.channels
Format(c) == layout.channels[c].format
SampleIndices == 0 .. layout.nElements - 1

\* The transfers are done in words of four bytes.
NBytes(lay) == ((lay.pitch * lay.nElements + 3) \div 4) * 4

-----------------------------------------------------------------------------
(* Groups of channels which share a converter *)

\* The channels with the same ConverterInfo, by the first of them.
ChannelGroups ==
  LET first == SelectSeq([c \in Channels |-> c],
                         LAMBDA c : ~\E d \in Channels : d < c /\ Format(d) = Format(c))
  IN  [g \in DOMAIN first |-> SelectSeq([c \in Channels |-> c], LAMBDA c : Format(c) = Format(first[g]))]

\* Mistake: the way to the next sample leads to the beginning of the block.
OffsetToNextBlock(group, i) ==
  IF i < Len(group) THEN layout.channels[group[i + 1]].offset - layout.channels[group[i]].offset
  ELSE layout.pitch - layout.channels[group[i]].offset

\* Bytes from a sample of the i-th channel of the group to the next sample.
OffsetToNext(group, i) ==
  IF i < Len(group) THEN layout.channels[group[i + 1]].offset - layout.channels[group[i]].offset
  ELSE layout.pitch - layout.channels[group[i]].offset + layout.channels[Head(group)].offset

\* The samples in the order in which the loops visit them, with the address.
Visits(group) ==
  LET n == Len(group)
      address[k \in 0 .. layout.nElements * n] ==
        IF k = 0 THEN layout.channels[Head(group)].offset
        ELSE address[k - 1] + OffsetToNext(group, ((k - 1) % n) + 1)
  IN  [k \in 1 .. layout.nElements * n |->
         [channel |-> group[((k - 1) % n) + 1], sample |-> (k - 1) \div n, address |-> address[k - 1]]]

AllVisits == FlattenSeq([g \in DOMAIN ChannelGroups |-> Visits(ChannelGroups[g])])

-----------------------------------------------------------------------------
(* Words in memory, of the size of the raw type *)

Base == 2 ^ BitsPerByte

RawAt(bytes, address, n) ==
  FoldLeft(LAMBDA sum, j : sum * Base + bytes[address + j], 0, [j \in 1 .. n |-> n + 1 - j])

WithRaw(bytes, address, n, raw) ==
  [b \in DOMAIN bytes |-> IF b \in address + 1 .. address + n
                          THEN (raw \div (Base ^ (b - address - 1))) % Base ELSE bytes[b]]

-----------------------------------------------------------------------------
(* Operations *)

\* The transfer, and doPostRead().
Read ==
  /\ phase = "idle"
  /\ ioBuffer' = memory
  /\ buffer' = [c \in Channels |-> [s \in SampleIndices |->
       LET v == CHOOSE w \in Range(AllVisits) : w.channel = c /\ w.sample = s
       IN  ToCooked(Format(c), userType, RawAt(ioBuffer', v.address, Format(c).bytes))]]
  /\ phase' = "read"
  /\ UNCHANGED <<layout, userType, memory>>

\* The application fills the buffer.
Set ==
  /\ phase = "idle"
  /\ \E value \in Values(userType), c \in Channels, s \in SampleIndices :
       buffer' = [buffer EXCEPT ![c][s] = value]
  /\ phase' = "set"
  /\ UNCHANGED <<layout, userType, memory, ioBuffer>>

\* doPreWrite(), and the transfer.
Write ==
  /\ phase \in {"read", "set"}
  /\ ioBuffer' = FoldLeft(
       LAMBDA bytes, v : WithRaw(bytes, v.address, Format(v.channel).bytes,
                                 ToRaw(Format(v.channel), userType, buffer[v.channel][v.sample])),
       ioBuffer, AllVisits)
  /\ memory' = ioBuffer'
  /\ phase' = "written"
  /\ UNCHANGED <<layout, userType, buffer>>

NumericInit ==
  /\ layout \in Layouts
  /\ userType \in UserTypes
  /\ memory \in Memories(layout)
  /\ ioBuffer = [b \in DOMAIN memory |-> 0]
  /\ buffer = [c \in Channels |-> [s \in SampleIndices |-> 0]]
  /\ phase = "idle"

NumericNext == Read \/ Set \/ Write

NumericSpec == NumericInit /\ [][NumericNext]_numericVars

-----------------------------------------------------------------------------
(* Properties *)

\* The raw value of a sample.
RawOf(c, s) == RawAt(memory, s * layout.pitch + layout.channels[c].offset, Format(c).bytes)

(***************************************************************************)
(* Each sample of each channel has the value of the user type which is     *)
(* nearest to that of the raw bits, in the range of the type: the          *)
(* demultiplexing, the sign extension, the shifting, rounding and clamping *)
(* of doPostReadImpl() and Converter::toCooked().                          *)
(***************************************************************************)
ReadIsNearest ==
  phase = "read" => \A c \in Channels, s \in SampleIndices :
    LET f == Format(c)
    IN  buffer[c][s] = Nearest(userType, Scaled(Wrapped(RawOf(c, s), f.width, f.signed) * Unit, -f.fractional))

(***************************************************************************)
(* The same of what is written, doPreWriteImpl() and Converter::toRaw(),   *)
(* for all types but float.                                                *)
(***************************************************************************)
WriteIsNearest ==
  phase = "written" /\ userType # Float => \A c \in Channels, s \in SampleIndices :
    RawOf(c, s) = NearestRaw(Format(c), buffer[c][s])

(***************************************************************************)
(* What NumericConverter.h says of convert(): "float-to-integer: rounding  *)
(* to nearest integer".                                                    *)
(***************************************************************************)
FloatIsRoundedToNearest ==
  phase = "written" /\ userType = Float => \A c \in Channels, s \in SampleIndices :
    RawOf(c, s) = NearestRaw(Format(c), buffer[c][s])

=============================================================================
