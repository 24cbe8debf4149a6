---------------------------- MODULE MCRegisters ----------------------------
(***************************************************************************)
(* Model checks the modules about accessors, registers and catalogues, as  *)
(* MCBackends does: each behaviour is one of one module, the part, which   *)
(* has the variables s1, s2, ... DataConsistencyRealm, LogicalVariables,   *)
(* SharedTarget and FanOut keep their own variables, which only change if  *)
(* the module is the part.                                                 *)
(***************************************************************************)
EXTENDS DataConsistencyRealm, LogicalVariables, SharedTarget, FanOut

CONSTANTS
  Parts,     \* the parts, see RegistersInit
  Absent

VARIABLES part, s1, s2, s3, s4, s5, s6, s7, s8, s9, s10, s11, s12, s13, s14, s15, s16

partVars == <<s1, s2, s3, s4, s5, s6, s7, s8, s9, s10, s11, s12, s13, s14, s15, s16>>
ownVars == <<vars, variableVars, sharedVars, fanOutVars>>
allVars == <<part, partVars, ownVars>>

\* The variables from the given number on, and those a part does not use.
from8 == <<s8, s9, s10, s11, s12, s13, s14, s15, s16>>
from7 == <<s7, from8>>
from5 == <<s5, s6, from7>>
NotUsed8 ==
  /\ s8 = "-" /\ s9 = "-" /\ s10 = "-" /\ s11 = "-" /\ s12 = "-"
  /\ s13 = "-" /\ s14 = "-" /\ s15 = "-" /\ s16 = "-"
NotUsed7 == s7 = "-" /\ NotUsed8
NotUsed5 == s5 = "-" /\ s6 = "-" /\ NotUsed7
NotUsed1 == s1 = "-" /\ s2 = "-" /\ s3 = "-" /\ s4 = "-" /\ NotUsed5

-----------------------------------------------------------------------------
\* Two elements with long histories, and three with short ones.
Pairs == INSTANCE DataConsistencyGroup WITH
  Elements <- {"e1", "e2"}, HistoryLengths <- {0, 1, 2}, MaxVersion <- 3, MaxUpdates <- 4,
  mode <- s1, histLen <- s2, log <- s3, user <- s4, target <- s5, history <- s6, index <- s7,
  lastMatching <- s8, inTransaction <- s9, needPreRead <- s10, updateCalled <- s11,
  consistentElements <- s12, consistentTo <- s13, untold <- s14, phase <- s15, current <- s16

Triples == INSTANCE DataConsistencyGroup WITH
  Elements <- {"e1", "e2", "e3"}, HistoryLengths <- {1}, MaxVersion <- 2, MaxUpdates <- 2,
  mode <- s1, histLen <- s2, log <- s3, user <- s4, target <- s5, history <- s6, index <- s7,
  lastMatching <- s8, inTransaction <- s9, needPreRead <- s10, updateCalled <- s11,
  consistentElements <- s12, consistentTo <- s13, untold <- s14, phase <- s15, current <- s16

\* Bytes of two bits, and user types whose mantissas are shorter than the
\* widest registers, so that conversions round.
Formats == INSTANCE Conversion WITH BitsPerByte <- 2, FloatBits <- 6, DoubleBits <- 13, Unit <- 64

Format(bytes, width, fractional, signed) ==
  [bytes |-> bytes, width |-> width, fractional |-> fractional, signed |-> signed]
OneChannel(f) == [nElements |-> 1, pitch |-> f.bytes, channels |-> <<[offset |-> 0, format |-> f]>>]
Wide == Format(2, 4, 0, TRUE)
Narrow == Format(1, 2, 1, FALSE)
FourChannels ==
  [nElements |-> 2, pitch |-> 6,
   channels |-> <<[offset |-> 0, format |-> Wide], [offset |-> 2, format |-> Narrow],
                  [offset |-> 3, format |-> Narrow], [offset |-> 4, format |-> Wide]>>]
RegisterLayouts ==
  {OneChannel(Format(4, w, f, s)) : w \in {5, 8}, f \in {-3, 0, 2}, s \in BOOLEAN} \cup {FourChannels}
ApplicationTypes ==
  {Formats!IntegerType(1, TRUE), Formats!IntegerType(2, FALSE), Formats!IntegerType(4, TRUE),
   Formats!IntegerType(4, FALSE), Formats!Float, Formats!Double, Formats!BooleanType, Formats!Void}
Contents(lay) ==
  IF Len(lay.channels) = 1 THEN [1 .. 4 -> 0 .. 3]
  ELSE {[b \in 1 .. 12 |-> (b * k + b \div 3) % 4] : k \in 0 .. 3}
WrittenValues(type) ==
  CASE type.kind = "integer" ->
         {n * 64 : n \in {Formats!Lowest(type), Formats!Highest(type), 0, 1, Formats!Highest(type) \div 2}}
    [] type.kind = "boolean" -> {0, 64}
    [] type.kind = "void" -> {0}
    [] type.kind = "float" ->
         {Formats!Rounded(type, n * 8) :
            n \in {-300, -13, -12, -4, -3, 0, 3, 4, 5, 12, 20, 264, 280, 500, 3000}}

Numeric == INSTANCE NumericRegister WITH
  BitsPerByte <- 2, FloatBits <- 6, DoubleBits <- 13, Unit <- 64,
  Layouts <- RegisterLayouts, UserTypes <- ApplicationTypes, Memories <- Contents, Values <- WrittenValues,
  layout <- s1, userType <- s2, memory <- s3, ioBuffer <- s4, buffer <- s5, phase <- s6

\* Decorators of each decorated type: limiting, C_style, and to other kinds.
Byte == Formats!IntegerType(1, TRUE)
Word == Formats!IntegerType(2, TRUE)
StringType == [kind |-> "string", bits |-> 0, signed |-> TRUE]
UnsignedWord == Formats!IntegerType(2, FALSE)
Key(type, conversion) == [type |-> type, conversion |-> conversion]
DecoratorKeys(type) ==
  IF type = StringType THEN {Key(Byte, "limiting")}
  ELSE {Key(Word, "limiting"), Key(Word, "C_style"),
        Key(IF type.kind = "integer" THEN StringType ELSE Formats!Void, "limiting")}
Exchanged(type) ==
  CASE type.kind = "integer" -> {Formats!Lowest(type) * 64, Formats!Highest(type) * 64}
    [] type.kind = "void" -> {0}
    [] type.kind = "string" -> {-9 * 64, 20 * 64}
    [] type.kind = "float" -> {Formats!Rounded(type, n * 8) : n \in {-13, 20}}

Decorators == INSTANCE TypeChanging WITH
  BitsPerByte <- 2, FloatBits <- 6, DoubleBits <- 13, Unit <- 64,
  ImplTypes <- {Byte, UnsignedWord, Formats!Float, Formats!Void, StringType},
  Keys <- DecoratorKeys, Values <- Exchanged, Nobody <- Absent, MaxVersion <- 2, MaxDecorators <- 2,
  implType <- s1, device <- s2, target <- s3, views <- s4, fresh <- s5, written <- s6

\* Aligned registers, halves of a word, one across a word boundary, and gaps.
Bytes(first, n) == [start |-> first, bytes |-> n]
Merging == INSTANCE TransferMerge WITH
  Alignment <- 2, CanMergeRequests <- TRUE, Accessors <- {1, 2, 3, 4},
  Registers <- {Bytes(0, 2), Bytes(2, 1), Bytes(3, 1), Bytes(3, 2), Bytes(6, 2), Bytes(9, 1), Bytes(12, 3)},
  register <- s1, added <- s2, flagged <- s3, g <- s4

ASSUME MergingAssumption == Merging!AccessorsAssumption

MapLine(name, access, interrupt) ==
  [name |-> name, access |-> access, interrupt |-> interrupt, hidden |-> FALSE]
Catalogues == INSTANCE Catalogue WITH
  MapFile <- {MapLine(<<"A">>, "READ_ONLY", <<>>), MapLine(<<"B">>, "WRITE_ONLY", <<>>),
              MapLine(<<"C">>, "READ_WRITE", <<>>), MapLine(<<"A", "DUMMY_WRITEABLE">>, "READ_WRITE", <<>>),
              MapLine(<<"I">>, "INTERRUPT", <<1>>), MapLine(<<"J">>, "INTERRUPT", <<1, 2>>),
              MapLine(<<"K">>, "INTERRUPT", <<3, 0>>)},
  MaxLines <- 3,
  registers <- s1, iterated <- s2, interrupts <- s3, copy <- s4, parsed <- s5, phase <- s6

\* One thread writes two elements of the register, the other one a third.
TwoAndOne == [th \in {"t1", "t2"} |-> IF th = "t1" THEN <<"a", "b">> ELSE <<"c">>]
OneRegister == [a \in {"a", "b", "c"} |-> "R"]
OneElementEach == [a |-> {1}, b |-> {2}, c |-> {3}]

\* Registers which refer to others, plugins of all kinds, and devices which
\* lack a register or have it with other properties.
Logical(name, type, dev, target, first, length, plugins) ==
  [name |-> name, type |-> type, device |-> dev, target |-> target, first |-> first, length |-> length,
   plugins |-> plugins]
LogicalMaps == {
  << Logical("a", "REGISTER", "dev", "W", 0, 0, <<"forceReadOnly">>), Logical("b", "REGISTER", "this", "a", 0, 0, <<>>),
     Logical("c", "CHANNEL", "dev", "A", 1, 0, <<>>), Logical("v", "VARIABLE", "", "", 0, 1, <<>>) >>,
  << Logical("a", "REGISTER", "dev", "A", 1, 2, <<"multiply", "forcePollingRead">>),
     Logical("b", "REGISTER", "this", "a", 1, 0, <<>>), Logical("c", "REGISTER", "this", "a", 1, 1, <<"monostableTrigger">>),
     Logical("v", "REGISTER", "dev", "A", 0, 0, <<>>) >>,
  << Logical("a", "REGISTER", "dev", "W", 0, 0, <<"bitRange">>), Logical("b", "BIT", "dev", "W", 0, 0, <<>>),
     Logical("c", "REGISTER", "dev", "W", 0, 1, <<"bitRange">>), Logical("v", "REGISTER", "this", "a", 0, 0, <<"fanOut">>) >> }
OnDevice(writeable, length) ==
  [readable |-> TRUE, writeable |-> writeable, flags |-> {"raw", "wait_for_new_data"}, length |-> length]
TargetDevices ==
  { [x \in {"W", "A"} |-> IF x = "W" THEN OnDevice(TRUE, 1) ELSE OnDevice(TRUE, 3)],
    [x \in {"W", "A"} |-> IF x = "W" THEN OnDevice(FALSE, 1) ELSE OnDevice(TRUE, 2)],
    [x \in {"A"} |-> OnDevice(TRUE, 3)] }

Names == INSTANCE LogicalNames WITH
  Maps <- LogicalMaps, Devices <- TargetDevices, This <- "this", Words <- {0, 1, 2}, Offsets <- {0, 1},
  MaxAccessors <- 2, MaxOpen <- 2,
  map <- s1, infos <- s2, device <- s3, completed <- s4, accessors <- s5, shared <- s6, opened <- s7

-----------------------------------------------------------------------------
\* (The accessors of SharedTarget are only chosen if it is the part.)
RegistersInit ==
  /\ Init /\ VariableInit /\ SharedInit /\ FanOutInit
  /\ part \in Parts
  /\ part = "sharedTarget" \/ (accessorKind = "bit" /\ \A t \in Targets, i \in Elements : register[t][i] = 0)
  /\ \/ part \in {"realm", "variable", "sharedTarget", "fanOut"} /\ NotUsed1
     \/ part = "pair" /\ Pairs!Init
     \/ part = "triple" /\ Triples!Init
     \/ part = "numeric" /\ Numeric!NumericInit /\ NotUsed7
     \/ part = "decorator" /\ Decorators!TypeInit /\ NotUsed7
     \/ part = "merge" /\ Merging!Init /\ NotUsed5
     \/ part = "catalogue" /\ Catalogues!CatalogueInit /\ NotUsed7
     \/ part = "names" /\ Names!NamesInit /\ NotUsed8

RegistersNext ==
  \/ part = "realm" /\ Next /\ UNCHANGED <<part, partVars, variableVars, sharedVars, fanOutVars>>
  \/ part = "variable" /\ VariableNext /\ UNCHANGED <<part, partVars, vars, sharedVars, fanOutVars>>
  \/ part = "sharedTarget" /\ SharedNext /\ UNCHANGED <<part, partVars, vars, variableVars, fanOutVars>>
  \/ part = "fanOut" /\ FanOutNext /\ UNCHANGED <<part, partVars, vars, variableVars, sharedVars>>
  \/ part = "pair" /\ Pairs!Next /\ UNCHANGED <<part, ownVars>>
  \/ part = "triple" /\ Triples!Next /\ UNCHANGED <<part, ownVars>>
  \/ part = "numeric" /\ Numeric!NumericNext /\ UNCHANGED <<part, ownVars, from7>>
  \/ part = "decorator" /\ Decorators!TypeNext /\ UNCHANGED <<part, ownVars, from7>>
  \/ part = "merge" /\ Merging!Next /\ UNCHANGED <<part, ownVars, from5>>
  \/ part = "catalogue" /\ Catalogues!CatalogueNext /\ UNCHANGED <<part, ownVars, from7>>
  \/ part = "names" /\ Names!NamesNext /\ UNCHANGED <<part, ownVars, from8>>

RegistersSpec == RegistersInit /\ [][RegistersNext]_allVars

-----------------------------------------------------------------------------
(* Properties: those of the modules, while they are the part. Their         *)
(* definitions say more about the code which each of them is about.         *)

(***************************************************************************)
(* The HistorizedMatcher and the SimpleMatcher of a DataConsistencyGroup   *)
(* miss no match; a match which they report (DataConsistencyGroup::        *)
(* update() returns true) is of equal versions, and the buffers of all     *)
(* elements then hold the data of it, although the decorators exchange     *)
(* buffers with their histories.                                           *)
(***************************************************************************)
MatchesAreConsistent ==
  /\ part = "pair" =>
       /\ Pairs!TypeOK /\ Pairs!MatchIsConsistent /\ Pairs!DataBelongToVersion
       /\ Pairs!HistoryIsComplete /\ Pairs!HistoryIsUnique /\ Pairs!ExactMeansEqual
  /\ part = "triple" =>
       /\ Triples!TypeOK /\ Triples!MatchIsConsistent /\ Triples!DataBelongToVersion
       /\ Triples!HistoryIsComplete /\ Triples!HistoryIsUnique /\ Triples!ExactMeansEqual

(***************************************************************************)
(* What the RawConverter of a multiplexed register and a                   *)
(* TypeChangingDecorator convert is the nearest value which the other type *)
(* can represent: in any range, with any number of fractional bits, and    *)
(* for every channel of a sample. A value which is in both types survives  *)
(* writing and reading it back.                                            *)
(***************************************************************************)
ConversionsAreNearest ==
  /\ part = "numeric" => Numeric!ReadIsNearest /\ Numeric!WriteIsNearest
  /\ part = "decorator" => Decorators!RoundTrip /\ Decorators!LimitedArrives

(***************************************************************************)
(* TransferGroup::addAccessor() merges every two elements which can be     *)
(* merged and nothing else: each register is covered by the one element    *)
(* which transfers it, identical registers are copies of one accessor, and *)
(* no word is transferred which nobody has asked for.                      *)
(***************************************************************************)
MergingIsRight ==
  part = "merge" =>
    /\ Merging!TypeOK /\ Merging!RegistersAreCovered /\ Merging!MergingIsComplete
    /\ Merging!NothingElseTransferred /\ Merging!IdenticalAreCopies

(***************************************************************************)
(* The catalogue of a map file iterates over its registers, a copy of it   *)
(* does not change with the original, and it knows all interrupts. The     *)
(* catalogue of the logical names says of each register what an accessor   *)
(* which is got for it can do, although it is completed in steps from the  *)
(* catalogues of the targets.                                              *)
(***************************************************************************)
CataloguesAreTrue ==
  /\ part = "catalogue" =>
       Catalogues!IterationIsMapFile /\ Catalogues!CopyIsIndependent /\ Catalogues!InterruptsAreComplete
  /\ part = "names" => Names!AccessorsAreRight /\ Names!CatalogueIsTrue

(***************************************************************************)
(* Each subscriber of a variable of the LogicalNameMappingBackend receives *)
(* the value which was written last, whichever of write(), subscription    *)
(* and activateAsyncRead() comes first, and its version is not older than  *)
(* the opening of the device.                                              *)
(***************************************************************************)
VariablesArrive == part = "variable" => NewestValueArrives /\ NewestIsFresh

(***************************************************************************)
(* Threads which write bits or parts of one target register keep what the  *)
(* others have written, and release the lock of the shared accessor also   *)
(* if the transfer fails; write() of a fan-out either throws or all its    *)
(* targets have the value, and the application gets its buffer back.       *)
(***************************************************************************)
WritesArriveTogether ==
  /\ part = "sharedTarget" => OthersAreKept /\ LocksReleased
  /\ part = "fanOut" => FanOutDelivers

=============================================================================
