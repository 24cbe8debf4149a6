---------------------------- MODULE TypeChanging ----------------------------
(***************************************************************************)
(* TypeChangingDecorator: accessors of other types on top of one accessor, *)
(* each with a buffer of its own, and either converting like numeric::     *)
(* convert() ("limiting") or like an assignment in C ("C_style"). Void and *)
(* std::string have conversions of their own, whatever was asked for. One  *)
(* decorator exists for each pair of user type and kind of conversion, as  *)
(* long as the process lives.                                              *)
(*                                                                         *)
(* All accessors have one element. A string is the number it spells.       *)
(***************************************************************************)
EXTENDS Conversion, FiniteSets

CONSTANTS
  ImplTypes,       \* types of the decorated accessor
  Keys(_),         \* DecoratorMapKey: type and conversion, by type of the decorated accessor
  Values(_),       \* what the device and the application set, by type
  Nobody,
  MaxVersion,      \* bound: transfers
  MaxDecorators    \* bound: decorators

VARIABLES
  implType,
  device,       \* the register
  target,       \* the decorated accessor: its buffer, version number and validity
  views,        \* getGlobalDecoratorMap(): the decorators, with the same
  fresh,        \* (history) decorators whose buffer was read from what the register is now
  written       \* (history) the decorator whose buffer was written to what the register is now

typeVars == <<implType, device, target, views, fresh, written>>

String == [kind |-> "string", bits |-> 0, signed |-> TRUE]
Validities == {"ok", "faulty"}

-----------------------------------------------------------------------------
(* Conversions *)

\* operator>>() to an integer: negative numbers are negated in an unsigned type.
Parsed(type, n) ==
  IF type.signed \/ n >= 0 THEN (IF n < Lowest(type) THEN Lowest(type) ELSE IF n > Highest(type) THEN Highest(type) ELSE n)
  ELSE IF -n > Highest(type) THEN Highest(type)
  ELSE Wrapped(n, type.bits, FALSE)

\* csa_helpers::stringToT(), which reads 8 bit integers as 32 bit ones. Digits
\* after the decimal point are left in the stream.
StringToT(type, x) ==
  CASE type.kind = "integer" /\ type.bits = BitsPerByte ->
         Wrapped(Parsed(IntegerType(4, type.signed), Truncated(x)), type.bits, type.signed) * Unit
    [] type.kind = "integer" /\ type.bits # BitsPerByte -> Parsed(type, Truncated(x)) * Unit
    [] type.kind = "float" -> Rounded(type, x)

\* An assignment. A floating point number which is out of the range of an
\* integer is undefined behaviour; the values of the instances avoid it.
Assigned(type, x) ==
  CASE type.kind = "integer" -> Wrapped(Truncated(x), type.bits, type.signed) * Unit
    [] type.kind = "float" -> Rounded(type, x)
    [] type.kind = "boolean" -> IF x = 0 THEN 0 ELSE Unit

\* The types which have templates of their own, whatever the conversion.
Special(to, from) == {to, from} \cap {Void, String} # {}

ChangedSpecially(to, from, x) ==
  CASE Void \in {to, from} -> 0
    [] Void \notin {to, from} /\ from = String -> StringToT(to, x)
    [] Void \notin {to, from} /\ to = String -> x

\* Mistake: always limited.
ChangedLimiting(conversion, to, from, x) ==
  IF Special(to, from) THEN ChangedSpecially(to, from, x) ELSE Convert(to, from, x)

\* The conversion of one element.
Changed(conversion, to, from, x) ==
  IF Special(to, from) THEN ChangedSpecially(to, from, x)
  ELSE IF conversion = "limiting" THEN Convert(to, from, x) ELSE Assigned(to, x)

\* convertAndCopyFromImpl()
FromImpl(key, x) == Changed(key.conversion, key.type, implType, x)

\* convertAndCopyToImpl(): an accessor of type Void keeps what it has.
ToImpl(key, x) == Changed(key.conversion, implType, key.type, x)

-----------------------------------------------------------------------------
(* Operations *)

\* initFromTarget(): the buffer is resized, not filled.
NewDecorator == [target EXCEPT !.value = 0]

\* getTypeChangingDecorator(), the first time.
Get(key) ==
  /\ key \notin DOMAIN views /\ Cardinality(DOMAIN views) < MaxDecorators
  /\ views' = [k \in DOMAIN views \cup {key} |->
                 IF k = key THEN NewDecorator ELSE views[k]]
  /\ UNCHANGED <<implType, device, target, fresh, written>>

\* A read of the decorator. The version and the validity are copied from the
\* target even without new data, but nothing is after an exception.
Read(key) ==
  \E outcome \in {"data", "nothing", "error"} :
    /\ target.version < MaxVersion
    /\ target' = IF outcome = "data" THEN [device EXCEPT !.version = target.version + 1] ELSE target
    /\ views' = IF outcome = "error" THEN views
                ELSE [views EXCEPT ![key] = [target' EXCEPT !.value = IF outcome = "data"
                        THEN FromImpl(key, target'.value) ELSE views[key].value]]
    /\ fresh' = IF outcome = "data" THEN fresh \cup {key} ELSE fresh
    /\ written' = IF written = key THEN Nobody ELSE written
    /\ UNCHANGED <<implType, device>>

\* A write of the decorator: the buffer of the target changes even if the
\* transfer fails, the version only if it does not.
Write(key) ==
  \E ok \in BOOLEAN :
    /\ target.version < MaxVersion
    /\ target' = [value |-> ToImpl(key, views[key].value), validity |-> views[key].validity,
                  version |-> IF ok THEN target.version + 1 ELSE target.version]
    /\ device' = IF ok THEN [target' EXCEPT !.version = 0] ELSE device
    /\ views' = [views EXCEPT ![key].version = IF ok THEN target'.version ELSE @]
    /\ fresh' = IF ok /\ device'.value # device.value THEN {} ELSE fresh
    /\ written' = IF ok THEN key ELSE written
    /\ UNCHANGED implType

\* The application sets the buffer and the validity of a decorator.
Set(key) ==
  \E value \in Values(key.type), validity \in Validities :
    /\ views' = [views EXCEPT ![key].value = value, ![key].validity = validity]
    /\ fresh' = fresh \ {key}
    /\ written' = IF written = key THEN Nobody ELSE written
    /\ UNCHANGED <<implType, device, target>>

DeviceChanges ==
  \E value \in Values(implType), validity \in Validities :
    /\ device' = [device EXCEPT !.value = value, !.validity = validity]
    /\ fresh' = {}
    /\ written' = Nobody
    /\ UNCHANGED <<implType, target, views>>

TypeInit ==
  /\ implType \in ImplTypes
  /\ target = [value |-> 0, version |-> 0, validity |-> "ok"]
  /\ device = target
  /\ views = [k \in {} |-> target]
  /\ fresh = {}
  /\ written = Nobody

TypeNext ==
  \/ \E key \in Keys(implType) : Get(key)
  \/ \E key \in DOMAIN views : Read(key) \/ Write(key) \/ Set(key)
  \/ DeviceChanges

TypeSpec == TypeInit /\ [][TypeNext]_typeVars

-----------------------------------------------------------------------------
(* Properties *)

Integral(type) == type.kind = "integer"

\* Each value of the first type is one of the second.
Within(type, other) == Lowest(type) >= Lowest(other) /\ Highest(type) <= Highest(other)

\* Every value of the decorated accessor has a representation of its own.
Lossless(key) ==
  /\ Integral(implType)
  /\ \/ key.type = String /\ implType.bits # BitsPerByte
     \/ /\ Integral(key.type)
        /\ Within(implType, key.type) \/ (key.conversion = "C_style" /\ key.type.bits >= implType.bits)

(***************************************************************************)
(* What was read through a decorator and is written back unchanged leaves  *)
(* the register as it is: for the C_style conversion this includes a user  *)
(* type with the other sign ("display unsigned integers which use the full *)
(* dynamic range in a control system which only supports signed types").   *)
(***************************************************************************)
RoundTrip == \A key \in fresh : Lossless(key) => ToImpl(key, views[key].value) = device.value

(***************************************************************************)
(* A write through a limiting decorator leaves in the register the nearest *)
(* value that its type has, whatever happened to other decorators of the   *)
(* same accessor, which share the target and its buffer, and the validity  *)
(* set by the application.                                                 *)
(***************************************************************************)
LimitedArrives ==
  written # Nobody =>
    /\ device.validity = views[written].validity
    /\ written.conversion = "limiting" /\ {written.type, implType} \cap {String, Void} = {} =>
         device.value = Nearest(implType, views[written].value)

(***************************************************************************)
(* The same for strings, violated for the 8 bit types: stringToT() reads   *)
(* them as 32 bit integers and cuts the higher bits off, so that "300"     *)
(* becomes 44 in an int8_t, not 127.                                       *)
(***************************************************************************)
LimitedStringArrives ==
  written # Nobody /\ written.type = String /\ written.conversion = "limiting" /\ Integral(implType) =>
    device.value = InRange(implType, Truncated(views[written].value)) * Unit

=============================================================================
