----------------------------- MODULE LogicalNames -----------------------------
(***************************************************************************)
(* The registers of the LogicalNameMappingBackend: what its catalogue says *)
(* of them after their targets have been asked, and the accessors which    *)
(* are created for them, through other logical registers ("this"), through *)
(* plugins and with shared target accessors.                               *)
(*                                                                         *)
(* A register of a map file has a name, a type, a target (device and       *)
(* register), a start index, a number of elements (0: that of the target)  *)
(* and plugins. The registers of the target device can change when it is   *)
(* opened again.                                                           *)
(***************************************************************************)
EXTENDS Integers, FiniteSets, SequencesExt

CONSTANTS
  Maps,         \* sequences of registers: the map files
  Devices,      \* functions from names to registers: what the target device can have
  This,         \* the device name "this"
  Words,        \* numbers of words which accessors are requested with, 0 among them
  Offsets,      \* word offsets of these requests
  MaxAccessors, \* bound: accessors at a time
  MaxOpen       \* bound: times the device is opened

VARIABLES
  map,          \* the map file, in its order
  infos,        \* _catalogue_mutable: by name
  device,       \* the registers of the target device
  completed,    \* catalogueCompleted
  accessors,    \* the accessors which applications have
  shared,       \* sharedAccessorMap, without the expired entries
  opened        \* (bound) times open() was called

namesVars == <<map, infos, device, completed, accessors, shared, opened>>

\* What the parser makes of a register.
Parsed(r) ==
  [type |-> r.type, device |-> r.device, target |-> r.target, first |-> r.first, length |-> r.length,
   plugins |-> r.plugins,
   readable |-> r.type = "VARIABLE", writeable |-> r.type = "VARIABLE",
   flags |-> IF r.type = "VARIABLE" THEN {"wait_for_new_data"} ELSE {}]

-----------------------------------------------------------------------------
(* Plugins: what they change in the information of their register *)

ForceReadOnly(info) == [info EXCEPT !.writeable = FALSE]
ForcePollingRead(info) == [info EXCEPT !.flags = @ \ {"wait_for_new_data"}]
BitRange(info) == [info EXCEPT !.flags = {}]
Multiply(info) == [info EXCEPT !.flags = @ \ {"raw"}]
Monostable(info) == [info EXCEPT !.flags = @ \ {"raw"}, !.readable = FALSE]
\* Only if the register is writeable: see Throws.
FanOut(info) == [info EXCEPT !.flags = @ \ {"raw"}, !.readable = FALSE]

\* updateRegisterInfo()
Updated(info, plugin) ==
  CASE plugin = "forceReadOnly" -> ForceReadOnly(info)
    [] plugin = "forcePollingRead" -> ForcePollingRead(info)
    [] plugin = "bitRange" -> BitRange(info)
    [] plugin = "multiply" -> Multiply(info)
    [] plugin = "monostableTrigger" -> Monostable(info)
    [] plugin = "fanOut" -> FanOut(info)

WithPlugins(info) == FoldLeft(Updated, info, info.plugins)

\* A fanOut plugin refuses a register which is not writeable.
Throws(info) ==
  \E i \in DOMAIN info.plugins :
    info.plugins[i] = "fanOut" /\ ~FoldLeft(Updated, info, SubSeq(info.plugins, 1, i - 1)).writeable

-----------------------------------------------------------------------------
(* The catalogue *)

\* Mistake: the plugins of a logical target are not applied first.
TargetInfoAsIs(cat, info) == IF info.device = This THEN cat[info.target] ELSE device[info.target]

\* What is known of the target of a register.
TargetInfo(cat, info) == IF info.device = This THEN WithPlugins(cat[info.target]) ELSE device[info.target]

\* One turn of the first loop. (Exceptions: CompletionFails.)
TakeOver(cat, name) ==
  LET info == cat[name]
      t == TargetInfo(cat, info)
  IN  IF info.type = "VARIABLE" \/ (info.device # This /\ info.target \notin DOMAIN device)
      THEN cat
      ELSE [ (IF info.device = This THEN [cat EXCEPT ![info.target] = t] ELSE cat)
             EXCEPT ![name] =
               [@ EXCEPT !.flags = IF info.type = "BIT" THEN t.flags \ {"raw"} ELSE t.flags,
                         !.readable = t.readable,
                         !.writeable = t.writeable /\ info.type # "CHANNEL",
                         !.length = IF @ = 0 THEN t.length ELSE @] ]

NoneShared == [key \in {} |-> FALSE]
MapNames == [i \in DOMAIN map |-> map[i].name]

\* The catalogue after the first n registers have been through the loop.
AfterLoop(n) == FoldLeft(TakeOver, infos, SubSeq(MapNames, 1, n))

\* The second loop: the plugins of all registers.
Completed == LET cat == AfterLoop(Len(map)) IN [name \in DOMAIN cat |-> WithPlugins(cat[name])]

\* A register on whose plugins the completion fails, in either loop.
CompletionFails ==
  \/ \E i \in DOMAIN map :
       map[i].device = This /\ map[i].type # "VARIABLE" /\ Throws(AfterLoop(i - 1)[map[i].target])
  \/ \E i \in DOMAIN map : Throws(AfterLoop(Len(map))[map[i].name])

\* getRegisterCatalogue(): a copy of the catalogue, which is completed if
\* that was not done since the device was opened. (After an exception the
\* catalogue is filled in part; the next call starts again.)
GetRegisterCatalogue ==
  /\ ~completed /\ ~CompletionFails
  /\ infos' = Completed
  /\ completed' = TRUE
  /\ UNCHANGED <<map, device, accessors, shared, opened>>

\* open(): the target device may have other registers afterwards. (The
\* accessors of an application stay, unless their registers have changed.)
OpenNames ==
  /\ opened < MaxOpen
  /\ opened' = opened + 1
  /\ device' \in Devices
  /\ completed' = FALSE
  /\ IF device' = device THEN UNCHANGED <<accessors, shared>> ELSE accessors' = {} /\ shared' = NoneShared
  /\ UNCHANGED <<map, infos>>

-----------------------------------------------------------------------------
(* Accessors. The result of a request has the accessor and the shared      *)
(* target accessors which there are then.                                  *)

Refused == [ok |-> FALSE, register |-> "", first |-> 0, length |-> 0, readable |-> FALSE, writeable |-> FALSE]
Region(register, first, length, r) ==
  [ok |-> TRUE, register |-> register, first |-> first, length |-> length,
   readable |-> r.readable, writeable |-> r.writeable]

\* An accessor of the target device (its constructor checks the length).
DeviceAccessor(register, words, offset) ==
  IF register \notin DOMAIN device THEN Refused
  ELSE LET r == device[register]
           n == IF words = 0 THEN r.length ELSE words
       IN  IF n + offset > r.length THEN Refused ELSE Region(register, offset, n, r)

\* What a plugin makes of the accessor of its target. (Throws: Refused.)
Decorated(plugin, acc, words, offset) ==
  CASE ~acc.ok -> Refused
    [] plugin = "forceReadOnly" -> IF acc.readable THEN [acc EXCEPT !.writeable = FALSE] ELSE Refused
    [] plugin = "bitRange" -> IF offset = 0 /\ words <= 1 /\ acc.length = 1 THEN acc ELSE Refused
    [] plugin = "monostableTrigger" ->
         IF acc.writeable /\ acc.length = 1 THEN [acc EXCEPT !.readable = FALSE] ELSE Refused
    [] plugin = "fanOut" -> IF acc.writeable THEN [acc EXCEPT !.readable = FALSE] ELSE Refused
    [] OTHER -> acc

\* The key of the shared target accessors: the device and the register.
SharedKey(info) == <<info.device, info.target>>

\* The target accessor of a bit or of a bit range: the one which is there
\* already, or the requested one, which is then there for others.
SharedOr(known, key, requested) ==
  IF key \in DOMAIN known THEN [acc |-> known[key], shared |-> known]
  ELSE [acc |-> requested.acc,
        shared |-> [k \in DOMAIN requested.shared \cup {key} |->
                      IF k = key THEN requested.acc ELSE requested.shared[k]]]

\* The number of words of a request, and the first one in the target.
Number(info, words) == IF words = 0 THEN info.length ELSE words
ActualOffset(info, offset) == info.first + offset

\* getRegisterAccessor_internal(): the accessor without plugins, with the one of the target.
Internal(known, name, words, offset, target) ==
  LET info == infos[name]
      n == Number(info, words)
      at == ActualOffset(info, offset)
      refused == [acc |-> Refused, shared |-> known]
  IN  IF info.length # 0 /\ n + offset > info.length THEN refused
      ELSE CASE info.type = "REGISTER" -> target
             [] info.type = "CHANNEL" ->
                  [target EXCEPT !.acc.readable = @ \/ target.acc.ok, !.acc.writeable = FALSE]
             [] info.type = "BIT" ->
                  LET bits == SharedOr(known, SharedKey(info), target)
                  IN  IF at = 0 /\ n <= 1 /\ bits.acc.ok /\ bits.acc.length = 1 THEN bits ELSE refused
             [] info.type = "VARIABLE" ->
                  [acc |-> Region(name, at, n, info), shared |-> known]

\* AccessorPlugin::getAccessor_impl(): the plugins are around it, the first one outermost.
WithDecorators(known, name, words, offset, inner) ==
  LET info == infos[name]
      around(plugin, requested) ==
        LET target == IF plugin = "bitRange" THEN SharedOr(known, SharedKey(info), requested) ELSE requested
        IN  [target EXCEPT !.acc = Decorated(plugin, @, words, offset)]
  IN  FoldRight(around, info.plugins, inner)

\* getRegisterAccessor_impl(): the target may be another logical register. The
\* requests are <<name, words, offset>>.
CreateFor(known, name, words, offset) ==
  LET made[request \in (DOMAIN infos) \X Nat \X Nat] ==
        LET info == infos[request[1]]
            n == Number(info, request[2])
            at == ActualOffset(info, request[3])
            target == IF info.device = This THEN made[<<info.target, n, at>>]
                      ELSE [acc |-> DeviceAccessor(info.target, n, at), shared |-> known]
        IN  WithDecorators(known, request[1], request[2], request[3],
                           Internal(known, request[1], request[2], request[3], target))
  IN  made[<<name, words, offset>>]

\* An application asks for an accessor. One which is refused leaves nothing.
CreateAccessor ==
  /\ Cardinality(accessors) < MaxAccessors
  /\ \E name \in DOMAIN infos, words \in Words, offset \in Offsets :
       LET result == CreateFor(shared, name, words, offset)
       IN  /\ result.acc.ok
           /\ accessors' = accessors \cup
                { [name |-> name, words |-> words, offset |-> offset, acc |-> result.acc,
                   listed |-> completed, info |-> infos[name]] }
           /\ shared' = result.shared
  /\ UNCHANGED <<map, infos, device, completed, opened>>

\* An application gives its accessors up: the weak pointers expire.
ReleaseAccessors ==
  /\ accessors # {}
  /\ accessors' = {} /\ shared' = NoneShared
  /\ UNCHANGED <<map, infos, device, completed, opened>>

NamesInit ==
  /\ map \in Maps
  /\ infos = [name \in { map[i].name : i \in DOMAIN map } |->
               Parsed(CHOOSE r \in { map[i] : i \in DOMAIN map } : r.name = name)]
  /\ device \in Devices
  /\ completed = FALSE
  /\ accessors = {}
  /\ shared = NoneShared
  /\ opened = 0

NamesNext == GetRegisterCatalogue \/ OpenNames \/ CreateAccessor \/ ReleaseAccessors

NamesSpec == NamesInit /\ [][NamesNext]_namesVars

-----------------------------------------------------------------------------
(* Properties *)

Entry(name) == CHOOSE r \in { map[i] : i \in DOMAIN map } : r.name = name

\* Where an index of a logical register lies, by the map file alone.
Place[place \in (DOMAIN infos) \X Nat] ==
  LET r == Entry(place[1])
  IN  IF r.type = "VARIABLE" THEN place
      ELSE IF r.device = This THEN Place[<<r.target, r.first + place[2]>>]
      ELSE <<r.target, r.first + place[2]>>

(***************************************************************************)
(* An accessor leads to the elements which the map file says, and to no    *)
(* elements outside of its logical register, whether or not the catalogue  *)
(* was completed before it was created.                                    *)
(***************************************************************************)
AccessorsAreRight ==
  \A a \in accessors :
    /\ <<a.acc.register, a.acc.first>> = Place[<<a.name, a.offset>>]
    /\ Entry(a.name).length # 0 => a.offset + a.acc.length <= Entry(a.name).length

(***************************************************************************)
(* What the completed catalogue says of a register is what the accessors   *)
(* of the register then can do. (A register whose logical target follows   *)
(* it in the map file is not described; such a map file is not among Maps.)*)
(***************************************************************************)
CatalogueIsTrue ==
  \A a \in accessors :
    a.listed =>
      /\ a.acc.readable = a.info.readable /\ a.acc.writeable = a.info.writeable
      /\ a.words = 0 /\ a.offset = 0 => a.acc.length = a.info.length

(***************************************************************************)
(* As AccessorsAreRight, for the registers with a bit range.               *)
(***************************************************************************)
BitRangesAreRight ==
  \A a \in accessors :
    "bitRange" \in { Entry(a.name).plugins[i] : i \in DOMAIN Entry(a.name).plugins } =>
      <<a.acc.register, a.acc.first>> = Place[<<a.name, a.offset>>]

(***************************************************************************)
(* A register without a number of elements has as many as its target, also *)
(* when the target device has changed.                                     *)
(***************************************************************************)
LengthFollowsTarget ==
  completed =>
    \A name \in DOMAIN infos :
      LET r == Entry(name)
      IN  r.type = "REGISTER" /\ r.length = 0 /\ r.device # This /\ r.target \in DOMAIN device =>
            infos[name].length = device[r.target].length

=============================================================================
