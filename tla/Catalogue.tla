------------------------------ MODULE Catalogue ------------------------------
(***************************************************************************)
(* The catalogue of the registers of a NumericAddressedBackend             *)
(* (BackendRegisterCatalogue, NumericAddressedRegisterCatalogue): a map by *)
(* name, a list of pointers into it in the order of insertion, without the *)
(* hidden registers, and the interrupts. It is filled while a map file is  *)
(* parsed, the dummy backends add hidden registers, and applications get   *)
(* copies.                                                                 *)
(*                                                                         *)
(* A path is the sequence of its components: <<"#", bar, address>> is a    *)
(* numeric address, <<"!", 1, 2>> a canonical interrupt. A pointer is a    *)
(* pair of the catalogue it points into and the name.                      *)
(***************************************************************************)
EXTENDS Integers, SequencesExt

CONSTANTS
  MapFile,      \* set of registers [name, access, interrupt] which map files have
  MaxLines      \* bound: lines of a map file

VARIABLES
  registers,    \* _catalogue: from names to registers
  iterated,     \* _iteratedCatalogue
  interrupts,   \* _listOfInterrupts, and the IDs in _canonicalInterrupts
  copy,         \* what an application got from getRegisterCatalogue(): the same
  parsed,       \* (history) the names of the registers of the map file, in order
  phase         \* "parsing", "failed", "constructed"

catalogueVars == <<registers, iterated, interrupts, copy, parsed, phase>>

DummyWriteable == "DUMMY_WRITEABLE"
DummyReadable == "DUMMY_READABLE"
DummyInterrupt == "DUMMY_INTERRUPT"

Readable(r) == r.access \in {"READ_ONLY", "READ_WRITE", "INTERRUPT"}
Writeable(r) == r.access \in {"WRITE_ONLY", "READ_WRITE"}

-----------------------------------------------------------------------------
(* Access by name *)

\* All IDs from the primary interrupt down to the ID itself.
Levels(id) == { SubSeq(id, 1, n) : n \in 1 .. Len(id) }

Canonical == UNION { Levels(id) : id \in interrupts }

\* hasRegister(): every numeric address exists.
HasRegister(path) ==
  \/ Head(path) = "#"
  \/ Head(path) = "!" /\ Tail(path) \in Canonical
  \/ path \in DOMAIN registers

\* getBackendRegister(). (Only for paths which exist; the others throw.)
BackendRegister(path) ==
  CASE Head(path) = "#" -> [name |-> path, access |-> "READ_WRITE", interrupt |-> <<>>, hidden |-> FALSE]
    [] Head(path) = "!" -> [name |-> path, access |-> "INTERRUPT", interrupt |-> Tail(path), hidden |-> FALSE]
    [] OTHER -> registers[path]

\* What the iterators from begin() to end() lead to.
Iteration == [i \in DOMAIN iterated |-> registers[iterated[i][2]]]

-----------------------------------------------------------------------------
(* Filling the catalogue *)

\* addRegister() of the base class, for a name which does not exist.
Inserted(regs, r) == [name \in DOMAIN regs \cup {r.name} |-> IF name = r.name THEN r ELSE regs[name]]
Listed(list, r) == IF r.hidden THEN list ELSE Append(list, <<"original", r.name>>)

\* A line of a map file. The interrupts are entered before the name is
\* checked; the exception ends the parsing.
ParseLine ==
  /\ phase = "parsing" /\ Len(parsed) < MaxLines
  /\ \E r \in MapFile :
       /\ interrupts' = IF r.access = "INTERRUPT" THEN interrupts \cup {r.interrupt} ELSE interrupts
       /\ IF HasRegister(r.name)
          THEN phase' = "failed" /\ UNCHANGED <<registers, iterated, parsed>>
          ELSE /\ registers' = Inserted(registers, r)
               /\ iterated' = Listed(iterated, r)
               /\ parsed' = Append(parsed, r.name)
               /\ UNCHANGED phase
  /\ UNCHANGED copy

\* Mistake: the dummy registers are not hidden.
DummyOfVisible(r) ==
  [r EXCEPT !.name = Append(@, IF Readable(r) THEN DummyWriteable ELSE DummyReadable),
            !.access = "READ_WRITE"]

\* The hidden register which makes r readable and writeable.
DummyOf(r) ==
  [r EXCEPT !.name = Append(@, IF Readable(r) THEN DummyWriteable ELSE DummyReadable),
            !.access = "READ_WRITE", !.hidden = TRUE]

\* The register which triggers a primary interrupt.
TriggerOf(id) == [name |-> <<DummyInterrupt, id[1]>>, access |-> "WRITE_ONLY", interrupt |-> <<>>, hidden |-> TRUE]

\* The constructor of the DummyBackendBase, after the parsing: the loop over
\* the list adds registers to the map. A name which exists is an exception.
ConstructDummy ==
  /\ phase = "parsing"
  /\ LET oneWay == SelectSeq(Iteration, LAMBDA r : Readable(r) # Writeable(r))
         additional == [i \in DOMAIN oneWay |-> DummyOf(oneWay[i])]
                       \o SetToSeq({ TriggerOf(id) : id \in { i \in interrupts : Len(i) = 1 } })
     IN  IF \E i \in DOMAIN additional :
              \/ HasRegister(additional[i].name)
              \/ \E j \in 1 .. i - 1 : additional[j].name = additional[i].name
         THEN phase' = "failed" /\ UNCHANGED <<registers, iterated>>
         ELSE /\ registers' = FoldLeft(Inserted, registers, additional)
              /\ iterated' = FoldLeft(Listed, iterated, additional)
              /\ phase' = "constructed"
  /\ UNCHANGED <<interrupts, copy, parsed>>

-----------------------------------------------------------------------------
(* Changes and copies *)

\* Mistake: the list of pointers is copied as it is.
FillFromThisShallow == [registers |-> registers, iterated |-> iterated, interrupts |-> interrupts]

\* fillFromThis(): pointers to the copies, in the same order.
FillFromThis ==
  [registers |-> registers, iterated |-> [i \in DOMAIN iterated |-> <<"copy", iterated[i][2]>>],
   interrupts |-> interrupts]

\* clone(), by getRegisterCatalogue().
Clone ==
  /\ phase = "constructed"
  /\ copy' = FillFromThis
  /\ UNCHANGED <<registers, iterated, interrupts, parsed, phase>>

\* removeRegister(), only for registers which are not hidden (an assertion).
RemoveRegister ==
  /\ phase = "constructed"
  /\ \E name \in DOMAIN registers :
       /\ ~registers[name].hidden
       /\ iterated' = SelectSeq(iterated, LAMBDA p : p[2] # name)
       /\ registers' = [n \in DOMAIN registers \ {name} |-> registers[n]]
       /\ parsed' = SelectSeq(parsed, LAMBDA n : n # name)
  /\ UNCHANGED <<interrupts, copy, phase>>

\* modifyRegister(): in place, so that the pointers stay valid.
ModifyRegister ==
  /\ phase = "constructed"
  /\ \E name \in DOMAIN registers :
       /\ registers[name].interrupt = <<>>
       /\ registers' = [registers EXCEPT ![name].access = "READ_WRITE"]
  /\ UNCHANGED <<iterated, interrupts, copy, parsed, phase>>

CatalogueInit ==
  /\ registers = [name \in {} |-> [name |-> name, access |-> "READ_WRITE", interrupt |-> <<>>, hidden |-> FALSE]]
  /\ iterated = <<>> /\ parsed = <<>>
  /\ interrupts = {}
  /\ copy = FillFromThis
  /\ phase = "parsing"

CatalogueNext == ParseLine \/ ConstructDummy \/ Clone \/ RemoveRegister \/ ModifyRegister

CatalogueSpec == CatalogueInit /\ [][CatalogueNext]_catalogueVars

-----------------------------------------------------------------------------
(* Properties *)

\* The names in a list, if all its pointers lead to the named catalogue.
Names(list, owner) == [i \in DOMAIN list |-> IF list[i][1] = owner THEN list[i][2] ELSE <<>>]

(***************************************************************************)
(* Iterating shows the registers of the map file in its order, each once,  *)
(* and neither hidden registers nor pointers to ones which are gone.       *)
(***************************************************************************)
IterationIsMapFile ==
  /\ Names(iterated, "original") = parsed
  /\ \A i \in DOMAIN iterated : iterated[i][2] \in DOMAIN registers

(***************************************************************************)
(* A copy never points into the catalogue of the backend, which may change *)
(* or cease to exist, and each of its pointers leads to a register.        *)
(***************************************************************************)
CopyIsIndependent ==
  \A i \in DOMAIN copy.iterated :
    copy.iterated[i][1] = "copy" /\ copy.iterated[i][2] \in DOMAIN copy.registers

(***************************************************************************)
(* Each interrupt can be subscribed to at all its levels, by its canonical *)
(* name, which leads to the same ID, and a dummy can trigger each primary  *)
(* interrupt which has a register of its own.                              *)
(***************************************************************************)
InterruptsAreComplete ==
  phase # "failed" =>
    \A name \in DOMAIN registers :
      registers[name].access = "INTERRUPT" =>
        /\ \A id \in Levels(registers[name].interrupt) :
             HasRegister(<<"!">> \o id) /\ BackendRegister(<<"!">> \o id).interrupt = id
        /\ phase = "constructed" /\ Len(registers[name].interrupt) = 1 =>
             <<DummyInterrupt, registers[name].interrupt[1]>> \in DOMAIN registers

=============================================================================
