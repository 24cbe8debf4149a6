-------------------------------- MODULE Factory --------------------------------
(***************************************************************************)
(* The BackendFactory: types of backends are registered by the library and *)
(* by plugins, which the dmap file lists; createBackend() looks an alias   *)
(* up in the dmap file and returns the backend which exists for its URI,   *)
(* or a new one. The factory keeps weak pointers, so a backend lives as    *)
(* long as a Device or a logical backend holds it. A                       *)
(* LogicalNameMappingBackend creates its targets when it is opened first.  *)
(*                                                                         *)
(* Of the parameters of a backend only the name of its map file is         *)
(* modelled, of an address nothing. createBackend() is one step, as it     *)
(* locks a mutex; the destructor of a backend is a step of its own, since  *)
(* it runs without this mutex.                                             *)
(***************************************************************************)
EXTENDS Integers, Sequences, FiniteSets, SequencesExt

CONSTANTS
  Handles,      \* the Devices of the application
  Aliases,      \* aliases and URIs which the application uses
  DMap,         \* [file -> [libraries, devices (sequence of [alias, uri, mapFile])]]
  Descriptor,   \* [URI -> [form ("cdd", "sdm", or "dev", "mapFile", "unknown" for device nodes),
                \*          type, map (of a CDD), list (parameters of an SDM)]]
  Library,      \* [plugin library -> sequence of what it registers: [type, names, sameVersion, oldInterface]]
  BuiltIn,      \* [type -> names of its parameters in an SDM]
  Targets,      \* [map file -> aliases of the targets of a logical backend]
  MaxBackends   \* bound: backends created

VARIABLES
  dMapFile,     \* _dMapFile, "" if it is not set
  creators,     \* creatorMap (field cdd), creatorMap_compat (sdm): [type -> [cdd, sdm, names]]
  loaded,       \* plugin libraries which are open
  terminated,   \* an exception has left a static initialiser of a plugin
  existing,     \* _existingBackends: [URI -> backend]
  backends,     \* all backends: [uri, type, map, parsed, next (target to create), targets, gone]
  handle,       \* what a Device holds, 0 for nothing
  asked         \* (history) the line of the dmap file, or URI, which a Device was created from

factoryVars == <<dMapFile, creators, loaded, terminated, existing, backends, handle, asked>>

NoEntry == [uri |-> "", mapFile |-> ""]
IsLogical(b) == b.type = "logicalNameMap"

-----------------------------------------------------------------------------
\* Mistake: a plugin of another version is not registered at all.
RegisterSameVersion(s, r) ==
  LET creator == [cdd |-> IF r.oldInterface THEN "oldInterface" ELSE "creates", sdm |-> "creates", names |-> r.names]
  IN  IF ~r.oldInterface /\ r.type \in DOMAIN s.creators
      THEN [s EXCEPT !.terminated = TRUE]
      ELSE IF ~r.sameVersion THEN s
      ELSE [s EXCEPT !.creators = [t \in DOMAIN @ \cup {r.type} |-> IF t = r.type THEN creator ELSE @[t]]]

\* registerBackendType(), for the new and the old interface of plugins. A
\* plugin of another version is registered with a function which throws. Only
\* the new interface refuses a name which is known; the exception leaves the
\* initialiser of the library.
RegisterBackendType(s, r) ==
  LET creates == IF r.sameVersion THEN "creates" ELSE "wrongVersion"
      creator == [cdd |-> IF r.oldInterface /\ r.sameVersion THEN "oldInterface" ELSE creates,
                  sdm |-> creates, names |-> r.names]
  IN  IF ~r.oldInterface /\ r.type \in DOMAIN s.creators
      THEN [s EXCEPT !.terminated = TRUE]
      ELSE [s EXCEPT !.creators = [t \in DOMAIN @ \cup {r.type} |-> IF t = r.type THEN creator ELSE @[t]]]

\* loadPluginLibrary(): the initialisers of the library run when it is opened
\* for the first time. If they have not registered anything it is closed, and
\* the function throws.
LoadFails(s, lib) == lib \notin DOMAIN Library \/ lib \in s.loaded \/ Library[lib] = <<>>

\* Mistake: the first library which cannot be loaded ends the loading.
LoadUntilFailure(s, lib) ==
  IF LoadFails(s, lib) \/ "" \in s.loaded THEN [s EXCEPT !.loaded = @ \cup {""}]
  ELSE FoldLeft(RegisterBackendType, [s EXCEPT !.loaded = @ \cup {lib}], Library[lib])

Load(s, lib) ==
  IF LoadFails(s, lib) THEN s
  ELSE FoldLeft(RegisterBackendType, [s EXCEPT !.loaded = @ \cup {lib}], Library[lib])

Plugins == [creators |-> creators, loaded |-> loaded, terminated |-> terminated]
BecomePlugins(s) == creators' = s.creators /\ loaded' = s.loaded /\ terminated' = s.terminated

LoadPluginLibrary(lib) ==
  /\ ~terminated
  /\ BecomePlugins(Load(Plugins, lib))
  /\ UNCHANGED <<dMapFile, existing, backends, handle, asked>>

\* parse(): throws if the file cannot be opened or has no devices.
CanBeParsed(file) == file \in DOMAIN DMap /\ DMap[file].devices # <<>>

\* setDMapFilePath(): the name is set before the file is parsed. Libraries
\* which cannot be loaded are only reported.
SetDMapFilePath(file) ==
  /\ ~terminated
  /\ dMapFile' = file
  /\ BecomePlugins(IF CanBeParsed(file) THEN FoldLeft(Load, Plugins, DMap[file].libraries) ELSE Plugins)
  /\ UNCHANGED <<existing, backends, handle, asked>>

-----------------------------------------------------------------------------
\* aliasLookUp(): the first line of the dmap file with this alias.
AliasLookUp(name) ==
  LET lines == IF CanBeParsed(dMapFile) THEN DMap[dMapFile].devices ELSE <<>>
      found == { i \in DOMAIN lines : lines[i].alias = name }
  IN  IF found = {} THEN NoEntry
      ELSE LET first == CHOOSE i \in found : \A k \in found : i <= k
           IN  [uri |-> lines[first].uri, mapFile |-> lines[first].mapFile]

\* createBackend(): what a name stands for. A URI is taken as it is, an alias
\* is searched in the dmap file.
LookUp(name) ==
  IF name \in DOMAIN Descriptor /\ Descriptor[name].form \in {"cdd", "sdm"}
  THEN [uri |-> name, mapFile |-> ""]
  ELSE AliasLookUp(name)

\* parseDeviceDesciptor(), parseSdm(), and parseDeviceString() of a node.
Parsed(uri) ==
  LET d == Descriptor[uri]
  IN  CASE d.form = "dev" -> [d EXCEPT !.type = "pci"]
        [] d.form = "mapFile" -> [d EXCEPT !.type = "dummy", !.list = <<uri>>]
        [] OTHER -> d

\* The lines of all dmap files. A logical device with the URI may use the target:
\* a line of the map file, which it may have, names its URI or an alias of it.
Lines == UNION { ToSet(DMap[file].devices) : file \in DOMAIN DMap }
Located(name) == {name} \cup { line.uri : line \in { l \in Lines : l.alias = name } }
MapFiles(uri) ==
  {"", Parsed(uri).map} \cup ToSet(Parsed(uri).list) \cup { line.mapFile : line \in { l \in Lines : l.uri = uri } }
MayUse(uri, target) ==
  /\ IsLogical(Parsed(uri))
  /\ \E file \in MapFiles(uri) \ {""} : \E i \in DOMAIN Targets[file] : target \in Located(Targets[file][i])

\* The files have what their readers look for, and no logical device has itself
\* among its targets, directly or through others, as it could not be opened:
\* among any devices one is not the target of another one.
FactoryAssumption ==
  /\ MaxBackends \in Nat
  /\ \A file \in DOMAIN DMap : DMap[file].devices \in Seq(Lines)
  /\ \A line \in Lines : line.uri \in DOMAIN Descriptor
  /\ \A file \in DOMAIN Targets : Targets[file] \in Seq(ToSet(Targets[file]))
  /\ \A uri \in DOMAIN Descriptor : IsLogical(Parsed(uri)) => MapFiles(uri) \ {""} \subseteq DOMAIN Targets
  /\ \A S \in SUBSET DOMAIN Descriptor :
       S # {} => \E target \in S : \A uri \in S : ~MayUse(uri, target)

\* The map file of a new backend: for an SDM or a device node the parameter of
\* this name in the list, otherwise the third column of the dmap file.
MapFile(entry) ==
  LET d == Parsed(entry.uri)
      names == creators[d.type].names
      given == { i \in DOMAIN names \cap DOMAIN d.list : names[i] = "map" /\ d.list[i] # "" }
  IN  IF d.form = "cdd" THEN d.map
      ELSE IF given = {} THEN entry.mapFile ELSE d.list[CHOOSE i \in given : TRUE]

\* Whether anybody holds a backend: its reference count is not zero.
Held(id) ==
  \/ \E h \in Handles : handle[h] = id
  \/ \E b \in DOMAIN backends : ~backends[b].gone /\ id \in ToSet(backends[b].targets)

Exists(uri) == uri \in DOMAIN existing /\ Held(existing[uri])

CanBeCreated(entry) ==
  LET d == Parsed(entry.uri)
  IN  /\ d.type \in DOMAIN creators
      /\ (IF d.form = "cdd" THEN creators[d.type].cdd ELSE creators[d.type].sdm) = "creates"
      /\ d.type \in {"dummy", "logicalNameMap"} => MapFile(entry) # ""

\* Mistake: existing backends are not searched.
ReturnAlways(entry, id) ==
  /\ entry # NoEntry /\ CanBeCreated(entry)
  /\ id = Len(backends) + 1 /\ id <= MaxBackends
  /\ existing' = [u \in DOMAIN existing \cup {entry.uri} |-> IF u = entry.uri THEN id ELSE existing[u]]

\* createBackendInternal() for an entry: the backend, and what else changes.
\* It throws if neither is possible.
Return(entry, id) ==
  /\ entry # NoEntry
  /\ \/ Exists(entry.uri) /\ id = existing[entry.uri] /\ UNCHANGED existing
     \/ /\ ~Exists(entry.uri) /\ CanBeCreated(entry)
        /\ id = Len(backends) + 1 /\ id <= MaxBackends
        /\ existing' = [u \in DOMAIN existing \cup {entry.uri} |-> IF u = entry.uri THEN id ELSE existing[u]]

Throws(entry) == IF entry = NoEntry THEN TRUE ELSE ~Exists(entry.uri) /\ ~CanBeCreated(entry)

New(entry) ==
  [uri |-> entry.uri, type |-> Parsed(entry.uri).type, map |-> MapFile(entry),
   parsed |-> FALSE, next |-> 0, targets |-> <<>>, gone |-> FALSE]

WithNew(entry, id) == IF id > Len(backends) THEN Append(backends, New(entry)) ELSE backends

\* A Device is created or opened with a name. (If it throws nothing changes.)
CreateDevice(h, name) ==
  /\ ~terminated /\ handle[h] = 0
  /\ LET entry == LookUp(name)
     IN  \E id \in 1 .. MaxBackends :
           /\ Return(entry, id)
           /\ backends' = WithNew(entry, id)
           /\ handle' = [handle EXCEPT ![h] = id]
           /\ asked' = [asked EXCEPT ![h] = entry]
  /\ UNCHANGED <<dMapFile, creators, loaded, terminated>>

\* LogicalNameMappingBackend::parse(), called by open(): the flag is set first.
StartParsing(h) ==
  /\ ~terminated /\ handle[h] # 0
  /\ LET b == backends[handle[h]]
     IN  /\ IsLogical(b) /\ ~b.parsed
         /\ backends' = [backends EXCEPT ![handle[h]].parsed = TRUE,
                                         ![handle[h]].next = IF Targets[b.map] = <<>> THEN 0 ELSE 1]
  /\ UNCHANGED <<dMapFile, creators, loaded, terminated, existing, handle, asked>>

\* One target is created and stored, or createBackend() throws.
CreateTarget(b) ==
  /\ ~terminated /\ backends[b].next # 0
  /\ LET names == Targets[backends[b].map]
         entry == LookUp(names[backends[b].next])
         last == backends[b].next = Len(names)
     IN  \/ \E id \in 1 .. MaxBackends :
              /\ Return(entry, id)
              /\ backends' = [WithNew(entry, id) EXCEPT
                                ![b].targets = Append(@, id), ![b].next = IF last THEN 0 ELSE @ + 1]
         \/ /\ Throws(entry)
            /\ backends' = [backends EXCEPT ![b].next = 0]
            /\ UNCHANGED existing
  /\ UNCHANGED <<dMapFile, creators, loaded, terminated, handle, asked>>

\* A Device is destroyed, or assigned another backend.
ReleaseDevice(h) ==
  /\ ~terminated /\ handle[h] # 0 /\ backends[handle[h]].next = 0
  /\ handle' = [handle EXCEPT ![h] = 0]
  /\ asked' = [asked EXCEPT ![h] = NoEntry]
  /\ UNCHANGED <<dMapFile, creators, loaded, terminated, existing, backends>>

Gone ==
  [uri |-> "", type |-> "", map |-> "", parsed |-> FALSE, next |-> 0, targets |-> <<>>, gone |-> TRUE]

\* The destructor of a backend which nobody holds any more ends; its targets
\* are released.
Destroy(b) ==
  /\ ~backends[b].gone /\ ~Held(b)
  /\ backends' = [backends EXCEPT ![b] = Gone]
  /\ UNCHANGED <<dMapFile, creators, loaded, terminated, existing, handle, asked>>

\* The constructor registers the backends of the library.
FactoryInit ==
  /\ dMapFile = "" /\ loaded = {} /\ terminated = FALSE /\ existing = <<>> /\ backends = <<>>
  /\ creators = [t \in DOMAIN BuiltIn |-> [cdd |-> "creates", sdm |-> "creates", names |-> BuiltIn[t]]]
  /\ handle = [h \in Handles |-> 0] /\ asked = [h \in Handles |-> NoEntry]

FactoryNext ==
  \/ \E lib \in DOMAIN Library : LoadPluginLibrary(lib)
  \/ \E file \in DOMAIN DMap \cup {"missing"} : SetDMapFilePath(file)
  \/ \E h \in Handles : (\E name \in Aliases : CreateDevice(h, name)) \/ StartParsing(h) \/ ReleaseDevice(h)
  \/ \E b \in DOMAIN backends : CreateTarget(b) \/ Destroy(b)

FactorySpec == FactoryInit /\ [][FactoryNext]_factoryVars

-----------------------------------------------------------------------------
(* Properties *)

(***************************************************************************)
(* "If the same URI is located again, the existing backend is returned"    *)
(* (BackendFactory.h): there are no two backends for one URI which anybody *)
(* holds, whether through an alias, another dmap file or a logical device. *)
(* (The destructor of an old one may still run, see Destroy.)              *)
(***************************************************************************)
OneBackendPerUri ==
  \A b, c \in DOMAIN backends :
    b # c /\ backends[b].uri = backends[c].uri => ~Held(b) \/ ~Held(c)

(***************************************************************************)
(* A Device has a backend which is alive, of the type and with the map     *)
(* file of the line of the dmap file it was created from, also if the      *)
(* backend existed before. (Not if lines with the same device node have    *)
(* different map files: the URI alone decides which backend exists.)       *)
(***************************************************************************)
BackendIsAsAsked ==
  \A h \in Handles : handle[h] # 0 =>
    LET b == backends[handle[h]]
    IN  ~b.gone /\ b.uri = asked[h].uri /\ b.type = Parsed(b.uri).type /\ b.map = MapFile(asked[h])

(***************************************************************************)
(* "A dmap file with broken backends should be usable if the particular    *)
(* backend is not used" (registerBackendType()): whatever other libraries  *)
(* fail, are of another version or are loaded twice, all types of the      *)
(* working plugins of the dmap file and of the library can be created.     *)
(***************************************************************************)
WorkingPluginsAreUsable ==
  /\ \A t \in DOMAIN BuiltIn : creators[t].cdd = "creates" /\ creators[t].sdm = "creates"
  /\ CanBeParsed(dMapFile) =>
       \A lib \in ToSet(DMap[dMapFile].libraries) \cap DOMAIN Library : \A i \in DOMAIN Library[lib] :
         LET r == Library[lib][i]
         IN  /\ r.type \in DOMAIN creators
             /\ r.sameVersion => creators[r.type].sdm = "creates"

(***************************************************************************)
(* When the application holds nothing and all destructors have run, no     *)
(* backend is left: logical devices release what they have created, also   *)
(* when parse() has failed in the middle.                                  *)
(***************************************************************************)
NothingIsKept ==
  (\A h \in Handles : handle[h] = 0) /\ (\A b \in DOMAIN backends : ~Held(b) => backends[b].gone)
    => \A b \in DOMAIN backends : backends[b].gone

(***************************************************************************)
(* A logical device which can be opened has all its targets. (Violated: if *)
(* a target cannot be created, open() fails once; afterwards the flag      *)
(* hasParsed lets it succeed with the targets which were created before.)  *)
(***************************************************************************)
OpenedHasTargets ==
  \A b \in DOMAIN backends :
    backends[b].parsed /\ backends[b].next = 0 => Len(backends[b].targets) = Len(Targets[backends[b].map])

=============================================================================
