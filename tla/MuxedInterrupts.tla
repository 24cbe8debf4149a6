-------------------------- MODULE MuxedInterrupts --------------------------
(***************************************************************************)
(* The tree of SubDomains and MuxedInterruptDistributors behind one        *)
(* async::Domain, and the interrupt controllers in the hardware with which *)
(* GenericMuxedInterruptDistributor makes its handshake.                   *)
(*                                                                         *)
(* A sub-interrupt is a pair <<controller, bit>>. It has a SubDomain as    *)
(* long as there are accessors for it or behind it, and a distributor      *)
(* lives as long as it has SubDomains. Subscription, activation and        *)
(* distribution hold the lock of the domain; what they do is the agenda,   *)
(* one access to the hardware per step. The destructor of a distributor    *)
(* accesses the hardware without the lock.                                 *)
(*                                                                         *)
(* The content of the polled register of a sub-interrupt is the number of  *)
(* its events.                                                             *)
(***************************************************************************)
EXTENDS Integers, Sequences, FiniteSets, SequencesExt, FiniteSetsExt

CONSTANTS
  Root,           \* the controller behind the primary SubDomain
  SubInterrupts,  \* pairs <<controller, bit>>, the bits being natural numbers
  Child,          \* [SubInterrupts -> controller behind it, or NoController]
  NoController,
  Descriptions,   \* "options" in the map file, sets of names
  MaxEvents       \* bound: events of all sub-interrupts

Controllers == {s[1] : s \in SubInterrupts}

\* What the constants have to fulfil.
TreeAssumption ==
  /\ Root \in Controllers /\ NoController \notin Controllers
  /\ Child \in [SubInterrupts -> Controllers \cup {NoController}]
  /\ \A s, t \in SubInterrupts : Child[s] = Child[t] /\ Child[s] # NoController => s = t
  /\ \A s \in SubInterrupts : Child[s] # Root /\ (s[1] # Root => Child[s] = NoController)
  /\ MaxEvents \in Nat

VARIABLES
  options,           \* the registers of the controllers. Never changes.
  isr, ier, mer,     \* status and enable registers of each controller, as sets
                     \* of bits, and the master enable
  events,            \* number of events of each sub-interrupt
  subscribed,        \* sub-interrupts which have accessors
  subDomains,        \* keys of MuxedInterruptDistributor::_subDomains
  activeInterrupts,  \* GenericMuxedInterruptDistributor::_activeInterrupts
  isActive,          \* DomainImpl::_isActive
  error,             \* the backend has an active exception
  agenda,            \* what the thread with the lock of the domain has to do
  destruction,       \* what destructors have to do
  received,          \* the value which was distributed last
  overtaken,         \* sub-interrupts which had an event after their register
                     \* was polled and before they were cleared
  undisturbed        \* since the last interrupt there was no event, no
                     \* error and no other operation

hardware == <<isr, ier, mer>>
software == <<subscribed, subDomains, activeInterrupts, isActive>>
vars == <<options, isr, ier, mer, events, subscribed, subDomains, activeInterrupts,
          isActive, error, agenda, destruction, received, overtaken, undisturbed>>

-----------------------------------------------------------------------------
(* The options of a controller *)

OptionCodes == {"ISR", "IER", "MER", "MIE", "GIE", "ICR", "IAR", "IPR", "SIE", "CIE", "IMR",
                "IModeR", "IVR", "ILR", "IVAR", "IVEAR"}

\* The description in the map file has only names which are known.
Parsed(description) == description \subseteq OptionCodes

\* The constructor adds what is always needed.
Complete(description) ==
  description \cup {"ISR"} \cup (IF "IMR" \in description THEN {} ELSE {"IER"})

\* steriliseOptionRegisterSettings() does not throw. Some of its rules are
\* implied by others.
Permitted(codes) ==
  /\ "SIE" \in codes <=> "CIE" \in codes
  /\ ~({"ICR", "IAR"} \subseteq codes)
  /\ "IMR" \in codes => codes \cap {"SIE", "CIE", "IER"} = {}
  /\ codes \cap {"IMR", "IER"} # {}
  /\ Cardinality(codes \cap {"MIE", "GIE", "MER"}) <= 1
  /\ codes \cap {"IModeR", "IVEAR", "IVAR", "IVR", "ILR", "IMR"} = {}
  /\ "ISR" \in codes

HaveSieAndCie == "SIE" \in options
HasMer == options \cap {"MER", "MIE", "GIE"} # {}

-----------------------------------------------------------------------------
(* The hardware (external). The line of a nested controller is a level: it *)
(* sets its bit in the parent as long as it is high.                       *)

Line(c, status, enable, master) == master[c] /\ status[c] \cap enable[c] # {}
BitsOf(c) == {s[2] : s \in {t \in SubInterrupts : t[1] = c}}

Registers(status, enable, master) ==
  /\ ier' = enable
  /\ mer' = master
  /\ isr' = [c \in Controllers |->
               status[c] \cup {b \in BitsOf(c) :
                                 /\ Child[<<c, b>>] # NoController
                                 /\ Line(Child[<<c, b>>], status, enable, master)}]

Pending(op, s) == \E i \in DOMAIN agenda : agenda[i].op = op /\ s[2] \in agenda[i].bits /\ agenda[i].c = s[1]

Event(s) ==
  /\ Child[s] = NoController
  /\ SumFunction(events) < MaxEvents
  /\ events' = [events EXCEPT ![s] = @ + 1]
  /\ Registers([isr EXCEPT ![s[1]] = @ \cup {s[2]}], ier, mer)
  /\ overtaken' = IF Pending("clear", s) /\ ~Pending("poll", s) THEN overtaken \cup {s} ELSE overtaken
  /\ undisturbed' = FALSE
  /\ UNCHANGED <<software, error, agenda, destruction, received>>

-----------------------------------------------------------------------------
(* The tree *)

Behind(s) == {t \in SubInterrupts : t = s \/ t[1] = Child[s]}

\* The weak pointer to the SubDomain can be locked.
Alive(s, subscribers) == Behind(s) \cap subscribers # {}
AliveBits(c) == {b \in BitsOf(c) : Alive(<<c, b>>, subscribed)}
HasDistributor(c, subscribers) == \E b \in BitsOf(c) : Alive(<<c, b>>, subscribers)

Op(op, c, bits) == [op |-> op, c |-> c, bits |-> bits]
OnBit(op, s) == Op(op, s[1], {s[2]})
Ascending(bits) == SetToSortSeq(bits, <)

\* SubDomain::distribute(): the poll distributor, then the controller behind.
Distribute(s) ==
  (IF s \in subscribed THEN <<OnBit("poll", s)>> ELSE <<>>)
    \o (IF Child[s] # NoController /\ HasDistributor(Child[s], subscribed)
        THEN <<Op("handle", Child[s], {})>> ELSE <<>>)

\* Mistake: the interrupt is cleared before the controllers behind it.
HandleClearFirst(c, status) ==
  LET pending == activeInterrupts[c] \cap status \cap subDomains[c] \cap AliveBits(c)
  IN  FlattenSeq([i \in 1 .. Cardinality(pending) |->
        LET s == <<c, Ascending(pending)[i]>>
        IN  <<OnBit("clear", s)>> \o Distribute(s)])

\* Mistake: the bit of a nested controller is not cleared.
HandleLeaves(c, status) ==
  LET pending == activeInterrupts[c] \cap status \cap subDomains[c] \cap AliveBits(c)
  IN  FlattenSeq([i \in 1 .. Cardinality(pending) |->
        LET s == <<c, Ascending(pending)[i]>>
        IN  Distribute(s) \o (IF Child[s] = NoController THEN <<OnBit("clear", s)>> ELSE <<>>)])

\* GenericMuxedInterruptDistributor::handle(), after the status was read. A
\* sub-interrupt without a SubDomain is not cleared.
Handle(c, status) ==
  LET pending == activeInterrupts[c] \cap status \cap subDomains[c] \cap AliveBits(c)
  IN  FlattenSeq([i \in 1 .. Cardinality(pending) |->
        LET s == <<c, Ascending(pending)[i]>>
        IN  Distribute(s) \o <<OnBit("clear", s)>>])

\* The handshake of activate(): master enable, enable, clear.
Handshake(c, bits) ==
  <<Op("master", c, {}), Op("enable", c, bits), Op("clear", c, activeInterrupts[c] \cup bits)>>

\* Mistake: the SubDomains of a nested controller do not poll.
ActivateFlatSilent(c) == Handshake(c, AliveBits(c))

\* activate() without the controllers behind: each SubDomain polls.
ActivateFlat(c) ==
  LET alive == Ascending(AliveBits(c))
      polls == SelectSeq([i \in DOMAIN alive |-> <<c, alive[i]>>], LAMBDA s : s \in subscribed)
  IN  Handshake(c, AliveBits(c)) \o [i \in DOMAIN polls |-> OnBit("poll", polls[i])]

\* GenericMuxedInterruptDistributor::activate() of the first controller.
Activation ==
  LET alive == Ascending(AliveBits(Root))
  IN  Handshake(Root, AliveBits(Root))
        \o FlattenSeq([i \in DOMAIN alive |->
             LET s == <<Root, alive[i]>>
             IN  (IF s \in subscribed THEN <<OnBit("poll", s)>> ELSE <<>>)
                   \o (IF Child[s] # NoController /\ HasDistributor(Child[s], subscribed)
                       THEN ActivateFlat(Child[s]) ELSE <<>>)])

-----------------------------------------------------------------------------
(* Operations with the lock of the domain *)

Idle == agenda = <<>>

\* DomainImpl::activate() of an inactive domain.
Activate ==
  /\ Idle /\ ~isActive /\ ~error
  /\ subscribed # {}
  /\ isActive' = TRUE
  /\ agenda' = Activation
  /\ undisturbed' = FALSE
  /\ UNCHANGED <<hardware, events, subscribed, subDomains, activeInterrupts, error, destruction,
                 received, overtaken>>

\* Mistake: only the last sub-interrupt is on the path.
PathLast(s) == <<s>>

\* The path from the primary SubDomain to s, as the sub-interrupts on it.
Path(s) ==
  IF s[1] = Root THEN <<s>>
  ELSE <<CHOOSE t \in SubInterrupts : Child[t] = s[1], s>>

\* getAccessorManager() on the way down: distributors and SubDomains which are
\* missing are created. In an active domain they are activated at once: a new
\* distributor, which has no SubDomains yet, then the new SubDomain.
Created(t) ==
  (IF HasDistributor(t[1], subscribed) THEN <<>>
   ELSE <<Op("master", t[1], {}), Op("enable", t[1], {}), Op("clear", t[1], {})>>)
    \o (IF Alive(t, subscribed) THEN <<>> ELSE <<OnBit("enable", t), OnBit("clear", t)>>)

\* The application does not create accessors while the last ones of the same
\* controller are being destroyed.
Subscribe(s) ==
  LET path == Path(s)
      onPath == {path[i] : i \in DOMAIN path}
  IN  /\ Idle
      /\ destruction = <<>>
      /\ s \notin subscribed
      /\ subscribed' = subscribed \cup {s}
      /\ subDomains' = [c \in Controllers |-> subDomains[c] \cup {t[2] : t \in {u \in onPath : u[1] = c}}]
      /\ agenda' = IF isActive
                   THEN FlattenSeq([i \in DOMAIN path |-> Created(path[i])]) \o <<OnBit("poll", s)>>
                   ELSE <<>>
      /\ received' = [received EXCEPT ![s] = 0]
      /\ undisturbed' = FALSE
      /\ UNCHANGED <<hardware, events, activeInterrupts, isActive, error, destruction, overtaken>>

\* The last accessor of s goes away. Distributors without SubDomains are
\* destroyed from the bottom of the tree; so is the domain without accessors.
Unsubscribe(s) ==
  LET after == subscribed \ {s}
      gone == {c \in Controllers : HasDistributor(c, subscribed) /\ ~HasDistributor(c, after)}
      order == SetToSortSeq(gone, LAMBDA c, d : d = Root)
  IN  /\ Idle
      /\ s \in subscribed
      /\ subscribed' = after
      /\ subDomains' = [c \in Controllers |-> IF c \in gone THEN {} ELSE subDomains[c]]
      /\ activeInterrupts' = [c \in Controllers |-> IF c \in gone THEN {} ELSE activeInterrupts[c]]
      /\ isActive' = (isActive /\ after # {})
      /\ destruction' = destruction \o [i \in DOMAIN order |-> Op("disable", order[i], activeInterrupts[order[i]])]
      /\ UNCHANGED <<hardware, events, error, agenda, received, overtaken, undisturbed>>

\* An interrupt of the primary controller, which may be late.
Interrupt ==
  /\ Idle /\ isActive
  /\ HasDistributor(Root, subscribed)
  /\ agenda' = <<Op("handle", Root, {})>>
  /\ undisturbed' = ~error
  /\ UNCHANGED <<hardware, software, events, error, destruction, received, overtaken>>

\* DomainImpl::sendException(), and the recovery by open().
SendException ==
  /\ Idle /\ error /\ isActive
  /\ isActive' = FALSE
  /\ UNCHANGED <<hardware, events, subscribed, subDomains, activeInterrupts, error, agenda,
                 destruction, received, overtaken, undisturbed>>

Recover ==
  /\ error /\ ~isActive
  /\ error' = FALSE
  /\ UNCHANGED <<hardware, software, events, agenda, destruction, received, overtaken, undisturbed>>

-----------------------------------------------------------------------------
(* The agenda. Each access to the hardware fails if the backend has an     *)
(* error, and may fail otherwise; all functions catch that.                *)

Head_ == Head(agenda)
Doing(op) == ~Idle /\ Head_.op = op

\* The access fails: setException() of the backend is called. The value of
\* _activeInterrupts has been changed before.
Fails ==
  /\ ~Idle
  /\ Head_.op = "master" => HasMer
  /\ error' = TRUE
  /\ undisturbed' = FALSE
  /\ agenda' = Tail(agenda)
  /\ activeInterrupts' = IF Head_.op = "enable"
                         THEN [activeInterrupts EXCEPT ![Head_.c] = @ \cup Head_.bits]
                         ELSE activeInterrupts
  /\ UNCHANGED <<hardware, events, subscribed, subDomains, isActive, destruction, received, overtaken>>

Done == ~error /\ agenda' = Tail(agenda) /\ UNCHANGED <<events, subscribed, subDomains, isActive, error,
                                                        destruction, undisturbed>>

ReadStatus ==
  /\ Doing("handle")
  /\ ~error
  /\ agenda' = Handle(Head_.c, isr[Head_.c]) \o Tail(agenda)
  /\ UNCHANGED <<hardware, software, events, error, destruction, received, overtaken, undisturbed>>

\* TriggeredPollDistributor::distribute()
Poll ==
  /\ Doing("poll")
  /\ Done
  /\ \E s \in SubInterrupts :
       /\ Head_ = OnBit("poll", s)
       /\ received' = [received EXCEPT ![s] = events[s]]
       /\ overtaken' = overtaken \ {s}
  /\ UNCHANGED <<hardware, activeInterrupts>>

\* clearInterruptsFromMask()
Clear ==
  /\ Doing("clear")
  /\ Done
  /\ Registers([isr EXCEPT ![Head_.c] = @ \ Head_.bits], ier, mer)
  /\ UNCHANGED <<activeInterrupts, received, overtaken>>

\* Mistake: only the new interrupts are written to IER.
EnableOnlyNew ==
  /\ Doing("enable")
  /\ Done
  /\ activeInterrupts' = [activeInterrupts EXCEPT ![Head_.c] = @ \cup Head_.bits]
  /\ Registers(isr, [ier EXCEPT ![Head_.c] = IF HaveSieAndCie THEN @ \cup Head_.bits ELSE Head_.bits], mer)
  /\ UNCHANGED <<received, overtaken>>

\* enableInterruptsFromMask(): writing to SIE sets bits, IER is replaced.
Enable ==
  /\ Doing("enable")
  /\ Done
  /\ activeInterrupts' = [activeInterrupts EXCEPT ![Head_.c] = @ \cup Head_.bits]
  /\ Registers(isr, [ier EXCEPT ![Head_.c] = IF HaveSieAndCie THEN @ \cup activeInterrupts'[Head_.c]
                                             ELSE activeInterrupts'[Head_.c]], mer)
  /\ UNCHANGED <<received, overtaken>>

MasterEnable ==
  /\ Doing("master")
  /\ HasMer
  /\ Done
  /\ Registers(isr, ier, [mer EXCEPT ![Head_.c] = TRUE])
  /\ UNCHANGED <<activeInterrupts, received, overtaken>>

NoMasterEnable ==
  /\ Doing("master")
  /\ ~HasMer
  /\ agenda' = Tail(agenda)
  /\ UNCHANGED <<hardware, software, events, error, destruction, received, overtaken, undisturbed>>

\* ~GenericMuxedInterruptDistributor(): disableInterruptsFromMask() if the
\* backend is functional. The interrupts are cleared after they are disabled.
Destroy ==
  LET d == Head(destruction)
  IN  /\ destruction # <<>>
      /\ destruction' = Tail(destruction)
      /\ IF error
         THEN UNCHANGED <<hardware, error>>
         ELSE \/ /\ Registers([isr EXCEPT ![d.c] = @ \ d.bits],
                              [ier EXCEPT ![d.c] = IF HaveSieAndCie THEN @ \ d.bits ELSE {}], mer)
                 /\ UNCHANGED error
              \/ error' = TRUE /\ UNCHANGED hardware
      /\ undisturbed' = FALSE
      /\ UNCHANGED <<software, events, agenda, received, overtaken>>

-----------------------------------------------------------------------------
Init ==
  /\ options \in {Complete(d) : d \in {e \in Descriptions : Parsed(e)}}
  /\ Permitted(options)
  /\ isr = [c \in Controllers |-> {}]
  /\ ier = [c \in Controllers |-> {}]
  /\ mer = [c \in Controllers |-> ~HasMer]
  /\ events = [s \in SubInterrupts |-> 0]
  /\ subscribed = {}
  /\ subDomains = [c \in Controllers |-> {}]
  /\ activeInterrupts = [c \in Controllers |-> {}]
  /\ isActive = FALSE
  /\ error = FALSE
  /\ agenda = <<>>
  /\ destruction = <<>>
  /\ received = [s \in SubInterrupts |-> 0]
  /\ overtaken = {}
  /\ undisturbed = FALSE

Work == ReadStatus \/ Poll \/ Clear \/ Enable \/ MasterEnable \/ NoMasterEnable \/ Fails

Next ==
  /\ UNCHANGED options
  /\ \/ \E s \in SubInterrupts : Event(s) \/ Subscribe(s) \/ Unsubscribe(s)
     \/ Activate \/ Interrupt \/ SendException \/ Recover
     \/ Work \/ Destroy

Spec == Init /\ [][Next]_vars

InterruptLine == Line(Root, isr, ier, mer)

\* The thread with the lock goes on. An interrupt which is asserted comes, and
\* its thread gets the lock between the operations of the application.
FairSpec ==
  /\ Spec
  /\ WF_vars(Work /\ UNCHANGED options)
  /\ SF_vars(InterruptLine /\ Interrupt /\ UNCHANGED options)

-----------------------------------------------------------------------------
(* Properties *)

TypeOK ==
  /\ \A c \in Controllers : /\ isr[c] \subseteq BitsOf(c) /\ ier[c] \subseteq BitsOf(c)
                            /\ activeInterrupts[c] \subseteq subDomains[c]
  /\ subscribed \subseteq SubInterrupts
  /\ received \in [SubInterrupts -> 0 .. MaxEvents]

Settled == Idle /\ destruction = <<>> /\ isActive /\ ~error

(***************************************************************************)
(* In an active domain without errors each sub-interrupt which has         *)
(* accessors behind it is enabled, in the hardware and in the copy which   *)
(* handle() uses, whatever the order of subscriptions, errors and          *)
(* activations was: enableInterruptsFromMask().                            *)
(***************************************************************************)
SubscribedAreEnabled ==
  Settled =>
    \A c \in Controllers :
      AliveBits(c) \subseteq ier[c] \cap activeInterrupts[c] /\ (AliveBits(c) # {} => mer[c])

\* Sub-interrupts which are enabled although they have no SubDomain.
Orphans == \E c \in Controllers : (ier[c] \cap isr[c]) \ AliveBits(c) # {}

(***************************************************************************)
(* When an interrupt has been handled and neither an event nor an error    *)
(* came meanwhile, nothing which it has handled is pending any more, at    *)
(* any level: the interrupts behind are cleared "first, then the parent    *)
(* interrupt flags" (GenericMuxedInterruptDistributor::handle()).          *)
(***************************************************************************)
ClearsWhatIsHandled ==
  ~Idle /\ agenda' = <<>> /\ undisturbed' /\ ~error' /\ ~Orphans =>
    \A c \in Controllers : isr'[c] \cap activeInterrupts[c] \cap AliveBits(c) = {}
HandledIsCleared == [][ClearsWhatIsHandled]_vars

(***************************************************************************)
(* The accessors have the newest value, unless the interrupt is pending or *)
(* the event came between the polling and the clearing: enabling, clearing *)
(* and polling are in an order in which a subscription or an activation    *)
(* misses nothing.                                                         *)
(***************************************************************************)
NewestValueArrives ==
  Settled =>
    \A s \in subscribed :
      \/ received[s] = events[s]
      \/ s[2] \in isr[s[1]]
      \/ s \in overtaken

(***************************************************************************)
(* An interrupt does not stay asserted for ever (a storm of interrupts),   *)
(* as long as all which are enabled have a SubDomain: handle() clears what *)
(* it has distributed.                                                     *)
(***************************************************************************)
Served == InterruptLine /\ isActive /\ ~error /\ ~Orphans
InterruptIsServed == Served ~> ~Served

=============================================================================
