------------------------------ MODULE IOSATDriver ------------------------------
(***************************************************************************)
(* The life of one fi_dungeon_driver_IOSATDriver on one enclosure: probe,    *)
(* which looks the enclosure up in Info.plist, start, the thread call that    *)
(* identifies the disk a second later, setProperties from user space, and     *)
(* stop.  What these share is the pass-through mode, the promise              *)
(* fSATSMARTCapable, what the registry says of both, and the driver's         *)
(* reference count.                                                         *)
(*                                                                          *)
(* An identification is a chain of blocking commands; a step below runs from *)
(* one answer of the enclosure to the next command.  What the commands look  *)
(* like is in SATCommandPath.  fIdentified is left out, nothing reads it;    *)
(* fPort only fills a byte of the JMicron command.                          *)
(***************************************************************************)
EXTENDS Integers, FiniteSets, Sequences

CONSTANTS
  Setters,      \* threads of user processes that may be in setProperties
  Enclosures,   \* the enclosures, with the disk in them, it may be put on
  Ids,          \* what enclosures call themselves: records of some of usb,
                \* scsi and fw, each the vendor and product of one bus
  Identifiers,  \* the entries of Info.plist but UNKNOWN: the same fields,
                \* and some of mode, permissive and delay
  Unknown,      \* the entry UNKNOWN, without the fields of Ids
  Orders,       \* the orders in which the dictionary of all these may be walked
  Personality   \* mode, permissive and delay where an entry has none

WireModes == {"sat12", "sat16", "jmicron", "sunplus"}
Modes == WireModes \cup {"auto", "none"}
\* What the property may say; "other" stands for any string that is no mode.
ModeNames == Modes \cup {"other"}

(* What an enclosure and its disk do, for ever: the commands the enclosure    *)
(* understands, its answer to the rest, the disk's to IDENTIFY and READ DATA. *)
EnclosureKinds == [ids : Ids, modes : SUBSET WireModes, rejects : {"check", "noMedia", "fail"},
                   identify : {"data", "zeros"}, smart : {"good", "check", "fail"}]

ASSUME SettersAssumption == IsFiniteSet(Setters) /\ {"start", "poll"} \cap Setters = {}
ASSUME EnclosuresAssumption == Enclosures \subseteq EnclosureKinds

(* The personality of Info.plist has all the settings, an entry what it likes,  *)
(* each of its kind.                                                         *)
ASSUME EntriesAssumption ==
  /\ {"usb", "scsi", "fw"} \cap DOMAIN Unknown = {}
  /\ Personality \in [mode : ModeNames, permissive : BOOLEAN, delay : BOOLEAN]
  /\ \A e \in Identifiers \cup {Unknown} :
       /\ "mode" \in DOMAIN e => e["mode"] \in ModeNames
       /\ "permissive" \in DOMAIN e => e["permissive"] \in BOOLEAN
       /\ "delay" \in DOMAIN e => e["delay"] \in BOOLEAN

ASSUME OrdersAssumption ==
  \A order \in Orders :
    /\ order \in Seq(Identifiers \cup {Unknown})
    /\ Identifiers \cup {Unknown} = {order[i] : i \in 1 .. Len(order)}

Threads == {"start", "poll"} \cup Setters

VARIABLES
  enclosure,
  enclosureName,      \* registry: Enclosure Name, <<e>> when it is the key of
                      \* entry e, and <<>> when it is made of the ids (or absent)
  permissive,         \* fPermissive, and the property it is parsed from
  delayIdentify,      \* fDelayIdentify, likewise
  mode,               \* fPassThroughMode
  capable,            \* fSATSMARTCapable
  model,              \* the model string read last
  modeProperty,       \* registry: PassThroughMode
  capableProperty,    \* registry: SATSMARTCapable
  productProperty,    \* registry: the product model
  life,               \* which of probe, start, stop and detach are over
  poll,               \* the thread call
  references,         \* retains of the driver less its releases
  pc,                 \* per thread: the command of its identification under way
  sent,               \* per thread: the mode that command was built for
  autodetect,         \* per thread: the local of IdentifyDevice
  overlapped,         \* history: the mode was set or tried during an
                      \* identification of another thread
  modeSet             \* history: a process has set the mode

configVars == <<enclosure, enclosureName, permissive, delayIdentify, modeSet>>
registryVars == <<modeProperty, capableProperty, productProperty>>
driverVars == <<mode, capable, model>>
threadVars == <<pc, sent, autodetect>>
lifeVars == <<life, poll, references>>
vars == <<configVars, driverVars, registryVars, lifeVars, threadVars, overlapped>>

Init ==
  /\ enclosure \in Enclosures
  /\ enclosureName = <<>>
  /\ permissive = Personality.permissive
  /\ delayIdentify = Personality.delay
  /\ mode = "none"
  /\ capable = TRUE
  /\ model = "blank"
  /\ modeProperty = Personality.mode
  /\ capableProperty = "absent"
  /\ productProperty = "absent"
  /\ life = "matched"
  /\ poll = "none"
  /\ references = 1
  /\ pc = [t \in Threads |-> "idle"]
  /\ sent = [t \in Threads |-> "sat12"]
  /\ autodetect = [t \in Threads |-> FALSE]
  /\ overlapped = FALSE
  /\ modeSet = FALSE
-------------------------------------------------------------------------------
(* parseProperties. *)
Parse(name) == IF name = "other" THEN "auto" ELSE name
ParsedCapable(name, before) == IF name = "none" THEN FALSE ELSE before

(* The command set a command goes out in: PASS_THROUGH_12 is the default. *)
Wire(m) == IF m \in {"sat16", "jmicron", "sunplus"} THEN m ELSE "sat12"

Answer(m, disk) == IF m \in enclosure.modes THEN disk ELSE enclosure.rejects
Identifies(m) == Answer(m, enclosure.identify) = "data"
ReadsData(m) ==
  \/ Answer(m, enclosure.smart) = "good"
  \/ permissive /\ Answer(m, enclosure.smart) \in {"check", "noMedia"}
\* trimcpy stores whatever strings a command that ends GOOD returned.
ModelAfter(m) ==
  CASE Answer(m, enclosure.identify) = "data" -> "disk"
    [] Answer(m, enclosure.identify) = "zeros" -> "blank"
    [] OTHER -> model

Goto(t, label) == pc' = [pc EXCEPT ![t] = label]
Send(t, label, m) == Goto(t, label) /\ sent' = [sent EXCEPT ![t] = Wire(m)]

Quiet == \A t \in Threads : pc[t] = "idle"

(* IdentifyDevice up to its first command; m is the mode it finds. *)
IdentifyDevice(t, m) ==
  /\ overlapped' = (overlapped \/ ~Quiet)
  /\ capable' = TRUE
  /\ autodetect' = [autodetect EXCEPT ![t] = (m = "auto")]
  /\ IF m = "auto"
     THEN mode' = "sat12" /\ Send(t, "sat12", "sat12")
     ELSE mode' = m /\ Send(t, "identify", m)

\* What its first command leaves in the registry.
FirstModeProperty(m, name) == IF m = "auto" THEN "sat12" ELSE name

(* How the three callers of IdentifyDevice end.  The poll drops its retain, a *)
(* call of setProperties the one it was made under.  (sent and autodetect,    *)
(* locals that nobody reads again, go back to their first values.)           *)
Leave(t) ==
  /\ Goto(t, "idle")
  /\ sent' = [sent EXCEPT ![t] = "sat12"]
  /\ autodetect' = [autodetect EXCEPT ![t] = FALSE]
  /\ poll' = IF t = "poll" THEN "done" ELSE poll
  /\ UNCHANGED <<life, overlapped>>

\* Mutants: the release of sProcessPoll is in IdentifyDevice, or nowhere.
ReturnReleases(t) == Leave(t) /\ references' = references - 1
ReturnForgetsPoll(t) ==
  Leave(t) /\ references' = IF t \in Setters THEN references - 1 ELSE references

Return(t) == Leave(t) /\ references' = IF t = "start" THEN references ELSE references - 1

\* Mutant: leaves before it has published its verdict.
NotIdentifiedSilently(t) ==
  /\ capable' = FALSE
  /\ modeProperty' = IF autodetect[t] \/ t \in Setters THEN "none" ELSE modeProperty
  /\ UNCHANGED <<mode, productProperty, capableProperty>>
  /\ Return(t)

(* The end of IdentifyDevice without READ DATA.  "none" is written by the     *)
(* automatic detection, and by setProperties.                                *)
NotIdentified(t) ==
  /\ capable' = FALSE
  /\ capableProperty' = "No"
  /\ modeProperty' = IF autodetect[t] \/ t \in Setters THEN "none" ELSE modeProperty
  /\ UNCHANGED <<mode, productProperty>>
  /\ Return(t)

(* The disk is taken as identified: publish it and try READ DATA. *)
Identified(t) ==
  /\ capable' = TRUE
  /\ productProperty' = model'
  /\ Send(t, "readData", mode)
  /\ UNCHANGED <<mode, modeProperty, capableProperty, autodetect, lifeVars, overlapped>>

(* The automatic detection goes on to its next mode. *)
Try(t, label, m) ==
  /\ capable' = TRUE
  /\ mode' = m
  /\ modeProperty' = m
  /\ Send(t, label, m)
  /\ UNCHANGED <<capableProperty, productProperty, autodetect, lifeVars, overlapped>>

(* Send_ATA_IDENTIFY returns: where the thread goes when there was no disk.  *)
AnswerIdentify(t, label, IfNot) ==
  /\ pc[t] = label
  /\ model' = ModelAfter(sent[t])
  /\ IF Identifies(sent[t]) THEN Identified(t) ELSE IfNot
  /\ UNCHANGED configVars

\* Mutant: the automatic detection leaves PassThroughMode at its first guess.
TryUnpublished(t, label, m) ==
  /\ capable' = TRUE
  /\ mode' = m
  /\ Send(t, label, m)
  /\ UNCHANGED <<registryVars, autodetect, lifeVars, overlapped>>
AnswerSAT12Unpublished(t) == AnswerIdentify(t, "sat12", TryUnpublished(t, "sat16", "sat16"))

\* Mutant: the 16-byte commands are passed over.
AnswerSAT12Skips(t) == AnswerIdentify(t, "sat12", Try(t, "registers", "jmicron"))

AnswerSAT12(t) == AnswerIdentify(t, "sat12", Try(t, "sat16", "sat16"))
AnswerSAT16(t) == AnswerIdentify(t, "sat16", Try(t, "registers", "jmicron"))
AnswerJMicron(t) == AnswerIdentify(t, "jmicron", NotIdentified(t))
AnswerConfigured(t) == AnswerIdentify(t, "identify", NotIdentified(t))

(* JMicron_get_registers returns; that there is no medium counts as success,   *)
(* and so may a command that failed without sense data, whose buffer is not    *)
(* initialised.  When the read has failed no IDENTIFY is sent, and               *)
(* fSATSMARTCapable is still what it was set to before the attempt.            *)
AnswerRegisters(t) ==
  /\ pc[t] = "registers"
  /\ \/ /\ "jmicron" \in enclosure.modes \/ enclosure.rejects \in {"noMedia", "fail"}
        /\ Send(t, "jmicron", mode)
        /\ UNCHANGED <<driverVars, registryVars, lifeVars, autodetect, overlapped>>
     \/ /\ "jmicron" \notin enclosure.modes /\ enclosure.rejects # "noMedia"
        /\ UNCHANGED model
        /\ IF capable THEN Identified(t) ELSE NotIdentified(t)
  /\ UNCHANGED configVars

\* Mutant: SATSMARTCapable is published for the IDENTIFY, before READ DATA.
AnswerReadDataPublished(t) ==
  /\ pc[t] = "readData"
  /\ capable' = ReadsData(sent[t])
  /\ capableProperty' = "Yes"
  /\ modeProperty' = IF t \in Setters /\ ~capable' THEN "none" ELSE modeProperty
  /\ Return(t)
  /\ UNCHANGED <<configVars, mode, model, productProperty>>

(* Send_ATA_SMART_READ_DATA returns, and with it IdentifyDevice. *)
AnswerReadData(t) ==
  /\ pc[t] = "readData"
  /\ capable' = ReadsData(sent[t])
  /\ capableProperty' = IF capable' THEN "Yes" ELSE "No"
  /\ modeProperty' = IF t \in Setters /\ ~capable' THEN "none" ELSE modeProperty
  /\ Return(t)
  /\ UNCHANGED <<configVars, mode, model, productProperty>>

IdentifyStep(t) ==
  \/ AnswerSAT12(t) \/ AnswerSAT16(t) \/ AnswerRegisters(t) \/ AnswerJMicron(t)
  \/ AnswerConfigured(t) \/ AnswerReadData(t)
-------------------------------------------------------------------------------
(* An entry fits by vendor and product on one bus, if both sides give them. *)
Fits(e) ==
  \E bus \in {"usb", "scsi", "fw"} \cap DOMAIN e \cap DOMAIN enclosure.ids :
    e[bus] = enclosure.ids[bus]
Fitting == {e \in Identifiers : Fits(e)}

Setting(e, key) == IF key \in DOMAIN e THEN e[key] ELSE Personality[key]

(* The settings of entry e become properties of the driver. *)
Configure(e) ==
  /\ modeProperty' = Setting(e, "mode")
  /\ permissive' = Setting(e, "permissive")
  /\ delayIdentify' = Setting(e, "delay")

(* The locals of probe before its loop, and whether the loop is left.  A pointer to *)
(* an entry, or to its key, is a sequence of one, NULL the empty one.          *)
Nothing == [details |-> <<>>, name |-> <<>>, unknown |-> <<>>, found |-> FALSE]

\* Mutant: an entry that does not fit stays in details.
LookKeepsDetails(locals, e) ==
  CASE locals.found -> locals
    [] ~locals.found /\ e = Unknown -> [locals EXCEPT !.details = <<e>>, !.unknown = <<e>>]
    [] ~locals.found /\ e # Unknown ->
         [locals EXCEPT !.details = <<e>>, !.name = <<e>>, !.found = Fits(e)]

\* Mutant: UNKNOWN ends the loop, by a break in the place of its continue.
LookEndsAtUnknown(locals, e) ==
  CASE locals.found -> locals
    [] ~locals.found /\ e = Unknown ->
         [locals EXCEPT !.details = <<e>>, !.unknown = <<e>>, !.found = TRUE]
    [] ~locals.found /\ e # Unknown ->
         [locals EXCEPT !.details = IF Fits(e) THEN <<e>> ELSE <<>>, !.name = <<e>>, !.found = Fits(e)]

(* The body of the loop over Identifiers: UNKNOWN is put by, and details points to  *)
(* it then; another entry that fits ends the loop, and one that does not leaves     *)
(* its key in name.                                                          *)
Look(locals, e) ==
  CASE locals.found -> locals
    [] ~locals.found /\ e = Unknown -> [locals EXCEPT !.details = <<e>>, !.unknown = <<e>>]
    [] ~locals.found /\ e # Unknown ->
         [locals EXCEPT !.details = IF Fits(e) THEN <<e>> ELSE <<>>, !.name = <<e>>, !.found = Fits(e)]

Walk(order) ==
  LET locals[i \in 0 .. Len(order)] == IF i = 0 THEN Nothing ELSE Look(locals[i - 1], order[i])
  IN  locals[Len(order)]

(* probe walks Identifiers, which has no order of its own, and takes UNKNOWN if      *)
(* details is NULL then: the enclosure has the name that is made of its ids only in  *)
(* this case, and not when UNKNOWN was the last entry.  (The score it returns is     *)
(* IOKit's business; "DISABLE" lowers it and is a mode like any other unknown      *)
(* string here.)                                                             *)
Probe ==
  /\ life = "matched"
  /\ life' = "attached"
  /\ \E order \in Orders :
       LET locals == Walk(order) IN
       IF locals.details = <<>>
       THEN Configure(locals.unknown[1]) /\ enclosureName' = <<>>
       ELSE Configure(locals.details[1]) /\ enclosureName' = locals.name
  /\ UNCHANGED <<enclosure, driverVars, capableProperty, productProperty, poll, references,
                 threadVars, overlapped, modeSet>>

(* IOKit starts another driver on the enclosure. *)
PassedOver ==
  /\ life = "attached" /\ pc["start"] = "idle"
  /\ life' = "detached"
  /\ references' = references - 1
  /\ UNCHANGED <<configVars, driverVars, registryVars, poll, threadVars, overlapped>>

(* start, super::start included: it creates the nub, and may fail.  The       *)
(* identification is put off, or done on this thread, or left out.           *)
Start ==
  /\ life = "attached" /\ pc["start"] = "idle"
  /\ mode' = Parse(modeProperty)
  /\ model' = model
  /\ \/ /\ life' = "failed"
        /\ capable' = ParsedCapable(modeProperty, capable)
        /\ UNCHANGED <<registryVars, poll, references, threadVars, overlapped>>
     \/ /\ life' = "started"
        /\ IF mode' = "none" \/ ~ParsedCapable(modeProperty, capable)
           THEN /\ capable' = ParsedCapable(modeProperty, capable)
                /\ UNCHANGED <<registryVars, poll, references, threadVars, overlapped>>
           ELSE /\ capable' = capable
                /\ delayIdentify
                /\ \/ poll' = "entered" /\ references' = references + 1
                   \/ UNCHANGED <<poll, references>>   \* thread_call_allocate failed
                /\ UNCHANGED <<registryVars, threadVars, overlapped>>
  /\ UNCHANGED configVars

(* The same without the delay: IdentifyDevice on the thread of start. *)
StartAndIdentify ==
  /\ life = "attached" /\ pc["start"] = "idle"
  /\ ~delayIdentify
  /\ modeProperty # "none"
  /\ life' = "started"
  /\ IdentifyDevice("start", Parse(modeProperty))
  /\ modeProperty' = FirstModeProperty(Parse(modeProperty), modeProperty)
  /\ UNCHANGED <<configVars, model, capableProperty, productProperty, poll, references>>

(* The second is over: the thread call takes itself off the queue and runs.  *)
ProcessPoll ==
  /\ poll = "entered"
  /\ poll' = "running"
  /\ IdentifyDevice("poll", mode)
  /\ modeProperty' = FirstModeProperty(mode, modeProperty)
  /\ UNCHANGED <<configVars, model, capableProperty, productProperty, life, references>>

\* Mutant: stop releases without asking whether the call was still queued.
StopAlwaysReleases ==
  /\ life = "started" /\ pc["start"] = "idle"
  /\ life' = "stopped"
  /\ IF poll = "none" THEN UNCHANGED <<poll, references>>
     ELSE /\ poll' = IF poll = "entered" THEN "cancelled" ELSE poll
          /\ references' = references - 1
  /\ UNCHANGED <<configVars, driverVars, registryVars, threadVars, overlapped>>

(* thread_call_cancel is true only for a call that has not begun. *)
Stop ==
  /\ life = "started" /\ pc["start"] = "idle"
  /\ life' = "stopped"
  /\ IF poll = "entered"
     THEN poll' = "cancelled" /\ references' = references - 1
     ELSE UNCHANGED <<poll, references>>
  /\ UNCHANGED <<configVars, driverVars, registryVars, threadVars, overlapped>>

(* IOKit lets go of a driver that has stopped, or would not start. *)
Detach ==
  /\ life \in {"stopped", "failed"}
  /\ life' = "detached"
  /\ references' = references - 1
  /\ UNCHANGED <<configVars, driverVars, registryVars, poll, threadVars, overlapped>>

(* setProperties with a PassThroughMode.  The call keeps a reference of its   *)
(* own until it returns; it identifies the disk only when the mode changes.   *)
SetProperties(s, name) ==
  /\ life = "started" /\ pc[s] = "idle"
  /\ modeSet' = TRUE
  /\ productProperty' = "absent"
  /\ LET m == Parse(name) IN
     IF name # "none" /\ m # mode
     THEN /\ IdentifyDevice(s, m)
          /\ modeProperty' = FirstModeProperty(m, name)
          /\ references' = references + 1
     ELSE /\ mode' = m
          /\ modeProperty' = name
          /\ capable' = ParsedCapable(name, TRUE)
          /\ overlapped' = (overlapped \/ ~Quiet)
          /\ UNCHANGED <<references, threadVars>>
  /\ UNCHANGED <<enclosure, enclosureName, permissive, delayIdentify, model, capableProperty,
                 life, poll>>

Next ==
  \/ Probe \/ PassedOver
  \/ Start \/ StartAndIdentify \/ ProcessPoll \/ Stop \/ Detach
  \/ \E t \in Threads : IdentifyStep(t)
  \/ \E s \in Setters, name \in ModeNames : SetProperties(s, name)

(* Every command has a timeout, the timer of the thread call goes off, and    *)
(* IOKit lets go of what it has stopped.                                     *)
Fairness ==
  /\ \A t \in Threads : WF_vars(IdentifyStep(t))
  /\ WF_vars(ProcessPoll) /\ WF_vars(Detach)

Spec == Init /\ [][Next]_vars /\ Fairness
-------------------------------------------------------------------------------
(* The type of every variable above. *)
TypeOK ==
  /\ enclosure \in Enclosures /\ permissive \in BOOLEAN /\ delayIdentify \in BOOLEAN
  /\ enclosureName \in {<<>>} \cup {<<e>> : e \in Identifiers}
  /\ mode \in Modes /\ capable \in BOOLEAN /\ model \in {"blank", "disk"}
  /\ modeProperty \in ModeNames
  /\ capableProperty \in {"absent", "Yes", "No"}
  /\ productProperty \in {"absent", "blank", "disk"}
  /\ life \in {"matched", "attached", "failed", "started", "stopped", "detached"}
  /\ poll \in {"none", "entered", "running", "done", "cancelled"}
  /\ references \in Nat
  /\ pc \in [Threads -> {"idle", "sat12", "sat16", "registers", "jmicron", "identify", "readData"}]
  /\ sent \in [Threads -> WireModes]
  /\ autodetect \in [Threads -> BOOLEAN]
  /\ overlapped \in BOOLEAN /\ modeSet \in BOOLEAN

(* The retain made for the thread call is dropped exactly once, by the call   *)
(* itself or by a stop that still could cancel it: the driver is alive while  *)
(* any thread identifies its disk, and is not kept afterwards.               *)
ReferencesExact ==
  /\ references = (IF life = "detached" THEN 0 ELSE 1)
                    + (IF poll \in {"entered", "running"} THEN 1 ELSE 0)
                    + Cardinality({s \in Setters : pc[s] # "idle"})
  /\ pc["poll"] # "idle" => references > 0

(* As long as identifications do not overlap, a driver that has identified    *)
(* its disk says in the registry the very mode it sends commands in, and it   *)
(* is never left in "auto": what an administrator reads in ioreg and copies   *)
(* into Info.plist is the mode that worked.  (A thread call that was queued   *)
(* when the mode was set to "none" still runs, and finds a disk in no mode.)  *)
ModeAgrees ==
  Quiet /\ ~overlapped /\ capable /\ capableProperty # "absent" =>
    modeProperty = mode /\ mode # "auto"

(* The first of the modes the automatic detection tries in which this disk    *)
(* can be identified.                                                        *)
Tried == <<"sat12", "sat16", "jmicron">>
Works(i) == Tried[i] \in enclosure.modes /\ enclosure.identify = "data"
FirstWorking == Tried[CHOOSE i \in 1 .. 3 : Works(i) /\ \A j \in 1 .. i - 1 : ~Works(j)]

(* On an enclosure that answers in some mode the automatic detection ends in  *)
(* the first one that works, having read the disk's model.                   *)
AutoFindsMode ==
  [][\A t \in Threads :
       (autodetect[t] /\ pc[t] # "idle" /\ pc'[t] = "idle" /\ ~overlapped
          /\ \E i \in 1 .. 3 : Works(i))
       => mode' = FirstWorking /\ model' = "disk"]_vars

(* The thread call that start queues leads to a verdict in the registry,      *)
(* unless the driver is stopped first.                                       *)
PollReachesVerdict == poll = "entered" ~> capableProperty # "absent" \/ life # "started"

(* After stop the driver is freed, even when the identification was running.  *)
DriverFreed == life = "stopped" ~> references = 0

(* What the registry says of the disk after an identification is what was     *)
(* read from it: a driver that says Yes has seen an IDENTIFY succeed.        *)
CapableMeansIdentified ==
  Quiet /\ ~overlapped /\ capableProperty = "Yes" /\ productProperty # "absent" =>
    productProperty = "disk"

(* SATSMARTCapable in the registry tells whether the driver accepts S.M.A.R.T.  *)
(* commands, while the registry names the disk as well: it may be out of date     *)
(* from a setProperties on, which removes the name and leaves SATSMARTCapable as   *)
(* it was, until a disk is identified again.                                 *)
CapablePropertyTrue ==
  Quiet /\ ~overlapped /\ capableProperty # "absent" /\ productProperty # "absent" =>
    (capableProperty = "Yes" <=> capable)

(* Until a process sets the mode, every command goes out in a mode that an entry    *)
(* for this enclosure asks for, in whatever order the entries are walked; an       *)
(* enclosure that only "none" applies to, UNKNOWN's as a rule, is sent nothing at   *)
(* all.  Where several entries for one enclosure differ (Info.plist has three such  *)
(* enclosures), any of them may decide.                                      *)
CommandsAsConfigured ==
  \A t \in Threads :
    pc[t] # "idle" /\ ~modeSet =>
      \E e \in IF Fitting = {} THEN {Unknown} ELSE Fitting :
        LET m == Parse(Setting(e, "mode")) IN m # "none" /\ (m = "auto" \/ sent[t] = Wire(m))

(* An enclosure that Info.plist knows appears under the name of an entry that fits    *)
(* it, and the driver goes by the settings of that very entry: the walk leaves name    *)
(* and details at the same one, wherever UNKNOWN and the others come in it.      *)
KnownByName ==
  Fitting # {} /\ life # "matched" =>
    \E e \in Fitting : /\ enclosureName = <<e>>
                       /\ permissive = Setting(e, "permissive") /\ delayIdentify = Setting(e, "delay")
===============================================================================
