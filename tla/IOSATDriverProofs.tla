--------------------------- MODULE IOSATDriverProofs ---------------------------
(***************************************************************************)
(* What IOSATDriver guarantees for any enclosures, entries and numbers of     *)
(* processes: the driver lives as long as it is used, goes by the entry that   *)
(* fits its enclosure, and says in the registry what it does.  Each property   *)
(* has an invariant of its own, over the one that says who may be where.       *)
(***************************************************************************)
EXTENDS IOSATDriver, FiniteSetTheorems, WellFoundedInduction, TLAPS

Labels == {"idle", "sat12", "sat16", "registers", "jmicron", "identify", "readData"}

\* The processes inside setProperties.
Busy == {s \in Setters : pc[s] # "idle"}

\* TypeOK but for the count of references.
Typed ==
  /\ enclosure \in Enclosures /\ permissive \in BOOLEAN /\ delayIdentify \in BOOLEAN
  /\ enclosureName \in {<<>>} \cup {<<e>> : e \in Identifiers}
  /\ mode \in Modes /\ capable \in BOOLEAN /\ model \in {"blank", "disk"}
  /\ modeProperty \in ModeNames
  /\ capableProperty \in {"absent", "Yes", "No"}
  /\ productProperty \in {"absent", "blank", "disk"}
  /\ life \in {"matched", "attached", "failed", "started", "stopped", "detached"}
  /\ poll \in {"none", "entered", "running", "done", "cancelled"}
  /\ pc \in [Threads -> Labels]
  /\ sent \in [Threads -> WireModes]
  /\ autodetect \in [Threads -> BOOLEAN]
  /\ overlapped \in BOOLEAN /\ modeSet \in BOOLEAN

Counted ==
  references = (IF life = "detached" THEN 0 ELSE 1)
                 + (IF poll \in {"entered", "running"} THEN 1 ELSE 0) + Cardinality(Busy)

(* Nobody identifies the disk before start has been through; the thread call     *)
(* runs as long as it is inside IdentifyDevice, and only when start is not.     *)
Orderly ==
  /\ life \in {"matched", "attached", "failed"} => Quiet /\ poll = "none"
  /\ poll = "running" <=> pc["poll"] # "idle"
  /\ poll # "none" => pc["start"] = "idle"

LifeInv == TypeOK /\ Counted /\ Orderly
-------------------------------------------------------------------------------
LEMMA ThreadsDiffer ==
  /\ "start" \in Threads /\ "poll" \in Threads /\ Setters \subseteq Threads
  /\ "start" \notin Setters /\ "poll" \notin Setters
BY SettersAssumption DEF Threads

(* A setting of an entry, or of the personality, is one of its kind.            *)
LEMMA SettingTypes ==
  ASSUME NEW e \in Identifiers \cup {Unknown}
  PROVE  /\ Setting(e, "mode") \in ModeNames
         /\ Setting(e, "permissive") \in BOOLEAN
         /\ Setting(e, "delay") \in BOOLEAN
BY EntriesAssumption DEF Setting

LEMMA ParseTypes ==
  ASSUME NEW name \in ModeNames
  PROVE  /\ Parse(name) \in Modes
         /\ \A b \in BOOLEAN : ParsedCapable(name, b) \in BOOLEAN
BY DEF Parse, ParsedCapable, ModeNames, Modes, WireModes

LEMMA WireTypes == \A m : Wire(m) \in WireModes
BY DEF Wire, WireModes

(* A call of setProperties is in or out.                                      *)
LEMMA BusyFinite == IsFiniteSet(Busy) /\ Cardinality(Busy) \in Nat
BY SettersAssumption, FS_Subset, FS_CardinalityType DEF Busy

(* One thread of the processes goes from idle to label, or back.               *)
LEMMA BusyCounts ==
  ASSUME pc \in [Threads -> Labels], NEW t \in Threads, NEW label, Goto(t, label)
  PROVE  /\ t \notin Setters => Busy' = Busy
         /\ t \in Setters /\ pc[t] = "idle" /\ label # "idle" =>
              Cardinality(Busy') = Cardinality(Busy) + 1
         /\ t \in Setters /\ pc[t] # "idle" /\ label = "idle" =>
              Cardinality(Busy') = Cardinality(Busy) - 1
         /\ pc[t] # "idle" /\ label # "idle" => Busy' = Busy
<1>1. \A u \in Threads : pc'[u] = IF u = t THEN label ELSE pc[u]
  BY DEF Goto
<1>2. t \notin Setters => Busy' = Busy
  BY <1>1, ThreadsDiffer DEF Busy
<1>3. pc[t] # "idle" /\ label # "idle" => Busy' = Busy
  BY <1>1, ThreadsDiffer DEF Busy
<1>4. ASSUME t \in Setters, pc[t] = "idle", label # "idle"
      PROVE  Cardinality(Busy') = Cardinality(Busy) + 1
  <2>1. Busy' = Busy \cup {t} /\ t \notin Busy
    BY <1>1, <1>4, ThreadsDiffer DEF Busy
  <2> QED
    BY <2>1, BusyFinite, FS_AddElement
<1>5. ASSUME t \in Setters, pc[t] # "idle", label = "idle"
      PROVE  Cardinality(Busy') = Cardinality(Busy) - 1
  <2>1. Busy' = Busy \ {t} /\ t \in Busy
    BY <1>1, <1>5, ThreadsDiffer DEF Busy
  <2> QED
    BY <2>1, BusyFinite, FS_RemoveElement
<1> QED
  BY <1>2, <1>3, <1>4, <1>5

LEMMA ModelTypes == model \in {"blank", "disk"} => \A m : ModelAfter(m) \in {"blank", "disk"}
BY DEF ModelAfter

(* A thread that goes on, or comes to its end, leaves every variable in its type. *)
LEMMA IdentifyTyped ==
  ASSUME Typed, NEW t \in Threads, IdentifyStep(t)
  PROVE  Typed'
<1> USE WireTypes, ModelTypes DEF Typed, configVars, driverVars, registryVars, lifeVars, threadVars, Labels
<1>1. ASSUME NEW label, NEW m \in {"sat16", "jmicron"}, label \in {"sat16", "registers"},
             model' \in {"blank", "disk"}, UNCHANGED configVars, Try(t, label, m)
      PROVE  Typed'
  BY <1>1 DEF Try, Send, Goto, Modes, ModeNames, WireModes
<1>2. ASSUME model' \in {"blank", "disk"}, UNCHANGED configVars, Identified(t)
      PROVE  Typed'
  BY <1>2 DEF Identified, Send, Goto
<1>3. ASSUME model' \in {"blank", "disk"}, UNCHANGED configVars, NotIdentified(t)
      PROVE  Typed'
  <2>1. modeProperty' \in ModeNames
    BY <1>3 DEF NotIdentified, ModeNames, Modes, WireModes
  <2>2. Leave(t) /\ UNCHANGED <<mode, productProperty>>
    BY <1>3 DEF NotIdentified, Return
  <2>3. /\ pc' \in [Threads -> Labels] /\ sent' \in [Threads -> WireModes]
        /\ autodetect' \in [Threads -> BOOLEAN]
    BY <2>2 DEF Leave, Goto, WireModes
  <2>4. capable' = FALSE /\ capableProperty' = "No"
    BY <1>3 DEF NotIdentified
  <2> QED
    BY <1>3, <2>1, <2>2, <2>3, <2>4 DEF Leave
<1>4. CASE AnswerSAT12(t)
  BY <1>1, <1>2, <1>4 DEF AnswerSAT12, AnswerIdentify
<1>5. CASE AnswerSAT16(t)
  BY <1>1, <1>2, <1>5 DEF AnswerSAT16, AnswerIdentify
<1>6. CASE AnswerJMicron(t)
  BY <1>2, <1>3, <1>6 DEF AnswerJMicron, AnswerIdentify
<1>7. CASE AnswerConfigured(t)
  BY <1>2, <1>3, <1>7 DEF AnswerConfigured, AnswerIdentify
<1>8. CASE AnswerRegisters(t)
  BY <1>2, <1>3, <1>8 DEF AnswerRegisters, Send, Goto
<1>9. CASE AnswerReadData(t)
  BY <1>9 DEF AnswerReadData, Return, Leave, Goto, ModeNames, Modes, WireModes, ReadsData
<1> QED
  BY <1>4, <1>5, <1>6, <1>7, <1>8, <1>9 DEF IdentifyStep
(* The beginning of IdentifyDevice, in any of the modes a string can stand for.  *)
LEMMA IdentifyDeviceTyped ==
  ASSUME Typed, NEW t \in Threads, NEW m \in Modes, IdentifyDevice(t, m)
  PROVE  /\ overlapped' \in BOOLEAN /\ capable' \in BOOLEAN /\ mode' \in Modes \ {"auto"}
         /\ autodetect' \in [Threads -> BOOLEAN]
         /\ pc' \in [Threads -> Labels] /\ sent' \in [Threads -> WireModes]
<1>1. autodetect' \in [Threads -> BOOLEAN] /\ overlapped' \in BOOLEAN /\ capable' \in BOOLEAN
  BY DEF Typed, IdentifyDevice
<1>2. /\ mode' \in Modes \ {"auto"}
      /\ pc' \in [Threads -> Labels] /\ sent' \in [Threads -> WireModes]
  <2>1. CASE m = "auto"
    BY <2>1, WireTypes DEF Typed, IdentifyDevice, Send, Goto, Modes, WireModes, Labels
  <2>2. CASE m # "auto"
    BY <2>2, WireTypes DEF Typed, IdentifyDevice, Send, Goto, Labels
  <2> QED
    BY <2>1, <2>2
<1> QED
  BY <1>1, <1>2

LEMMA FirstModeTypes ==
  ASSUME NEW m, NEW name \in ModeNames
  PROVE  FirstModeProperty(m, name) \in ModeNames
BY DEF FirstModeProperty, ModeNames, Modes, WireModes

(* Every inhabited set of numbers has a least one. *)
LEMMA LeastNumber ==
  ASSUME NEW T, T \subseteq Nat, T # {}
  PROVE  \E n \in T : \A k \in T : n <= k
<1> DEFINE Less == {pair \in Nat \X Nat : pair[1] < pair[2]}
<1>1. IsWellFoundedOn(Less, Nat)
  BY NatLessThanWellFounded DEF OpToRel
<1>2. \A k \in Nat, n \in Nat : k < n => <<k, n>> \in Less
  OBVIOUS
<1> HIDE DEF Less
<1>3. PICK n \in T : \A k \in T : <<k, n>> \notin Less
  BY <1>1, WFMin
<1>4. n \in Nat /\ \A k \in T : k \in Nat /\ ~ (k < n)
  BY <1>2, <1>3, Zenon
<1> QED
  BY <1>4

(* The locals of the loop of probe after each of m entries. *)
Walks(order, f, m) ==
  f = [i \in 0 .. m |-> IF i = 0 THEN Nothing ELSE Look(f[i - 1], order[i])]

(* The walk is a recursive function, and so a choice: there is one to choose. *)
LEMMA WalksExist ==
  ASSUME NEW order, NEW m \in Nat
  PROVE  \E f : Walks(order, f, m)
<1> SUFFICES ASSUME ~ \E f : Walks(order, f, m)
             PROVE  FALSE
  OBVIOUS
<1> DEFINE T == {k \in 0 .. m : ~ \E f : Walks(order, f, k)}
<1>1. T \subseteq Nat /\ T # {}
  OBVIOUS
<1>2. PICK n \in T : \A k \in T : n <= k
  <2> HIDE DEF T
  <2> QED
    BY <1>1, LeastNumber
<1>3. n # 0
  <2>1. Walks(order, [i \in 0 .. 0 |-> Nothing], 0)
    BY DEF Walks
  <2> QED
    BY <2>1
<1>4. PICK f : Walks(order, f, n - 1)
  <2>1. n - 1 \in 0 .. m /\ n - 1 \notin T
    BY <1>2, <1>3
  <2> QED
    BY <2>1
<1> DEFINE g == [i \in 0 .. n |-> IF i < n THEN f[i] ELSE Look(f[n - 1], order[n])]
<1>5. Walks(order, g, n)
  BY <1>3, <1>4 DEF Walks
<1> QED
  BY <1>2, <1>5

LEMMA WalkUnfolds ==
  ASSUME NEW order, Len(order) \in Nat
  PROVE  \E f : Walks(order, f, Len(order)) /\ Walk(order) = f[Len(order)]
<1> DEFINE locals[i \in 0 .. Len(order)] ==
        IF i = 0 THEN Nothing ELSE Look(locals[i - 1], order[i])
<1>1. \E f : Walks(order, f, Len(order))
  BY WalksExist
<1>2. Walks(order, locals, Len(order))
  BY <1>1 DEF Walks
<1>3. Walk(order) = locals[Len(order)]
  BY DEF Walk
<1> QED
  BY <1>2, <1>3

(* What is so of the locals after the entries that S holds: the loop is left at an     *)
(* entry that fits, with its key, and goes on past those that do not, whose keys it   *)
(* leaves in name; UNKNOWN is put by if it was among them.                      *)
Pointers == {<<>>} \cup {<<e>> : e \in Identifiers}

Looked(locals, S) ==
  /\ locals \in [details : Pointers \cup {<<Unknown>>}, name : Pointers,
                 unknown : {<<>>, <<Unknown>>}, found : BOOLEAN]
  /\ locals.found => \E e \in Fitting : locals.details = <<e>> /\ locals.name = <<e>>
  /\ ~locals.found => /\ Fitting \cap S = {}
                      /\ locals.details \in {<<>>, <<Unknown>>}
                      /\ Unknown \in S => locals.unknown = <<Unknown>>

LEMMA LookStep ==
  ASSUME NEW S, NEW locals, Looked(locals, S), NEW e \in Identifiers \cup {Unknown}
  PROVE  Looked(Look(locals, e), S \cup {e})
<1> DEFINE after == Look(locals, e)
<1>1. CASE locals.found
  BY <1>1 DEF Look, Looked
<1>2. CASE ~locals.found /\ e = Unknown
  <2>1. ~Fits(Unknown)
    BY EntriesAssumption DEF Fits
  <2>2. after = [locals EXCEPT !.details = <<e>>, !.unknown = <<e>>]
    BY <1>2 DEF Look
  <2> QED
    BY <1>2, <2>1, <2>2 DEF Looked, Fitting
<1>3. CASE ~locals.found /\ e # Unknown
  <2>1. after = [locals EXCEPT !.details = IF Fits(e) THEN <<e>> ELSE <<>>,
                               !.name = <<e>>, !.found = Fits(e)]
    BY <1>3 DEF Look
  <2>2. Fits(e) \in BOOLEAN
    BY DEF Fits
  <2> QED
    BY <1>3, <2>1, <2>2 DEF Looked, Fitting, Pointers
<1> QED
  BY <1>1, <1>2, <1>3

(* So it is at the end, by induction over the entries looked at.                 *)
LEMMA WalkEnds ==
  ASSUME NEW order \in Orders
  PROVE  Looked(Walk(order), Identifiers \cup {Unknown})
<1> DEFINE All == Identifiers \cup {Unknown}
           n == Len(order)
           Seen(k) == {order[i] : i \in 1 .. k}
<1>1. order \in Seq(All) /\ n \in Nat /\ All = Seen(n)
  BY OrdersAssumption
<1>2. PICK f : Walks(order, f, n) /\ Walk(order) = f[n]
  BY <1>1, WalkUnfolds
<1>3. f[0] = Nothing /\ \A i \in 1 .. n : f[i] = Look(f[i - 1], order[i])
  BY <1>1, <1>2 DEF Walks
<1>4. Looked(f[0], Seen(0))
  BY <1>3 DEF Looked, Nothing, Pointers
<1>5. ASSUME NEW k \in 1 .. n, Looked(f[k - 1], Seen(k - 1))
      PROVE  Looked(f[k], Seen(k))
  <2>1. Seen(k) = Seen(k - 1) \cup {order[k]} /\ order[k] \in All
    BY <1>1
  <2> HIDE DEF Seen
  <2>2. Looked(Look(f[k - 1], order[k]), Seen(k - 1) \cup {order[k]})
    BY <1>5, <2>1, LookStep
  <2> QED
    BY <1>3, <2>1, <2>2
<1> DEFINE Good(k) == Looked(f[k], Seen(k))
           T == {k \in 0 .. n : ~Good(k)}
<1>6. Good(0) /\ \A k \in 1 .. n : Good(k - 1) => Good(k)
  BY <1>4, <1>5
<1> HIDE DEF Good
<1>7. T = {}
  <2> SUFFICES ASSUME T # {} PROVE FALSE
    OBVIOUS
  <2>1. T \subseteq Nat
    BY <1>1
  <2>2. PICK k \in T : \A j \in T : k <= j
    <3> HIDE DEF T
    <3> QED
      BY <2>1, LeastNumber
  <2>3. k \in 1 .. n /\ k - 1 \in 0 .. n
    BY <1>1, <1>6, <2>2
  <2>4. k - 1 \notin T
    BY <1>1, <2>2, <2>3
  <2> QED
    BY <1>6, <2>2, <2>3, <2>4
<1>8. Good(n)
  BY <1>1, <1>7
<1>9. Looked(f[n], Seen(n))
  BY <1>8 DEF Good
<1> HIDE DEF Seen
<1> QED
  BY <1>1, <1>2, <1>9

(* probe takes an entry that fits, with its key, or UNKNOWN if none does.         *)
LEMMA ProbeTakes ==
  ASSUME Probe
  PROVE  \/ \E e \in Fitting : Configure(e) /\ enclosureName' = <<e>>
         \/ Fitting = {} /\ Configure(Unknown) /\ enclosureName' \in Pointers
<1>1. PICK order \in Orders :
        LET locals == Walk(order) IN
        IF locals.details = <<>>
        THEN Configure(locals.unknown[1]) /\ enclosureName' = <<>>
        ELSE Configure(locals.details[1]) /\ enclosureName' = locals.name
  BY DEF Probe
<1> DEFINE locals == Walk(order)
<1>2. Looked(locals, Identifiers \cup {Unknown})
  BY WalkEnds
<1> HIDE DEF locals
<1>3. CASE locals.found
  <2>1. PICK e \in Fitting : locals.details = <<e>> /\ locals.name = <<e>>
    BY <1>2, <1>3 DEF Looked
  <2> QED
    BY <1>1, <2>1 DEF locals
<1>4. CASE ~locals.found
  <2>1. /\ Fitting = {} /\ locals.unknown = <<Unknown>> /\ locals.name \in Pointers
        /\ locals.details \in {<<>>, <<Unknown>>}
    BY <1>2, <1>4 DEF Looked, Fitting
  <2> QED
    BY <1>1, <2>1 DEF locals, Pointers
<1> QED
  BY <1>3, <1>4

(* Every step keeps the types.                                               *)
LEMMA StepTyped == LifeInv /\ [Next]_vars => Typed'
<1> SUFFICES ASSUME LifeInv, [Next]_vars PROVE Typed'
  OBVIOUS
<1> USE ThreadsDiffer
<1>0. Typed
  BY DEF LifeInv, TypeOK, Typed, Labels
<1>1. ASSUME NEW e \in Identifiers \cup {Unknown}, Configure(e)
      PROVE  /\ modeProperty' \in ModeNames /\ permissive' \in BOOLEAN
             /\ delayIdentify' \in BOOLEAN
  BY <1>1, SettingTypes DEF Configure
<1>2. CASE Probe
  <2>1. /\ modeProperty' \in ModeNames /\ permissive' \in BOOLEAN /\ delayIdentify' \in BOOLEAN
        /\ enclosureName' \in {<<>>} \cup {<<e>> : e \in Identifiers}
    BY <1>1, <1>2, ProbeTakes DEF Fitting, Pointers
  <2> QED
    BY <1>0, <1>2, <2>1 DEF Typed, Probe, driverVars, threadVars
<1>3. CASE PassedOver
  BY <1>0, <1>3 DEF Typed, PassedOver, configVars, driverVars, registryVars, threadVars
<1>4. CASE Start
  <2>1. mode' \in Modes /\ capable' \in BOOLEAN /\ life' \in {"failed", "started"}
    BY <1>0, <1>4, ParseTypes DEF Typed, Start
  <2>2. poll' \in {poll, "entered"}
    BY <1>4 DEF Start
  <2>3. UNCHANGED <<configVars, registryVars, model, threadVars, overlapped>>
    BY <1>4 DEF Start
  <2> QED
    BY <1>0, <2>1, <2>2, <2>3 DEF Typed, configVars, registryVars, threadVars
<1>5. CASE StartAndIdentify
  <2>1. /\ overlapped' \in BOOLEAN /\ capable' \in BOOLEAN /\ mode' \in Modes \ {"auto"}
        /\ autodetect' \in [Threads -> BOOLEAN]
        /\ pc' \in [Threads -> Labels] /\ sent' \in [Threads -> WireModes]
    BY <1>0, <1>5, ParseTypes, IdentifyDeviceTyped DEF Typed, StartAndIdentify
  <2>2. modeProperty' \in ModeNames
    BY <1>0, <1>5, FirstModeTypes DEF Typed, StartAndIdentify
  <2> QED
    BY <1>0, <1>5, <2>1, <2>2 DEF Typed, StartAndIdentify, configVars
<1>6. CASE ProcessPoll
  <2>1. /\ overlapped' \in BOOLEAN /\ capable' \in BOOLEAN /\ mode' \in Modes \ {"auto"}
        /\ autodetect' \in [Threads -> BOOLEAN]
        /\ pc' \in [Threads -> Labels] /\ sent' \in [Threads -> WireModes]
    BY <1>0, <1>6, IdentifyDeviceTyped DEF Typed, ProcessPoll
  <2>2. modeProperty' \in ModeNames
    BY <1>0, <1>6, FirstModeTypes DEF Typed, ProcessPoll
  <2> QED
    BY <1>0, <1>6, <2>1, <2>2 DEF Typed, ProcessPoll, configVars
<1>7. CASE Stop
  BY <1>0, <1>7 DEF Typed, Stop, configVars, driverVars, registryVars, threadVars
<1>8. CASE Detach
  BY <1>0, <1>8 DEF Typed, Detach, configVars, driverVars, registryVars, threadVars
<1>9. ASSUME NEW t \in Threads, IdentifyStep(t) PROVE Typed'
  BY <1>0, <1>9, IdentifyTyped
<1>10. ASSUME NEW s \in Setters, NEW name \in ModeNames, SetProperties(s, name)
       PROVE  Typed'
  <2>1. CASE name # "none" /\ Parse(name) # mode
    <3>1. /\ IdentifyDevice(s, Parse(name)) /\ modeProperty' = FirstModeProperty(Parse(name), name)
      BY <1>10, <2>1 DEF SetProperties
    <3>2. /\ overlapped' \in BOOLEAN /\ capable' \in BOOLEAN /\ mode' \in Modes \ {"auto"}
          /\ autodetect' \in [Threads -> BOOLEAN]
          /\ pc' \in [Threads -> Labels] /\ sent' \in [Threads -> WireModes]
      BY <1>0, <3>1, ParseTypes, IdentifyDeviceTyped
    <3>3. modeProperty' \in ModeNames
      BY <3>1, FirstModeTypes
    <3> QED
      BY <1>0, <1>10, <3>2, <3>3 DEF Typed, SetProperties
  <2>2. CASE ~(name # "none" /\ Parse(name) # mode)
    <3>1. /\ mode' = Parse(name) /\ modeProperty' = name /\ capable' = ParsedCapable(name, TRUE)
          /\ overlapped' = (overlapped \/ ~Quiet) /\ UNCHANGED threadVars
      BY <1>10, <2>2 DEF SetProperties
    <3>2. mode' \in Modes /\ capable' \in BOOLEAN /\ overlapped' \in BOOLEAN
      BY <1>0, <3>1, ParseTypes DEF Typed
    <3> QED
      BY <1>0, <1>10, <3>1, <3>2 DEF Typed, SetProperties, threadVars
  <2> QED
    BY <2>1, <2>2
<1>11. CASE UNCHANGED vars
  BY <1>0, <1>11 DEF Typed, vars, configVars, driverVars, registryVars, lifeVars, threadVars
<1> QED
  BY <1>2, <1>3, <1>4, <1>5, <1>6, <1>7, <1>8, <1>9, <1>10, <1>11 DEF Next
\* A thread that sends its next command.
GoesOn(t) ==
  /\ \E label \in Labels \ {"idle"} : Goto(t, label)
  /\ UNCHANGED lifeVars

(* A step of an identification goes on to the next command or comes to the end.   *)
LEMMA GoesOnOrReturns ==
  ASSUME NEW t, IdentifyStep(t)
  PROVE  pc[t] # "idle" /\ (GoesOn(t) \/ Return(t))
<1>1. ASSUME NEW label \in Labels \ {"idle"}, NEW m, Send(t, label, m), UNCHANGED lifeVars
      PROVE  GoesOn(t)
  BY <1>1 DEF Send, GoesOn
<1>2. Identified(t) => GoesOn(t)
  BY <1>1 DEF Identified, Labels
<1>3. ASSUME NEW label \in Labels \ {"idle"}, NEW m PROVE Try(t, label, m) => GoesOn(t)
  BY <1>1, <1>3 DEF Try
<1>4. NotIdentified(t) => Return(t)
  BY DEF NotIdentified
<1>5. CASE AnswerSAT12(t)
  BY <1>2, <1>3, <1>5 DEF AnswerSAT12, AnswerIdentify, Labels
<1>6. CASE AnswerSAT16(t)
  BY <1>2, <1>3, <1>6 DEF AnswerSAT16, AnswerIdentify, Labels
<1>7. CASE AnswerJMicron(t)
  BY <1>2, <1>4, <1>7 DEF AnswerJMicron, AnswerIdentify
<1>8. CASE AnswerConfigured(t)
  BY <1>2, <1>4, <1>8 DEF AnswerConfigured, AnswerIdentify
<1>9. CASE AnswerRegisters(t)
  BY <1>1, <1>2, <1>4, <1>9 DEF AnswerRegisters, Labels
<1>10. CASE AnswerReadData(t)
  BY <1>10 DEF AnswerReadData
<1> QED
  BY <1>5, <1>6, <1>7, <1>8, <1>9, <1>10 DEF IdentifyStep

(* The beginning of one is under the label of its first command.                 *)
LEMMA Begins ==
  ASSUME NEW t, NEW m, IdentifyDevice(t, m)
  PROVE  \E label \in Labels \ {"idle"} : Goto(t, label)
BY DEF IdentifyDevice, Send, Labels

LEMMA StepOrderly == LifeInv /\ [Next]_vars => Orderly' /\ Counted'
<1> SUFFICES ASSUME LifeInv, [Next]_vars PROVE Orderly' /\ Counted'
  OBVIOUS
<1> USE ThreadsDiffer
<1>0. /\ pc \in [Threads -> Labels] /\ references \in Nat /\ Counted /\ Orderly
      /\ IsFiniteSet(Busy) /\ Cardinality(Busy) \in Nat
  BY BusyFinite DEF LifeInv, TypeOK, Labels
<1>1. ASSUME UNCHANGED pc PROVE Quiet' = Quiet /\ Busy' = Busy
  BY <1>1 DEF Quiet, Busy
<1>2. ASSUME NEW t \in Threads, NEW label \in Labels, Goto(t, label)
      PROVE  /\ \A u \in Threads : pc'[u] = IF u = t THEN label ELSE pc[u]
             /\ label # "idle" => ~Quiet'
  BY <1>0, <1>2 DEF Goto, Quiet
<1>3. CASE Probe \/ PassedOver \/ Stop \/ Detach \/ Start \/ UNCHANGED vars
  <2>1. UNCHANGED pc
    BY <1>3 DEF Probe, PassedOver, Stop, Detach, Start, vars, threadVars
  <2>2. Orderly'
    BY <1>0, <1>1, <1>3, <2>1
       DEF Orderly, Probe, PassedOver, Stop, Detach, Start, vars, lifeVars
  <2>3. Counted'
    BY <1>0, <1>1, <1>3, <2>1
       DEF Orderly, Counted, Probe, PassedOver, Stop, Detach, Start, vars, lifeVars
  <2> QED
    BY <2>2, <2>3
<1>4. CASE StartAndIdentify
  <2>1. PICK label \in Labels \ {"idle"} : Goto("start", label)
    BY <1>4, Begins DEF StartAndIdentify
  <2>2. Busy' = Busy /\ pc'["poll"] = pc["poll"]
    BY <1>0, <1>2, <2>1, BusyCounts
  <2>3. life = "attached" /\ life' = "started" /\ UNCHANGED <<poll, references>>
    BY <1>4 DEF StartAndIdentify
  <2> QED
    BY <1>0, <2>2, <2>3 DEF Orderly, Counted
<1>5. CASE ProcessPoll
  <2>1. PICK label \in Labels \ {"idle"} : Goto("poll", label)
    BY <1>5, Begins DEF ProcessPoll
  <2>2. Busy' = Busy /\ pc'["poll"] # "idle" /\ pc'["start"] = pc["start"]
    BY <1>0, <1>2, <2>1, BusyCounts
  <2>3. poll = "entered" /\ poll' = "running" /\ UNCHANGED <<life, references>>
    BY <1>5 DEF ProcessPoll
  <2> QED
    BY <1>0, <2>2, <2>3 DEF Orderly, Counted
<1>6. ASSUME NEW t \in Threads, IdentifyStep(t) PROVE Orderly' /\ Counted'
  <2>1. pc[t] # "idle" /\ life \notin {"matched", "attached", "failed"}
    BY <1>0, <1>6, GoesOnOrReturns DEF Orderly, Quiet
  <2>2. CASE GoesOn(t)
    <3>1. PICK label \in Labels \ {"idle"} : Goto(t, label)
      BY <2>2 DEF GoesOn
    <3>2. Busy' = Busy /\ (pc'["poll"] = "idle" <=> pc["poll"] = "idle")
                      /\ (pc'["start"] = "idle" <=> pc["start"] = "idle")
      BY <1>0, <1>2, <2>1, <3>1, BusyCounts
    <3>3. UNCHANGED <<life, poll, references>>
      BY <2>2 DEF GoesOn, lifeVars
    <3> QED
      BY <1>0, <2>1, <3>2, <3>3 DEF Orderly, Counted
  <2>3. CASE Return(t)
    <3>1. Goto(t, "idle") /\ life' = life /\ poll' = (IF t = "poll" THEN "done" ELSE poll)
      BY <2>3 DEF Return, Leave
    <3>2. /\ t \notin Setters => Busy' = Busy
          /\ t \in Setters => Cardinality(Busy') = Cardinality(Busy) - 1
      BY <1>0, <2>1, <3>1, BusyCounts
    <3>3. \A u \in Threads : pc'[u] = IF u = t THEN "idle" ELSE pc[u]
      BY <1>0, <1>2, <3>1 DEF Labels
    <3>4. Orderly'
      BY <1>0, <2>1, <3>1, <3>3 DEF Orderly
    <3>5. references' = IF t = "start" THEN references ELSE references - 1
      BY <2>3 DEF Return
    <3>6. CASE t = "start"
      <4>1. Busy' = Busy /\ UNCHANGED <<life, poll, references>>
        BY <3>1, <3>2, <3>5, <3>6
      <4> QED
        BY <1>0, <3>4, <4>1 DEF Counted
    <3>7. CASE t = "poll"
      <4>1. /\ Busy' = Busy /\ life' = life /\ references' = references - 1
            /\ poll = "running" /\ poll' = "done"
        BY <1>0, <2>1, <3>1, <3>2, <3>5, <3>7 DEF Orderly
      <4> QED
        BY <1>0, <3>4, <4>1 DEF Counted
    <3>8. CASE t \in Setters
      <4>1. /\ Cardinality(Busy') = Cardinality(Busy) - 1 /\ references' = references - 1
            /\ UNCHANGED <<life, poll>>
        BY <3>1, <3>2, <3>5, <3>8
      <4> QED
        BY <1>0, <3>4, <4>1 DEF Counted
    <3> QED
      BY <3>4, <3>6, <3>7, <3>8 DEF Threads
  <2> QED
    BY <1>6, <2>2, <2>3, GoesOnOrReturns
<1>7. ASSUME NEW s \in Setters, NEW name \in ModeNames, SetProperties(s, name)
      PROVE  Orderly' /\ Counted'
  <2>1. life = "started" /\ pc[s] = "idle" /\ UNCHANGED <<life, poll>>
    BY <1>7 DEF SetProperties
  <2>2. CASE name # "none" /\ Parse(name) # mode
    <3>1. IdentifyDevice(s, Parse(name)) /\ references' = references + 1
      BY <1>7, <2>2 DEF SetProperties
    <3>2. PICK label \in Labels \ {"idle"} : Goto(s, label)
      BY <3>1, Begins
    <3>3. /\ Cardinality(Busy') = Cardinality(Busy) + 1
          /\ pc'["poll"] = pc["poll"] /\ pc'["start"] = pc["start"]
      BY <1>0, <1>2, <2>1, <3>2, BusyCounts
    <3> QED
      BY <1>0, <2>1, <3>1, <3>3 DEF Orderly, Counted
  <2>3. CASE ~(name # "none" /\ Parse(name) # mode)
    <3>1. UNCHANGED <<references, pc>>
      BY <1>7, <2>3 DEF SetProperties, threadVars
    <3> QED
      BY <1>0, <1>1, <2>1, <3>1 DEF Orderly, Counted
  <2> QED
    BY <2>2, <2>3
<1> QED
  BY <1>3, <1>4, <1>5, <1>6, <1>7 DEF Next

LEMMA LifeInitially == Init => LifeInv
<1> SUFFICES ASSUME Init PROVE LifeInv
  OBVIOUS
<1>1. Cardinality(Busy) = 0
  <2>1. Busy = {}
    BY ThreadsDiffer DEF Init, Busy
  <2> QED
    BY <2>1, FS_EmptySet, Zenon
<1>2. /\ permissive \in BOOLEAN /\ delayIdentify \in BOOLEAN /\ modeProperty \in ModeNames
  BY EntriesAssumption DEF Init
<1>3. /\ pc \in [Threads -> {"idle"}] /\ sent \in [Threads -> {"sat12"}]
      /\ autodetect \in [Threads -> BOOLEAN] /\ mode = "none"
  BY DEF Init
<1>4. TypeOK
  BY <1>2, <1>3 DEF Init, TypeOK, Modes, WireModes
<1>5. Counted
  BY <1>1 DEF Init, Counted
<1>6. Orderly
  BY <1>3, ThreadsDiffer DEF Init, Orderly, Quiet
<1> QED
  BY <1>4, <1>5, <1>6 DEF LifeInv

LEMMA LifeStep == LifeInv /\ [Next]_vars => LifeInv'
<1> SUFFICES ASSUME LifeInv, [Next]_vars PROVE LifeInv'
  OBVIOUS
<1>1. Typed' /\ Orderly' /\ Counted'
  BY StepTyped, StepOrderly
<1>2. Cardinality(Busy') \in Nat
  BY SettersAssumption, FS_Subset, FS_CardinalityType DEF Busy
<1>3. references' \in Nat
  <2> DEFINE a == IF life' = "detached" THEN 0 ELSE 1
             b == IF poll' \in {"entered", "running"} THEN 1 ELSE 0
  <2>1. references' = a + b + Cardinality(Busy') /\ a \in Nat /\ b \in Nat
    BY <1>1 DEF Counted
  <2> HIDE DEF a, b
  <2> QED
    BY <1>2, <2>1
<1> QED
  BY <1>1, <1>3 DEF LifeInv, Typed, TypeOK, Labels

LEMMA LifeInvariant == Spec => []LifeInv
<1> QED
  BY LifeInitially, LifeStep, PTL DEF Spec
-------------------------------------------------------------------------------
(* Every variable of the driver keeps its type, and the count of its references   *)
(* never falls below zero.                                                   *)
THEOREM DriverTypeCorrect == Spec => []TypeOK
<1>1. LifeInv => TypeOK
  BY DEF LifeInv
<1> QED
  BY <1>1, LifeInvariant, PTL

(* The references of the driver are exact with any number of processes inside      *)
(* setProperties, and the thread call never runs in a driver that is freed.       *)
THEOREM DriverReferencesExact == Spec => []ReferencesExact
<1>1. LifeInv => ReferencesExact
  <2> SUFFICES ASSUME LifeInv PROVE ReferencesExact
    OBVIOUS
  <2>1. Cardinality(Busy) \in Nat /\ Counted /\ Orderly
    BY BusyFinite DEF LifeInv
  <2> QED
    BY <2>1 DEF ReferencesExact, Busy, Counted, Orderly
<1> QED
  BY <1>1, LifeInvariant, PTL
-------------------------------------------------------------------------------
(* Thread t is in the automatic detection: the registry has the mode it is at,    *)
(* the modes before it do not work, and the one it stays with is the first that    *)
(* does.                                                                     *)
Detecting(t) ==
  /\ modeProperty = mode /\ sent[t] = mode
  /\ \/ pc[t] = "sat12" /\ mode = "sat12"
     \/ pc[t] = "sat16" /\ mode = "sat16" /\ ~Works(1)
     \/ pc[t] \in {"registers", "jmicron"} /\ mode = "jmicron" /\ ~Works(1) /\ ~Works(2)
     \/ /\ pc[t] = "readData" /\ mode \in {"sat12", "sat16", "jmicron"}
        /\ (\E i \in 1 .. 3 : Works(i)) => mode = FirstWorking /\ model = "disk"

\* The registry has the mode, or a disk that will not be taken as capable in it.
Agreed == modeProperty = mode \/ ~(Identifies(Wire(mode)) /\ ReadsData(Wire(mode)))

(* Thread t tries the one mode it was given.                                  *)
Trying(t) ==
  /\ sent[t] = Wire(mode)
  /\ \/ pc[t] = "identify" /\ Agreed
     \/ pc[t] = "readData" /\ (modeProperty = mode \/ ~ReadsData(Wire(mode)))

\* What one identification at a time makes of the mode and the registry.
Published ==
  /\ \A t \in Threads : pc[t] # "idle" =>
       /\ \A u \in Threads : pc[u] # "idle" => u = t
       /\ autodetect[t] => Detecting(t)
       /\ ~autodetect[t] => Trying(t)
  /\ Quiet /\ poll = "entered" /\ mode # "auto" => Agreed

\* "auto" ends with the first identification, before anything is published.
NoAuto ==
  /\ life \in {"matched", "attached"} => capableProperty = "absent"
  /\ capableProperty # "absent" => mode # "auto"
  /\ \A t \in Threads : pc[t] # "idle" => mode # "auto"

RegistryInv ==
  /\ NoAuto
  /\ ~overlapped => Published
  /\ ModeAgrees
  /\ CapablePropertyTrue
-------------------------------------------------------------------------------
LEMMA IdentifiesMeans ==
  ASSUME TypeOK
  PROVE  /\ \A m : Identifies(m) <=> m \in enclosure.modes /\ enclosure.identify = "data"
         /\ \A m : Identifies(m) => ModelAfter(m) = "disk"
         /\ \A i \in 1 .. 3 : Works(i) <=> Identifies(Tried[i])
<1>1. enclosure \in EnclosureKinds
  BY EnclosuresAssumption DEF TypeOK
<1>2. enclosure.rejects # "data"
  BY <1>1 DEF EnclosureKinds
<1> QED
  BY <1>2 DEF Identifies, Answer, ModelAfter, Works

(* The first that works is the one before which none does.                       *)
LEMMA FirstIs ==
  ASSUME NEW k \in 1 .. 3, Works(k), \A j \in 1 .. k - 1 : ~Works(j)
  PROVE  FirstWorking = Tried[k]
<1> DEFINE P(i) == Works(i) /\ \A j \in 1 .. i - 1 : ~Works(j)
           first == CHOOSE i \in 1 .. 3 : P(i)
<1>1. k \in 1 .. 3 /\ P(k)
  OBVIOUS
<1>2. first \in 1 .. 3 /\ P(first)
  <2> HIDE DEF P
  <2> QED
    BY <1>1
<1>3. first = k
  <2> HIDE DEF first
  <2>1. ~(first < k) /\ ~(k < first)
    BY <1>1, <1>2
  <2> QED
    BY <1>1, <1>2, <2>1
<1> QED
  BY <1>3 DEF FirstWorking

LEMMA SameDisk ==
  ASSUME enclosure' = enclosure
  PROVE  FirstWorking' = FirstWorking /\ \A i \in 1 .. 3 : Works(i)' <=> Works(i)
BY DEF FirstWorking, Works

LEMMA WireTried == \A m \in {"sat12", "sat16", "jmicron"} : Wire(m) = m
BY DEF Wire
(* How an identification ends: with a verdict in the registry, which is on the     *)
(* mode the driver is left in if it is a good one.                             *)
Concludes ==
  /\ capableProperty' = (IF capable' THEN "Yes" ELSE "No")
  /\ capable' => modeProperty' = mode'
  /\ Agreed'

(* Where a thread goes when the disk was identified in the mode it is at.         *)
LEMMA Found ==
  ASSUME LifeInv, NEW t \in Threads, Identified(t)
  PROVE  /\ pc'[t] = "readData" /\ sent'[t] = Wire(mode) /\ mode' = mode
         /\ modeProperty' = modeProperty /\ autodetect'[t] = autodetect[t]
BY DEF LifeInv, TypeOK, Identified, Send, Goto

(* When it has to try the next one.                                          *)
LEMMA Goes ==
  ASSUME LifeInv, NEW t \in Threads, NEW label, NEW m \in {"sat16", "jmicron"}, Try(t, label, m)
  PROVE  /\ pc'[t] = label /\ sent'[t] = m /\ mode' = m
         /\ modeProperty' = m /\ autodetect'[t] = autodetect[t]
BY WireTried DEF LifeInv, TypeOK, Try, Send, Goto

(* And when there is no disk in the last.                                     *)
LEMMA GivesUp ==
  ASSUME LifeInv, NEW t \in Threads, NotIdentified(t), enclosure' = enclosure,
         ~Identifies(Wire(mode))
  PROVE  pc'[t] = "idle" /\ Concludes
<1>1. pc'[t] = "idle"
  BY DEF LifeInv, TypeOK, NotIdentified, Return, Leave, Goto
<1>2. capable' = FALSE /\ capableProperty' = "No" /\ mode' = mode
  BY DEF NotIdentified
<1> QED
  BY <1>1, <1>2 DEF Concludes, Agreed, Identifies, Answer

(* READ DATA tells, in the mode it was sent in.                                *)
LEMMA Tells ==
  ASSUME LifeInv, NEW t \in Threads, AnswerReadData(t), sent[t] = Wire(mode),
         modeProperty = mode \/ ~ReadsData(Wire(mode))
  PROVE  pc'[t] = "idle" /\ Concludes /\ UNCHANGED <<mode, model>>
<1>1. pc'[t] = "idle"
  BY DEF LifeInv, TypeOK, AnswerReadData, Return, Leave, Goto
<1>2. /\ capable' = ReadsData(Wire(mode)) /\ UNCHANGED <<mode, model, enclosure, permissive>>
      /\ capableProperty' = (IF capable' THEN "Yes" ELSE "No")
      /\ capable' => modeProperty' = modeProperty
  BY DEF AnswerReadData, configVars
<1>3. Agreed' <=> modeProperty' = mode' \/ ~(Identifies(Wire(mode)) /\ ReadsData(Wire(mode)))
  BY <1>2 DEF Agreed, Identifies, ReadsData, Answer
<1> QED
  BY <1>1, <1>2, <1>3 DEF Concludes

(* A step of the automatic detection.                                        *)
LEMMA DetectingStep ==
  ASSUME LifeInv, NEW t \in Threads, Detecting(t), IdentifyStep(t)
  PROVE  \/ pc'[t] # "idle" /\ autodetect'[t] = autodetect[t] /\ Detecting(t)'
         \/ /\ pc'[t] = "idle" /\ Concludes
            /\ (\E i \in 1 .. 3 : Works(i)) => mode' = FirstWorking /\ model' = "disk"
<1>0. /\ \A m : Identifies(m) <=> m \in enclosure.modes /\ enclosure.identify = "data"
      /\ \A m : Identifies(m) => ModelAfter(m) = "disk"
      /\ Works(1) <=> Identifies("sat12")
      /\ Works(2) <=> Identifies("sat16")
      /\ Works(3) <=> Identifies("jmicron")
      /\ Works(1) => FirstWorking = "sat12"
      /\ ~Works(1) /\ Works(2) => FirstWorking = "sat16"
      /\ ~Works(1) /\ ~Works(2) /\ Works(3) => FirstWorking = "jmicron"
      /\ (\E i \in 1 .. 3 : Works(i)) <=> Works(1) \/ Works(2) \/ Works(3)
  <2>1. /\ \A m : Identifies(m) <=> m \in enclosure.modes /\ enclosure.identify = "data"
        /\ \A m : Identifies(m) => ModelAfter(m) = "disk"
        /\ \A i \in 1 .. 3 : Works(i) <=> Identifies(Tried[i])
    BY IdentifiesMeans DEF LifeInv
  <2>2. Tried[1] = "sat12" /\ Tried[2] = "sat16" /\ Tried[3] = "jmicron"
    BY DEF Tried
  <2>3. Works(1) => FirstWorking = Tried[1]
    BY FirstIs
  <2>4. ~Works(1) /\ Works(2) => FirstWorking = Tried[2]
    <3>1. \A j \in 1 .. 2 - 1 : j = 1
      OBVIOUS
    <3> QED
      BY <3>1, FirstIs
  <2>5. ~Works(1) /\ ~Works(2) /\ Works(3) => FirstWorking = Tried[3]
    <3>1. \A j \in 1 .. 3 - 1 : j = 1 \/ j = 2
      OBVIOUS
    <3> QED
      BY <3>1, FirstIs
  <2>6. \A i \in 1 .. 3 : i = 1 \/ i = 2 \/ i = 3
    OBVIOUS
  <2> QED
    BY <2>1, <2>2, <2>3, <2>4, <2>5, <2>6
<1>1. enclosure' = enclosure
  BY DEF IdentifyStep, AnswerSAT12, AnswerSAT16, AnswerRegisters, AnswerJMicron, AnswerConfigured,
         AnswerReadData, AnswerIdentify, configVars
<1>2. /\ Works(1)' <=> Works(1)
      /\ Works(2)' <=> Works(2)
      /\ Works(3)' <=> Works(3)
      /\ (\E i \in 1 .. 3 : Works(i))' <=> (\E i \in 1 .. 3 : Works(i))
      /\ FirstWorking' = FirstWorking
  BY <1>1, SameDisk
<1>3. modeProperty = mode /\ sent[t] = mode
  BY DEF Detecting
<1>4. CASE AnswerSAT12(t)
  <2>1. pc[t] = "sat12" /\ mode = "sat12" /\ model' = ModelAfter("sat12")
    BY <1>3, <1>4 DEF Detecting, AnswerSAT12, AnswerIdentify
  <2>2. CASE Identifies("sat12")
    <3>1. Identified(t)
      BY <1>3, <1>4, <2>1, <2>2 DEF AnswerSAT12, AnswerIdentify
    <3> QED
      BY <1>0, <1>2, <1>3, <2>1, <2>2, <3>1, Found, WireTried DEF Detecting
  <2>3. CASE ~Identifies("sat12")
    <3>1. Try(t, "sat16", "sat16")
      BY <1>3, <1>4, <2>1, <2>3 DEF AnswerSAT12, AnswerIdentify
    <3> QED
      BY <1>0, <1>2, <2>3, <3>1, Goes DEF Detecting
  <2> QED
    BY <2>2, <2>3
<1>5. CASE AnswerSAT16(t)
  <2>1. pc[t] = "sat16" /\ mode = "sat16" /\ model' = ModelAfter("sat16") /\ ~Works(1)
    BY <1>3, <1>5 DEF Detecting, AnswerSAT16, AnswerIdentify
  <2>2. CASE Identifies("sat16")
    <3>1. Identified(t)
      BY <1>3, <1>5, <2>1, <2>2 DEF AnswerSAT16, AnswerIdentify
    <3> QED
      BY <1>0, <1>2, <1>3, <2>1, <2>2, <3>1, Found, WireTried DEF Detecting
  <2>3. CASE ~Identifies("sat16")
    <3>1. Try(t, "registers", "jmicron")
      BY <1>3, <1>5, <2>1, <2>3 DEF AnswerSAT16, AnswerIdentify
    <3> QED
      BY <1>0, <1>2, <2>1, <2>3, <3>1, Goes DEF Detecting
  <2> QED
    BY <2>2, <2>3
<1>6. CASE AnswerRegisters(t)
  <2>1. pc[t] = "registers" /\ mode = "jmicron" /\ ~Works(1) /\ ~Works(2)
    BY <1>3, <1>6 DEF Detecting, AnswerRegisters
  <2>2. CASE Send(t, "jmicron", mode) /\ UNCHANGED <<driverVars, registryVars, autodetect>>
    <3>1. /\ pc'[t] = "jmicron" /\ sent'[t] = mode /\ autodetect'[t] = autodetect[t]
          /\ mode' = mode /\ modeProperty' = modeProperty
      BY <2>1, <2>2, WireTried DEF Send, Goto, LifeInv, TypeOK, driverVars, registryVars
    <3> QED
      BY <1>2, <1>3, <2>1, <3>1 DEF Detecting
  <2>3. CASE "jmicron" \notin enclosure.modes /\ (Identified(t) \/ NotIdentified(t))
    <3>1. ~Identifies("jmicron") /\ ~Works(3)
      BY <1>0, <2>3
    <3>2. Identified(t) => pc'[t] # "idle" /\ autodetect'[t] = autodetect[t] /\ Detecting(t)'
      BY <1>0, <1>2, <1>3, <2>1, <3>1, Found, WireTried DEF Detecting
    <3>3. NotIdentified(t) => pc'[t] = "idle" /\ Concludes
      BY <1>1, <2>1, <3>1, GivesUp, WireTried
    <3> QED
      BY <1>0, <2>1, <2>3, <3>1, <3>2, <3>3
  <2> QED
    BY <1>6, <2>2, <2>3 DEF AnswerRegisters
<1>7. CASE AnswerJMicron(t)
  <2>1. /\ pc[t] = "jmicron" /\ mode = "jmicron" /\ model' = ModelAfter("jmicron")
        /\ ~Works(1) /\ ~Works(2)
    BY <1>3, <1>7 DEF Detecting, AnswerJMicron, AnswerIdentify
  <2>2. CASE Identifies("jmicron")
    <3>1. Identified(t)
      BY <1>3, <1>7, <2>1, <2>2 DEF AnswerJMicron, AnswerIdentify
    <3> QED
      BY <1>0, <1>2, <1>3, <2>1, <2>2, <3>1, Found, WireTried DEF Detecting
  <2>3. CASE ~Identifies("jmicron")
    <3>1. NotIdentified(t)
      BY <1>3, <1>7, <2>1, <2>3 DEF AnswerJMicron, AnswerIdentify
    <3> QED
      BY <1>0, <1>1, <2>1, <2>3, <3>1, GivesUp, WireTried
  <2> QED
    BY <2>2, <2>3
<1>8. CASE AnswerConfigured(t)
  BY <1>8 DEF AnswerConfigured, AnswerIdentify, Detecting
<1>9. CASE AnswerReadData(t)
  <2>1. /\ pc[t] = "readData" /\ mode \in {"sat12", "sat16", "jmicron"}
        /\ (\E i \in 1 .. 3 : Works(i)) => mode = FirstWorking /\ model = "disk"
    BY <1>9 DEF AnswerReadData, Detecting
  <2>2. sent[t] = Wire(mode)
    BY <1>3, <2>1, WireTried
  <2> QED
    BY <1>3, <1>9, <2>1, <2>2, Tells
<1> QED
  BY <1>4, <1>5, <1>6, <1>7, <1>8, <1>9 DEF IdentifyStep

(* A step of the identification in a mode that was given.                       *)
LEMMA TryingStep ==
  ASSUME LifeInv, NEW t \in Threads, Trying(t), IdentifyStep(t)
  PROVE  \/ pc'[t] # "idle" /\ autodetect'[t] = autodetect[t] /\ Trying(t)'
         \/ pc'[t] = "idle" /\ Concludes
<1>1. pc[t] \in {"identify", "readData"} /\ sent[t] = Wire(mode)
  BY DEF Trying
<1>2. CASE AnswerConfigured(t)
  <2>1. pc[t] = "identify" /\ Agreed /\ UNCHANGED <<enclosure, permissive>>
    BY <1>2 DEF Trying, AnswerConfigured, AnswerIdentify, configVars
  <2>2. CASE Identifies(Wire(mode))
    <3>1. Identified(t)
      BY <1>1, <1>2, <2>2 DEF AnswerConfigured, AnswerIdentify
    <3>2. modeProperty = mode \/ ~ReadsData(Wire(mode))
      BY <2>1, <2>2 DEF Agreed
    <3>3. /\ pc'[t] = "readData" /\ sent'[t] = Wire(mode) /\ mode' = mode
          /\ modeProperty' = modeProperty /\ autodetect'[t] = autodetect[t]
      BY <3>1, Found
    <3>4. modeProperty' = mode' \/ ~ReadsData(Wire(mode))'
      BY <2>1, <3>2, <3>3 DEF ReadsData, Answer
    <3>5. sent'[t] = Wire(mode)'
      BY <3>3 DEF Wire
    <3> QED
      BY <3>3, <3>4, <3>5 DEF Trying
  <2>3. CASE ~Identifies(Wire(mode))
    <3>1. NotIdentified(t)
      BY <1>1, <1>2, <2>3 DEF AnswerConfigured, AnswerIdentify
    <3> QED
      BY <2>1, <2>3, <3>1, GivesUp
  <2> QED
    BY <2>2, <2>3
<1>3. CASE AnswerReadData(t)
  BY <1>1, <1>3, Tells DEF Trying, AnswerReadData
<1> QED
  BY <1>1, <1>2, <1>3 DEF IdentifyStep, AnswerSAT12, AnswerSAT16, AnswerRegisters, AnswerJMicron,
                          AnswerIdentify
LEMMA IdentifyPublishes ==
  ASSUME LifeInv, RegistryInv, NEW t \in Threads, IdentifyStep(t)
  PROVE  RegistryInv'
<1>1. /\ pc \in [Threads -> Labels] /\ pc[t] # "idle" /\ mode # "auto"
      /\ life \notin {"matched", "attached", "failed"}
  BY GoesOnOrReturns DEF LifeInv, TypeOK, Labels, Orderly, Quiet, RegistryInv, NoAuto
<1>2. /\ \A u \in Threads : u # t => pc'[u] = pc[u]
      /\ life' = life
  BY <1>1, GoesOnOrReturns DEF GoesOn, Return, Leave, Goto, lifeVars
<1>3. mode' \in {mode, "sat16", "jmicron"} /\ overlapped' = overlapped
  <2>1. Identified(t) \/ NotIdentified(t) => mode' = mode /\ overlapped' = overlapped
    BY DEF Identified, NotIdentified, Return, Leave
  <2>2. \A label : /\ Try(t, label, "sat16") => mode' = "sat16" /\ overlapped' = overlapped
                   /\ Try(t, label, "jmicron") => mode' = "jmicron" /\ overlapped' = overlapped
    BY DEF Try
  <2> QED
    BY <2>1, <2>2 DEF IdentifyStep, AnswerSAT12, AnswerSAT16, AnswerRegisters, AnswerJMicron,
         AnswerConfigured, AnswerReadData, AnswerIdentify, Return, Leave, driverVars
<1>4. NoAuto'
  BY <1>1, <1>2, <1>3 DEF NoAuto
<1>5. CASE overlapped
  BY <1>3, <1>4, <1>5 DEF RegistryInv, ModeAgrees, CapablePropertyTrue
<1>6. CASE ~overlapped
  <2>1. /\ autodetect[t] => Detecting(t)
        /\ ~autodetect[t] => Trying(t)
        /\ \A u \in Threads : u # t => pc'[u] = "idle"
    BY <1>1, <1>2, <1>6 DEF RegistryInv, Published
  <2>2. CASE /\ pc'[t] # "idle"
             /\ autodetect'[t] => Detecting(t)'
             /\ ~autodetect'[t] => Trying(t)'
    <3>1. ~Quiet'
      BY <2>2 DEF Quiet
    <3>2. Published'
      BY <2>1, <2>2, <3>1 DEF Published
    <3> QED
      BY <1>4, <3>1, <3>2 DEF RegistryInv, ModeAgrees, CapablePropertyTrue
  <2>3. CASE pc'[t] = "idle" /\ Concludes
    <3>1. \A u \in Threads : pc'[u] = "idle"
      BY <2>1, <2>3
    <3>2. Published'
      BY <2>3, <3>1 DEF Published, Concludes
    <3>3. ModeAgrees'
      BY <1>1, <1>3, <2>3 DEF ModeAgrees, Concludes
    <3>4. CapablePropertyTrue'
      BY <2>3 DEF CapablePropertyTrue, Concludes
    <3> QED
      BY <1>4, <3>2, <3>3, <3>4 DEF RegistryInv
  <2> QED
    BY <2>1, <2>2, <2>3, DetectingStep, TryingStep
<1> QED
  BY <1>5, <1>6

(* IdentifyDevice begins with a mode the registry has, or one that will not do.   *)
LEMMA BeginPublishes ==
  ASSUME LifeInv, RegistryInv, NEW t \in Threads, NEW m \in Modes, NEW name,
         IdentifyDevice(t, m), modeProperty' = FirstModeProperty(m, name),
         \/ m = "auto"
         \/ name = m
         \/ name = modeProperty /\ m = mode /\ (~overlapped /\ Quiet => Agreed),
         UNCHANGED <<enclosure, permissive>>, life' \notin {"matched", "attached"}
  PROVE  RegistryInv'
<1>1. /\ pc \in [Threads -> Labels] /\ sent \in [Threads -> WireModes]
      /\ autodetect \in [Threads -> BOOLEAN]
  BY DEF LifeInv, TypeOK, Labels
<1>2. /\ overlapped' = (overlapped \/ ~Quiet) /\ autodetect'[t] = (m = "auto")
      /\ \A u \in Threads : u # t => pc'[u] = pc[u]
  BY <1>1 DEF IdentifyDevice, Send, Goto
<1>3. \/ /\ m = "auto" /\ mode' = "sat12" /\ pc'[t] = "sat12" /\ sent'[t] = "sat12"
         /\ modeProperty' = "sat12"
      \/ /\ m # "auto" /\ mode' = m /\ pc'[t] = "identify" /\ sent'[t] = Wire(m)
         /\ modeProperty' = name
  BY <1>1 DEF IdentifyDevice, Send, Goto, FirstModeProperty, Wire
<1>4. mode' # "auto" /\ pc'[t] # "idle"
  BY <1>3
<1>5. NoAuto'
  BY <1>4 DEF NoAuto
<1>6. ~Quiet'
  BY <1>4 DEF Quiet
<1>7. ASSUME ~overlapped' PROVE Published'
  <2>1. \A u \in Threads : u # t => pc'[u] = "idle"
    BY <1>2, <1>7 DEF Quiet
  <2>2. CASE m = "auto"
    <3>1. Detecting(t)' /\ autodetect'[t]
      BY <1>2, <1>3, <2>2 DEF Detecting
    <3> QED
      BY <1>6, <2>1, <3>1 DEF Published
  <2>3. CASE m # "auto"
    <3>1. modeProperty' = mode' \/ (m = mode /\ modeProperty' = modeProperty /\ Agreed)
      BY <1>2, <1>3, <1>7, <2>3
    <3>2. Agreed'
      BY <1>3, <2>3, <3>1 DEF Agreed, Identifies, ReadsData, Answer
    <3>3. sent'[t] = Wire(mode)'
      BY <1>3, <2>3 DEF Wire
    <3>4. Trying(t)' /\ ~autodetect'[t]
      BY <1>2, <1>3, <2>3, <3>2, <3>3 DEF Trying
    <3> QED
      BY <1>6, <2>1, <3>4 DEF Published
  <2> QED
    BY <2>2, <2>3
<1> QED
  BY <1>5, <1>6, <1>7 DEF RegistryInv, ModeAgrees, CapablePropertyTrue

\* A string that is no name of "auto" says the mode it stands for.
LEMMA ParseSays ==
  ASSUME NEW name
  PROVE  Parse(name) = "auto" \/ Parse(name) = name
BY DEF Parse

(* Nothing that is published or sent changes with a step that leaves the mode, the  *)
(* registry and the threads alone.                                           *)
LEMMA SamePublished ==
  ASSUME UNCHANGED <<enclosure, permissive, driverVars, registryVars, threadVars>>
  PROVE  /\ Agreed' <=> Agreed
         /\ Quiet' <=> Quiet
         /\ \A t \in Threads : /\ Detecting(t)' <=> Detecting(t)
                               /\ Trying(t)' <=> Trying(t)
<1> USE DEF driverVars, registryVars, threadVars
<1>1. Agreed' <=> Agreed
  BY DEF Agreed, Identifies, ReadsData, Answer, Wire
<1>2. Quiet' <=> Quiet
  BY DEF Quiet
<1>3. ASSUME NEW t \in Threads PROVE Detecting(t)' <=> Detecting(t)
  BY SameDisk DEF Detecting, Works, FirstWorking
<1>4. ASSUME NEW t \in Threads PROVE Trying(t)' <=> Trying(t)
  BY <1>1 DEF Trying, ReadsData, Answer, Wire
<1> QED
  BY <1>1, <1>2, <1>3, <1>4
LEMMA RegistryStep == LifeInv /\ RegistryInv /\ [Next]_vars => RegistryInv'
<1> SUFFICES ASSUME LifeInv, RegistryInv, [Next]_vars PROVE RegistryInv'
  OBVIOUS
<1> USE ThreadsDiffer
<1>0. /\ TypeOK /\ Orderly /\ NoAuto
      /\ life \in {"matched", "attached"} => Quiet /\ poll = "none" /\ capableProperty = "absent"
  BY DEF LifeInv, Orderly, RegistryInv, NoAuto
<1>1. CASE Probe
  <2>1. /\ life = "matched" /\ life' = "attached"
        /\ UNCHANGED <<mode, capable, capableProperty, productProperty, pc, poll, overlapped>>
    BY <1>1 DEF Probe, driverVars, threadVars
  <2>2. Quiet' /\ poll' = "none" /\ capableProperty' = "absent"
    BY <1>0, <2>1 DEF Quiet
  <2> QED
    BY <2>2 DEF RegistryInv, NoAuto, Published, Quiet, ModeAgrees, CapablePropertyTrue
<1>2. CASE PassedOver \/ Stop \/ Detach \/ UNCHANGED vars
  <2>1. /\ UNCHANGED <<enclosure, permissive, driverVars, registryVars, threadVars, overlapped>>
        /\ life' \in {"matched", "attached"} => life' = life
        /\ poll' = "entered" => poll = "entered"
    BY <1>2 DEF PassedOver, Stop, Detach, vars, configVars, lifeVars
  <2>2. /\ Agreed' <=> Agreed
        /\ Quiet' <=> Quiet
        /\ \A t \in Threads : /\ Detecting(t)' <=> Detecting(t)
                              /\ Trying(t)' <=> Trying(t)
    BY <2>1, SamePublished
  <2>3. Published => Published'
    BY <2>1, <2>2 DEF Published, driverVars, threadVars
  <2>4. NoAuto'
    BY <1>0, <2>1 DEF NoAuto, driverVars, registryVars, threadVars
  <2> QED
    BY <2>1, <2>2, <2>3, <2>4
       DEF RegistryInv, ModeAgrees, CapablePropertyTrue, driverVars, registryVars
<1>3. CASE Start
  <2>1. /\ life = "attached" /\ life' \in {"failed", "started"} /\ mode' = Parse(modeProperty)
        /\ UNCHANGED <<registryVars, pc, overlapped>>
    BY <1>3 DEF Start, threadVars
  <2>2. Quiet' /\ capableProperty' = "absent"
    BY <1>0, <2>1 DEF Quiet, registryVars
  <2>3. mode' # "auto" => Agreed'
    BY <2>1, ParseSays DEF Agreed, registryVars
  <2> QED
    BY <2>1, <2>2, <2>3 DEF RegistryInv, NoAuto, Published, Quiet, ModeAgrees, CapablePropertyTrue
<1>4. CASE StartAndIdentify
  <2>1. /\ IdentifyDevice("start", Parse(modeProperty)) /\ life' = "started"
        /\ modeProperty' = FirstModeProperty(Parse(modeProperty), modeProperty)
        /\ UNCHANGED <<enclosure, permissive>>
    BY <1>4 DEF StartAndIdentify, configVars
  <2>2. Parse(modeProperty) \in Modes
    BY <1>0, ParseTypes DEF TypeOK
  <2> QED
    BY <2>1, <2>2, BeginPublishes, ParseSays
<1>5. CASE ProcessPoll
  <2>1. /\ IdentifyDevice("poll", mode) /\ life' = life /\ poll = "entered"
        /\ modeProperty' = FirstModeProperty(mode, modeProperty)
        /\ UNCHANGED <<enclosure, permissive>>
    BY <1>5 DEF ProcessPoll, configVars
  <2>2. mode \in Modes /\ life \notin {"matched", "attached"}
    BY <1>0, <2>1 DEF TypeOK
  <2>3. mode # "auto" /\ ~overlapped /\ Quiet => Agreed
    BY <2>1 DEF RegistryInv, Published
  <2> QED
    BY <2>1, <2>2, <2>3, BeginPublishes
<1>6. ASSUME NEW t \in Threads, IdentifyStep(t) PROVE RegistryInv'
  BY <1>6, IdentifyPublishes
<1>7. ASSUME NEW s \in Setters, NEW name \in ModeNames, SetProperties(s, name)
      PROVE  RegistryInv'
  <2>1. /\ life = "started" /\ UNCHANGED <<enclosure, permissive, capableProperty, life, poll>>
        /\ productProperty' = "absent"
    BY <1>7 DEF SetProperties
  <2>2. CASE name # "none" /\ Parse(name) # mode
    <3>1. /\ IdentifyDevice(s, Parse(name))
          /\ modeProperty' = FirstModeProperty(Parse(name), name)
      BY <1>7, <2>2 DEF SetProperties
    <3>2. Parse(name) \in Modes
      BY ParseTypes
    <3> QED
      BY <2>1, <3>1, <3>2, BeginPublishes, ParseSays
  <2>3. CASE ~(name # "none" /\ Parse(name) # mode)
    <3>1. /\ mode' = Parse(name) /\ modeProperty' = name /\ capable' = ParsedCapable(name, TRUE)
          /\ overlapped' = (overlapped \/ ~Quiet) /\ pc' = pc
      BY <1>7, <2>3 DEF SetProperties, threadVars
    <3>2. mode' = mode \/ (mode' = "none" /\ name = "none")
      BY <2>3, <3>1 DEF Parse
    <3>3. NoAuto'
      BY <1>0, <2>1, <3>1, <3>2 DEF NoAuto
    <3>4. mode' # "auto" => modeProperty' = mode'
      BY <3>1, ParseSays
    <3>5. ~overlapped' => Published'
      BY <3>1, <3>4 DEF Published, Quiet, Agreed
    <3>6. ModeAgrees'
      BY <1>0, <2>1, <3>1, <3>2, <3>4 DEF ModeAgrees, NoAuto, ParsedCapable
    <3>7. CapablePropertyTrue'
      BY <2>1 DEF CapablePropertyTrue
    <3> QED
      BY <3>3, <3>5, <3>6, <3>7 DEF RegistryInv
  <2> QED
    BY <2>2, <2>3
<1> QED
  BY <1>1, <1>2, <1>3, <1>4, <1>5, <1>6, <1>7 DEF Next

LEMMA RegistryInitially == Init => RegistryInv
BY ThreadsDiffer DEF Init, RegistryInv, NoAuto, Published, ModeAgrees, CapablePropertyTrue, Quiet

LEMMA RegistryInvariant == Spec => [](LifeInv /\ RegistryInv)
<1>1. Init => LifeInv /\ RegistryInv
  BY LifeInitially, RegistryInitially
<1>2. LifeInv /\ RegistryInv /\ [Next]_vars => (LifeInv /\ RegistryInv)'
  BY LifeStep, RegistryStep
<1> QED
  BY <1>1, <1>2, PTL DEF Spec
-------------------------------------------------------------------------------
(* With identifications one at a time, whatever modes processes set between them   *)
(* and whenever the thread call comes, a driver that takes its disk as capable is   *)
(* in the mode that its registry entry names.                                 *)
THEOREM RegistrySaysMode == Spec => []ModeAgrees
<1>1. LifeInv /\ RegistryInv => ModeAgrees
  BY DEF RegistryInv
<1> QED
  BY <1>1, RegistryInvariant, PTL

(* And SATSMARTCapable is the verdict of the driver, wherever the registry names     *)
(* the disk too.                                                             *)
THEOREM RegistrySaysCapable == Spec => []CapablePropertyTrue
<1>1. LifeInv /\ RegistryInv => CapablePropertyTrue
  BY DEF RegistryInv
<1> QED
  BY <1>1, RegistryInvariant, PTL

(* On every enclosure that can be identified in a mode the automatic detection       *)
(* tries, it ends in the first such mode with the model of the disk.            *)
THEOREM DetectionFindsMode == Spec => AutoFindsMode
<1>1. ASSUME LifeInv, RegistryInv, [Next]_vars, NEW t \in Threads,
             autodetect[t], pc[t] # "idle", pc'[t] = "idle", ~overlapped,
             \E i \in 1 .. 3 : Works(i)
      PROVE  mode' = FirstWorking /\ model' = "disk"
  <2>1. Detecting(t)
    BY <1>1 DEF RegistryInv, Published
  <2>2. IdentifyStep(t)
    <3>1. pc \in [Threads -> Labels] /\ (life \in {"matched", "attached", "failed"} => Quiet)
      BY <1>1 DEF LifeInv, TypeOK, Labels, Orderly
    <3>2. \A u \in Threads \ {t} : ~IdentifyStep(u)
      <4>1. ASSUME NEW u \in Threads \ {t}, IdentifyStep(u) PROVE pc'[t] = pc[t]
        BY <3>1, <4>1, GoesOnOrReturns DEF GoesOn, Return, Leave, Goto
      <4> QED
        BY <1>1, <4>1
    <3>3. ASSUME NEW u \in Threads, NEW m, IdentifyDevice(u, m), pc[u] = "idle" PROVE FALSE
      BY <1>1, <3>1, <3>3, Begins DEF Goto
    <3>4. ~(Probe \/ PassedOver \/ Start \/ Stop \/ Detach \/ UNCHANGED vars)
      BY <1>1 DEF Probe, PassedOver, Start, Stop, Detach, vars, threadVars
    <3>5. ~StartAndIdentify
      BY <3>3, ThreadsDiffer DEF StartAndIdentify
    <3>6. ~ProcessPoll
      BY <1>1, <3>3, ThreadsDiffer DEF ProcessPoll, LifeInv, Orderly
    <3>7. \A s \in Setters, name \in ModeNames : ~SetProperties(s, name)
      BY <1>1, <3>3, ThreadsDiffer DEF SetProperties, threadVars
    <3> QED
      BY <1>1, <3>2, <3>4, <3>5, <3>6, <3>7 DEF Next
  <2> QED
    BY <1>1, <2>1, <2>2, DetectingStep
<1>2. LifeInv /\ RegistryInv /\ [Next]_vars =>
        [\A t \in Threads :
           (autodetect[t] /\ pc[t] # "idle" /\ pc'[t] = "idle" /\ ~overlapped
              /\ \E i \in 1 .. 3 : Works(i))
           => mode' = FirstWorking /\ model' = "disk"]_vars
  BY <1>1
<1> QED
  BY <1>2, RegistryInvariant, PTL DEF Spec, AutoFindsMode
-------------------------------------------------------------------------------
(* The entries that may decide for the enclosure.                              *)
Candidates == IF Fitting = {} THEN {Unknown} ELSE Fitting
Asked == {Parse(Setting(e, "mode")) : e \in Candidates}

\* Thread t identifies the disk as mode m asks for.
AsAsked(t, m) ==
  /\ m # "none"
  /\ \/ m = "auto"
     \/ sent[t] = Wire(m) /\ mode = m /\ pc[t] \in {"identify", "readData"}

(* Before a process sets the mode, the entry decides what the property says, what   *)
(* the queued thread call will try, and what the identification under way tries.  *)
AsConfigured ==
  /\ \A s \in Setters : pc[s] = "idle"
  /\ life = "attached" => Parse(modeProperty) \in Asked
  /\ poll = "entered" => mode # "none" /\ mode \in Asked
  /\ \A t \in Threads : pc[t] # "idle" => \E m \in Asked : AsAsked(t, m)

ConfigInv ==
  /\ KnownByName
  /\ ~modeSet => AsConfigured

LEMMA SameCandidates ==
  ASSUME enclosure' = enclosure
  PROVE  Asked' = Asked /\ Fitting' = Fitting
BY DEF Asked, Candidates, Fitting, Fits

LEMMA ConfigInitially == Init => ConfigInv
BY ThreadsDiffer DEF Init, ConfigInv, KnownByName, AsConfigured

(* The one thread that can be at it goes on as it was asked to.                  *)
LEMMA ConfigIdentify ==
  ASSUME LifeInv, AsConfigured, NEW t \in Threads, IdentifyStep(t)
  PROVE  AsConfigured'
<1>1. /\ pc \in [Threads -> Labels] /\ sent \in [Threads -> WireModes] /\ pc[t] # "idle"
      /\ life \notin {"matched", "attached", "failed"}
  BY GoesOnOrReturns DEF LifeInv, TypeOK, Labels, Orderly, Quiet
<1>2. Asked' = Asked
  <2>1. enclosure' = enclosure
    BY DEF IdentifyStep, AnswerSAT12, AnswerSAT16, AnswerRegisters, AnswerJMicron, AnswerConfigured,
           AnswerReadData, AnswerIdentify, configVars
  <2> QED
    BY <2>1, SameCandidates
<1>3. poll # "entered" /\ \A u \in Threads : u # t => pc[u] = "idle"
  BY <1>1, ThreadsDiffer DEF LifeInv, Orderly, AsConfigured, Threads
<1>4. /\ \A u \in Threads : u # t => pc'[u] = "idle"
      /\ life' = life /\ poll' # "entered"
  BY <1>1, <1>3, GoesOnOrReturns DEF GoesOn, Return, Leave, Goto, lifeVars
<1>5. PICK m \in Asked : AsAsked(t, m)
  BY <1>1 DEF AsConfigured
<1>6. pc'[t] # "idle" => AsAsked(t, m)'
  <2>1. CASE m = "auto"
    BY <1>5, <2>1 DEF AsAsked
  <2>2. CASE m # "auto"
    <3>1. m # "none" /\ sent[t] = Wire(m) /\ mode = m /\ pc[t] \in {"identify", "readData"}
      BY <1>5, <2>2 DEF AsAsked
    <3>2. AnswerConfigured(t) \/ AnswerReadData(t)
      BY <3>1 DEF IdentifyStep, AnswerSAT12, AnswerSAT16, AnswerRegisters, AnswerJMicron,
                  AnswerIdentify
    <3>3. CASE Identified(t)
      BY <3>1, <3>3, Found DEF AsAsked
    <3>4. CASE Return(t)
      BY <1>1, <3>4 DEF Return, Leave, Goto
    <3> QED
      BY <3>2, <3>3, <3>4 DEF AnswerConfigured, AnswerIdentify, AnswerReadData, NotIdentified
  <2> QED
    BY <2>1, <2>2
<1>7. t \notin Setters
  BY <1>1 DEF AsConfigured
<1> QED
  BY <1>1, <1>2, <1>4, <1>6, <1>7, ThreadsDiffer DEF AsConfigured

LEMMA ConfigBegins ==
  ASSUME LifeInv, AsConfigured, enclosure' = enclosure, life' # "attached", poll' # "entered",
         NEW t \in {"start", "poll"}, \A u \in Threads : pc[u] = "idle",
         NEW m \in Asked, m # "none", IdentifyDevice(t, m)
  PROVE  AsConfigured'
<1>1. Asked' = Asked /\ t \in Threads /\ t \notin Setters
  BY SameCandidates, ThreadsDiffer
<1>2. /\ \A u \in Threads : u # t => pc'[u] = "idle"
      /\ m # "auto" => mode' = m /\ pc'[t] = "identify" /\ sent'[t] = Wire(m)
  BY <1>1 DEF LifeInv, TypeOK, IdentifyDevice, Send, Goto
<1>3. AsAsked(t, m)'
  BY <1>2 DEF AsAsked
<1> QED
  BY <1>1, <1>2, <1>3, ThreadsDiffer DEF AsConfigured

(* The name and the settings stay what probe has made them.                      *)
LEMMA NameStays ==
  ASSUME KnownByName, UNCHANGED <<enclosure, enclosureName, permissive, delayIdentify>>,
         life = "matched" => life' = "matched"
  PROVE  KnownByName'
<1>1. Fitting' = Fitting
  BY SameCandidates
<1> QED
  BY <1>1 DEF KnownByName

LEMMA ConfigStep == LifeInv /\ ConfigInv /\ [Next]_vars => ConfigInv'
<1> SUFFICES ASSUME LifeInv, ConfigInv, [Next]_vars PROVE ConfigInv'
  OBVIOUS
<1> USE ThreadsDiffer
<1>0. /\ Orderly /\ KnownByName
      /\ life \in {"matched", "attached"} => poll = "none" /\ \A t \in Threads : pc[t] = "idle"
  BY DEF LifeInv, Orderly, Quiet, ConfigInv
<1>1. enclosure' = enclosure
  BY DEF Next, Probe, PassedOver, Start, StartAndIdentify, ProcessPoll, Stop, Detach, IdentifyStep,
         SetProperties, AnswerSAT12, AnswerSAT16, AnswerRegisters, AnswerJMicron, AnswerConfigured,
         AnswerReadData, AnswerIdentify, configVars, vars
<1>2. Asked' = Asked /\ Fitting' = Fitting
  BY <1>1, SameCandidates
<1>3. CASE Probe
  <2>1. /\ life = "matched" /\ UNCHANGED <<pc, poll, modeSet>>
        /\ \/ \E e \in Fitting : Configure(e) /\ enclosureName' = <<e>>
           \/ Fitting = {} /\ Configure(Unknown)
    BY <1>3, ProbeTakes DEF Probe, threadVars
  <2>2. Parse(modeProperty') \in Asked
    BY <2>1 DEF Configure, Asked, Candidates
  <2>3. KnownByName'
    BY <1>2, <2>1 DEF KnownByName, Configure
  <2> QED
    BY <1>0, <1>2, <2>1, <2>2, <2>3 DEF ConfigInv, AsConfigured
<1>4. CASE PassedOver \/ Stop \/ Detach \/ UNCHANGED vars
  <2>1. /\ UNCHANGED <<mode, modeProperty, enclosureName, permissive, delayIdentify, modeSet, pc, sent>>
        /\ life' = life \/ (life # "matched" /\ life' # "attached")
        /\ poll' = "entered" => poll = "entered"
    BY <1>4 DEF PassedOver, Stop, Detach, vars, configVars, driverVars, registryVars, threadVars,
                lifeVars
  <2> QED
    BY <1>0, <1>1, <1>2, <2>1, NameStays DEF ConfigInv, AsConfigured, AsAsked
<1>5. CASE Start
  <2>1. /\ life = "attached" /\ life' # "attached" /\ mode' = Parse(modeProperty)
        /\ UNCHANGED <<enclosureName, permissive, delayIdentify, modeSet, pc>>
        /\ poll' = poll \/ mode' # "none"
    BY <1>5 DEF Start, configVars, threadVars
  <2> QED
    BY <1>0, <1>1, <1>2, <2>1, NameStays DEF ConfigInv, AsConfigured
<1>6. CASE StartAndIdentify
  <2>1. /\ life = "attached" /\ life' # "attached" /\ modeProperty # "none"
        /\ IdentifyDevice("start", Parse(modeProperty))
        /\ UNCHANGED <<enclosureName, permissive, delayIdentify, modeSet, poll>>
    BY <1>6 DEF StartAndIdentify, configVars
  <2>2. Parse(modeProperty) # "none"
    BY <2>1 DEF Parse
  <2>3. ~modeSet => AsConfigured'
    BY <1>0, <1>1, <2>1, <2>2, ConfigBegins DEF ConfigInv, AsConfigured
  <2> QED
    BY <1>0, <1>1, <2>1, <2>3, NameStays DEF ConfigInv
<1>7. CASE ProcessPoll
  <2>1. /\ poll = "entered" /\ poll' = "running" /\ life' = life
        /\ IdentifyDevice("poll", mode)
        /\ UNCHANGED <<enclosureName, permissive, delayIdentify, modeSet>>
    BY <1>7 DEF ProcessPoll, configVars
  <2>2. ~modeSet => \A u \in Threads : pc[u] = "idle"
    BY <1>0, <2>1 DEF Orderly, ConfigInv, AsConfigured, Threads
  <2>3. ~modeSet => AsConfigured'
    BY <1>0, <1>1, <2>1, <2>2, ConfigBegins DEF ConfigInv, AsConfigured
  <2> QED
    BY <1>0, <1>1, <2>1, <2>3, NameStays DEF ConfigInv
<1>8. ASSUME NEW t \in Threads, IdentifyStep(t) PROVE ConfigInv'
  <2>1. UNCHANGED configVars
    BY <1>8 DEF IdentifyStep, AnswerSAT12, AnswerSAT16, AnswerRegisters, AnswerJMicron,
                AnswerConfigured, AnswerReadData, AnswerIdentify
  <2>2. pc[t] # "idle" /\ life' = life
    BY <1>8, GoesOnOrReturns DEF GoesOn, Return, Leave, lifeVars
  <2>3. ~modeSet => AsConfigured'
    BY <1>8, ConfigIdentify DEF ConfigInv
  <2> QED
    BY <1>0, <1>1, <2>1, <2>2, <2>3, NameStays DEF ConfigInv, configVars
<1>9. ASSUME NEW s \in Setters, NEW name \in ModeNames, SetProperties(s, name)
      PROVE  ConfigInv'
  <2>1. modeSet' = TRUE /\ UNCHANGED <<enclosureName, permissive, delayIdentify, life>>
    BY <1>9 DEF SetProperties
  <2> QED
    BY <1>0, <1>1, <2>1, NameStays DEF ConfigInv
<1> QED
  BY <1>3, <1>4, <1>5, <1>6, <1>7, <1>8, <1>9 DEF Next

LEMMA ConfigInvariant == Spec => [](LifeInv /\ ConfigInv)
<1>1. Init => LifeInv /\ ConfigInv
  BY LifeInitially, ConfigInitially
<1>2. LifeInv /\ ConfigInv /\ [Next]_vars => (LifeInv /\ ConfigInv)'
  BY LifeStep, ConfigStep
<1> QED
  BY <1>1, <1>2, PTL DEF Spec
-------------------------------------------------------------------------------
(* Until a process sets the mode no command goes out in another mode than an entry   *)
(* for the enclosure asks for, and none at all where they all ask for none: for any   *)
(* Info.plist and any enclosure.                                             *)
THEOREM OnlyConfiguredCommands == Spec => []CommandsAsConfigured
<1>1. LifeInv /\ ConfigInv => CommandsAsConfigured
  <2> SUFFICES ASSUME LifeInv, ConfigInv, NEW t \in Threads, pc[t] # "idle", ~modeSet
               PROVE  \E e \in IF Fitting = {} THEN {Unknown} ELSE Fitting :
                        LET m == Parse(Setting(e, "mode"))
                        IN  m # "none" /\ (m = "auto" \/ sent[t] = Wire(m))
    BY DEF CommandsAsConfigured
  <2>1. PICK m \in Asked : AsAsked(t, m)
    BY DEF ConfigInv, AsConfigured
  <2>2. PICK e \in Candidates : m = Parse(Setting(e, "mode"))
    BY DEF Asked
  <2> QED
    BY <2>1, <2>2 DEF AsAsked, Candidates
<1> QED
  BY <1>1, ConfigInvariant, PTL

(* An enclosure with an entry is published under the name of an entry that fits it,    *)
(* and driven by the settings of the same one, for any dictionary in any order: the    *)
(* loop of probe is followed entry by entry (WalkEnds).                         *)
THEOREM EntryNames == Spec => []KnownByName
<1>1. LifeInv /\ ConfigInv => KnownByName
  BY DEF ConfigInv
<1> QED
  BY <1>1, ConfigInvariant, PTL
===============================================================================
