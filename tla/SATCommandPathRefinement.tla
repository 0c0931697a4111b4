----------------------- MODULE SATCommandPathRefinement -----------------------
(***************************************************************************)
(* SATCommandPath implements SMARTService, for any log addresses, buffer      *)
(* lengths and samples: every step of a request is a request, what the disk    *)
(* does of it, an answer the service allows, or nothing.                      *)
(***************************************************************************)
EXTENDS SATCommandPathProofs

(* A request that still waits for the enclosure has done nothing, one that waits   *)
(* for its answer has delivered nothing, and an application's goes out only if    *)
(* the driver promises SMART.                                                *)
Waiting ==
  /\ pc \in {"command", "sent"} => did = Nothing
  /\ pc # "idle" => data = <<>>
  /\ Underway /\ request \in Requests => capable

phaseBar == IF pc = "idle" THEN "idle" ELSE "pending"

LEMMA InitMaps == Init => Waiting /\ Service!Init
<1> SUFFICES ASSUME Init
             PROVE  Waiting /\ Service!Init
  OBVIOUS
<1>1. Waiting
  BY DEF Init, Waiting, Underway
<1>2. disk \in [enabled : BOOLEAN, autosave : BOOLEAN, exceeded : BOOLEAN]
  BY DEF Init
<1>3. [enabled |-> disk.enabled, autosave |-> disk.autosave]
        \in [enabled : BOOLEAN, autosave : BOOLEAN]
  BY <1>2
<1>4. permissive \in BOOLEAN /\ capable \in BOOLEAN
  BY DEF Init
<1>5. (~permissive) \in BOOLEAN
  BY <1>4
<1>6. pc = "idle" /\ request = Nothing /\ did = Nothing /\ data = <<>> /\ status = "none"
  BY DEF Init
<1>7. Answered = "none"
  BY <1>6 DEF Answered
<1>8. (data # <<>>) = FALSE
  BY <1>6
<1> QED
  BY <1>1, <1>3, <1>4, <1>5, <1>6, <1>7, <1>8 DEF Service!Init

(* A request begins; it is on its way, refused, or out of resources.           *)
LEMMA AskMaps ==
  ASSUME NEW r \in Requests \cup OwnRequests, Begin(r),
         \/ pc' = "command" /\ status' = "none"
         \/ pc' = "sent" /\ status' = "none" /\ r \notin Requests
         \/ pc' = "idle" /\ status' \in {"badArgument", "error"}
  PROVE  Waiting' /\ Service!Ask(r)
<1>1. /\ pc = "idle" /\ request' = r /\ did' = Nothing /\ data' = <<>>
      /\ mode' = mode /\ permissive' = permissive /\ capable' = capable /\ disk' = disk
  BY DEF Begin, driverVars
<1>2. Waiting'
  BY <1>1 DEF Waiting, Underway
<1>3. \/ pc' # "idle" /\ Answered' = "none"
      \/ pc' = "idle" /\ Answered' \in {"refused", "failed"}
  BY DEF Answered
<1>4. (data' # <<>>) = FALSE
  BY <1>1
<1> QED
  BY <1>1, <1>2, <1>3, <1>4 DEF Service!Ask

LEMMA RequestMaps ==
  ASSUME NEW r \in Requests, Request(r)
  PROVE  Waiting' /\ Service!Ask(r)
BY AskMaps DEF Request, Return

LEMMA OwnRequestMaps ==
  ASSUME NEW r \in OwnRequests, OwnRequest(r)
  PROVE  Waiting' /\ Service!Ask(r)
<1>1. r \notin Requests
  BY Apart
<1> QED
  BY <1>1, AskMaps DEF OwnRequest, Return

(* What the sender sees of a step in between: nothing.                         *)
LEMMA Unseen ==
  ASSUME permissive' = permissive, capable' = capable, disk' = disk,
         phaseBar' = phaseBar, request' = request, did' = did, status' = status,
         data' = data
  PROVE  UNCHANGED Service!vars
BY DEF Service!vars, phaseBar, Answered

(* An answer, but for what the disk has to have done for it.                   *)
LEMMA AnswerMaps ==
  ASSUME Waiting, pc # "idle", pc' = "idle", request \in Requests \cup OwnRequests,
         UNCHANGED <<driverVars, disk, request, did>>,
         status' \in {"invalid", "error", "timeout", "success"},
         status' = "invalid" => did = Nothing,
         status' = "success" /\ ~permissive /\ request.method # "JMicron_get_registers" =>
           did = Meaning[request],
         request \in Requests /\ ~capable => status' = "invalid",
         data' # <<>> => status' = "success" /\ request \in Requests
                           /\ request.method = "readData"
  PROVE  Waiting' /\ Service!Answer
<1>1. /\ request' = request /\ did' = did /\ disk' = disk
      /\ permissive' = permissive /\ capable' = capable
  BY DEF driverVars
<1>2. Waiting'
  BY DEF Waiting, Underway
<1>3. /\ Answered' \in {"success", "failed", "refused"}
      /\ Answered' = "refused" <=> status' = "invalid"
      /\ Answered' = "success" <=> status' = "success"
  BY DEF Answered
<1>4. (data' # <<>>) \in BOOLEAN
  OBVIOUS
<1>5. request.method = "JMicron_get_registers" =>
        request \in {r \in OwnRequests : r.method = "JMicron_get_registers"}
  BY Apart
<1> QED
  BY <1>1, <1>2, <1>3, <1>4, <1>5 DEF Service!Answer

(* The user client's command is refused, or turned into a task. *)
LEMMA SendMaps ==
  ASSUME IInv, Waiting, SendSMARTCommand
  PROVE  Waiting' /\ (Service!Answer \/ UNCHANGED Service!vars)
<1>1. /\ pc = "command" /\ request \in Requests /\ did = Nothing /\ data = <<>>
      /\ UNCHANGED <<driverVars, disk, request, command, outcome, did, callerVars>>
      /\ data' = data
  BY DEF SendSMARTCommand, IInv, CommandHeld, Waiting, callerVars
<1>2. \/ pc' = "idle" /\ status' = "invalid"
      \/ pc' = "idle" /\ status' = "error" /\ capable
      \/ pc' = "sent" /\ status' = status /\ capable
  BY DEF SendSMARTCommand, Return
<1>3. CASE pc' = "idle"
  <2>1. Waiting' /\ Service!Answer
    BY <1>1, <1>2, <1>3, AnswerMaps
  <2> QED
    BY <2>1
<1>4. CASE pc' = "sent" /\ status' = status /\ capable
  <2>1. Waiting'
    BY <1>1, <1>4 DEF Waiting, driverVars
  <2>2. UNCHANGED Service!vars
    BY <1>1, <1>4, Unseen DEF driverVars, phaseBar
  <2> QED
    BY <2>1, <2>2
<1> QED
  BY <1>2, <1>3, <1>4

(* What a disk turns on or off when it obeys.                                  *)
LEMMA EffectSwitches ==
  ASSUME NEW o, NEW d \in [enabled : BOOLEAN, autosave : BOOLEAN, exceeded : BOOLEAN]
  PROVE  /\ Effect(o, d).enabled =
              IF o.method = "operations" THEN o.argument = 1 ELSE d.enabled
         /\ Effect(o, d).autosave =
              IF o.method = "autosave" THEN o.argument = 1 ELSE d.autosave
<1>1. CASE o.method = "operations"
  <2>1. Effect(o, d) = [d EXCEPT !.enabled = (o.argument = 1)]
    BY <1>1 DEF Effect
  <2> QED
    BY <1>1, <2>1
<1>2. CASE o.method = "autosave"
  <2>1. Effect(o, d) = [d EXCEPT !.autosave = (o.argument = 1)]
    BY <1>2 DEF Effect
  <2> QED
    BY <1>2, <2>1
<1>3. CASE o.method \notin {"operations", "autosave"}
  <2>1. Effect(o, d) = d
    BY <1>3 DEF Effect
  <2> QED
    BY <1>3, <2>1
<1> QED
  BY <1>1, <1>2, <1>3

(* What the disk makes of a request is what the request means.                   *)
LEMMA MeaningUnderstood ==
  ASSUME NEW r \in Requests \cup OwnRequests, Understood(r, OwnMode(r)) # Nothing
  PROVE  Meaning[r] = Understood(r, OwnMode(r))
<1>1. Meaning[r] = IF r = AutosaveOn THEN [AutosaveOn EXCEPT !.argument = 0] ELSE Asked(r)
  BY DEF Meaning
<1> QED
  BY <1>1 DEF Understood

LEMMA ObeyMaps ==
  ASSUME IInv, Waiting, Obey
  PROVE  Waiting' /\ Service!Do
<1> DEFINE operation == Operation(Unpack(task.cdb))
<1>1. /\ pc = "sent" /\ pc' = "answered" /\ did' = operation /\ disk' = Effect(operation, disk)
      /\ Obeyed(operation)
      /\ UNCHANGED <<driverVars, request, command, task, status, callerVars>>
  BY DEF Obey
<1>2. /\ operation = Understood(request, OwnMode(request))
      /\ request \in Requests \cup OwnRequests
  BY <1>1, UnderwayUnderstood DEF IInv, Underway
<1> HIDE DEF operation
<1>3. operation # Nothing
  BY <1>1 DEF Obeyed
<1>4. did' = Meaning[request]
  BY <1>1, <1>2, <1>3, MeaningUnderstood
<1>5. disk \in [enabled : BOOLEAN, autosave : BOOLEAN, exceeded : BOOLEAN]
  BY TypeParts DEF IInv, DriverTyped
<1>6. /\ disk'.enabled = IF did'.method = "operations" THEN did'.argument = 1
                                                       ELSE disk.enabled
      /\ disk'.autosave = IF did'.method = "autosave" THEN did'.argument = 1
                                                      ELSE disk.autosave
  BY <1>1, <1>5, EffectSwitches, Zenon
<1>7. /\ request' = request /\ data' = data /\ status' = status
      /\ permissive' = permissive /\ capable' = capable
  BY <1>1 DEF driverVars, callerVars
<1>8. did = Nothing /\ (request \in Requests => capable)
  BY <1>1 DEF Waiting, Underway
<1>9. Waiting'
  BY <1>1, <1>7 DEF Waiting, Underway
<1>10. Answered' = Answered
  BY <1>7 DEF Answered
<1> QED
  BY <1>1, <1>4, <1>6, <1>7, <1>8, <1>9, <1>10, Zenon DEF Service!Do, Service!Switched

LEMMA RefuseMaps ==
  ASSUME Waiting, Refuse
  PROVE  Waiting' /\ UNCHANGED Service!vars
<1>1. /\ pc = "sent" /\ pc' = "answered" /\ request' = request /\ did' = did
      /\ disk' = disk /\ data' = data /\ status' = status
      /\ permissive' = permissive /\ capable' = capable
  BY DEF Refuse, driverVars, callerVars
<1>2. Waiting'
  BY <1>1 DEF Waiting, Underway
<1> QED
  BY <1>1, <1>2, Unseen DEF phaseBar

(* A good answer means that the disk has done what the request means.            *)
LEMMA GoodMeansDone ==
  ASSUME IInv, pc = "answered", outcome = "good"
  PROVE  did = Meaning[request]
<1>1. did = Understood(request, OwnMode(request)) /\ did # Nothing
  BY DEF IInv, GoodMeansObeyed
<1>2. request \in Requests \cup OwnRequests
  BY DEF IInv, TaskHeld, Underway, Sendable
<1> QED
  BY <1>1, <1>2, MeaningUnderstood

LEMMA CompleteMaps ==
  ASSUME IInv, Waiting, Complete
  PROVE  Waiting' /\ Service!Answer
<1>1. /\ pc = "answered" /\ request \in Requests /\ pc' = "idle" /\ status' = Result(outcome)
      /\ UNCHANGED <<driverVars, disk, request, did>>
  BY DEF Complete, Return
<1>2. /\ Result(outcome) \in {"error", "timeout", "success"}
      /\ Result(outcome) = "success" => permissive \/ outcome = "good"
  BY DEF Result
<1>3. data' # <<>> => status' = "success" /\ request.method = "readData"
  BY <1>1 DEF Complete, ReadBuffer
<1>4. capable
  BY <1>1 DEF Waiting, Underway
<1> QED
  BY <1>1, <1>2, <1>3, <1>4, GoodMeansDone, AnswerMaps

LEMMA OwnCompleteMaps ==
  ASSUME IInv, Waiting, OwnComplete
  PROVE  Waiting' /\ Service!Answer
<1>1. /\ pc = "answered" /\ request \in OwnRequests /\ pc' = "idle"
      /\ status' \in OwnResults(request, outcome)
      /\ UNCHANGED <<driverVars, disk, request, did>> /\ data' = data
  BY DEF OwnComplete, Return, callerVars
<1>2. /\ status' \in {"error", "success"}
      /\ status' = "success" =>
           permissive \/ outcome = "good" \/ request.method = "JMicron_get_registers"
  BY <1>1 DEF OwnResults
<1>3. data = <<>> /\ request \notin Requests
  BY <1>1, Apart DEF Waiting
<1> QED
  BY <1>1, <1>2, <1>3, GoodMeansDone, AnswerMaps

LEMMA ValidateMaps ==
  ASSUME Waiting, Validate
  PROVE  Waiting' /\ UNCHANGED Service!vars
<1>1. /\ pc' = pc /\ request' = request /\ did' = did /\ disk' = disk /\ data' = data
      /\ status' = status /\ permissive' = permissive /\ capable' = capable
  BY DEF Validate, driverVars
<1>2. Waiting'
  BY <1>1 DEF Waiting, Underway
<1> QED
  BY <1>1, <1>2, Unseen DEF phaseBar

LEMMA StutterMaps ==
  ASSUME Waiting, UNCHANGED vars
  PROVE  Waiting' /\ UNCHANGED Service!vars
<1>1. /\ pc' = pc /\ request' = request /\ did' = did /\ disk' = disk /\ data' = data
      /\ status' = status /\ permissive' = permissive /\ capable' = capable
  BY DEF vars, callerVars
<1>2. Waiting'
  BY <1>1 DEF Waiting, Underway
<1> QED
  BY <1>1, <1>2, Unseen DEF phaseBar

(* The command path is the service it promises: whatever is asked in whatever mode  *)
(* of whatever enclosure, the disk does it as it means, once, or not at all, and   *)
(* the answer tells which as far as the service says.                            *)
THEOREM PathImplementsService == Spec => ImplementsService
<1>1. Init => Waiting /\ Service!Init
  BY InitMaps
<1>2. IInv /\ Waiting /\ [Next]_vars => Waiting' /\ [Service!Next]_(Service!vars)
  <2> SUFFICES ASSUME IInv, Waiting, [Next]_vars
               PROVE  Waiting' /\ (Service!Next \/ UNCHANGED Service!vars)
    OBVIOUS
  <2>1. ASSUME NEW r \in Requests, Request(r)
        PROVE  Waiting' /\ Service!Next
    BY <2>1, RequestMaps DEF Service!Next
  <2>2. ASSUME NEW r \in OwnRequests, OwnRequest(r)
        PROVE  Waiting' /\ Service!Next
    BY <2>2, OwnRequestMaps DEF Service!Next
  <2>3. CASE OwnComplete
    BY <2>3, OwnCompleteMaps DEF Service!Next
  <2>4. CASE Validate
    BY <2>4, ValidateMaps
  <2>5. CASE SendSMARTCommand
    BY <2>5, SendMaps DEF Service!Next
  <2>6. CASE Obey
    BY <2>6, ObeyMaps DEF Service!Next
  <2>7. CASE Refuse
    BY <2>7, RefuseMaps
  <2>8. CASE Complete
    BY <2>8, CompleteMaps DEF Service!Next
  <2>9. CASE UNCHANGED vars
    BY <2>9, StutterMaps
  <2> QED
    BY <2>1, <2>2, <2>3, <2>4, <2>5, <2>6, <2>7, <2>8, <2>9, Zenon DEF Next
<1> QED
  BY <1>1, <1>2, InvariantCorrect, PTL DEF Spec, ImplementsService, Service!Spec
===============================================================================
