---------------------------- MODULE SATCommandPath ----------------------------
(***************************************************************************)
(* One SMART request on its way to the disk and back: the client library     *)
(* checks the arguments, a method of SATSMARTUserClient fills an ATA         *)
(* command, the driver packs it into a SCSI command of the pass-through      *)
(* mode in force, the enclosure unpacks it and the disk obeys, and the       *)
(* outcome returns through the driver and the user client.                  *)
(*                                                                          *)
(* The driver's own commands take the second half of the same way: IDENTIFY     *)
(* and READ DATA, by which IdentifyDevice tries a mode, and those that only the  *)
(* experiments of setProperties in a DEBUG build send (there in the mode in      *)
(* force: two of them set JMicron for the time of a command).                *)
(*                                                                          *)
(* Requests come one at a time here: how they interleave, and the resources   *)
(* and error ladder common to the methods of the user client, are the subject *)
(* of SATSMARTUserClient, and who sets the mode that of IOSATDriver.  The log  *)
(* directory is the log at address 0 with a buffer of 512 bytes.             *)
(***************************************************************************)
EXTENDS Integers, Sequences

CONSTANTS
  LogAddresses,   \* the SMART logs applications ask for
  LogSizes,       \* the lengths of the buffers they pass for a log or for the
                  \* IDENTIFY data, in bytes; none is empty
  Samples         \* what READ DATA may return: some bytes and their checksum

Byte == 0 .. 255
ASSUME LogAssumption == LogAddresses \subseteq Nat /\ LogSizes \subseteq Nat \ {0}
ASSUME SamplesAssumption == Samples \subseteq Seq(Byte) /\ \A s \in Samples : Len(s) > 1

Modes == {"sat12", "sat16", "jmicron", "sunplus", "none"}
SwitchMethods == {"operations", "autosave", "offline"}
PlainMethods == {"returnStatus", "readData", "readThresholds", "identify"}
LogMethods == {"readLog", "writeLog"}

(* A request names its method; the argument is the Boolean of a switch or    *)
(* the address of a log, the size is the length of the caller's buffer for a *)
(* log or for the IDENTIFY data, for which it may be 0 as well.  Nothing is what *)
(* a disk does that obeys no request.                                        *)
Requests ==
  [method : SwitchMethods, argument : {0, 1}, size : {0}]
    \cup [method : PlainMethods, argument : {0}, size : {0}]
    \cup [method : {"identify"}, argument : {0}, size : LogSizes]
    \cup [method : LogMethods, argument : LogAddresses, size : LogSizes]
Nothing == [method |-> "nothing", argument |-> 0, size |-> 0]

(* The driver's own; the argument is the time that IDLE and STANDBY set. *)
OwnRequests ==
  [method : {"Send_ATA_IDENTIFY", "Send_ATA_SMART_READ_DATA", "JMicron_get_registers",
             "Send_ATA_IDLE_IMMEDIATE", "Send_ATA_STANDBY_IMMEDIATE",
             "Send_ATA_CHECK_POWER_MODE", "Send_ATA_SEND_SOFT_RESET"},
   argument : {0}, size : {0}]
    \cup [method : {"Send_ATA_IDLE"}, argument : {0, 253}, size : {0}]
    \cup [method : {"Send_ATA_STANDBY"}, argument : {0, 12, 253}, size : {0}]

VARIABLES
  mode,         \* fPassThroughMode
  permissive,   \* fPermissive
  capable,      \* fSATSMARTCapable
  disk,         \* the state of the disk the requests change or ask for
  pc,
  request,
  command,      \* the IOSATCommand, or the registers of a command of the driver
  task,         \* the SCSI task: CDB, direction and length
  outcome,      \* how the task ended
  did,          \* history: what the disk did of the request
  status,       \* what the caller is told
  exceeded,     \* the caller's exceededCondition
  data,         \* the ATASMARTData the caller has read
  valid         \* what SMARTValidateReadData says of them

callerVars == <<exceeded, data, valid>>
vars == <<mode, permissive, capable, disk, pc, request, command, task,
          outcome, did, status, callerVars>>
driverVars == <<mode, permissive, capable>>

None == [cdb |-> <<>>, direction |-> "none", length |-> 0]
-------------------------------------------------------------------------------
(* The client library.                                                       *)

\* numSectors is a byte: the quotient is cut before it is compared with 16.
NumSectors(r) == (r.size \div 512) % 256

SMARTReadLogAtAddress(r) == r.argument \in Byte /\ NumSectors(r) <= 16

SMARTWriteLogAtAddress(r) ==
  r.argument \in Byte /\ r.size <= 8192 /\ NumSectors(r) <= 16

\* The length is checked and goes no further.
GetATAIdentifyData(r) == r.size \in 1 .. 512

LibraryAccepts(r) ==
  /\ r.method = "identify" => GetATAIdentifyData(r)
  /\ r.method = "readLog" => SMARTReadLogAtAddress(r)
  /\ r.method = "writeLog" => SMARTWriteLogAtAddress(r)

Signed(byte) == ((byte + 128) % 256) - 128

\* Mutant: the loop leaves out the byte before the checksum.
SMARTValidateReadDataShort(s) ==
  LET checksum[i \in 0 .. Len(s) - 2] ==
        IF i = 0 THEN 0 ELSE Signed(checksum[i - 1] + Signed(s[i]))
  IN checksum[Len(s) - 2] + Signed(s[Len(s)]) = 0

\* The sum is kept in a signed byte, and added to the last byte in an int.
SMARTValidateReadData(s) ==
  LET checksum[i \in 0 .. Len(s) - 1] ==
        IF i = 0 THEN 0 ELSE Signed(checksum[i - 1] + Signed(s[i]))
  IN checksum[Len(s) - 1] + Signed(s[Len(s)]) = 0
-------------------------------------------------------------------------------
(* The methods of the user client: the ATA command of each request.  length   *)
(* is that of the memory descriptor, 0 when there is none.                   *)

(* What the methods set in an IOSATCommand, and the driver gets. *)
Commands ==
  [features : Byte, count : Byte, low : Byte, mid : Byte, high : Byte, command : Byte,
   length : Nat, byteCount : Nat, read : BOOLEAN]

ZeroCommand ==
  [features |-> 0, count |-> 0, low |-> 0, mid |-> 0, high |-> 0, command |-> 0,
   length |-> 0, byteCount |-> 0, read |-> FALSE]

SMARTCommand(feature) ==
  [ZeroCommand EXCEPT !.features = feature, !.mid = \h4F, !.high = \hC2,
                      !.command = \hB0]

Into(n, c) == [c EXCEPT !.length = n, !.byteCount = n, !.read = TRUE]
From(n, c) == [c EXCEPT !.length = n, !.byteCount = n]

EnableDisableOperations(r) == SMARTCommand(IF r.argument = 0 THEN \hD9 ELSE \hD8)

EnableDisableAutoSave(r) ==
  [SMARTCommand(\hD2) EXCEPT !.count = IF r.argument = 0 THEN 0 ELSE \hF1]

ReturnStatus(r) == SMARTCommand(\hDA)

ExecuteOfflineImmediate(r) == [SMARTCommand(\hD4) EXCEPT !.low = 1 + r.argument]

ReadData(r) == Into(512, SMARTCommand(\hD0))

ReadDataThresholds(r) == Into(512, SMARTCommand(\hD1))

ReadLogAtAddress(r) ==
  Into(r.size, [SMARTCommand(\hD5) EXCEPT !.count = NumSectors(r), !.low = r.argument])

WriteLogAtAddress(r) ==
  From(r.size, [SMARTCommand(\hD6) EXCEPT !.count = NumSectors(r), !.low = r.argument])

GetIdentifyData(r) == Into(512, [ZeroCommand EXCEPT !.command = \hEC])

CommandOf(r) ==
  CASE r.method = "operations" -> EnableDisableOperations(r)
    [] r.method = "autosave" -> EnableDisableAutoSave(r)
    [] r.method = "returnStatus" -> ReturnStatus(r)
    [] r.method = "offline" -> ExecuteOfflineImmediate(r)
    [] r.method = "readData" -> ReadData(r)
    [] r.method = "readThresholds" -> ReadDataThresholds(r)
    [] r.method = "readLog" -> ReadLogAtAddress(r)
    [] r.method = "writeLog" -> WriteLogAtAddress(r)
    [] r.method = "identify" -> GetIdentifyData(r)
-------------------------------------------------------------------------------
(* The driver: the arguments of PASS_THROUGH_12or16, which one of four layouts  *)
(* packs into the CDB.  sendSMARTCommand computes those of the transfer.       *)

\* kIOSATProtocol*
SRST == 1
NonData == 3
PIODataIn == 4
PIODataOut == 5

CountOfAnyBuffer(c) == IF c.length > 0 THEN 1 ELSE 0

Count(c) == IF c.length > 0 /\ c.byteCount = 512 THEN 1 ELSE 0

Protocol(c) ==
  IF Count(c) = 0 THEN NonData ELSE IF c.read THEN PIODataIn ELSE PIODataOut

Arguments(c) ==
  [protocol |-> Protocol(c), offline |-> 0, ckCond |-> 0, tDir |-> IF c.read THEN 1 ELSE 0,
   bytBlok |-> 1, tLength |-> IF Count(c) = 0 THEN 0 ELSE 2,
   features |-> c.features, count |-> Count(c), low |-> c.low, mid |-> c.mid,
   high |-> c.high, command |-> c.command, length |-> c.length]

Plain(command_) ==
  [protocol |-> NonData, offline |-> 0, ckCond |-> 0, tDir |-> 0, bytBlok |-> 0,
   tLength |-> 0, features |-> 0, count |-> 0, low |-> 0, mid |-> 0, high |-> 0,
   command |-> command_, length |-> 0]

Sector(a) ==
  [a EXCEPT !.protocol = PIODataIn, !.tDir = 1, !.bytBlok = 1, !.tLength = 2,
            !.count = 1, !.length = 512]

\* Mutant: the length of the transfer is not in the sector count.
Send_ATA_IDENTIFYNoLength == [Sector(Plain(\hEC)) EXCEPT !.tLength = 0]

Send_ATA_IDENTIFY == Sector(Plain(\hEC))

Send_ATA_SMART_READ_DATA ==
  Sector([Plain(\hB0) EXCEPT !.features = \hD0, !.mid = \h4F, !.high = \hC2])

Send_ATA_IDLE(value) == [Plain(\hE3) EXCEPT !.count = value]
Send_ATA_IDLE_IMMEDIATE == [Plain(\hE1) EXCEPT !.offline = 1]
Send_ATA_STANDBY(value) == [Plain(\hE2) EXCEPT !.count = value, !.offline = 1]
Send_ATA_STANDBY_IMMEDIATE == Plain(\hE0)
Send_ATA_CHECK_POWER_MODE == [Plain(\hE5) EXCEPT !.ckCond = 1]
Send_ATA_SEND_SOFT_RESET == [Plain(0) EXCEPT !.protocol = SRST, !.offline = 2]

\* The register 720Fh, one byte, which goes out in the layout of JMicron only.
JMicron_get_registers ==
  [Plain(\hFD) EXCEPT !.tDir = 1, !.count = \h72, !.low = \h0F, !.length = 1]

OwnArguments(r) ==
  CASE r.method = "Send_ATA_IDENTIFY" -> Send_ATA_IDENTIFY
    [] r.method = "Send_ATA_SMART_READ_DATA" -> Send_ATA_SMART_READ_DATA
    [] r.method = "Send_ATA_IDLE" -> Send_ATA_IDLE(r.argument)
    [] r.method = "Send_ATA_IDLE_IMMEDIATE" -> Send_ATA_IDLE_IMMEDIATE
    [] r.method = "Send_ATA_STANDBY" -> Send_ATA_STANDBY(r.argument)
    [] r.method = "Send_ATA_STANDBY_IMMEDIATE" -> Send_ATA_STANDBY_IMMEDIATE
    [] r.method = "Send_ATA_CHECK_POWER_MODE" -> Send_ATA_CHECK_POWER_MODE
    [] r.method = "Send_ATA_SEND_SOFT_RESET" -> Send_ATA_SEND_SOFT_RESET
    [] r.method = "JMicron_get_registers" -> JMicron_get_registers

\* The requirement PASS_THROUGH_12or16 makes of the buffer for each protocol.
Accepts(a) ==
  IF a.protocol \in {SRST, NonData} THEN a.length = 0
  ELSE a.length > 0 /\ (a.tDir = 1 <=> a.protocol = PIODataIn)

Direction(a) ==
  IF a.length = 0 THEN "none" ELSE IF a.tDir = 1 THEN "fromDevice" ELSE "toDevice"

PASS_THROUGH_JMicronUncut(a) ==
  <<\hDF, IF Direction(a) = "toDevice" THEN 0 ELSE \h10, 0,
    a.length \div 256, a.length,
    a.features, a.count, a.low, a.mid, a.high, \hB0, a.command>>

PASS_THROUGH_JMicron(a) ==
  <<\hDF, IF Direction(a) = "toDevice" THEN 0 ELSE \h10, 0,
    a.length \div 256, a.length % 256,
    a.features, a.count, a.low, a.mid, a.high, \hB0, a.command>>

PASS_THROUGH_Sunplus(a) ==
  <<\hF8, 0, \h22,
    CASE Direction(a) = "fromDevice" -> \h10
      [] Direction(a) = "toDevice" -> \h11
      [] Direction(a) = "none" -> 0,
    a.length \div 512,
    a.features, a.count, a.low, a.mid, a.high, \hA0, a.command>>

\* The two bytes in which the SAT layouts say how the command goes.
ProtocolByte(a, extend) == 2 * a.protocol + extend
TransferByte(a) ==
  64 * a.offline + 32 * a.ckCond + 8 * a.tDir + 4 * a.bytBlok + a.tLength

PASS_THROUGH_12(a) ==
  <<\hA1, ProtocolByte(a, 0), TransferByte(a),
    a.features, a.count, a.low, a.mid, a.high, 0, a.command, 0, 0>>

PASS_THROUGH_16Swapped(a) ==
  <<\h85, ProtocolByte(a, 1), TransferByte(a),
    0, a.features, 0, a.count, 0, a.low, 0, a.high, 0, a.mid, 0, a.command, 0>>

\* EXTEND is 1 here.
PASS_THROUGH_16(a) ==
  <<\h85, ProtocolByte(a, 1), TransferByte(a),
    0, a.features, 0, a.count, 0, a.low, 0, a.mid, 0, a.high, 0, a.command, 0>>

PASS_THROUGH_12or16(m, a) ==
  [cdb |-> CASE m = "jmicron" -> PASS_THROUGH_JMicron(a)
             [] m = "sunplus" -> PASS_THROUGH_Sunplus(a)
             [] m = "sat16" -> PASS_THROUGH_16(a)
             [] OTHER -> PASS_THROUGH_12(a),
   direction |-> Direction(a),
   length |-> a.length]

\* The layout a command of the driver goes out in.
OwnMode(r) == IF r.method = "JMicron_get_registers" THEN "jmicron" ELSE mode
-------------------------------------------------------------------------------
(* The enclosure and the disk, outside the repository: each bridge takes its   *)
(* own command apart, and the disk obeys an ATA command whose transfer is the  *)
(* one it calls for.                                                         *)

SATTransfer(protocol, flags, count) ==
  LET dir == (flags \div 8) % 2 IN
  [direction |-> CASE protocol \in {NonData, SRST} -> "none"
                   [] protocol = PIODataIn /\ dir = 1 -> "fromDevice"
                   [] protocol = PIODataOut /\ dir = 0 -> "toDevice"
                   [] OTHER -> "wrong",
   bytes |-> IF flags % 4 = 2 THEN 512 * count ELSE 0]

CkCond(cdb) == cdb[1] \in {\hA1, \h85} /\ (cdb[3] \div 32) % 2 = 1

Unpack(cdb) ==
  CASE cdb[1] = \hA1 ->
         [features |-> cdb[4], count |-> cdb[5], low |-> cdb[6], mid |-> cdb[7],
          high |-> cdb[8], command |-> cdb[10], reset |-> (cdb[2] \div 2) % 16 = SRST,
          transfer |-> SATTransfer((cdb[2] \div 2) % 16, cdb[3], cdb[5])]
    [] cdb[1] = \h85 ->
         [features |-> cdb[5], count |-> cdb[7], low |-> cdb[9], mid |-> cdb[11],
          high |-> cdb[13], command |-> cdb[15], reset |-> (cdb[2] \div 2) % 16 = SRST,
          transfer |-> SATTransfer((cdb[2] \div 2) % 16, cdb[3], cdb[7])]
    [] cdb[1] = \hDF ->
         LET bytes == 256 * cdb[4] + cdb[5] IN
         [features |-> cdb[6], count |-> cdb[7], low |-> cdb[8], mid |-> cdb[9],
          high |-> cdb[10], command |-> cdb[12], reset |-> FALSE,
          transfer |-> [direction |-> IF bytes = 0 THEN "none" ELSE
                                      IF cdb[2] = 0 THEN "toDevice" ELSE "fromDevice",
                        bytes |-> bytes]]
    [] cdb[1] = \hF8 ->
         [features |-> cdb[6], count |-> cdb[7], low |-> cdb[8], mid |-> cdb[9],
          high |-> cdb[10], command |-> cdb[12], reset |-> FALSE,
          transfer |-> [direction |-> CASE cdb[4] = \h10 -> "fromDevice"
                                        [] cdb[4] = \h11 -> "toDevice"
                                        [] OTHER -> "none",
                        bytes |-> 512 * cdb[5]]]

\* What a disk, or the bridge itself, takes an ATA command for.
Operation(a) ==
  LET op(method, argument, size) ==
        [method |-> method, argument |-> argument, size |-> size]
      smart == a.command = \hB0 /\ a.mid = \h4F /\ a.high = \hC2
  IN CASE a.reset -> op("Send_ATA_SEND_SOFT_RESET", 0, 0)
       [] a.command = \hEC -> op("identify", 0, 0)
       [] a.command = \hE0 -> op("Send_ATA_STANDBY_IMMEDIATE", 0, 0)
       [] a.command = \hE1 -> op("Send_ATA_IDLE_IMMEDIATE", 0, 0)
       [] a.command = \hE2 -> op("Send_ATA_STANDBY", a.count, 0)
       [] a.command = \hE3 -> op("Send_ATA_IDLE", a.count, 0)
       [] a.command = \hE5 -> op("Send_ATA_CHECK_POWER_MODE", 0, 0)
       [] a.command = \hFD /\ a.count = \h72 /\ a.low = \h0F ->
            op("JMicron_get_registers", 0, 0)
       [] smart /\ a.features = \hD8 -> op("operations", 1, 0)
       [] smart /\ a.features = \hD9 -> op("operations", 0, 0)
       [] smart /\ a.features = \hD2 /\ a.count \in {0, \hF1} ->
            op("autosave", IF a.count = 0 THEN 0 ELSE 1, 0)
       [] smart /\ a.features = \hDA -> op("returnStatus", 0, 0)
       [] smart /\ a.features = \hD4 /\ a.low \in {1, 2} -> op("offline", a.low - 1, 0)
       [] smart /\ a.features = \hD0 -> op("readData", 0, 0)
       [] smart /\ a.features = \hD1 -> op("readThresholds", 0, 0)
       [] smart /\ a.features = \hD5 -> op("readLog", a.low, 512 * a.count)
       [] smart /\ a.features = \hD6 -> op("writeLog", a.low, 512 * a.count)
       [] OTHER -> Nothing

\* Of the SMART commands a disk with SMART off obeys the one that turns it on.
Enabling == [method |-> "operations", argument |-> 1, size |-> 0]
SMARTMethods == (SwitchMethods \cup PlainMethods \cup LogMethods) \ {"identify"}
Obeyed(o) == o # Nothing /\ (o.method \in SMARTMethods => disk.enabled \/ o = Enabling)

\* The transfer each operation calls for.
TransferOf(o) ==
  CASE o.method \in {"identify", "readData", "readThresholds"} ->
         [direction |-> "fromDevice", bytes |-> 512]
    [] o.method = "readLog" -> [direction |-> "fromDevice", bytes |-> o.size]
    [] o.method = "writeLog" -> [direction |-> "toDevice", bytes |-> o.size]
    [] o.method = "JMicron_get_registers" -> [direction |-> "fromDevice", bytes |-> 1]
    [] OTHER -> [direction |-> "none", bytes |-> 0]

Effect(o, d) ==
  CASE o.method = "operations" -> [d EXCEPT !.enabled = (o.argument = 1)]
    [] o.method = "autosave" -> [d EXCEPT !.autosave = (o.argument = 1)]
    [] OTHER -> d
-------------------------------------------------------------------------------
Init ==
  /\ mode \in Modes
  /\ permissive \in BOOLEAN
  /\ capable \in BOOLEAN
  /\ disk \in [enabled : BOOLEAN, autosave : BOOLEAN, exceeded : BOOLEAN]
  /\ pc = "idle"
  /\ request = Nothing
  /\ command = ZeroCommand
  /\ task = None
  /\ outcome = "none"
  /\ did = Nothing
  /\ status = "none"
  /\ exceeded = FALSE
  /\ data = <<>>
  /\ valid = "none"

Return(s) == pc' = "idle" /\ status' = s

Begin(r) ==
  /\ pc = "idle"
  /\ request' = r
  /\ outcome' = "none"
  /\ did' = Nothing
  /\ exceeded' = FALSE
  /\ data' = <<>>
  /\ valid' = "none"
  /\ UNCHANGED <<driverVars, disk>>

(* A request enters the library and, unless one of its argument checks turns  *)
(* it away, becomes a command; the user client checks no more than that.     *)
Request(r) ==
  /\ Begin(r)
  /\ task' = None
  /\ IF LibraryAccepts(r)
       THEN command' = CommandOf(r) /\ pc' = "command" /\ status' = "none"
       ELSE Return("badArgument") /\ UNCHANGED command

(* A command of the driver itself; it may find no free task.  The register of   *)
(* JMicron goes straight to its layout, past the checks of PASS_THROUGH_12or16. *)
OwnRequest(r) ==
  LET a == OwnArguments(r) IN
  /\ Begin(r)
  /\ command' = [ZeroCommand EXCEPT !.features = a.features, !.count = a.count, !.low = a.low,
                    !.mid = a.mid, !.high = a.high, !.command = a.command]
  /\ \/ Return("error") /\ task' = None
     \/ /\ r.method = "JMicron_get_registers" \/ Accepts(a)
        /\ task' = PASS_THROUGH_12or16(OwnMode(r), a)
        /\ pc' = "sent"
        /\ status' = "none"

\* Mutant: a driver that promises no SMART sends the commands of applications too.
SendSMARTCommandUnserved ==
  /\ pc = "command"
  /\ task' = PASS_THROUGH_12or16(mode, Arguments(command))
  /\ pc' = "sent"
  /\ UNCHANGED <<driverVars, disk, request, command, outcome, did, status, callerVars>>

\* sendSMARTCommand up to the SCSI command; even a driver that promised SMART
\* may find no free task.
SendSMARTCommand ==
  /\ pc = "command"
  /\ \/ Return("invalid") /\ UNCHANGED task
     \/ capable /\ ~Accepts(Arguments(command)) /\ Return("error") /\ UNCHANGED task
     \/ /\ capable
        /\ Accepts(Arguments(command))
        /\ task' = PASS_THROUGH_12or16(mode, Arguments(command))
        /\ pc' = "sent"
        /\ UNCHANGED status
  /\ UNCHANGED <<driverVars, disk, request, command, outcome, did, callerVars>>

(* The enclosure passes the command on; its answer may still be lost, and when  *)
(* CK_COND asks for the registers it is CHECK CONDITION with those as sense data. *)
Obey ==
  LET ata == Unpack(task.cdb)
      operation == Operation(ata)
  IN /\ pc = "sent"
     /\ Obeyed(operation)
     /\ ata.transfer = TransferOf(operation)
     /\ ata.transfer = [direction |-> task.direction, bytes |-> task.length]
     /\ disk' = Effect(operation, disk)
     /\ did' = operation
     /\ outcome' \in {"good", "timeout", "failure"}
                       \cup IF CkCond(task.cdb) THEN {"check"} ELSE {}
     /\ pc' = "answered"
     /\ UNCHANGED <<driverVars, request, command, task, status, callerVars>>

\* The enclosure does not know the command, the disk aborts it, or it is lost.
Refuse ==
  /\ pc = "sent"
  /\ outcome' \in {"check", "timeout", "failure"}
  /\ pc' = "answered"
  /\ UNCHANGED <<driverVars, disk, request, command, task, did, status, callerVars>>

ResultAlwaysPermissive(o) ==
  CASE o \in {"good", "check"} -> "success"
    [] o = "timeout" -> "timeout"
    [] OTHER -> "error"

\* sendSMARTCommand from the answer on: the ATA result, and the IOReturn it
\* becomes in SendSMARTCommand of the user client.
Result(o) ==
  CASE o = "good" \/ (permissive /\ o = "check") -> "success"
    [] o = "timeout" -> "timeout"
    [] OTHER -> "error"

\* What ReturnStatus reads in the command it sent.
ThresholdExceeded(c) == c.mid = \hF4 /\ c.high = \h2C

(* The structure the caller gets: what the disk sent, or, when a permissive      *)
(* driver takes a refusal for a success, whatever the buffer held, which nobody  *)
(* clears.                                                                   *)
ReadBuffer(r, o) ==
  IF r.method = "readData" /\ Result(o) = "success" THEN Samples ELSE {<<>>}

Complete ==
  /\ pc = "answered" /\ request \in Requests
  /\ Return(Result(outcome))
  /\ data' \in ReadBuffer(request, outcome)
  /\ UNCHANGED valid
  /\ exceeded' = (/\ request.method = "returnStatus"
                  /\ Result(outcome) = "success"
                  /\ ThresholdExceeded(command))
  /\ UNCHANGED <<driverVars, disk, request, command, task, outcome, did>>

(* The senders of the driver's own commands return a Boolean.  That of READ DATA   *)
(* is permissive; that of IDENTIFY also looks at the data; JMicron_get_registers   *)
(* takes a command that failed for a success if the sense data, which it does not  *)
(* initialise, say that there is no medium.                                   *)
OwnResults(r, o) ==
  CASE r.method = "JMicron_get_registers" /\ o # "good" -> {"success", "error"}
    [] r.method = "Send_ATA_IDENTIFY" /\ o = "good" -> {"success", "error"}
    [] r.method = "Send_ATA_SMART_READ_DATA" /\ o = "check" /\ permissive -> {"success"}
    [] OTHER -> {IF o = "good" THEN "success" ELSE "error"}

OwnComplete ==
  /\ pc = "answered" /\ request \in OwnRequests
  /\ \E s \in OwnResults(request, outcome) : Return(s)
  /\ UNCHANGED <<driverVars, disk, request, command, task, outcome, did, callerVars>>

(* The application has its data validated. *)
Validate ==
  /\ pc = "idle" /\ data # <<>> /\ valid = "none"
  /\ valid' = IF SMARTValidateReadData(data) THEN "yes" ELSE "no"
  /\ UNCHANGED <<driverVars, disk, pc, request, command, task, outcome, did, status,
                 exceeded, data>>

Next ==
  \/ \E r \in Requests : Request(r)
  \/ \E r \in OwnRequests : OwnRequest(r)
  \/ OwnComplete
  \/ Validate
  \/ SendSMARTCommand
  \/ Obey
  \/ Refuse
  \/ Complete

Spec == Init /\ [][Next]_vars
-------------------------------------------------------------------------------
(* The type of every variable above; every byte of a CDB fits its field.     *)
TypeOK ==
  /\ mode \in Modes
  /\ permissive \in BOOLEAN
  /\ capable \in BOOLEAN
  /\ disk \in [enabled : BOOLEAN, autosave : BOOLEAN, exceeded : BOOLEAN]
  /\ pc \in {"idle", "command", "sent", "answered"}
  /\ request \in Requests \cup OwnRequests \cup {Nothing}
  /\ command \in Commands
  /\ task.cdb \in Seq(Byte)
  /\ task.direction \in {"none", "fromDevice", "toDevice"}
  /\ task.length \in Nat
  /\ outcome \in {"none", "good", "check", "timeout", "failure"}
  /\ did \in Requests \cup OwnRequests \cup {Nothing}
  /\ status \in {"none", "badArgument", "invalid", "error", "timeout", "success"}
  /\ exceeded \in BOOLEAN
  /\ data \in Seq(Byte)
  /\ valid \in {"none", "yes", "no"}

(* Whatever the mode, the bridge finds in the CDB the registers the method of  *)
(* the user client wrote, or the sender in the driver, but for the sector count *)
(* of a method, which the driver computes anew.  A byte in the wrong place of   *)
(* one of the four layouts sends another command to the disk.                 *)
TaskFilePreserved ==
  pc = "sent" =>
    LET ata == Unpack(task.cdb) IN
    /\ request \in OwnRequests => ata.count = command.count
    /\ ata.features = command.features
    /\ ata.low = command.low
    /\ ata.mid = command.mid
    /\ ata.high = command.high
    /\ ata.command = command.command

(* The three places that state the transfer agree: the fields of the CDB the   *)
(* bridge goes by, the direction and length of the SCSI task the host          *)
(* controller goes by, and what the ATA command itself makes the disk do.  The *)
(* driver computes each from the flags and the buffer in an expression of its  *)
(* own; a mismatch hangs the bridge or the bus.  Two layouts cannot say that a     *)
(* command is a reset: a soft reset goes out in them as the ATA command 00h.      *)
TransferAgrees ==
  pc = "sent" =>
    LET ata == Unpack(task.cdb) IN
    /\ ata.transfer = [direction |-> task.direction, bytes |-> task.length]
    /\ ata.transfer = TransferOf(Operation(ata))
    /\ Operation(ata) = Nothing <=>
         request.method = "Send_ATA_SEND_SOFT_RESET" /\ mode \in {"jmicron", "sunplus"}

AutosaveOn == [method |-> "autosave", argument |-> 1, size |-> 0]
PlainRequest(method_) == [method |-> method_, argument |-> 0, size |-> 0]

\* What a request asks of the disk.
Asked(r) ==
  CASE r.method \in {"identify", "Send_ATA_IDENTIFY"} -> PlainRequest("identify")
    [] r.method = "Send_ATA_SMART_READ_DATA" -> PlainRequest("readData")
    [] OTHER -> r

(* A driver that is not permissive reports success only of what the disk did:  *)
(* the very method, switch, log address and length the application asked for,   *)
(* or the command the driver meant to send.  Turning autosave on is the           *)
(* exception, see AutosaveEnabled, and so is a JMicron register, whose reading     *)
(* may succeed for want of a medium.                                         *)
SuccessMeansDone ==
  /\ pc = "idle"
  /\ status = "success"
  /\ ~permissive
  /\ request # AutosaveOn /\ request.method # "JMicron_get_registers"
  => did = Asked(request)

(* The IDENTIFY and the READ DATA by which the driver tries a mode are, byte for   *)
(* byte, direction and length, those it will send for the user client, whatever    *)
(* the buffer: a mode that has worked in IdentifyDevice works for the applications. *)
TriedAsUsed ==
  pc = "sent" /\ Asked(request) # request =>
    task = PASS_THROUGH_12or16(mode, Arguments(CommandOf(Asked(request))))

(* SMARTValidateReadData accepts a structure if and only if its bytes add up to    *)
(* 0 modulo 256, as the ATA standard has it, with one exception: it rejects the     *)
(* good one whose sum and checksum are both 80h, which as signed bytes add up to    *)
(* -256.                                                                     *)
ChecksumDecides ==
  LET total[i \in 0 .. Len(data)] == IF i = 0 THEN 0 ELSE total[i - 1] + data[i]
      n == Len(data)
  IN valid # "none" =>
       (valid = "yes" <=> total[n] % 256 = 0 /\ data[n] # \h80)

(* No log read or write that is not exactly one sector ever looks like a       *)
(* success, not even to a permissive driver: the caller never takes a partly   *)
(* filled buffer for a log.                                                   *)
LogsWhole ==
  status = "success" /\ request.method \in LogMethods => request.size = 512

(* "They want to enable SMART autosave operations": a success means that the   *)
(* disk saves its attributes from then on.  The driver puts its own transfer   *)
(* count where the method put F1h.                                            *)
AutosaveEnabled ==
  /\ pc = "idle"
  /\ status = "success"
  /\ ~permissive
  /\ request = AutosaveOn
  => disk.autosave

(* "Check if threshold exceeded": the condition ReturnStatus hands out is the  *)
(* disk's.  The registers it looks at are those it wrote itself.              *)
ExceededReported ==
  /\ pc = "idle"
  /\ status = "success"
  /\ ~permissive
  /\ request.method = "returnStatus"
  => exceeded = disk.exceeded
-------------------------------------------------------------------------------
(* What the sender of a request may count on.  Whatever it is told, the disk does  *)
(* what the request means; for autosave that is to turn it off.                 *)
Meaning ==
  [r \in Requests \cup OwnRequests |->
     IF r = AutosaveOn THEN [AutosaveOn EXCEPT !.argument = 0] ELSE Asked(r)]

Answered ==
  CASE status \in {"badArgument", "invalid"} -> "refused"
    [] status \in {"error", "timeout"} -> "failed"
    [] OTHER -> status

Service == INSTANCE SMARTService WITH
  Applications <- Requests,
  Drivers <- OwnRequests,
  Waived <- {r \in OwnRequests : r.method = "JMicron_get_registers"},
  strict <- ~permissive,
  serving <- capable,
  switches <- [enabled |-> disk.enabled, autosave |-> disk.autosave],
  phase <- IF pc = "idle" THEN "idle" ELSE "pending",
  asked <- request,
  done <- did,
  answer <- Answered,
  delivered <- data # <<>>

(* From the argument checks of the library to the answer it returns, and from the   *)
(* driver's own senders on, a request implements SMARTService: the disk does it    *)
(* once at most and changes nothing else, only if the driver promises SMART or asks *)
(* itself; a refusal has not reached the disk; an error leaves it open; data       *)
(* come only with a success of READ DATA.                                     *)
ImplementsService == Service!Spec
===============================================================================
