------------------------- MODULE SATCommandPathProofs -------------------------
(***************************************************************************)
(* What SATCommandPath says of one request, for every set of log addresses,   *)
(* buffer lengths and samples: the four layouts lose nothing of what they     *)
(* carry, and each command means to the disk what it was sent for.           *)
(***************************************************************************)
EXTENDS SATCommandPath, TLAPS

(* Every argument of PASS_THROUGH_12or16 fits its field. *)
FieldsFit(a) ==
  /\ a.protocol \in {SRST, NonData, PIODataIn, PIODataOut}
  /\ a.offline \in 0 .. 2 /\ a.ckCond \in 0 .. 1 /\ a.tDir \in 0 .. 1
  /\ a.bytBlok \in 0 .. 1 /\ a.tLength \in {0, 2}
  /\ a.features \in Byte /\ a.count \in Byte /\ a.low \in Byte
  /\ a.mid \in Byte /\ a.high \in Byte /\ a.command \in Byte
  /\ a.length \in Nat

NoTransfer(a) == a.protocol \in {SRST, NonData} /\ a.tLength = 0 /\ a.length = 0
OneSector(a) == a.tLength = 2 /\ a.count = 1 /\ a.length = 512
SectorIn(a) == a.protocol = PIODataIn /\ a.tDir = 1 /\ OneSector(a)
SectorOut(a) == a.protocol = PIODataOut /\ a.tDir = 0 /\ OneSector(a)

(* Those the driver sends: no data at all, or one sector in a direction that    *)
(* the protocol and the direction bit agree on.                              *)
Carried(a) == FieldsFit(a) /\ (NoTransfer(a) \/ SectorIn(a) \/ SectorOut(a))

SameRegisters(ata, a) ==
  /\ ata.features = a.features
  /\ ata.count = a.count
  /\ ata.low = a.low
  /\ ata.mid = a.mid
  /\ ata.high = a.high
  /\ ata.command = a.command

TransferBy(a) == [direction |-> Direction(a), bytes |-> a.length]

(* The direction of the SCSI task is the one the protocol asks for. *)
LEMMA Directions ==
  ASSUME NEW a, Carried(a)
  PROVE  /\ NoTransfer(a) => Direction(a) = "none"
         /\ SectorIn(a) => Direction(a) = "fromDevice"
         /\ SectorOut(a) => Direction(a) = "toDevice"
BY DEF Carried, FieldsFit, NoTransfer, SectorIn, SectorOut, OneSector, Direction

(* The two bytes of the SAT layouts hold the fields that the bridge takes out. *)
LEMMA ProtocolInByte ==
  ASSUME NEW a, Carried(a), NEW extend \in 0 .. 1
  PROVE  /\ ProtocolByte(a, extend) \in Byte
         /\ (ProtocolByte(a, extend) \div 2) % 16 = a.protocol
BY DEF Carried, FieldsFit, ProtocolByte, Byte, SRST, NonData, PIODataIn, PIODataOut

LEMMA TransferInByte ==
  ASSUME NEW a, Carried(a)
  PROVE  /\ TransferByte(a) \in Byte
         /\ (TransferByte(a) \div 8) % 2 = a.tDir
         /\ TransferByte(a) % 4 = a.tLength
BY DEF Carried, FieldsFit, TransferByte, Byte

(* From these two bytes the bridge makes out the transfer of the SCSI task. *)
LEMMA TransferFromByte ==
  ASSUME NEW a, Carried(a)
  PROVE  SATTransfer(a.protocol, TransferByte(a), a.count) = TransferBy(a)
<1>1. CASE NoTransfer(a)
  <2>1. Direction(a) = "none"
    BY <1>1, Directions
  <2>2. TransferByte(a) % 4 = 0
    BY <1>1, TransferInByte DEF NoTransfer
  <2> QED
    BY <1>1, <2>1, <2>2 DEF SATTransfer, TransferBy, NoTransfer, SRST, NonData,
                                      PIODataIn, PIODataOut
<1>2. CASE SectorIn(a)
  BY <1>2, TransferInByte, Directions
  DEF SATTransfer, TransferBy, SectorIn, OneSector, SRST, NonData, PIODataIn
<1>3. CASE SectorOut(a)
  BY <1>3, TransferInByte, Directions
  DEF SATTransfer, TransferBy, SectorOut, OneSector, SRST, NonData, PIODataIn, PIODataOut
<1> QED
  BY <1>1, <1>2, <1>3 DEF Carried

(* Each layout carries the registers, says whether the command is a reset and   *)
(* gives the bridge the transfer of the SCSI task.                            *)
LEMMA SAT12Carries ==
  ASSUME NEW a, Carried(a)
  PROVE  /\ PASS_THROUGH_12(a) \in Seq(Byte)
         /\ SameRegisters(Unpack(PASS_THROUGH_12(a)), a)
         /\ Unpack(PASS_THROUGH_12(a)).reset <=> a.protocol = SRST
         /\ Unpack(PASS_THROUGH_12(a)).transfer = TransferBy(a)
<1> DEFINE cdb == PASS_THROUGH_12(a)
<1>1. cdb \in Seq(Byte)
  BY ProtocolInByte, TransferInByte DEF PASS_THROUGH_12, Byte, Carried, FieldsFit
<1>2. /\ cdb[1] = \hA1 /\ cdb[2] = ProtocolByte(a, 0) /\ cdb[3] = TransferByte(a)
      /\ cdb[4] = a.features /\ cdb[5] = a.count /\ cdb[6] = a.low /\ cdb[7] = a.mid
      /\ cdb[8] = a.high /\ cdb[10] = a.command
  BY DEF PASS_THROUGH_12
<1> HIDE DEF cdb
<1>3. Unpack(cdb) =
        [features |-> cdb[4], count |-> cdb[5], low |-> cdb[6], mid |-> cdb[7],
         high |-> cdb[8], command |-> cdb[10], reset |-> (cdb[2] \div 2) % 16 = SRST,
         transfer |-> SATTransfer((cdb[2] \div 2) % 16, cdb[3], cdb[5])]
  BY <1>2 DEF Unpack
<1>4. (cdb[2] \div 2) % 16 = a.protocol
  BY <1>2, ProtocolInByte
<1>5. SameRegisters(Unpack(cdb), a)
  BY <1>2, <1>3 DEF SameRegisters
<1>6. Unpack(cdb).reset <=> a.protocol = SRST
  <2>1. Unpack(cdb).reset = ((cdb[2] \div 2) % 16 = SRST)
    BY <1>3
  <2> QED
    BY <2>1, <1>4, Zenon
<1>7. Unpack(cdb).transfer = TransferBy(a)
  BY <1>2, <1>3, <1>4, TransferFromByte
<1> QED
  BY <1>1, <1>5, <1>6, <1>7 DEF cdb

LEMMA SAT16Carries ==
  ASSUME NEW a, Carried(a)
  PROVE  /\ PASS_THROUGH_16(a) \in Seq(Byte)
         /\ SameRegisters(Unpack(PASS_THROUGH_16(a)), a)
         /\ Unpack(PASS_THROUGH_16(a)).reset <=> a.protocol = SRST
         /\ Unpack(PASS_THROUGH_16(a)).transfer = TransferBy(a)
<1> DEFINE cdb == PASS_THROUGH_16(a)
<1>1. cdb \in Seq(Byte)
  BY ProtocolInByte, TransferInByte DEF PASS_THROUGH_16, Byte, Carried, FieldsFit
<1>2. /\ cdb[1] = \h85 /\ cdb[2] = ProtocolByte(a, 1) /\ cdb[3] = TransferByte(a)
      /\ cdb[5] = a.features /\ cdb[7] = a.count /\ cdb[9] = a.low /\ cdb[11] = a.mid
      /\ cdb[13] = a.high /\ cdb[15] = a.command
  BY DEF PASS_THROUGH_16
<1> HIDE DEF cdb
<1>3. Unpack(cdb) =
        [features |-> cdb[5], count |-> cdb[7], low |-> cdb[9], mid |-> cdb[11],
         high |-> cdb[13], command |-> cdb[15], reset |-> (cdb[2] \div 2) % 16 = SRST,
         transfer |-> SATTransfer((cdb[2] \div 2) % 16, cdb[3], cdb[7])]
  BY <1>2 DEF Unpack
<1>4. (cdb[2] \div 2) % 16 = a.protocol
  BY <1>2, ProtocolInByte
<1>5. SameRegisters(Unpack(cdb), a)
  BY <1>2, <1>3 DEF SameRegisters
<1>6. Unpack(cdb).reset <=> a.protocol = SRST
  <2>1. Unpack(cdb).reset = ((cdb[2] \div 2) % 16 = SRST)
    BY <1>3
  <2> QED
    BY <2>1, <1>4, Zenon
<1>7. Unpack(cdb).transfer = TransferBy(a)
  BY <1>2, <1>3, <1>4, TransferFromByte
<1> QED
  BY <1>1, <1>5, <1>6, <1>7 DEF cdb

(* What the layout of JMicron can say: the register it reads is one byte. *)
FitsJMicron(a) == FieldsFit(a) /\ a.length \in {0, 1, 512}

(* The other two layouts leave out the protocol: the bridge finds out how the    *)
(* command goes from the direction and the length.                            *)
LEMMA JMicronCarries ==
  ASSUME NEW a, FitsJMicron(a)
  PROVE  /\ PASS_THROUGH_JMicron(a) \in Seq(Byte)
         /\ SameRegisters(Unpack(PASS_THROUGH_JMicron(a)), a)
         /\ Unpack(PASS_THROUGH_JMicron(a)).reset = FALSE
         /\ Unpack(PASS_THROUGH_JMicron(a)).transfer = TransferBy(a)
<1> DEFINE cdb == PASS_THROUGH_JMicron(a)
<1>1. cdb \in Seq(Byte)
  BY DEF PASS_THROUGH_JMicron, Byte, FitsJMicron, FieldsFit
<1>2. /\ cdb[1] = \hDF /\ cdb[2] = (IF Direction(a) = "toDevice" THEN 0 ELSE \h10)
      /\ cdb[4] = a.length \div 256 /\ cdb[5] = a.length % 256
      /\ cdb[6] = a.features /\ cdb[7] = a.count /\ cdb[8] = a.low /\ cdb[9] = a.mid
      /\ cdb[10] = a.high /\ cdb[12] = a.command
  BY DEF PASS_THROUGH_JMicron
<1>3. 256 * cdb[4] + cdb[5] = a.length
  BY <1>2 DEF FitsJMicron
<1> HIDE DEF cdb
<1>4. Unpack(cdb) =
        [features |-> cdb[6], count |-> cdb[7], low |-> cdb[8], mid |-> cdb[9],
         high |-> cdb[10], command |-> cdb[12], reset |-> FALSE,
         transfer |-> [direction |-> IF 256 * cdb[4] + cdb[5] = 0 THEN "none" ELSE
                                     IF cdb[2] = 0 THEN "toDevice" ELSE "fromDevice",
                       bytes |-> 256 * cdb[4] + cdb[5]]]
  BY <1>2 DEF Unpack
<1>5. (IF a.length = 0 THEN "none" ELSE IF cdb[2] = 0 THEN "toDevice" ELSE "fromDevice")
        = Direction(a)
  BY <1>2 DEF Direction, FitsJMicron
<1>6. Unpack(cdb).transfer = TransferBy(a)
  BY <1>3, <1>4, <1>5 DEF TransferBy
<1>7. SameRegisters(Unpack(cdb), a)
  BY <1>2, <1>4 DEF SameRegisters
<1> QED
  BY <1>1, <1>4, <1>6, <1>7 DEF cdb

LEMMA SunplusCarries ==
  ASSUME NEW a, Carried(a)
  PROVE  /\ PASS_THROUGH_Sunplus(a) \in Seq(Byte)
         /\ SameRegisters(Unpack(PASS_THROUGH_Sunplus(a)), a)
         /\ Unpack(PASS_THROUGH_Sunplus(a)).reset = FALSE
         /\ Unpack(PASS_THROUGH_Sunplus(a)).transfer = TransferBy(a)
<1> DEFINE cdb == PASS_THROUGH_Sunplus(a)
           way == CASE Direction(a) = "fromDevice" -> \h10
                    [] Direction(a) = "toDevice" -> \h11
                    [] Direction(a) = "none" -> 0
<1>1. a.length \in {0, 512}
  BY DEF Carried, NoTransfer, SectorIn, SectorOut, OneSector
<1>2. /\ Direction(a) = "fromDevice" => way = \h10
      /\ Direction(a) = "toDevice" => way = \h11
      /\ Direction(a) = "none" => way = 0
      /\ Direction(a) \in {"fromDevice", "toDevice", "none"}
  BY DEF Direction
<1>3. cdb = <<\hF8, 0, \h22, way, a.length \div 512, a.features, a.count, a.low, a.mid,
             a.high, \hA0, a.command>>
  BY DEF PASS_THROUGH_Sunplus
<1> HIDE DEF way
<1>4. cdb \in Seq(Byte)
  BY <1>1, <1>2, <1>3 DEF Byte, Carried, FieldsFit
<1>5. /\ cdb[1] = \hF8 /\ cdb[4] = way /\ cdb[5] = a.length \div 512
      /\ cdb[6] = a.features /\ cdb[7] = a.count /\ cdb[8] = a.low /\ cdb[9] = a.mid
      /\ cdb[10] = a.high /\ cdb[12] = a.command
  BY <1>3
<1>6. 512 * cdb[5] = a.length
  BY <1>1, <1>5
<1> HIDE DEF cdb
<1>7. Unpack(cdb) =
        [features |-> cdb[6], count |-> cdb[7], low |-> cdb[8], mid |-> cdb[9],
         high |-> cdb[10], command |-> cdb[12], reset |-> FALSE,
         transfer |-> [direction |-> CASE cdb[4] = \h10 -> "fromDevice"
                                       [] cdb[4] = \h11 -> "toDevice"
                                       [] OTHER -> "none",
                       bytes |-> 512 * cdb[5]]]
  BY <1>5 DEF Unpack
<1>8. (CASE cdb[4] = \h10 -> "fromDevice" [] cdb[4] = \h11 -> "toDevice" [] OTHER -> "none")
        = Direction(a)
  BY <1>2, <1>5
<1>9. Unpack(cdb).transfer = TransferBy(a)
  BY <1>6, <1>7, <1>8 DEF TransferBy
<1>10. SameRegisters(Unpack(cdb), a)
  BY <1>5, <1>7 DEF SameRegisters
<1> QED
  BY <1>4, <1>7, <1>9, <1>10 DEF cdb

(* Whatever the mode, the bridge finds in the command what the driver put in it, *)
(* but for a reset, which only the SAT layouts can say.                       *)
LEMMA EveryLayoutCarries ==
  ASSUME NEW a, Carried(a), NEW m \in Modes
  PROVE  LET cdb == PASS_THROUGH_12or16(m, a).cdb IN
         /\ cdb \in Seq(Byte)
         /\ SameRegisters(Unpack(cdb), a)
         /\ Unpack(cdb).reset <=> a.protocol = SRST /\ m \notin {"jmicron", "sunplus"}
         /\ Unpack(cdb).transfer = TransferBy(a)
<1>1. CASE m = "jmicron"
  <2>1. PASS_THROUGH_12or16(m, a).cdb = PASS_THROUGH_JMicron(a)
    BY <1>1 DEF PASS_THROUGH_12or16
  <2>2. FitsJMicron(a)
    BY DEF FitsJMicron, Carried, NoTransfer, SectorIn, SectorOut, OneSector
  <2> QED
    BY <1>1, <2>1, <2>2, JMicronCarries
<1>2. CASE m = "sunplus"
  <2>1. PASS_THROUGH_12or16(m, a).cdb = PASS_THROUGH_Sunplus(a)
    BY <1>2 DEF PASS_THROUGH_12or16
  <2> QED
    BY <1>2, <2>1, SunplusCarries
<1>3. CASE m = "sat16"
  <2>1. PASS_THROUGH_12or16(m, a).cdb = PASS_THROUGH_16(a)
    BY <1>3 DEF PASS_THROUGH_12or16
  <2> QED
    BY <1>3, <2>1, SAT16Carries
<1>4. CASE m \in {"sat12", "none"}
  <2>1. PASS_THROUGH_12or16(m, a).cdb = PASS_THROUGH_12(a)
    BY <1>4 DEF PASS_THROUGH_12or16
  <2> QED
    BY <1>4, <2>1, SAT12Carries
<1> QED
  BY <1>1, <1>2, <1>3, <1>4 DEF Modes
-------------------------------------------------------------------------------
(* What the methods of the user client send.                                 *)

(* What a SMART command with n bytes of data holds. *)
SMARTFields(c, feature, count, low, n) ==
  /\ c.features = feature /\ c.count = count /\ c.low = low
  /\ c.mid = \h4F /\ c.high = \hC2 /\ c.command = \hB0
  /\ c.length = n /\ c.byteCount = n

IdentifyFields(c) ==
  /\ c.features = 0 /\ c.count = 0 /\ c.low = 0 /\ c.mid = 0 /\ c.high = 0
  /\ c.command = \hEC /\ c.length = 512 /\ c.byteCount = 512

(* The command of each method, field by field. *)
LEMMA CommandFields ==
  ASSUME NEW r \in Requests
  PROVE  LET c == CommandOf(r) IN
         /\ r.method = "operations" =>
              SMARTFields(c, IF r.argument = 0 THEN \hD9 ELSE \hD8, 0, 0, 0) /\ ~c.read
         /\ r.method = "autosave" =>
              SMARTFields(c, \hD2, IF r.argument = 0 THEN 0 ELSE \hF1, 0, 0) /\ ~c.read
         /\ r.method = "returnStatus" =>
              SMARTFields(c, \hDA, 0, 0, 0) /\ ~c.read
         /\ r.method = "offline" =>
              SMARTFields(c, \hD4, 0, 1 + r.argument, 0) /\ ~c.read
         /\ r.method = "readData" =>
              SMARTFields(c, \hD0, 0, 0, 512) /\ c.read
         /\ r.method = "readThresholds" =>
              SMARTFields(c, \hD1, 0, 0, 512) /\ c.read
         /\ r.method = "readLog" =>
              SMARTFields(c, \hD5, NumSectors(r), r.argument, r.size) /\ c.read
         /\ r.method = "writeLog" =>
              SMARTFields(c, \hD6, NumSectors(r), r.argument, r.size) /\ ~c.read
         /\ r.method = "identify" => IdentifyFields(c) /\ c.read
<1> DEFINE c == CommandOf(r)
<1>1. ASSUME r.method = "operations"
      PROVE  SMARTFields(c, IF r.argument = 0 THEN \hD9 ELSE \hD8, 0, 0, 0) /\ ~c.read
  <2>1. c = EnableDisableOperations(r)
    BY <1>1 DEF CommandOf
  <2> HIDE DEF c
  <2>2. SMARTFields(c, IF r.argument = 0 THEN \hD9 ELSE \hD8, 0, 0, 0)
    BY <2>1 DEF EnableDisableOperations, SMARTCommand, ZeroCommand, SMARTFields
  <2>3. ~c.read
    BY <2>1 DEF EnableDisableOperations, SMARTCommand, ZeroCommand
  <2> QED
    BY <2>2, <2>3
<1>2. ASSUME r.method = "autosave"
      PROVE  SMARTFields(c, \hD2, IF r.argument = 0 THEN 0 ELSE \hF1, 0, 0) /\ ~c.read
  <2>1. c = EnableDisableAutoSave(r)
    BY <1>2 DEF CommandOf
  <2> HIDE DEF c
  <2>2. SMARTFields(c, \hD2, IF r.argument = 0 THEN 0 ELSE \hF1, 0, 0)
    BY <2>1 DEF EnableDisableAutoSave, SMARTCommand, ZeroCommand, SMARTFields
  <2>3. ~c.read
    BY <2>1 DEF EnableDisableAutoSave, SMARTCommand, ZeroCommand
  <2> QED
    BY <2>2, <2>3
<1>3. ASSUME r.method = "returnStatus"
      PROVE  SMARTFields(c, \hDA, 0, 0, 0) /\ ~c.read
  <2>1. c = ReturnStatus(r)
    BY <1>3 DEF CommandOf
  <2> HIDE DEF c
  <2>2. SMARTFields(c, \hDA, 0, 0, 0)
    BY <2>1 DEF ReturnStatus, SMARTCommand, ZeroCommand, SMARTFields
  <2>3. ~c.read
    BY <2>1 DEF ReturnStatus, SMARTCommand, ZeroCommand
  <2> QED
    BY <2>2, <2>3
<1>4. ASSUME r.method = "offline"
      PROVE  SMARTFields(c, \hD4, 0, 1 + r.argument, 0) /\ ~c.read
  <2>1. c = ExecuteOfflineImmediate(r)
    BY <1>4 DEF CommandOf
  <2> HIDE DEF c
  <2>2. SMARTFields(c, \hD4, 0, 1 + r.argument, 0)
    BY <2>1 DEF ExecuteOfflineImmediate, SMARTCommand, ZeroCommand, SMARTFields
  <2>3. ~c.read
    BY <2>1 DEF ExecuteOfflineImmediate, SMARTCommand, ZeroCommand
  <2> QED
    BY <2>2, <2>3
<1>5. ASSUME r.method = "readData"
      PROVE  SMARTFields(c, \hD0, 0, 0, 512) /\ c.read
  <2>1. c = ReadData(r)
    BY <1>5 DEF CommandOf
  <2> HIDE DEF c
  <2>2. SMARTFields(c, \hD0, 0, 0, 512)
    BY <2>1 DEF ReadData, Into, SMARTCommand, ZeroCommand, SMARTFields
  <2>3. c.read
    BY <2>1 DEF ReadData, Into, SMARTCommand, ZeroCommand
  <2> QED
    BY <2>2, <2>3
<1>6. ASSUME r.method = "readThresholds"
      PROVE  SMARTFields(c, \hD1, 0, 0, 512) /\ c.read
  <2>1. c = ReadDataThresholds(r)
    BY <1>6 DEF CommandOf
  <2> HIDE DEF c
  <2>2. SMARTFields(c, \hD1, 0, 0, 512)
    BY <2>1 DEF ReadDataThresholds, Into, SMARTCommand, ZeroCommand, SMARTFields
  <2>3. c.read
    BY <2>1 DEF ReadDataThresholds, Into, SMARTCommand, ZeroCommand
  <2> QED
    BY <2>2, <2>3
<1>7. ASSUME r.method = "readLog"
      PROVE  SMARTFields(c, \hD5, NumSectors(r), r.argument, r.size) /\ c.read
  <2>1. c = ReadLogAtAddress(r)
    BY <1>7 DEF CommandOf
  <2> HIDE DEF c
  <2>2. SMARTFields(c, \hD5, NumSectors(r), r.argument, r.size)
    BY <2>1 DEF ReadLogAtAddress, Into, SMARTCommand, ZeroCommand, SMARTFields
  <2>3. c.read
    BY <2>1 DEF ReadLogAtAddress, Into, SMARTCommand, ZeroCommand
  <2> QED
    BY <2>2, <2>3
<1>8. ASSUME r.method = "writeLog"
      PROVE  SMARTFields(c, \hD6, NumSectors(r), r.argument, r.size) /\ ~c.read
  <2>1. c = WriteLogAtAddress(r)
    BY <1>8 DEF CommandOf
  <2> HIDE DEF c
  <2>2. SMARTFields(c, \hD6, NumSectors(r), r.argument, r.size)
    BY <2>1 DEF WriteLogAtAddress, From, SMARTCommand, ZeroCommand, SMARTFields
  <2>3. ~c.read
    BY <2>1 DEF WriteLogAtAddress, From, SMARTCommand, ZeroCommand
  <2> QED
    BY <2>2, <2>3
<1>9. ASSUME r.method = "identify"
      PROVE  IdentifyFields(c) /\ c.read
  <2>1. c = GetIdentifyData(r)
    BY <1>9 DEF CommandOf
  <2> HIDE DEF c
  <2> QED
    BY <2>1 DEF GetIdentifyData, Into, ZeroCommand, IdentifyFields
<1> QED
  BY <1>1, <1>2, <1>3, <1>4, <1>5, <1>6, <1>7, <1>8, <1>9, Zenon

(* The requests, field by field. *)
LEMMA RequestTypes ==
  ASSUME NEW r \in Requests
  PROVE  /\ r.method \in SwitchMethods \cup PlainMethods \cup LogMethods
         /\ r.method \in SwitchMethods => r.argument \in {0, 1} /\ r.size = 0
         /\ r.method \in PlainMethods => r.argument = 0
         /\ r.method \in PlainMethods \ {"identify"} => r.size = 0
         /\ r.method \in LogMethods =>
              /\ r.argument \in LogAddresses /\ r.argument \in Nat
              /\ r.size \in LogSizes /\ r.size \in Nat \ {0}
              /\ NumSectors(r) \in Byte
         /\ r = [method |-> r.method, argument |-> r.argument, size |-> r.size]
<1>1. CASE r \in [method : SwitchMethods, argument : {0, 1}, size : {0}]
  BY <1>1 DEF SwitchMethods, PlainMethods, LogMethods
<1>2. CASE r \in [method : PlainMethods, argument : {0}, size : {0}]
  BY <1>2 DEF SwitchMethods, PlainMethods, LogMethods
<1>3. CASE r \in [method : LogMethods, argument : LogAddresses, size : LogSizes]
  <2>1. r.size \in Nat \ {0} /\ r.argument \in Nat
    BY <1>3, LogAssumption
  <2>2. NumSectors(r) \in Byte
    BY <2>1 DEF NumSectors, Byte
  <2> QED
    BY <1>3, <2>1, <2>2 DEF SwitchMethods, PlainMethods, LogMethods
<1>4. CASE r \in [method : {"identify"}, argument : {0}, size : LogSizes]
  BY <1>4 DEF SwitchMethods, PlainMethods, LogMethods
<1> QED
  BY <1>1, <1>2, <1>3, <1>4 DEF Requests

(* What a request asks of the disk, for which the length of the buffer of IDENTIFY  *)
(* does not matter.                                                          *)
LEMMA AskedOfRequests ==
  ASSUME NEW r \in Requests
  PROVE  Asked(r) = IF r.method = "identify" THEN PlainRequest("identify") ELSE r
<1>1. r.method \notin {"Send_ATA_IDENTIFY", "Send_ATA_SMART_READ_DATA"}
  BY RequestTypes DEF SwitchMethods, PlainMethods, LogMethods
<1> QED
  BY <1>1 DEF Asked

(* What a method makes is a command, every register a byte. *)
LEMMA BufferTyped ==
  ASSUME NEW c \in Commands, NEW n \in Nat
  PROVE  Into(n, c) \in Commands /\ From(n, c) \in Commands
BY DEF Into, From, Commands

LEMMA SMARTCommandTyped ==
  ASSUME NEW feature \in Byte
  PROVE  SMARTCommand(feature) \in Commands
<1> DEFINE c1 == [ZeroCommand EXCEPT !.features = feature]
           c2 == [c1 EXCEPT !.mid = \h4F]
           c3 == [c2 EXCEPT !.high = \hC2]
           c4 == [c3 EXCEPT !.command = \hB0]
<1>1. ZeroCommand \in Commands
  BY DEF ZeroCommand, Commands, Byte
<1>2. \A c \in Commands : [c EXCEPT !.features = feature] \in Commands
  BY DEF Commands
<1>3. \A c \in Commands : [c EXCEPT !.mid = \h4F] \in Commands
  BY DEF Commands, Byte
<1>4. \A c \in Commands : [c EXCEPT !.high = \hC2] \in Commands
  BY DEF Commands, Byte
<1>5. \A c \in Commands : [c EXCEPT !.command = \hB0] \in Commands
  BY DEF Commands, Byte
<1>6. c1 \in Commands
  BY <1>1, <1>2, Zenon
<1> HIDE DEF c1
<1>7. c2 \in Commands
  BY <1>3, <1>6, Zenon
<1> HIDE DEF c2
<1>8. c3 \in Commands
  BY <1>4, <1>7, Zenon
<1> HIDE DEF c3
<1>9. c4 \in Commands
  BY <1>5, <1>8, Zenon
<1> QED
  BY <1>9, Zenon DEF SMARTCommand, c1, c2, c3, c4

LEMMA CommandTyped ==
  ASSUME NEW r \in Requests, r.method \in LogMethods => LibraryAccepts(r)
  PROVE  CommandOf(r) \in Commands
<1>0. \A n \in 0 .. 255 : n \in Byte
  BY DEF Byte
<1>1. CASE r.method = "operations"
  <2>1. (IF r.argument = 0 THEN \hD9 ELSE \hD8) \in Byte
    BY DEF Byte
  <2> QED
    BY <1>1, <2>1, SMARTCommandTyped DEF CommandOf, EnableDisableOperations
<1>2. CASE r.method = "autosave"
  <2>1. (IF r.argument = 0 THEN 0 ELSE \hF1) \in Byte
    BY DEF Byte
  <2>2. CommandOf(r) = EnableDisableAutoSave(r)
    BY <1>2 DEF CommandOf
  <2>3. SMARTCommand(\hD2) \in Commands
    BY <1>0, SMARTCommandTyped
  <2>4. \A c \in Commands :
          [c EXCEPT !.count = IF r.argument = 0 THEN 0 ELSE \hF1] \in Commands
    BY <2>1 DEF Commands
  <2> QED
    BY <2>2, <2>3, <2>4, Zenon DEF EnableDisableAutoSave
<1>3. CASE r.method = "offline"
  <2>1. 1 + r.argument \in Byte
    BY <1>3, RequestTypes DEF Byte, SwitchMethods
  <2>2. CommandOf(r) = ExecuteOfflineImmediate(r)
    BY <1>3 DEF CommandOf
  <2>3. SMARTCommand(\hD4) \in Commands
    BY <1>0, SMARTCommandTyped
  <2>4. \A c \in Commands : [c EXCEPT !.low = 1 + r.argument] \in Commands
    BY <2>1 DEF Commands
  <2> QED
    BY <2>2, <2>3, <2>4, Zenon DEF ExecuteOfflineImmediate
<1>4. CASE r.method = "returnStatus"
  BY <1>0, <1>4, SMARTCommandTyped DEF CommandOf, ReturnStatus
<1>5. CASE r.method \in {"readData", "readThresholds"}
  <2>1. SMARTCommand(\hD0) \in Commands /\ SMARTCommand(\hD1) \in Commands
    BY <1>0, SMARTCommandTyped
  <2>2. Into(512, SMARTCommand(\hD0)) \in Commands
        /\ Into(512, SMARTCommand(\hD1)) \in Commands
    BY <2>1, BufferTyped
  <2> QED
    BY <1>5, <2>2 DEF CommandOf, ReadData, ReadDataThresholds
<1>6. CASE r.method = "identify"
  <2>1. ZeroCommand \in Commands
    BY DEF ZeroCommand, Commands, Byte
  <2>2. \hEC \in Byte /\ 512 \in Nat
    BY DEF Byte
  <2>3. [ZeroCommand EXCEPT !.command = \hEC] \in Commands
    BY <2>1, <2>2 DEF Commands
  <2>4. GetIdentifyData(r) \in Commands
    BY <2>2, <2>3, BufferTyped, Zenon DEF GetIdentifyData
  <2> QED
    BY <1>6, <2>4 DEF CommandOf
<1>7. CASE r.method \in LogMethods
  <2>1. r.argument \in Byte /\ r.size \in Nat /\ NumSectors(r) \in Byte
    BY <1>7, RequestTypes
    DEF LogMethods, LibraryAccepts, SMARTReadLogAtAddress, SMARTWriteLogAtAddress
  <2>2. SMARTCommand(\hD5) \in Commands /\ SMARTCommand(\hD6) \in Commands
    BY <1>0, SMARTCommandTyped
  <2>3. \A c \in Commands :
          [c EXCEPT !.count = NumSectors(r), !.low = r.argument] \in Commands
    BY <2>1 DEF Commands
  <2>4. ReadLogAtAddress(r) \in Commands
    BY <2>1, <2>2, <2>3, BufferTyped, Zenon DEF ReadLogAtAddress
  <2>5. WriteLogAtAddress(r) \in Commands
    BY <2>1, <2>2, <2>3, BufferTyped, Zenon DEF WriteLogAtAddress
  <2> QED
    BY <1>7, <2>4, <2>5 DEF CommandOf, LogMethods
<1> QED
  BY <1>1, <1>2, <1>3, <1>4, <1>5, <1>6, <1>7, RequestTypes DEF SwitchMethods, PlainMethods

(* A transfer that sendSMARTCommand lets pass is none or one sector, and it is the *)
(* one the request calls for; a log in particular is one sector long.          *)
LEMMA RequestCarried ==
  ASSUME NEW r \in Requests, LibraryAccepts(r), Accepts(Arguments(CommandOf(r)))
  PROVE  LET a == Arguments(CommandOf(r)) IN
         /\ Carried(a)
         /\ a.protocol # SRST
         /\ TransferBy(a) = TransferOf(r)
         /\ r.method \in LogMethods => r.size = 512 /\ a.count = 1
<1> DEFINE c == CommandOf(r)
           a == Arguments(c)
<1> SUFFICES /\ Carried(a)
             /\ a.protocol # SRST
             /\ TransferBy(a) = TransferOf(r)
             /\ r.method \in LogMethods => r.size = 512 /\ a.count = 1
  OBVIOUS
<1>1. c \in Commands
  BY CommandTyped
<1>2. /\ r.method \in SwitchMethods \cup {"returnStatus"} => c.length = 0 /\ ~c.read
      /\ r.method \in {"readData", "readThresholds", "identify"} => c.length = 512 /\ c.read
      /\ r.method = "readLog" => c.length = r.size /\ c.read
      /\ r.method = "writeLog" => c.length = r.size /\ ~c.read
      /\ c.byteCount = c.length
  BY CommandFields, RequestTypes
  DEF SMARTFields, IdentifyFields, SwitchMethods, PlainMethods, LogMethods
<1> HIDE DEF c
<1>3. /\ a.protocol = Protocol(c) /\ a.offline = 0 /\ a.ckCond = 0 /\ a.bytBlok = 1
      /\ a.tDir = (IF c.read THEN 1 ELSE 0)
      /\ a.tLength = (IF Count(c) = 0 THEN 0 ELSE 2)
      /\ a.count = Count(c) /\ a.length = c.length
      /\ a.protocol # SRST
  BY DEF Arguments, Protocol, NonData, PIODataIn, PIODataOut, SRST
<1>4. FieldsFit(a)
  BY <1>1 DEF Arguments, FieldsFit, Commands, Count, Protocol, Byte
<1>5. Accepts(a)
  BY DEF c
<1> HIDE DEF a
<1>6. CASE c.length = 0
  <2>1. Count(c) = 0 /\ Protocol(c) = NonData
    BY <1>6 DEF Count, Protocol
  <2>2. NoTransfer(a)
    BY <1>3, <1>6, <2>1 DEF NoTransfer
  <2>3. r.method \in SwitchMethods \cup {"returnStatus"}
    BY <1>2, <1>6, RequestTypes DEF PlainMethods, LogMethods
  <2>4. TransferBy(a) = TransferOf(r)
    BY <1>3, <1>6, <2>3 DEF TransferBy, TransferOf, Direction, SwitchMethods
  <2> QED
    BY <1>3, <1>4, <2>2, <2>3, <2>4 DEF Carried, LogMethods, SwitchMethods
<1>7. CASE c.length # 0
  <2>1. c.length \in Nat /\ c.length > 0
    BY <1>1, <1>7 DEF Commands
  <2>2. Count(c) = 1 /\ c.length = 512
    <3>1. Protocol(c) # NonData
      BY <1>3, <1>5, <2>1 DEF Accepts
    <3> QED
      BY <1>2, <2>1, <3>1 DEF Protocol, Count
  <2>3. OneSector(a)
    BY <1>3, <2>2 DEF OneSector
  <2>4. CASE c.read
    <3>1. SectorIn(a) /\ Direction(a) = "fromDevice"
      BY <1>3, <2>2, <2>3, <2>4 DEF SectorIn, Protocol, Direction
    <3>2. r.method \in {"readData", "readThresholds", "identify", "readLog"}
      BY <1>2, <1>7, <2>4, RequestTypes DEF SwitchMethods, PlainMethods, LogMethods
    <3>3. r.method = "readLog" => r.size = 512
      BY <1>2, <2>2
    <3>4. TransferBy(a) = TransferOf(r)
      BY <1>3, <2>2, <3>1, <3>2, <3>3 DEF TransferBy, TransferOf
    <3> QED
      BY <1>3, <1>4, <2>2, <3>1, <3>2, <3>3, <3>4 DEF Carried, LogMethods
  <2>5. CASE ~c.read
    <3>1. SectorOut(a) /\ Direction(a) = "toDevice"
      BY <1>3, <2>2, <2>3, <2>5 DEF SectorOut, Protocol, Direction
    <3>2. r.method = "writeLog" /\ r.size = 512
      BY <1>2, <1>7, <2>2, <2>5, RequestTypes DEF SwitchMethods, PlainMethods, LogMethods
    <3>3. TransferBy(a) = TransferOf(r)
      BY <1>3, <2>2, <3>1, <3>2 DEF TransferBy, TransferOf
    <3> QED
      BY <1>3, <1>4, <2>2, <3>1, <3>2, <3>3 DEF Carried, LogMethods
  <2> QED
    BY <2>4, <2>5
<1> QED
  BY <1>6, <1>7

(* What the disk makes of the registers is the request, except that autosave   *)
(* turned on becomes autosave turned off.                                    *)
LEMMA RequestMeaning ==
  ASSUME NEW r \in Requests, LibraryAccepts(r), Accepts(Arguments(CommandOf(r))),
         NEW ata, SameRegisters(ata, Arguments(CommandOf(r))), ~ata.reset
  PROVE  Operation(ata) =
           IF r = AutosaveOn THEN [AutosaveOn EXCEPT !.argument = 0] ELSE Asked(r)
<1> DEFINE c == CommandOf(r)
           count == Arguments(c).count
<1>1. /\ ata.features = c.features /\ ata.low = c.low /\ ata.mid = c.mid
      /\ ata.high = c.high /\ ata.command = c.command /\ ata.count = count
  BY DEF SameRegisters, Arguments
<1>2. c.length = 0 => count = 0
  BY DEF Arguments, Count
<1>3. r.method \in LogMethods => r.size = 512 /\ count = 1
  BY RequestCarried
<1> HIDE DEF c, count
<1>4. /\ r = [method |-> r.method, argument |-> r.argument, size |-> r.size]
      /\ r.method # "identify" => Asked(r) = r
  BY RequestTypes, AskedOfRequests
<1>5. CASE r.method = "operations"
  <2>1. r.argument \in {0, 1} /\ r.size = 0
    BY <1>5, RequestTypes DEF SwitchMethods
  <2>2. SMARTFields(c, IF r.argument = 0 THEN \hD9 ELSE \hD8, 0, 0, 0)
    BY <1>5, CommandFields DEF c
  <2>3. Operation(ata) = [method |-> "operations", argument |-> r.argument, size |-> 0]
    BY <1>1, <2>1, <2>2 DEF Operation, SMARTFields
  <2> QED
    BY <1>4, <1>5, <2>1, <2>3 DEF AutosaveOn
<1>6. CASE r.method = "autosave"
  <2>1. r.argument \in {0, 1} /\ r.size = 0
    BY <1>6, RequestTypes DEF SwitchMethods
  <2>2. SMARTFields(c, \hD2, IF r.argument = 0 THEN 0 ELSE \hF1, 0, 0)
    BY <1>6, CommandFields DEF c
  <2>3. Operation(ata) = [method |-> "autosave", argument |-> 0, size |-> 0]
    BY <1>1, <1>2, <2>2 DEF Operation, SMARTFields
  <2> QED
    BY <1>4, <1>6, <2>1, <2>3 DEF AutosaveOn
<1>7. CASE r.method = "offline"
  <2>1. r.argument \in {0, 1} /\ r.size = 0
    BY <1>7, RequestTypes DEF SwitchMethods
  <2>2. SMARTFields(c, \hD4, 0, 1 + r.argument, 0)
    BY <1>7, CommandFields DEF c
  <2>3. Operation(ata) = [method |-> "offline", argument |-> r.argument, size |-> 0]
    BY <1>1, <2>1, <2>2 DEF Operation, SMARTFields
  <2> QED
    BY <1>4, <1>7, <2>1, <2>3 DEF AutosaveOn
<1>8. CASE r.method = "returnStatus"
  <2>1. r.argument = 0 /\ r.size = 0
    BY <1>8, RequestTypes DEF PlainMethods
  <2>2. SMARTFields(c, \hDA, 0, 0, 0)
    BY <1>8, CommandFields DEF c
  <2>3. Operation(ata) = [method |-> "returnStatus", argument |-> 0, size |-> 0]
    BY <1>1, <2>2 DEF Operation, SMARTFields
  <2> QED
    BY <1>4, <1>8, <2>1, <2>3 DEF AutosaveOn
<1>9. CASE r.method \in {"readData", "readThresholds"}
  <2>1. r.argument = 0 /\ r.size = 0
    BY <1>9, RequestTypes DEF PlainMethods
  <2>2. /\ r.method = "readData" => SMARTFields(c, \hD0, 0, 0, 512)
        /\ r.method = "readThresholds" => SMARTFields(c, \hD1, 0, 0, 512)
    BY CommandFields DEF c
  <2>3. Operation(ata) = [method |-> r.method, argument |-> 0, size |-> 0]
    BY <1>1, <1>9, <2>2 DEF Operation, SMARTFields
  <2> QED
    BY <1>4, <1>9, <2>1, <2>3 DEF AutosaveOn
<1>10. CASE r.method = "identify"
  <2>1. Asked(r) = [method |-> "identify", argument |-> 0, size |-> 0]
    BY <1>10, AskedOfRequests DEF PlainRequest
  <2>2. IdentifyFields(c)
    BY <1>10, CommandFields DEF c
  <2>3. Operation(ata) = [method |-> "identify", argument |-> 0, size |-> 0]
    BY <1>1, <2>2 DEF Operation, IdentifyFields
  <2> QED
    BY <1>10, <2>1, <2>3 DEF AutosaveOn
<1>11. CASE r.method \in LogMethods
  <2>1. /\ r.method = "readLog" =>
             SMARTFields(c, \hD5, NumSectors(r), r.argument, r.size)
        /\ r.method = "writeLog" =>
             SMARTFields(c, \hD6, NumSectors(r), r.argument, r.size)
    BY CommandFields DEF c
  <2>2. Operation(ata) = [method |-> r.method, argument |-> r.argument, size |-> 512]
    BY <1>1, <1>3, <1>11, <2>1 DEF Operation, SMARTFields, LogMethods
  <2> QED
    BY <1>3, <1>4, <1>11, <2>2 DEF AutosaveOn, LogMethods
<1> QED
  BY <1>5, <1>6, <1>7, <1>8, <1>9, <1>10, <1>11, RequestTypes
  DEF SwitchMethods, PlainMethods
-------------------------------------------------------------------------------
(* What the driver sends of its own.                                         *)

(* The fields of a command of the driver that has no data. *)
OwnFields(a, offline, ckCond, count, command_) ==
  /\ a.protocol = NonData /\ a.offline = offline /\ a.ckCond = ckCond /\ a.tDir = 0
  /\ a.bytBlok = 0 /\ a.tLength = 0 /\ a.features = 0 /\ a.count = count
  /\ a.low = 0 /\ a.mid = 0 /\ a.high = 0 /\ a.command = command_ /\ a.length = 0

(* The driver's own requests, and the arguments of each, field by field. *)
LEMMA OwnTypes ==
  ASSUME NEW r \in OwnRequests
  PROVE  /\ r.method \in {"Send_ATA_IDENTIFY", "Send_ATA_SMART_READ_DATA",
                          "JMicron_get_registers", "Send_ATA_IDLE_IMMEDIATE",
                          "Send_ATA_STANDBY_IMMEDIATE", "Send_ATA_CHECK_POWER_MODE",
                          "Send_ATA_SEND_SOFT_RESET", "Send_ATA_IDLE", "Send_ATA_STANDBY"}
         /\ r.argument \in Byte /\ r.size = 0
         /\ r.method \notin {"Send_ATA_IDLE", "Send_ATA_STANDBY"} => r.argument = 0
         /\ r = [method |-> r.method, argument |-> r.argument, size |-> r.size]
BY DEF OwnRequests, Byte

LEMMA OwnArgumentFields ==
  ASSUME NEW r \in OwnRequests
  PROVE  LET a == OwnArguments(r) IN
         /\ FieldsFit(a)
         /\ r.method = "Send_ATA_IDENTIFY" =>
              /\ SectorIn(a) /\ a.offline = 0 /\ a.ckCond = 0 /\ a.bytBlok = 1
              /\ a.features = 0 /\ a.low = 0 /\ a.mid = 0 /\ a.high = 0 /\ a.command = \hEC
         /\ r.method = "Send_ATA_SMART_READ_DATA" =>
              /\ SectorIn(a) /\ a.offline = 0 /\ a.ckCond = 0 /\ a.bytBlok = 1
              /\ a.features = \hD0 /\ a.low = 0 /\ a.mid = \h4F /\ a.high = \hC2
              /\ a.command = \hB0
         /\ r.method = "Send_ATA_IDLE" => OwnFields(a, 0, 0, r.argument, \hE3)
         /\ r.method = "Send_ATA_IDLE_IMMEDIATE" => OwnFields(a, 1, 0, 0, \hE1)
         /\ r.method = "Send_ATA_STANDBY" => OwnFields(a, 1, 0, r.argument, \hE2)
         /\ r.method = "Send_ATA_STANDBY_IMMEDIATE" => OwnFields(a, 0, 0, 0, \hE0)
         /\ r.method = "Send_ATA_CHECK_POWER_MODE" => OwnFields(a, 0, 1, 0, \hE5)
         /\ r.method = "Send_ATA_SEND_SOFT_RESET" =>
              a.protocol = SRST /\ NoTransfer(a) /\ a.command = 0
         /\ r.method = "JMicron_get_registers" =>
              /\ a.tDir = 1 /\ a.count = \h72 /\ a.low = \h0F /\ a.command = \hFD
              /\ a.length = 1
<1> DEFINE a == OwnArguments(r)
<1>1. ASSUME r.method = "Send_ATA_IDENTIFY"
      PROVE  /\ FieldsFit(a)
             /\ SectorIn(a) /\ a.offline = 0 /\ a.ckCond = 0 /\ a.bytBlok = 1
             /\ a.features = 0 /\ a.low = 0 /\ a.mid = 0 /\ a.high = 0 /\ a.command = \hEC
  <2>1. a = Send_ATA_IDENTIFY
    BY <1>1 DEF OwnArguments
  <2> HIDE DEF a
  <2>2. FieldsFit(a)
    BY <2>1, OwnTypes
    DEF Send_ATA_IDENTIFY, Plain, Sector, FieldsFit, Byte, NonData, PIODataIn
  <2> QED
    BY <2>1, <2>2 DEF Send_ATA_IDENTIFY, Sector, Plain, SectorIn, OneSector
<1>2. ASSUME r.method = "Send_ATA_SMART_READ_DATA"
      PROVE  /\ FieldsFit(a)
             /\ SectorIn(a) /\ a.offline = 0 /\ a.ckCond = 0 /\ a.bytBlok = 1
             /\ a.features = \hD0 /\ a.low = 0 /\ a.mid = \h4F /\ a.high = \hC2
             /\ a.command = \hB0
  <2>1. a = Send_ATA_SMART_READ_DATA
    BY <1>2 DEF OwnArguments
  <2> HIDE DEF a
  <2>2. FieldsFit(a)
    BY <2>1, OwnTypes
    DEF Send_ATA_SMART_READ_DATA, Plain, Sector, FieldsFit, Byte, NonData, PIODataIn
  <2> QED
    BY <2>1, <2>2 DEF Send_ATA_SMART_READ_DATA, Sector, Plain, SectorIn, OneSector
<1>3. ASSUME r.method = "Send_ATA_IDLE"
      PROVE  /\ FieldsFit(a)
             /\ OwnFields(a, 0, 0, r.argument, \hE3)
  <2>1. a = Send_ATA_IDLE(r.argument)
    BY <1>3 DEF OwnArguments
  <2> HIDE DEF a
  <2>2. FieldsFit(a)
    BY <2>1, OwnTypes
    DEF Send_ATA_IDLE, Plain, FieldsFit, Byte, NonData
  <2> QED
    BY <2>1, <2>2 DEF Send_ATA_IDLE, Plain, OwnFields
<1>4. ASSUME r.method = "Send_ATA_IDLE_IMMEDIATE"
      PROVE  /\ FieldsFit(a)
             /\ OwnFields(a, 1, 0, 0, \hE1)
  <2>1. a = Send_ATA_IDLE_IMMEDIATE
    BY <1>4 DEF OwnArguments
  <2> HIDE DEF a
  <2>2. FieldsFit(a)
    BY <2>1, OwnTypes
    DEF Send_ATA_IDLE_IMMEDIATE, Plain, FieldsFit, Byte, NonData
  <2> QED
    BY <2>1, <2>2 DEF Send_ATA_IDLE_IMMEDIATE, Plain, OwnFields
<1>5. ASSUME r.method = "Send_ATA_STANDBY"
      PROVE  /\ FieldsFit(a)
             /\ OwnFields(a, 1, 0, r.argument, \hE2)
  <2>1. a = Send_ATA_STANDBY(r.argument)
    BY <1>5 DEF OwnArguments
  <2> HIDE DEF a
  <2>2. FieldsFit(a)
    BY <2>1, OwnTypes
    DEF Send_ATA_STANDBY, Plain, FieldsFit, Byte, NonData
  <2> QED
    BY <2>1, <2>2 DEF Send_ATA_STANDBY, Plain, OwnFields
<1>6. ASSUME r.method = "Send_ATA_STANDBY_IMMEDIATE"
      PROVE  /\ FieldsFit(a)
             /\ OwnFields(a, 0, 0, 0, \hE0)
  <2>1. a = Send_ATA_STANDBY_IMMEDIATE
    BY <1>6 DEF OwnArguments
  <2> HIDE DEF a
  <2>2. FieldsFit(a)
    BY <2>1, OwnTypes
    DEF Send_ATA_STANDBY_IMMEDIATE, Plain, FieldsFit, Byte, NonData
  <2> QED
    BY <2>1, <2>2 DEF Send_ATA_STANDBY_IMMEDIATE, Plain, OwnFields
<1>7. ASSUME r.method = "Send_ATA_CHECK_POWER_MODE"
      PROVE  /\ FieldsFit(a)
             /\ OwnFields(a, 0, 1, 0, \hE5)
  <2>1. a = Send_ATA_CHECK_POWER_MODE
    BY <1>7 DEF OwnArguments
  <2> HIDE DEF a
  <2>2. FieldsFit(a)
    BY <2>1, OwnTypes
    DEF Send_ATA_CHECK_POWER_MODE, Plain, FieldsFit, Byte, NonData
  <2> QED
    BY <2>1, <2>2 DEF Send_ATA_CHECK_POWER_MODE, Plain, OwnFields
<1>8. ASSUME r.method = "Send_ATA_SEND_SOFT_RESET"
      PROVE  /\ FieldsFit(a)
             /\ a.protocol = SRST /\ NoTransfer(a) /\ a.command = 0
  <2>1. a = Send_ATA_SEND_SOFT_RESET
    BY <1>8 DEF OwnArguments
  <2> HIDE DEF a
  <2>2. FieldsFit(a)
    BY <2>1, OwnTypes
    DEF Send_ATA_SEND_SOFT_RESET, Plain, FieldsFit, Byte, NonData, SRST
  <2> QED
    BY <2>1, <2>2 DEF Send_ATA_SEND_SOFT_RESET, Plain, NoTransfer
<1>9. ASSUME r.method = "JMicron_get_registers"
      PROVE  /\ FieldsFit(a)
             /\ a.tDir = 1 /\ a.count = \h72 /\ a.low = \h0F /\ a.command = \hFD
             /\ a.length = 1
  <2>1. a = JMicron_get_registers
    BY <1>9 DEF OwnArguments
  <2> HIDE DEF a
  <2>2. FieldsFit(a)
    BY <2>1, OwnTypes
    DEF JMicron_get_registers, Plain, FieldsFit, Byte, NonData
  <2> QED
    BY <2>1, <2>2 DEF JMicron_get_registers, Plain
<1> HIDE DEF a
<1> QED
  BY <1>1, <1>2, <1>3, <1>4, <1>5, <1>6, <1>7, <1>8, <1>9, OwnTypes DEF a

(* All but the register of JMicron have no data or one sector. *)
LEMMA OwnCarried ==
  ASSUME NEW r \in OwnRequests, r.method # "JMicron_get_registers"
  PROVE  Carried(OwnArguments(r))
<1>1. CASE r.method = "Send_ATA_SEND_SOFT_RESET"
  BY <1>1, OwnArgumentFields DEF Carried
<1>2. CASE r.method \in {"Send_ATA_IDENTIFY", "Send_ATA_SMART_READ_DATA"}
  BY <1>2, OwnArgumentFields DEF Carried
<1>3. CASE r.method \notin {"Send_ATA_IDENTIFY", "Send_ATA_SMART_READ_DATA",
                           "Send_ATA_SEND_SOFT_RESET"}
  <2>1. NoTransfer(OwnArguments(r))
    BY <1>3, OwnTypes, OwnArgumentFields DEF OwnFields, NoTransfer
  <2> QED
    BY <2>1, OwnArgumentFields DEF Carried
<1> QED
  BY <1>1, <1>2, <1>3

(* The disk takes each of the driver's commands for what it is, but for a reset  *)
(* that the layout could not say.                                            *)
LEMMA OwnMeaning ==
  ASSUME NEW r \in OwnRequests, NEW ata, SameRegisters(ata, OwnArguments(r)),
         ata.reset => r.method = "Send_ATA_SEND_SOFT_RESET"
  PROVE  Operation(ata) =
           IF r.method = "Send_ATA_SEND_SOFT_RESET" /\ ~ata.reset THEN Nothing ELSE Asked(r)
<1> DEFINE a == OwnArguments(r)
<1>1. /\ ata.features = a.features /\ ata.low = a.low /\ ata.mid = a.mid
      /\ ata.high = a.high /\ ata.command = a.command /\ ata.count = a.count
  BY DEF SameRegisters
<1> HIDE DEF a
<1>2. /\ r = [method |-> r.method, argument |-> r.argument, size |-> 0]
      /\ r.method \notin {"Send_ATA_IDLE", "Send_ATA_STANDBY"} => r.argument = 0
  BY OwnTypes
<1>3. CASE r.method = "Send_ATA_IDENTIFY"
  BY <1>1, <1>3, OwnArgumentFields DEF a, Operation, Asked, PlainRequest
<1>4. CASE r.method = "Send_ATA_SMART_READ_DATA"
  BY <1>1, <1>4, OwnArgumentFields DEF a, Operation, Asked, PlainRequest
<1>5. CASE r.method = "Send_ATA_IDLE"
  <2>1. Operation(ata) = [method |-> "Send_ATA_IDLE", argument |-> r.argument, size |-> 0]
    BY <1>1, <1>5, OwnArgumentFields DEF a, OwnFields, Operation
  <2> QED
    BY <1>2, <1>5, <2>1 DEF Asked
<1>6. CASE r.method = "Send_ATA_IDLE_IMMEDIATE"
  <2>1. Operation(ata) = [method |-> "Send_ATA_IDLE_IMMEDIATE", argument |-> 0, size |-> 0]
    BY <1>1, <1>6, OwnArgumentFields DEF a, OwnFields, Operation
  <2> QED
    BY <1>2, <1>6, <2>1 DEF Asked
<1>7. CASE r.method = "Send_ATA_STANDBY"
  <2>1. Operation(ata) = [method |-> "Send_ATA_STANDBY", argument |-> r.argument, size |-> 0]
    BY <1>1, <1>7, OwnArgumentFields DEF a, OwnFields, Operation
  <2> QED
    BY <1>2, <1>7, <2>1 DEF Asked
<1>8. CASE r.method = "Send_ATA_STANDBY_IMMEDIATE"
  <2>1. Operation(ata) = [method |-> "Send_ATA_STANDBY_IMMEDIATE", argument |-> 0, size |-> 0]
    BY <1>1, <1>8, OwnArgumentFields DEF a, OwnFields, Operation
  <2> QED
    BY <1>2, <1>8, <2>1 DEF Asked
<1>9. CASE r.method = "Send_ATA_CHECK_POWER_MODE"
  <2>1. Operation(ata) = [method |-> "Send_ATA_CHECK_POWER_MODE", argument |-> 0, size |-> 0]
    BY <1>1, <1>9, OwnArgumentFields DEF a, OwnFields, Operation
  <2> QED
    BY <1>2, <1>9, <2>1 DEF Asked
<1>10. CASE r.method = "Send_ATA_SEND_SOFT_RESET"
  <2>1. ata.command = 0
    BY <1>1, <1>10, OwnArgumentFields DEF a
  <2>2. CASE ata.reset
    <3>1. Operation(ata) = [method |-> "Send_ATA_SEND_SOFT_RESET", argument |-> 0, size |-> 0]
      BY <2>1, <2>2 DEF Operation
    <3> QED
      BY <1>2, <1>10, <2>2, <3>1 DEF Asked
  <2>3. CASE ~ata.reset
    BY <1>10, <2>1, <2>3 DEF Operation
  <2> QED
    BY <2>2, <2>3
<1>11. CASE r.method = "JMicron_get_registers"
  <2>1. a.command = \hFD /\ a.count = \h72 /\ a.low = \h0F
    BY <1>11, OwnArgumentFields DEF a
  <2>2. Operation(ata) = [method |-> "JMicron_get_registers", argument |-> 0, size |-> 0]
    BY <1>1, <1>11, <2>1 DEF Operation
  <2> QED
    BY <1>2, <1>11, <2>2 DEF Asked
<1> QED
  BY <1>3, <1>4, <1>5, <1>6, <1>7, <1>8, <1>9, <1>10, <1>11, OwnTypes

(* The transfers of the driver's own commands are those they call for.          *)
LEMMA OwnTransfer ==
  ASSUME NEW r \in OwnRequests
  PROVE  /\ TransferBy(OwnArguments(r)) = TransferOf(Asked(r))
         /\ r.method = "Send_ATA_SEND_SOFT_RESET" =>
              TransferBy(OwnArguments(r)) = TransferOf(Nothing)
<1> DEFINE a == OwnArguments(r)
<1>1. CASE r.method \in {"Send_ATA_IDENTIFY", "Send_ATA_SMART_READ_DATA"}
  <2>1. a.tDir = 1 /\ a.length = 512
    BY <1>1, OwnArgumentFields DEF SectorIn, OneSector
  <2>2. TransferOf(Asked(r)) = [direction |-> "fromDevice", bytes |-> 512]
    BY <1>1 DEF Asked, PlainRequest, TransferOf
  <2> QED
    BY <1>1, <2>1, <2>2 DEF TransferBy, Direction
<1>2. CASE r.method = "JMicron_get_registers"
  <2>1. a.tDir = 1 /\ a.length = 1
    BY <1>2, OwnArgumentFields
  <2>2. TransferOf(Asked(r)) = [direction |-> "fromDevice", bytes |-> 1]
    BY <1>2 DEF Asked, TransferOf
  <2> QED
    BY <1>2, <2>1, <2>2 DEF TransferBy, Direction
<1>3. CASE r.method \notin {"Send_ATA_IDENTIFY", "Send_ATA_SMART_READ_DATA",
                           "JMicron_get_registers"}
  <2>1. a.length = 0
    BY <1>3, OwnTypes, OwnArgumentFields DEF OwnFields, NoTransfer
  <2>2. TransferOf(Asked(r)) = [direction |-> "none", bytes |-> 0]
    BY <1>3, OwnTypes DEF Asked, TransferOf
  <2>3. TransferOf(Nothing) = [direction |-> "none", bytes |-> 0]
    BY DEF Nothing, TransferOf
  <2> QED
    BY <2>1, <2>2, <2>3 DEF TransferBy, Direction
<1> QED
  BY <1>1, <1>2, <1>3
-------------------------------------------------------------------------------
(* Both together: what is sent for a request, and what becomes of it.           *)
SentArguments(r) == IF r \in Requests THEN Arguments(CommandOf(r)) ELSE OwnArguments(r)

Sendable(r) ==
  \/ r \in Requests /\ LibraryAccepts(r) /\ Accepts(Arguments(CommandOf(r)))
  \/ r \in OwnRequests

(* What the disk takes for a request sent in a layout: what it asked for, but for  *)
(* autosave, which is never turned on, and a reset some layouts cannot say.     *)
Understood(r, m) ==
  CASE r = AutosaveOn -> [AutosaveOn EXCEPT !.argument = 0]
    [] r.method = "Send_ATA_SEND_SOFT_RESET" /\ m \in {"jmicron", "sunplus"} -> Nothing
    [] OTHER -> Asked(r)

(* No request of an application is one of the driver. *)
LEMMA Apart ==
  ASSUME NEW r
  PROVE  /\ r \in Requests => /\ r \notin OwnRequests
                              /\ r.method \notin {"JMicron_get_registers",
                                                 "Send_ATA_SEND_SOFT_RESET"}
         /\ r \in OwnRequests => r # AutosaveOn
<1>1. ASSUME r \in Requests
      PROVE  r.method \in SwitchMethods \cup PlainMethods \cup LogMethods
  BY <1>1, RequestTypes
<1>2. ASSUME r \in OwnRequests
      PROVE  r.method \notin SwitchMethods \cup PlainMethods \cup LogMethods
  BY <1>2, OwnTypes DEF SwitchMethods, PlainMethods, LogMethods
<1> QED
  BY <1>1, <1>2 DEF AutosaveOn, SwitchMethods, PlainMethods, LogMethods

(* Whatever is sent, in whatever layout it may go, is understood by the disk, and  *)
(* its transfer is the one that the command calls for.                         *)
LEMMA SentUnderstood ==
  ASSUME NEW r, Sendable(r), NEW m \in Modes,
         r.method = "JMicron_get_registers" => m = "jmicron"
  PROVE  LET a == SentArguments(r)
             sent == PASS_THROUGH_12or16(m, a)
             ata == Unpack(sent.cdb)
         IN /\ sent.cdb \in Seq(Byte)
            /\ sent.direction \in {"none", "fromDevice", "toDevice"}
            /\ sent.length \in Nat
            /\ SameRegisters(ata, a)
            /\ ata.transfer = [direction |-> sent.direction, bytes |-> sent.length]
            /\ Operation(ata) = Understood(r, m)
            /\ ata.transfer = TransferOf(Operation(ata))
<1> DEFINE a == SentArguments(r)
           sent == PASS_THROUGH_12or16(m, a)
           ata == Unpack(sent.cdb)
<1> SUFFICES /\ sent.cdb \in Seq(Byte)
             /\ a.length \in Nat
             /\ SameRegisters(ata, a)
             /\ ata.transfer = TransferBy(a)
             /\ Operation(ata) = Understood(r, m)
             /\ TransferBy(a) = TransferOf(Understood(r, m))
  <2>1. sent.direction = Direction(a) /\ sent.length = a.length
    BY DEF PASS_THROUGH_12or16
  <2>2. Direction(a) \in {"none", "fromDevice", "toDevice"}
    BY DEF Direction
  <2> HIDE DEF a, sent, ata
  <2> QED
    BY <2>1, <2>2 DEF TransferBy, a, sent, ata
<1>1. CASE r \in Requests
  <2>1. a = Arguments(CommandOf(r))
    BY <1>1 DEF SentArguments
  <2>2. LibraryAccepts(r) /\ Accepts(Arguments(CommandOf(r)))
    BY <1>1, Apart DEF Sendable
  <2>3. Carried(a) /\ a.protocol # SRST /\ TransferBy(a) = TransferOf(r)
    BY <1>1, <2>1, <2>2, RequestCarried
  <2>4. Understood(r, m) =
          IF r = AutosaveOn THEN [AutosaveOn EXCEPT !.argument = 0] ELSE Asked(r)
    BY <1>1, Apart DEF Understood
  <2>5. TransferOf(AutosaveOn) = TransferOf([AutosaveOn EXCEPT !.argument = 0])
    BY DEF TransferOf, AutosaveOn
  <2> HIDE DEF a
  <2>6. /\ sent.cdb \in Seq(Byte) /\ SameRegisters(ata, a) /\ ata.transfer = TransferBy(a)
        /\ ~ata.reset
    BY <2>3, EveryLayoutCarries
  <2>7. a.length \in Nat
    BY <2>3 DEF Carried, FieldsFit
  <2> HIDE DEF sent, ata
  <2>8. Operation(ata) = Understood(r, m)
    BY <1>1, <2>1, <2>2, <2>4, <2>6, RequestMeaning
  <2>9. TransferOf(Asked(r)) = TransferOf(r)
    <3>1. r.method = "identify" => TransferOf(Asked(r)) = TransferOf(r)
      BY <1>1, AskedOfRequests DEF TransferOf, PlainRequest
    <3> QED
      BY <1>1, <3>1, AskedOfRequests
  <2> QED
    BY <2>3, <2>4, <2>5, <2>6, <2>7, <2>8, <2>9
<1>2. CASE r \in OwnRequests /\ r.method # "JMicron_get_registers"
  <2>1. a = OwnArguments(r)
    BY <1>2, Apart DEF SentArguments
  <2>2. Carried(a)
    BY <1>2, <2>1, OwnCarried
  <2>3. a.protocol = SRST <=> r.method = "Send_ATA_SEND_SOFT_RESET"
    <3>1. CASE r.method = "Send_ATA_SEND_SOFT_RESET"
      BY <1>2, <2>1, <3>1, OwnArgumentFields
    <3>2. CASE r.method # "Send_ATA_SEND_SOFT_RESET"
      BY <1>2, <2>1, <3>2, OwnTypes, OwnArgumentFields
      DEF OwnFields, SectorIn, SRST, NonData, PIODataIn
    <3> QED
      BY <3>1, <3>2
  <2> HIDE DEF a
  <2>4. /\ sent.cdb \in Seq(Byte) /\ SameRegisters(ata, a) /\ ata.transfer = TransferBy(a)
        /\ ata.reset <=> a.protocol = SRST /\ m \notin {"jmicron", "sunplus"}
    BY <2>2, EveryLayoutCarries
  <2>5. a.length \in Nat
    BY <2>2 DEF Carried, FieldsFit
  <2> HIDE DEF sent, ata
  <2>6. Operation(ata) =
          IF r.method = "Send_ATA_SEND_SOFT_RESET" /\ ~ata.reset THEN Nothing ELSE Asked(r)
    BY <1>2, <2>1, <2>3, <2>4, OwnMeaning
  <2>7. Operation(ata) = Understood(r, m)
    BY <1>2, <2>3, <2>4, <2>6, Apart DEF Understood
  <2>8. TransferBy(a) = TransferOf(Understood(r, m))
    BY <1>2, <2>1, OwnTransfer, Apart DEF Understood
  <2> QED
    BY <2>4, <2>5, <2>7, <2>8
<1>3. CASE r \in OwnRequests /\ r.method = "JMicron_get_registers"
  <2>1. a = OwnArguments(r) /\ m = "jmicron"
    BY <1>3, Apart DEF SentArguments
  <2>2. FitsJMicron(a) /\ a.length \in Nat
    BY <1>3, <2>1, OwnArgumentFields DEF FitsJMicron
  <2>3. sent.cdb = PASS_THROUGH_JMicron(a)
    BY <2>1 DEF PASS_THROUGH_12or16
  <2> HIDE DEF a
  <2>4. /\ sent.cdb \in Seq(Byte) /\ SameRegisters(ata, a) /\ ata.transfer = TransferBy(a)
        /\ ata.reset = FALSE
    BY <2>2, <2>3, JMicronCarries
  <2> HIDE DEF sent, ata
  <2>5. Operation(ata) = Asked(r)
    BY <1>3, <2>1, <2>4, OwnMeaning
  <2>6. Understood(r, m) = Asked(r)
    BY <1>3, Apart DEF Understood
  <2>7. TransferBy(a) = TransferOf(Asked(r))
    BY <1>3, <2>1, OwnTransfer
  <2> QED
    BY <2>2, <2>4, <2>5, <2>6, <2>7
<1> QED
  BY <1>1, <1>2, <1>3 DEF Sendable
-------------------------------------------------------------------------------
(* The inductive invariant: a request that waits for the driver has passed the    *)
(* library and is the command its method made; one under way has in its task what   *)
(* was sent for it; and a good answer means that the disk has obeyed it.        *)
CommandHeld ==
  pc = "command" =>
    request \in Requests /\ LibraryAccepts(request) /\ command = CommandOf(request)

Underway == pc \in {"sent", "answered"}

OwnRegisters(c, a) ==
  /\ c.features = a.features /\ c.count = a.count /\ c.low = a.low
  /\ c.mid = a.mid /\ c.high = a.high /\ c.command = a.command

TaskHeld ==
  Underway =>
    /\ Sendable(request)
    /\ request \in Requests => command = CommandOf(request)
    /\ request \in OwnRequests => OwnRegisters(command, OwnArguments(request))
    /\ task = PASS_THROUGH_12or16(OwnMode(request), SentArguments(request))

GoodMeansObeyed ==
  pc = "answered" /\ outcome = "good" =>
    did = Understood(request, OwnMode(request)) /\ did # Nothing

IInv == TypeOK /\ CommandHeld /\ TaskHeld /\ GoodMeansObeyed /\ SuccessMeansDone /\ LogsWhole

(* The register of JMicron goes out in that layout, the rest in the mode in force. *)
LEMMA OwnModeTyped ==
  ASSUME TypeOK, NEW r
  PROVE  /\ OwnMode(r) \in Modes
         /\ r.method = "JMicron_get_registers" => OwnMode(r) = "jmicron"
         /\ r.method # "JMicron_get_registers" => OwnMode(r) = mode
BY DEF TypeOK, OwnMode, Modes

(* What a disk can be made to do is a request, or nothing. *)
LEMMA UnderstoodTyped ==
  ASSUME NEW r \in Requests \cup OwnRequests, NEW m
  PROVE  Understood(r, m) \in Requests \cup OwnRequests \cup {Nothing}
<1>1. [AutosaveOn EXCEPT !.argument = 0] \in Requests
  BY DEF AutosaveOn, Requests, SwitchMethods
<1>2. PlainRequest("identify") \in Requests /\ PlainRequest("readData") \in Requests
  BY DEF PlainRequest, Requests, PlainMethods
<1> QED
  BY <1>1, <1>2 DEF Understood, Asked

(* A task that is under way says what was sent, and will be understood. *)
LEMMA UnderwayUnderstood ==
  ASSUME TypeOK, TaskHeld, Underway
  PROVE  LET ata == Unpack(task.cdb) IN
         /\ request \in Requests \cup OwnRequests
         /\ SameRegisters(ata, SentArguments(request))
         /\ ata.transfer = [direction |-> task.direction, bytes |-> task.length]
         /\ Operation(ata) = Understood(request, OwnMode(request))
         /\ ata.transfer = TransferOf(Operation(ata))
<1>1. /\ Sendable(request)
      /\ task = PASS_THROUGH_12or16(OwnMode(request), SentArguments(request))
  BY DEF TaskHeld
<1>2. OwnMode(request) \in Modes
  BY OwnModeTyped
<1>3. request.method = "JMicron_get_registers" => OwnMode(request) = "jmicron"
  BY OwnModeTyped
<1>4. request \in Requests \cup OwnRequests
  BY <1>1 DEF Sendable
<1> QED
  BY <1>1, <1>2, <1>3, <1>4, SentUnderstood

(* TypeOK in three parts, since most actions leave one or two of them alone. *)
DriverTyped ==
  /\ mode \in Modes /\ permissive \in BOOLEAN /\ capable \in BOOLEAN
  /\ disk \in [enabled : BOOLEAN, autosave : BOOLEAN, exceeded : BOOLEAN]
TaskTyped ==
  /\ task.cdb \in Seq(Byte)
  /\ task.direction \in {"none", "fromDevice", "toDevice"}
  /\ task.length \in Nat
RequestTyped ==
  /\ pc \in {"idle", "command", "sent", "answered"}
  /\ request \in Requests \cup OwnRequests \cup {Nothing}
  /\ command \in Commands
  /\ outcome \in {"none", "good", "check", "timeout", "failure"}
  /\ did \in Requests \cup OwnRequests \cup {Nothing}
  /\ status \in {"none", "badArgument", "invalid", "error", "timeout", "success"}
CallerTyped == exceeded \in BOOLEAN /\ data \in Seq(Byte) /\ valid \in {"none", "yes", "no"}

LEMMA TypeParts ==
  /\ TypeOK <=> DriverTyped /\ TaskTyped /\ RequestTyped /\ CallerTyped
  /\ TypeOK' <=> DriverTyped' /\ TaskTyped' /\ RequestTyped' /\ CallerTyped'
<1>1. TypeOK <=> DriverTyped /\ TaskTyped /\ RequestTyped /\ CallerTyped
  BY Zenon DEF TypeOK, DriverTyped, TaskTyped, RequestTyped, CallerTyped
<1>2. TypeOK' <=> DriverTyped' /\ TaskTyped' /\ RequestTyped' /\ CallerTyped'
  BY Zenon DEF TypeOK, DriverTyped, TaskTyped, RequestTyped, CallerTyped
<1> QED
  BY <1>1, <1>2

(* A request begins with no task, and leaves the driver and the disk alone. *)
LEMMA NoneTyped ==
  /\ None.cdb \in Seq(Byte) /\ None.direction = "none" /\ None.length = 0
<1>1. None.cdb \in Seq(Byte)
  BY DEF None
<1>2. None.direction = "none" /\ None.length = 0
  BY DEF None
<1> QED
  BY <1>1, <1>2

LEMMA BeginTyped ==
  ASSUME TypeOK, NEW r, Begin(r)
  PROVE  DriverTyped' /\ CallerTyped' /\ (task' = None => TaskTyped')
<1>1. DriverTyped'
  BY TypeParts DEF Begin, driverVars, DriverTyped
<1>2. exceeded' \in BOOLEAN
  BY DEF Begin
<1>3. data' \in Seq(Byte) /\ valid' \in {"none", "yes", "no"}
  BY DEF Begin
<1>4. task' = None => TaskTyped'
  BY NoneTyped DEF TaskTyped
<1> QED
  BY <1>1, <1>2, <1>3, <1>4 DEF CallerTyped

(* The invariant holds at first and every action preserves it. *)
LEMMA InitEstablishes ==
  ASSUME Init
  PROVE  IInv
<1>1. ZeroCommand \in Commands
  BY DEF ZeroCommand, Commands, Byte
<1>2. DriverTyped
  BY DEF Init, DriverTyped
<1>3. TaskTyped
  BY NoneTyped DEF Init, TaskTyped
<1>4. RequestTyped
  BY <1>1 DEF Init, RequestTyped
<1>5. CallerTyped
  <2>1. exceeded \in BOOLEAN
    BY DEF Init
  <2>2. data \in Seq(Byte) /\ valid \in {"none", "yes", "no"}
    BY DEF Init
  <2> QED
    BY <2>1, <2>2 DEF CallerTyped
<1>6. TypeOK
  BY <1>2, <1>3, <1>4, <1>5, TypeParts
<1> QED
  BY <1>6 DEF Init, IInv, CommandHeld, TaskHeld, Underway, GoodMeansObeyed,
              SuccessMeansDone, LogsWhole

LEMMA RequestPreserves ==
  ASSUME IInv, NEW r \in Requests, Request(r)
  PROVE  IInv'
<1>1. /\ request' = r /\ outcome' = "none" /\ did' = Nothing /\ exceeded' = FALSE
      /\ data' = <<>> /\ valid' = "none" /\ task' = None
      /\ mode' = mode /\ permissive' = permissive /\ capable' = capable /\ disk' = disk
  BY DEF Request, Begin, driverVars
<1>2. CASE LibraryAccepts(r)
  <2>1. command' = CommandOf(r) /\ pc' = "command" /\ status' = "none"
    BY <1>2 DEF Request
  <2>2. TypeOK'
    <3>1. RequestTyped'
      BY <1>1, <1>2, <2>1, CommandTyped DEF RequestTyped
    <3>2. DriverTyped' /\ CallerTyped' /\ TaskTyped'
      BY <1>1, BeginTyped DEF IInv, Request
    <3> QED
      BY <3>1, <3>2, TypeParts
  <2>3. CommandHeld'
    BY <1>1, <1>2, <2>1 DEF CommandHeld, LibraryAccepts, SMARTReadLogAtAddress,
                            SMARTWriteLogAtAddress
  <2> QED
    BY <1>1, <2>1, <2>2, <2>3 DEF IInv, TaskHeld, Underway, GoodMeansObeyed,
                                  SuccessMeansDone, LogsWhole
<1>3. CASE ~LibraryAccepts(r)
  <2>1. command' = command /\ pc' = "idle" /\ status' = "badArgument"
    BY <1>3 DEF Request, Return
  <2>2. TypeOK'
    <3>1. RequestTyped'
      BY <1>1, <2>1, TypeParts DEF IInv, RequestTyped
    <3>2. DriverTyped' /\ CallerTyped' /\ TaskTyped'
      BY <1>1, BeginTyped DEF IInv, Request
    <3> QED
      BY <3>1, <3>2, TypeParts
  <2> QED
    BY <1>1, <2>1, <2>2 DEF IInv, CommandHeld, TaskHeld, Underway, GoodMeansObeyed,
                            SuccessMeansDone, LogsWhole
<1> QED
  BY <1>2, <1>3

(* The command a sender of the driver makes. *)
OwnCommand(a) ==
  [ZeroCommand EXCEPT !.features = a.features, !.count = a.count,
      !.low = a.low, !.mid = a.mid, !.high = a.high, !.command = a.command]

LEMMA OwnCommandTyped ==
  ASSUME NEW a, FieldsFit(a)
  PROVE  OwnCommand(a) \in Commands /\ OwnRegisters(OwnCommand(a), a)
<1> DEFINE c1 == [ZeroCommand EXCEPT !.features = a.features]
           c2 == [c1 EXCEPT !.count = a.count]
           c3 == [c2 EXCEPT !.low = a.low]
           c4 == [c3 EXCEPT !.mid = a.mid]
           c5 == [c4 EXCEPT !.high = a.high]
           c6 == [c5 EXCEPT !.command = a.command]
<1>0. ZeroCommand \in Commands
  BY DEF ZeroCommand, Commands, Byte
<1>1. \A c \in Commands :
        /\ [c EXCEPT !.features = a.features] \in Commands
        /\ [c EXCEPT !.count = a.count] \in Commands
        /\ [c EXCEPT !.low = a.low] \in Commands
        /\ [c EXCEPT !.mid = a.mid] \in Commands
        /\ [c EXCEPT !.high = a.high] \in Commands
        /\ [c EXCEPT !.command = a.command] \in Commands
  BY DEF FieldsFit, Commands
<1>2. OwnRegisters(c6, a)
  BY DEF OwnRegisters, ZeroCommand
<1>3. c1 \in Commands
  BY <1>0, <1>1, Zenon
<1> HIDE DEF c1
<1>4. c2 \in Commands
  BY <1>1, <1>3, Zenon
<1> HIDE DEF c2
<1>5. c3 \in Commands
  BY <1>1, <1>4, Zenon
<1> HIDE DEF c3
<1>6. c4 \in Commands
  BY <1>1, <1>5, Zenon
<1> HIDE DEF c4
<1>7. c5 \in Commands
  BY <1>1, <1>6, Zenon
<1> HIDE DEF c5
<1>8. c6 \in Commands
  BY <1>1, <1>7, Zenon
<1> QED
  BY <1>2, <1>8, Zenon DEF OwnCommand, c1, c2, c3, c4, c5, c6

LEMMA OwnRequestPreserves ==
  ASSUME IInv, NEW r \in OwnRequests, OwnRequest(r)
  PROVE  IInv'
<1> DEFINE a == OwnArguments(r)
<1>1. /\ request' = r /\ outcome' = "none" /\ did' = Nothing /\ exceeded' = FALSE
      /\ data' = <<>> /\ valid' = "none"
      /\ mode' = mode /\ permissive' = permissive /\ capable' = capable /\ disk' = disk
  BY DEF OwnRequest, Begin, driverVars
<1>2. command' = OwnCommand(a)
  BY DEF OwnRequest, OwnCommand
<1>3. \/ pc' = "idle" /\ status' = "error" /\ task' = None
      \/ pc' = "sent" /\ status' = "none" /\ task' = PASS_THROUGH_12or16(OwnMode(r), a)
  BY DEF OwnRequest, Return
<1>4. FieldsFit(a)
  BY OwnArgumentFields
<1>5. r \notin Requests /\ a = SentArguments(r)
  BY Apart DEF SentArguments
<1> HIDE DEF a
<1>6. command' \in Commands /\ OwnRegisters(command', a)
  BY <1>2, <1>4, OwnCommandTyped
<1>7. OwnMode(r)' = OwnMode(r)
  BY <1>1 DEF OwnMode
<1>8. CASE pc' = "idle" /\ status' = "error" /\ task' = None
  <2>1. TypeOK'
    <3>1. RequestTyped'
      BY <1>1, <1>6, <1>8 DEF RequestTyped
    <3>2. DriverTyped' /\ CallerTyped' /\ TaskTyped'
      BY <1>8, BeginTyped DEF IInv, OwnRequest
    <3> QED
      BY <3>1, <3>2, TypeParts
  <2> QED
    BY <1>1, <1>8, <2>1 DEF IInv, CommandHeld, TaskHeld, Underway, GoodMeansObeyed,
                            SuccessMeansDone, LogsWhole
<1>9. CASE pc' = "sent" /\ status' = "none" /\ task' = PASS_THROUGH_12or16(OwnMode(r), a)
  <2>1. Sendable(r)
    BY DEF Sendable
  <2>2. task'.cdb \in Seq(Byte) /\ task'.direction \in {"none", "fromDevice", "toDevice"}
        /\ task'.length \in Nat
    BY <1>5, <1>9, <2>1, OwnModeTyped, SentUnderstood DEF IInv
  <2>3. TypeOK'
    <3>1. RequestTyped'
      BY <1>1, <1>6, <1>9 DEF RequestTyped
    <3>2. TaskTyped'
      BY <2>2 DEF TaskTyped
    <3>3. DriverTyped' /\ CallerTyped'
      BY BeginTyped DEF IInv, OwnRequest
    <3> QED
      BY <3>1, <3>2, <3>3, TypeParts
  <2>4. TaskHeld'
    <3>1. Sendable(request)'
      BY <1>1, <2>1 DEF Sendable, LibraryAccepts, SMARTReadLogAtAddress, SMARTWriteLogAtAddress
    <3>2. OwnRegisters(command, OwnArguments(request))'
      BY <1>1, <1>6 DEF a, OwnRegisters
    <3>3. (task = PASS_THROUGH_12or16(OwnMode(request), SentArguments(request)))'
      BY <1>1, <1>5, <1>7, <1>9 DEF OwnMode
    <3> QED
      BY <1>1, <1>5, <3>1, <3>2, <3>3 DEF TaskHeld
  <2> QED
    BY <1>1, <1>9, <2>3, <2>4 DEF IInv, CommandHeld, GoodMeansObeyed, SuccessMeansDone,
                                  LogsWhole
<1> QED
  BY <1>3, <1>8, <1>9

LEMMA SendSMARTCommandPreserves ==
  ASSUME IInv, SendSMARTCommand
  PROVE  IInv'
<1>1. /\ pc = "command" /\ request' = request /\ outcome' = outcome /\ did' = did
      /\ command' = command
      /\ mode' = mode /\ permissive' = permissive /\ capable' = capable /\ disk' = disk
      /\ exceeded' = exceeded /\ data' = data /\ valid' = valid
  BY DEF SendSMARTCommand, driverVars, callerVars
<1>2. \/ pc' = "idle" /\ status' \in {"invalid", "error"} /\ task' = task
      \/ /\ pc' = "sent" /\ status' = status /\ Accepts(Arguments(command))
         /\ task' = PASS_THROUGH_12or16(mode, Arguments(command))
  BY DEF SendSMARTCommand, Return
<1>3. request \in Requests /\ LibraryAccepts(request) /\ command = CommandOf(request)
  BY <1>1 DEF IInv, CommandHeld
<1>4. DriverTyped' /\ CallerTyped'
  BY <1>1, TypeParts DEF IInv, DriverTyped, CallerTyped
<1>5. RequestTyped'
  BY <1>1, <1>2, TypeParts DEF IInv, RequestTyped
<1>6. CASE pc' = "idle" /\ status' \in {"invalid", "error"} /\ task' = task
  <2>1. TypeOK'
    BY <1>4, <1>5, <1>6, TypeParts DEF IInv, TaskTyped
  <2> QED
    BY <1>6, <2>1 DEF IInv, CommandHeld, TaskHeld, Underway, GoodMeansObeyed,
                      SuccessMeansDone, LogsWhole
<1>7. CASE /\ pc' = "sent" /\ status' = status /\ Accepts(Arguments(command))
           /\ task' = PASS_THROUGH_12or16(mode, Arguments(command))
  <2>1. Sendable(request)
    BY <1>3, <1>7 DEF Sendable
  <2>2. SentArguments(request) = Arguments(command)
    BY <1>3 DEF SentArguments
  <2>3. OwnMode(request) = mode
    BY <1>3, Apart DEF OwnMode
  <2>4. mode \in Modes
    BY TypeParts DEF IInv, DriverTyped
  <2>5. request.method # "JMicron_get_registers"
    BY <1>3, Apart
  <2>6. TaskTyped'
    BY <1>7, <2>1, <2>2, <2>4, <2>5, SentUnderstood DEF TaskTyped
  <2>7. TypeOK'
    BY <1>4, <1>5, <2>6, TypeParts
  <2>8. TaskHeld'
    <3>1. Sendable(request)'
      BY <1>1, <2>1 DEF Sendable, LibraryAccepts, SMARTReadLogAtAddress, SMARTWriteLogAtAddress
    <3>2. (task = PASS_THROUGH_12or16(OwnMode(request), SentArguments(request)))'
      BY <1>1, <1>7, <2>2, <2>3 DEF OwnMode
    <3>3. request' \notin OwnRequests /\ command' = CommandOf(request')
      BY <1>1, <1>3, Apart
    <3> QED
      BY <3>1, <3>2, <3>3 DEF TaskHeld
  <2>9. LogsWhole'
    BY <1>1, <1>7 DEF IInv, LogsWhole
  <2> QED
    BY <1>7, <2>7, <2>8, <2>9 DEF IInv, CommandHeld, GoodMeansObeyed, SuccessMeansDone
<1> QED
  BY <1>2, <1>6, <1>7

(* Both answers, Obey and Refuse, leave the request and its task as they were. *)
LEMMA AnswerPreserves ==
  ASSUME IInv, pc = "sent", pc' = "answered",
         UNCHANGED <<driverVars, request, command, task, status, callerVars>>,
         disk' \in [enabled : BOOLEAN, autosave : BOOLEAN, exceeded : BOOLEAN],
         outcome' \in {"good", "check", "timeout", "failure"},
         did' \in Requests \cup OwnRequests \cup {Nothing},
         outcome' = "good" =>
           did' = Understood(request, OwnMode(request)) /\ did' # Nothing
  PROVE  IInv'
<1>1. /\ request' = request /\ command' = command /\ task' = task /\ status' = status
      /\ mode' = mode /\ permissive' = permissive /\ capable' = capable
      /\ exceeded' = exceeded /\ data' = data /\ valid' = valid
  BY DEF driverVars, callerVars
<1>2. DriverTyped' /\ CallerTyped'
  BY <1>1, TypeParts DEF IInv, DriverTyped, CallerTyped
<1>3. TaskTyped'
  BY <1>1, TypeParts DEF IInv, TaskTyped
<1>4. RequestTyped'
  BY <1>1, TypeParts DEF IInv, RequestTyped
<1>5. TypeOK'
  BY <1>2, <1>3, <1>4, TypeParts
<1>6. TaskHeld'
  <2>1. TaskHeld /\ Underway
    BY DEF IInv, Underway
  <2> QED
    BY <1>1, <2>1 DEF TaskHeld, Sendable, LibraryAccepts, SMARTReadLogAtAddress,
                      SMARTWriteLogAtAddress, OwnMode
<1>7. GoodMeansObeyed'
  BY <1>1 DEF GoodMeansObeyed, OwnMode, Understood
<1>8. LogsWhole'
  BY <1>1 DEF IInv, LogsWhole
<1> QED
  BY <1>5, <1>6, <1>7, <1>8 DEF IInv, CommandHeld, SuccessMeansDone

LEMMA ObeyPreserves ==
  ASSUME IInv, Obey
  PROVE  IInv'
<1> DEFINE operation == Operation(Unpack(task.cdb))
<1>1. /\ pc = "sent" /\ pc' = "answered" /\ did' = operation /\ disk' = Effect(operation, disk)
      /\ Obeyed(operation)
      /\ UNCHANGED <<driverVars, request, command, task, status, callerVars>>
  BY DEF Obey
<1>2. outcome' \in {"good", "check", "timeout", "failure"}
  BY DEF Obey
<1>3. /\ operation = Understood(request, OwnMode(request))
      /\ request \in Requests \cup OwnRequests
  BY <1>1, UnderwayUnderstood DEF IInv, Underway
<1> HIDE DEF operation
<1>4. operation \in Requests \cup OwnRequests \cup {Nothing}
  BY <1>3, UnderstoodTyped
<1>5. operation # Nothing
  BY <1>1 DEF Obeyed
<1>6. Effect(operation, disk) \in [enabled : BOOLEAN, autosave : BOOLEAN, exceeded : BOOLEAN]
  <2>1. disk \in [enabled : BOOLEAN, autosave : BOOLEAN, exceeded : BOOLEAN]
    BY TypeParts DEF IInv, DriverTyped
  <2> QED
    BY <2>1 DEF Effect
<1> QED
  BY <1>1, <1>2, <1>3, <1>4, <1>5, <1>6, AnswerPreserves

LEMMA RefusePreserves ==
  ASSUME IInv, Refuse
  PROVE  IInv'
<1>1. /\ pc = "sent" /\ pc' = "answered" /\ did' = did /\ disk' = disk
      /\ outcome' \in {"check", "timeout", "failure"}
      /\ UNCHANGED <<driverVars, request, command, task, status, callerVars>>
  BY DEF Refuse
<1>2. disk \in [enabled : BOOLEAN, autosave : BOOLEAN, exceeded : BOOLEAN]
  BY TypeParts DEF IInv, DriverTyped
<1>3. did \in Requests \cup OwnRequests \cup {Nothing}
  BY TypeParts DEF IInv, RequestTyped
<1>4. outcome' \in {"good", "check", "timeout", "failure"} /\ outcome' # "good"
  BY <1>1
<1> QED
  BY <1>1, <1>2, <1>3, <1>4, AnswerPreserves

(* A success that nothing has waived is a good answer, and a good answer means    *)
(* that the disk has obeyed.                                                 *)
LEMMA GoodMeansAsked ==
  ASSUME IInv, pc = "answered", outcome = "good", request # AutosaveOn
  PROVE  did = Asked(request)
<1>1. did = Understood(request, OwnMode(request)) /\ did # Nothing
  BY DEF IInv, GoodMeansObeyed
<1> QED
  BY <1>1 DEF Understood

(* Both returns, Complete and OwnComplete, leave all but the caller as it was. *)
LEMMA ReturnPreserves ==
  ASSUME IInv, pc = "answered", pc' = "idle",
         UNCHANGED <<driverVars, disk, request, command, task, outcome, did>>,
         CallerTyped',
         status' \in {"error", "timeout", "success"},
         status' = "success" =>
           /\ permissive \/ outcome = "good" \/ request.method = "JMicron_get_registers"
  PROVE  IInv'
<1>1. /\ request' = request /\ command' = command /\ task' = task
      /\ outcome' = outcome /\ did' = did
      /\ mode' = mode /\ permissive' = permissive /\ capable' = capable /\ disk' = disk
  BY DEF driverVars
<1>2. DriverTyped'
  BY <1>1, TypeParts DEF IInv, DriverTyped
<1>3. TaskTyped'
  BY <1>1, TypeParts DEF IInv, TaskTyped
<1>4. RequestTyped'
  BY <1>1, TypeParts DEF IInv, RequestTyped
<1>5. TypeOK'
  BY <1>2, <1>3, <1>4, TypeParts
<1>6. SuccessMeansDone'
  BY <1>1, GoodMeansAsked DEF SuccessMeansDone, Asked, PlainRequest, AutosaveOn
<1>7. LogsWhole'
  <2>1. CASE request \in Requests
    <3>1. LibraryAccepts(request) /\ Accepts(Arguments(CommandOf(request)))
      BY <2>1, Apart DEF IInv, TaskHeld, Underway, Sendable
    <3>2. request.method \in LogMethods => request.size = 512
      BY <2>1, <3>1, RequestCarried
    <3> QED
      BY <1>1, <3>2 DEF LogsWhole
  <2>2. CASE request \in OwnRequests
    BY <1>1, <2>2, OwnTypes DEF LogsWhole, LogMethods
  <2> QED
    BY <2>1, <2>2 DEF IInv, TaskHeld, Underway, Sendable
<1> QED
  BY <1>5, <1>6, <1>7 DEF IInv, CommandHeld, TaskHeld, Underway, GoodMeansObeyed

LEMMA CompletePreserves ==
  ASSUME IInv, Complete
  PROVE  IInv'
<1>1. /\ pc = "answered" /\ pc' = "idle" /\ status' = Result(outcome)
      /\ UNCHANGED <<driverVars, disk, request, command, task, outcome, did>>
  BY DEF Complete, Return
<1>2. /\ Result(outcome) \in {"error", "timeout", "success"}
      /\ Result(outcome) = "success" => permissive \/ outcome = "good"
  BY DEF Result
<1>3. exceeded' \in BOOLEAN
  BY DEF Complete
<1>4. data' \in Seq(Byte)
  <2>1. data' \in Samples \/ data' = <<>>
    BY DEF Complete, ReadBuffer
  <2>2. Samples \subseteq Seq(Byte) /\ <<>> \in Seq(Byte)
    BY SamplesAssumption
  <2> QED
    BY <2>1, <2>2
<1>5. valid' \in {"none", "yes", "no"}
  BY TypeParts DEF Complete, IInv, CallerTyped
<1>6. CallerTyped'
  BY <1>3, <1>4, <1>5 DEF CallerTyped
<1> QED
  BY <1>1, <1>2, <1>6, ReturnPreserves

LEMMA OwnCompletePreserves ==
  ASSUME IInv, OwnComplete
  PROVE  IInv'
<1>1. /\ pc = "answered" /\ pc' = "idle" /\ status' \in OwnResults(request, outcome)
      /\ UNCHANGED <<driverVars, disk, request, command, task, outcome, did, callerVars>>
  BY DEF OwnComplete, Return
<1>2. /\ status' \in {"error", "timeout", "success"}
      /\ status' = "success" =>
           permissive \/ outcome = "good" \/ request.method = "JMicron_get_registers"
  BY <1>1 DEF OwnResults
<1>3. CallerTyped'
  BY <1>1, TypeParts DEF IInv, callerVars, CallerTyped
<1> QED
  BY <1>1, <1>2, <1>3, ReturnPreserves

LEMMA ValidatePreserves ==
  ASSUME IInv, Validate
  PROVE  IInv'
<1>1. /\ pc' = pc /\ request' = request /\ command' = command /\ task' = task
      /\ outcome' = outcome /\ did' = did /\ status' = status
      /\ mode' = mode /\ permissive' = permissive /\ capable' = capable /\ disk' = disk
      /\ pc = "idle"
  BY DEF Validate, driverVars
<1>2. valid' \in {"none", "yes", "no"} /\ data' = data /\ exceeded' = exceeded
  BY DEF Validate
<1>3. DriverTyped' /\ CallerTyped'
  BY <1>1, <1>2, TypeParts DEF IInv, DriverTyped, CallerTyped
<1>4. TaskTyped'
  BY <1>1, TypeParts DEF IInv, TaskTyped
<1>5. RequestTyped'
  BY <1>1, TypeParts DEF IInv, RequestTyped
<1>6. TypeOK'
  BY <1>3, <1>4, <1>5, TypeParts
<1> QED
  BY <1>1, <1>6 DEF IInv, CommandHeld, TaskHeld, Underway, GoodMeansObeyed,
                    SuccessMeansDone, LogsWhole

(* A step that changes nothing. *)
LEMMA StutterPreserves ==
  ASSUME IInv, UNCHANGED vars
  PROVE  IInv'
<1>1. /\ pc' = pc /\ request' = request /\ command' = command /\ task' = task
      /\ outcome' = outcome /\ did' = did /\ status' = status
      /\ mode' = mode /\ permissive' = permissive /\ capable' = capable /\ disk' = disk
      /\ exceeded' = exceeded /\ data' = data /\ valid' = valid
  BY DEF vars, callerVars
<1>2. TypeOK'
  BY <1>1 DEF IInv, TypeOK
<1>3. TaskHeld'
  BY <1>1 DEF IInv, TaskHeld, Underway, Sendable, LibraryAccepts, SMARTReadLogAtAddress,
              SMARTWriteLogAtAddress, OwnMode
<1> QED
  BY <1>1, <1>2, <1>3 DEF IInv, CommandHeld, GoodMeansObeyed, Understood, OwnMode,
                          SuccessMeansDone, LogsWhole

(* The invariant holds of every request, whatever logs, buffers and samples there *)
(* are.                                                                      *)
THEOREM InvariantCorrect == Spec => []IInv
<1>1. Init => IInv
  BY InitEstablishes
<1>2. IInv /\ [Next]_vars => IInv'
  <2> SUFFICES ASSUME IInv, [Next]_vars
               PROVE  IInv'
    OBVIOUS
  <2>1. ASSUME NEW r \in Requests, Request(r)
        PROVE  IInv'
    BY <2>1, RequestPreserves
  <2>2. ASSUME NEW r \in OwnRequests, OwnRequest(r)
        PROVE  IInv'
    BY <2>2, OwnRequestPreserves
  <2>3. CASE OwnComplete
    BY <2>3, OwnCompletePreserves
  <2>4. CASE Validate
    BY <2>4, ValidatePreserves
  <2>5. CASE SendSMARTCommand
    BY <2>5, SendSMARTCommandPreserves
  <2>6. CASE Obey
    BY <2>6, ObeyPreserves
  <2>7. CASE Refuse
    BY <2>7, RefusePreserves
  <2>8. CASE Complete
    BY <2>8, CompletePreserves
  <2>9. CASE UNCHANGED vars
    BY <2>9, StutterPreserves
  <2> QED
    BY <2>1, <2>2, <2>3, <2>4, <2>5, <2>6, <2>7, <2>8, <2>9, Zenon DEF Next
<1> QED
  BY <1>1, <1>2, PTL DEF Spec

(* Every variable keeps its type; every byte of a CDB fits its field.          *)
THEOREM PathTypeCorrect == Spec => []TypeOK
<1>1. IInv => TypeOK
  BY DEF IInv
<1> QED
  BY <1>1, InvariantCorrect, PTL

(* A driver that is not permissive reports success only of what the disk did.    *)
THEOREM SuccessIsDone == Spec => []SuccessMeansDone
<1>1. IInv => SuccessMeansDone
  BY DEF IInv
<1> QED
  BY <1>1, InvariantCorrect, PTL

(* No log but of one sector is ever read or written with success, whatever the     *)
(* lengths the applications pass.                                            *)
THEOREM LogsAreWhole == Spec => []LogsWhole
<1>1. IInv => LogsWhole
  BY DEF IInv
<1> QED
  BY <1>1, InvariantCorrect, PTL

(* The registers a method wrote, or a sender of the driver, reach the bridge in    *)
(* every one of the four layouts.                                            *)
THEOREM LayoutsCarry == Spec => []TaskFilePreserved
<1>1. IInv => TaskFilePreserved
  <2> SUFFICES ASSUME IInv, pc = "sent"
               PROVE  TaskFilePreserved
    BY DEF TaskFilePreserved
  <2> DEFINE ata == Unpack(task.cdb)
  <2>1. SameRegisters(ata, SentArguments(request)) /\ TaskHeld /\ Underway
        /\ request \in Requests \cup OwnRequests
    BY UnderwayUnderstood DEF IInv, Underway
  <2> HIDE DEF ata
  <2>2. CASE request \in Requests
    <3>1. SentArguments(request) = Arguments(command) /\ request \notin OwnRequests
      BY <2>1, <2>2, Apart DEF SentArguments, TaskHeld
    <3> QED
      BY <2>1, <3>1 DEF TaskFilePreserved, SameRegisters, Arguments, ata
  <2>3. CASE request \in OwnRequests
    <3>1. SentArguments(request) = OwnArguments(request)
      BY <2>3, Apart DEF SentArguments
    <3>2. OwnRegisters(command, OwnArguments(request))
      BY <2>1, <2>3 DEF TaskHeld
    <3> QED
      BY <2>1, <3>1, <3>2 DEF TaskFilePreserved, SameRegisters, OwnRegisters, ata
  <2> QED
    BY <2>1, <2>2, <2>3
<1> QED
  BY <1>1, InvariantCorrect, PTL

(* The CDB, the SCSI task and the ATA command agree about the transfer.         *)
THEOREM TransfersAgree == Spec => []TransferAgrees
<1>1. IInv => TransferAgrees
  <2> SUFFICES ASSUME IInv, pc = "sent"
               PROVE  TransferAgrees
    BY DEF TransferAgrees
  <2> DEFINE ata == Unpack(task.cdb)
  <2>1. /\ ata.transfer = [direction |-> task.direction, bytes |-> task.length]
        /\ ata.transfer = TransferOf(Operation(ata))
        /\ Operation(ata) = Understood(request, OwnMode(request))
        /\ request \in Requests \cup OwnRequests
    BY UnderwayUnderstood DEF IInv, Underway
  <2>2. Understood(request, OwnMode(request)) = Nothing <=>
          request.method = "Send_ATA_SEND_SOFT_RESET" /\ mode \in {"jmicron", "sunplus"}
    <3>1. request.method # "nothing" /\ Asked(request) # Nothing
      <4>1. CASE request \in Requests
        BY <4>1, RequestTypes, AskedOfRequests
        DEF Nothing, PlainRequest, SwitchMethods, PlainMethods, LogMethods
      <4>2. CASE request \in OwnRequests
        BY <4>2, OwnTypes DEF Nothing, Asked, PlainRequest
      <4> QED
        BY <2>1, <4>1, <4>2
    <3>2. [AutosaveOn EXCEPT !.argument = 0] # Nothing
      BY DEF AutosaveOn, Nothing
    <3>3. request.method = "Send_ATA_SEND_SOFT_RESET" =>
            OwnMode(request) = mode /\ request # AutosaveOn
      BY DEF OwnMode, AutosaveOn
    <3> QED
      BY <3>1, <3>2, <3>3 DEF Understood
  <2> HIDE DEF ata
  <2> QED
    BY <2>1, <2>2 DEF TransferAgrees, ata
<1> QED
  BY <1>1, InvariantCorrect, PTL

(* Two sets of arguments are the same when their fields are. *)
ArgumentRecords ==
  [protocol : Nat, offline : Nat, ckCond : Nat, tDir : Nat, bytBlok : Nat, tLength : Nat,
   features : Nat, count : Nat, low : Nat, mid : Nat, high : Nat, command : Nat,
   length : Nat]

LEMMA SameArguments ==
  ASSUME NEW a \in ArgumentRecords, NEW b \in ArgumentRecords,
         a.protocol = b.protocol, a.offline = b.offline, a.ckCond = b.ckCond,
         a.tDir = b.tDir, a.bytBlok = b.bytBlok, a.tLength = b.tLength,
         SameRegisters(a, b), a.length = b.length
  PROVE  a = b
BY DEF ArgumentRecords, SameRegisters

LEMMA PlainTyped ==
  ASSUME NEW command_ \in Nat
  PROVE  Plain(command_) \in ArgumentRecords
BY DEF Plain, ArgumentRecords, NonData

LEMMA SectorTyped ==
  ASSUME NEW a \in ArgumentRecords
  PROVE  Sector(a) \in ArgumentRecords
<1> DEFINE a1 == [a EXCEPT !.protocol = PIODataIn]
           a2 == [a1 EXCEPT !.tDir = 1]
           a3 == [a2 EXCEPT !.bytBlok = 1]
           a4 == [a3 EXCEPT !.tLength = 2]
           a5 == [a4 EXCEPT !.count = 1]
           a6 == [a5 EXCEPT !.length = 512]
<1>1. \A b \in ArgumentRecords :
        /\ [b EXCEPT !.protocol = PIODataIn] \in ArgumentRecords
        /\ [b EXCEPT !.tDir = 1] \in ArgumentRecords
        /\ [b EXCEPT !.bytBlok = 1] \in ArgumentRecords
        /\ [b EXCEPT !.tLength = 2] \in ArgumentRecords
        /\ [b EXCEPT !.count = 1] \in ArgumentRecords
        /\ [b EXCEPT !.length = 512] \in ArgumentRecords
  BY DEF ArgumentRecords, PIODataIn
<1>2. a1 \in ArgumentRecords
  BY <1>1, Zenon
<1> HIDE DEF a1
<1>3. a2 \in ArgumentRecords
  BY <1>1, <1>2, Zenon
<1> HIDE DEF a2
<1>4. a3 \in ArgumentRecords
  BY <1>1, <1>3, Zenon
<1> HIDE DEF a3
<1>5. a4 \in ArgumentRecords
  BY <1>1, <1>4, Zenon
<1> HIDE DEF a4
<1>6. a5 \in ArgumentRecords
  BY <1>1, <1>5, Zenon
<1> HIDE DEF a5
<1>7. a6 \in ArgumentRecords
  BY <1>1, <1>6, Zenon
<1> QED
  BY <1>7, Zenon DEF Sector, a1, a2, a3, a4, a5, a6

(* The arguments sendSMARTCommand computes for a command of one sector to read. *)
LEMMA ReadArguments ==
  ASSUME NEW c \in Commands, c.length = 512, c.byteCount = 512, c.read
  PROVE  LET a == Arguments(c) IN
         /\ a \in ArgumentRecords
         /\ SectorIn(a) /\ a.offline = 0 /\ a.ckCond = 0 /\ a.bytBlok = 1
         /\ a.features = c.features /\ a.low = c.low /\ a.mid = c.mid /\ a.high = c.high
         /\ a.command = c.command
<1>1. Count(c) = 1 /\ Protocol(c) = PIODataIn
  BY DEF Count, Protocol
<1>2. /\ c.features \in Nat /\ c.low \in Nat /\ c.mid \in Nat /\ c.high \in Nat
      /\ c.command \in Nat
  BY DEF Commands, Byte
<1>3. Arguments(c) \in ArgumentRecords
  BY <1>1, <1>2 DEF Arguments, ArgumentRecords, PIODataIn
<1> QED
  BY <1>1, <1>3 DEF Arguments, SectorIn, OneSector

(* What the driver tries a mode with is what it sends for the user client. *)
LEMMA TrialArguments ==
  ASSUME NEW r \in OwnRequests, r.method \in {"Send_ATA_IDENTIFY", "Send_ATA_SMART_READ_DATA"}
  PROVE  OwnArguments(r) = Arguments(CommandOf(Asked(r)))
<1> DEFINE own == OwnArguments(r)
           c == CommandOf(Asked(r))
           a == Arguments(c)
<1>1. PlainRequest("identify") \in Requests /\ PlainRequest("readData") \in Requests
  BY DEF PlainRequest, Requests, PlainMethods
<1>2. own \in ArgumentRecords
  <2>1. Plain(\hEC) \in ArgumentRecords /\ Plain(\hB0) \in ArgumentRecords
    BY PlainTyped
  <2>2. [Plain(\hB0) EXCEPT !.features = \hD0, !.mid = \h4F, !.high = \hC2]
          \in ArgumentRecords
    <3>1. /\ \A b \in ArgumentRecords : [b EXCEPT !.features = \hD0] \in ArgumentRecords
          /\ \A b \in ArgumentRecords : [b EXCEPT !.mid = \h4F] \in ArgumentRecords
          /\ \A b \in ArgumentRecords : [b EXCEPT !.high = \hC2] \in ArgumentRecords
      BY DEF ArgumentRecords
    <3> DEFINE b0 == Plain(\hB0)
               b1 == [b0 EXCEPT !.features = \hD0]
               b2 == [b1 EXCEPT !.mid = \h4F]
    <3>2. b0 \in ArgumentRecords
      BY <2>1
    <3> HIDE DEF b0
    <3>3. b1 \in ArgumentRecords
      BY <3>1, <3>2
    <3> HIDE DEF b1
    <3>4. b2 \in ArgumentRecords
      BY <3>1, <3>3
    <3> HIDE DEF b2
    <3>5. [b2 EXCEPT !.high = \hC2] \in ArgumentRecords
      BY <3>1, <3>4
    <3> QED
      BY <3>5, Zenon DEF b0, b1, b2
  <2> QED
    BY <2>1, <2>2, SectorTyped, Zenon
    DEF OwnArguments, Send_ATA_IDENTIFY, Send_ATA_SMART_READ_DATA
<1>3. /\ c \in Commands /\ c.length = 512 /\ c.byteCount = 512 /\ c.read
      /\ r.method = "Send_ATA_IDENTIFY" => IdentifyFields(c)
      /\ r.method = "Send_ATA_SMART_READ_DATA" => SMARTFields(c, \hD0, 0, 0, 512)
  <2>1. /\ Asked(r) \in Requests
        /\ r.method = "Send_ATA_IDENTIFY" => Asked(r).method = "identify"
        /\ r.method = "Send_ATA_SMART_READ_DATA" => Asked(r).method = "readData"
    BY <1>1 DEF Asked, PlainRequest
  <2>2. Asked(r).method \notin LogMethods
    BY <2>1 DEF LogMethods
  <2> QED
    BY <2>1, <2>2, CommandFields, CommandTyped DEF SMARTFields, IdentifyFields
<1> HIDE DEF c
<1>4. /\ a \in ArgumentRecords
      /\ SectorIn(a) /\ a.offline = 0 /\ a.ckCond = 0 /\ a.bytBlok = 1
      /\ a.features = c.features /\ a.low = c.low /\ a.mid = c.mid /\ a.high = c.high
      /\ a.command = c.command
  BY <1>3, ReadArguments
<1>5. /\ SectorIn(own) /\ own.offline = 0 /\ own.ckCond = 0 /\ own.bytBlok = 1
      /\ own.features = c.features /\ own.low = c.low /\ own.mid = c.mid
      /\ own.high = c.high /\ own.command = c.command
  BY <1>3, OwnArgumentFields DEF IdentifyFields, SMARTFields
<1> HIDE DEF own, a
<1>6. own = a
  BY <1>2, <1>4, <1>5, SameArguments DEF SectorIn, OneSector, SameRegisters
<1> QED
  BY <1>6 DEF own, a, c

(* IdentifyDevice tries a mode with the very tasks that the user client's IDENTIFY  *)
(* and READ DATA will become in it.                                            *)
THEOREM TrialsAreUses == Spec => []TriedAsUsed
<1>1. IInv => TriedAsUsed
  <2> SUFFICES ASSUME IInv, pc = "sent", Asked(request) # request
               PROVE  task = PASS_THROUGH_12or16(mode, Arguments(CommandOf(Asked(request))))
    BY DEF TriedAsUsed
  <2>1. request.method \in {"identify", "Send_ATA_IDENTIFY", "Send_ATA_SMART_READ_DATA"}
    BY DEF Asked
  <2>2. Sendable(request)
        /\ task = PASS_THROUGH_12or16(OwnMode(request), SentArguments(request))
    BY DEF IInv, TaskHeld, Underway
  <2>3. OwnMode(request) = mode
    BY <2>1 DEF OwnMode
  <2>4. CASE request \in Requests
    <3>1. SentArguments(request) = Arguments(CommandOf(request))
      BY <2>4 DEF SentArguments
    <3>2. request.method = "identify" /\ Asked(request).method = "identify"
      BY <2>4, AskedOfRequests DEF PlainRequest
    <3>3. CommandOf(request) = CommandOf(Asked(request))
      BY <3>2 DEF CommandOf, GetIdentifyData
    <3> QED
      BY <2>2, <2>3, <3>1, <3>3
  <2>5. CASE request \in OwnRequests
    <3>1. SentArguments(request) = OwnArguments(request)
      BY <2>5, Apart DEF SentArguments
    <3>2. request.method \in {"Send_ATA_IDENTIFY", "Send_ATA_SMART_READ_DATA"}
      BY <2>1, <2>5, OwnTypes
    <3>3. OwnArguments(request) = Arguments(CommandOf(Asked(request)))
      BY <2>5, <3>2, TrialArguments
    <3> QED
      BY <2>2, <2>3, <3>1, <3>3
  <2> QED
    BY <2>2, <2>4, <2>5 DEF Sendable
<1> QED
  BY <1>1, InvariantCorrect, PTL
-------------------------------------------------------------------------------
(* ReturnStatus looks for F4h and 2Ch in registers that it has set to 4Fh and C2h  *)
(* and that nothing writes after it: why ExceededReported fails.               *)
NeverExceeded == ~exceeded

LEMMA OwnMarks ==
  ASSUME NEW r \in Requests, r.method = "returnStatus"
  PROVE  ~ThresholdExceeded(CommandOf(r))
BY CommandFields DEF SMARTFields, ThresholdExceeded

(* No application is ever told of an exceeded threshold, whatever the disk, the     *)
(* enclosure and the mode.                                                    *)
THEOREM ThresholdsNeverExceeded == Spec => []NeverExceeded
<1>1. Init => NeverExceeded
  BY DEF Init, NeverExceeded
<1>2. IInv /\ NeverExceeded /\ [Next]_vars => NeverExceeded'
  <2> SUFFICES ASSUME IInv, NeverExceeded, [Next]_vars
               PROVE  exceeded' = FALSE
    BY DEF NeverExceeded
  <2>1. exceeded = FALSE
    BY TypeParts DEF IInv, CallerTyped, NeverExceeded
  <2>2. ASSUME NEW r, Begin(r)
        PROVE  exceeded' = FALSE
    BY <2>2 DEF Begin
  <2>3. CASE Complete
    <3>1. request \in Requests /\ command = CommandOf(request)
      BY <2>3 DEF Complete, IInv, TaskHeld, Underway
    <3>2. ~ (request.method = "returnStatus" /\ ThresholdExceeded(command))
      BY <3>1, OwnMarks
    <3> QED
      BY <2>3, <3>2 DEF Complete
  <2>4. CASE OwnComplete \/ SendSMARTCommand \/ Obey \/ Refuse \/ UNCHANGED vars
    BY <2>1, <2>4 DEF OwnComplete, SendSMARTCommand, Obey, Refuse, vars, callerVars
  <2>5. CASE Validate
    BY <2>1, <2>5 DEF Validate
  <2> QED
    BY <2>2, <2>3, <2>4, <2>5 DEF Next, Request, OwnRequest
<1> QED
  BY <1>1, <1>2, InvariantCorrect, PTL DEF Spec
===============================================================================
