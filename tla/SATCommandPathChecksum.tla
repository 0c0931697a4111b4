------------------------ MODULE SATCommandPathChecksum ------------------------
(***************************************************************************)
(* What SMARTValidateReadData computes, for data of every length: its loop    *)
(* over the bytes is followed by induction, in the form of a least            *)
(* counterexample.                                                           *)
(***************************************************************************)
EXTENDS SATCommandPath, WellFoundedInduction, TLAPS

(* Every inhabited set of numbers has a least one. *)
LEMMA LeastNumber ==
  ASSUME NEW T, T \subseteq Nat, T # {}
  PROVE  \E n \in T : \A k \in T : n <= k
<1> DEFINE Less == {pair \in Nat \X Nat : pair[1] < pair[2]}
<1>1. IsWellFoundedOn(Less, Nat)
  BY NatLessThanWellFounded DEF OpToRel
<1>2. \A k \in Nat, n \in Nat : k < n => <<k, n>> \in Less
  OBVIOUS
<1> HIDE DEF Less
<1>3. PICK n \in T : \A k \in T : <<k, n>> \notin Less
  BY <1>1, WFMin
<1>4. n \in Nat /\ \A k \in T : k \in Nat /\ ~ (k < n)
  BY <1>2, <1>3, Zenon
<1> QED
  BY <1>4

(* The sums of the loop of SMARTValidateReadData, as a function of their own. *)
SignedSums(s, f, m) ==
  f = [i \in 0 .. m |-> IF i = 0 THEN 0 ELSE Signed(f[i - 1] + Signed(s[i]))]

(* A recursive function is a choice: that there is one to choose has to be shown.  *)
LEMMA SignedSumsExist ==
  ASSUME NEW s, NEW m \in Nat
  PROVE  \E f : SignedSums(s, f, m)
<1> SUFFICES ASSUME ~ \E f : SignedSums(s, f, m)
             PROVE  FALSE
  OBVIOUS
<1> DEFINE T == {k \in 0 .. m : ~ \E f : SignedSums(s, f, k)}
<1>1. T \subseteq Nat /\ T # {}
  OBVIOUS
<1>2. PICK n \in T : \A k \in T : n <= k
  <2> HIDE DEF T
  <2> QED
    BY <1>1, LeastNumber
<1>3. n # 0
  <2>1. SignedSums(s, [i \in 0 .. 0 |-> 0], 0)
    BY DEF SignedSums
  <2> QED
    BY <2>1
<1>4. PICK f : SignedSums(s, f, n - 1)
  <2>1. n - 1 \in 0 .. m /\ n - 1 \notin T
    BY <1>2, <1>3
  <2> QED
    BY <2>1
<1> DEFINE g == [i \in 0 .. n |-> IF i < n THEN f[i] ELSE Signed(f[n - 1] + Signed(s[n]))]
<1>5. SignedSums(s, g, n)
  BY <1>3, <1>4 DEF SignedSums
<1> QED
  BY <1>2, <1>5

(* The loop of SMARTValidateReadData computes these sums. *)
LEMMA ValidateUnfolds ==
  ASSUME NEW s \in Seq(Byte), Len(s) > 1
  PROVE  \E f : /\ SignedSums(s, f, Len(s) - 1)
                /\ SMARTValidateReadData(s) <=> f[Len(s) - 1] + Signed(s[Len(s)]) = 0
<1> DEFINE checksum[i \in 0 .. Len(s) - 1] ==
        IF i = 0 THEN 0 ELSE Signed(checksum[i - 1] + Signed(s[i]))
<1>1. \E f : SignedSums(s, f, Len(s) - 1)
  BY SignedSumsExist
<1>2. SignedSums(s, checksum, Len(s) - 1)
  BY <1>1 DEF SignedSums
<1>3. SMARTValidateReadData(s) <=> checksum[Len(s) - 1] + Signed(s[Len(s)]) = 0
  BY DEF SMARTValidateReadData
<1> QED
  BY <1>2, <1>3

(* The sums of the bytes themselves, with which ChecksumDecides compares them. *)
Sums(s, f, m) == f = [i \in 0 .. m |-> IF i = 0 THEN 0 ELSE f[i - 1] + s[i]]

LEMMA SumsExist ==
  ASSUME NEW s, NEW m \in Nat
  PROVE  \E f : Sums(s, f, m)
<1> SUFFICES ASSUME ~ \E f : Sums(s, f, m)
             PROVE  FALSE
  OBVIOUS
<1> DEFINE T == {k \in 0 .. m : ~ \E f : Sums(s, f, k)}
<1>1. T \subseteq Nat /\ T # {}
  OBVIOUS
<1>2. PICK n \in T : \A k \in T : n <= k
  <2> HIDE DEF T
  <2> QED
    BY <1>1, LeastNumber
<1>3. n # 0
  <2>1. Sums(s, [i \in 0 .. 0 |-> 0], 0)
    BY DEF Sums
  <2> QED
    BY <2>1
<1>4. PICK f : Sums(s, f, n - 1)
  <2>1. n - 1 \in 0 .. m /\ n - 1 \notin T
    BY <1>2, <1>3
  <2> QED
    BY <2>1
<1> DEFINE g == [i \in 0 .. n |-> IF i < n THEN f[i] ELSE f[n - 1] + s[n]]
<1>5. Sums(s, g, n)
  BY <1>3, <1>4 DEF Sums
<1> QED
  BY <1>2, <1>5

(* The same modulo 256. *)
Congruent(y, x) == \E q \in Int : y = x + 256 * q

(* A byte read as a signed one, and a sum cut to a signed byte: the same modulo 256. *)
LEMMA SignedByte ==
  ASSUME NEW b \in Byte
  PROVE  Signed(b) = IF b < 128 THEN b ELSE b - 256
BY DEF Signed, Byte

LEMMA SignedCuts ==
  ASSUME NEW c \in -256 .. 254
  PROVE  /\ Signed(c) \in -128 .. 127
         /\ Signed(c) = c \/ Signed(c) = c - 256 \/ Signed(c) = c + 256
BY DEF Signed

LEMMA SignedSum ==
  ASSUME NEW x \in -128 .. 127, NEW b \in Byte
  PROVE  /\ Signed(x + Signed(b)) \in -128 .. 127
         /\ Congruent(x + b, Signed(x + Signed(b)))
<1> DEFINE c == x + Signed(b)
<1>1. c \in -256 .. 254 /\ (c = x + b \/ c = x + b - 256)
  <2>1. Signed(b) = IF b < 128 THEN b ELSE b - 256
    BY SignedByte
  <2> QED
    BY <2>1 DEF Byte
<1> HIDE DEF c
<1>2. Signed(c) \in -128 .. 127 /\ (Signed(c) = c \/ Signed(c) = c - 256 \/ Signed(c) = c + 256)
  BY <1>1, SignedCuts
<1>3. \E k \in {-1, 0, 1, 2} : x + b = Signed(c) + 256 * k
  BY <1>1, <1>2 DEF Byte
<1> QED
  BY <1>2, <1>3 DEF c, Congruent

(* The last addition is done in an int: it is 0 if the total is 0 modulo 256, but   *)
(* for a checksum of 80h, which is -128 and meets no 128.                       *)
LEMMA LastSum ==
  ASSUME NEW x \in -128 .. 127, NEW q \in Int, NEW b \in Byte
  PROVE  x + Signed(b) = 0 <=> (x + 256 * q + b) % 256 = 0 /\ b # \h80
<1> DEFINE c == x + b
<1>1. c \in -128 .. 382
  BY DEF Byte
<1>2. x + Signed(b) = 0 <=> (c = 0 \/ c = 256) /\ b # 128
  BY SignedByte DEF Byte
<1>3. x + 256 * q + b = c + 256 * q
  BY DEF Byte
<1> HIDE DEF c
<1>4. (c + 256 * q) % 256 = 0 <=> c = 0 \/ c = 256
  BY <1>1
<1> QED
  BY <1>2, <1>3, <1>4

LEMMA SumsStart ==
  ASSUME NEW s, NEW f, NEW n \in Nat
  PROVE  (SignedSums(s, f, n) => f[0] = 0) /\ (Sums(s, f, n) => f[0] = 0)
BY DEF SignedSums, Sums

LEMMA SumsGoOn ==
  ASSUME NEW s, NEW f, NEW n \in Nat, NEW i \in 1 .. n
  PROVE  /\ SignedSums(s, f, n) => f[i] = Signed(f[i - 1] + Signed(s[i]))
         /\ Sums(s, f, n) => f[i] = f[i - 1] + s[i]
BY DEF SignedSums, Sums

(* The signed sum of the first bytes is in a signed byte, and their sum modulo 256. *)
Agree(x, y) == x \in -128 .. 127 /\ y \in Nat /\ Congruent(y, x)

LEMMA AgreeNext ==
  ASSUME NEW x, NEW y, Agree(x, y), NEW b \in Byte
  PROVE  Agree(Signed(x + Signed(b)), y + b)
<1>1. x \in -128 .. 127 /\ y \in Nat
  BY DEF Agree
<1>2. PICK q \in Int : y = x + 256 * q
  BY DEF Agree, Congruent
<1> DEFINE z == Signed(x + Signed(b))
<1>3. z \in -128 .. 127 /\ Congruent(x + b, z)
  BY <1>1, SignedSum, Zenon
<1> HIDE DEF z
<1>4. PICK k \in Int : x + b = z + 256 * k
  BY <1>3 DEF Congruent
<1>5. y + b \in Nat
  BY <1>1 DEF Byte
<1>6. y + b = z + 256 * (q + k)
  BY <1>1, <1>2, <1>3, <1>4 DEF Byte
<1> QED
  BY <1>3, <1>5, <1>6 DEF Agree, Congruent, z

LEMMA SumsAgree ==
  ASSUME NEW s \in Seq(Byte), NEW f, NEW g, NEW n \in Nat, n < Len(s),
         SignedSums(s, f, n), Sums(s, g, Len(s))
  PROVE  Agree(f[n], g[n])
<1>1. Agree(f[0], g[0])
  <2>1. f[0] = 0 /\ g[0] = 0
    BY SumsStart
  <2> QED
    BY <2>1 DEF Agree, Congruent
<1>2. ASSUME NEW i \in 1 .. n, Agree(f[i - 1], g[i - 1])
      PROVE  Agree(f[i], g[i])
  <2>1. s[i] \in Byte /\ i \in 1 .. Len(s) /\ Len(s) \in Nat
    OBVIOUS
  <2>2. f[i] = Signed(f[i - 1] + Signed(s[i])) /\ g[i] = g[i - 1] + s[i]
    BY <2>1, SumsGoOn
  <2> QED
    BY <1>2, <2>1, <2>2, AgreeNext
<1> DEFINE T == {i \in 0 .. n : ~ Agree(f[i], g[i])}
<1> SUFFICES ASSUME T # {}
             PROVE  FALSE
  OBVIOUS
<1>3. T \subseteq Nat
  OBVIOUS
<1> HIDE DEF T
<1>4. PICK i \in T : \A k \in T : i <= k
  BY <1>3, LeastNumber
<1> USE DEF T
<1>5. i \in 1 .. n /\ Agree(f[i - 1], g[i - 1])
  BY <1>1, <1>4
<1> QED
  BY <1>2, <1>5

(* The total of ChecksumDecides. *)
TotalOf(s) ==
  LET total[i \in 0 .. Len(s)] == IF i = 0 THEN 0 ELSE total[i - 1] + s[i]
  IN total[Len(s)]

LEMMA TotalUnfolds ==
  ASSUME NEW s \in Seq(Byte)
  PROVE  \E f : Sums(s, f, Len(s)) /\ TotalOf(s) = f[Len(s)]
<1> DEFINE total[i \in 0 .. Len(s)] == IF i = 0 THEN 0 ELSE total[i - 1] + s[i]
<1>1. \E f : Sums(s, f, Len(s))
  <2>1. Len(s) \in Nat
    OBVIOUS
  <2> QED
    BY <2>1, SumsExist, Zenon
<1>2. Sums(s, total, Len(s))
  BY <1>1 DEF Sums
<1>3. TotalOf(s) = total[Len(s)]
  BY DEF TotalOf
<1> QED
  BY <1>2, <1>3

(* What the loop decides of any data: at least a byte and its checksum. *)
LEMMA ChecksumCorrect ==
  ASSUME NEW s \in Seq(Byte), Len(s) > 1
  PROVE  SMARTValidateReadData(s) <=> TotalOf(s) % 256 = 0 /\ s[Len(s)] # \h80
<1> DEFINE n == Len(s)
<1>1. n \in Nat /\ n > 1 /\ s[n] \in Byte
  OBVIOUS
<1>2. PICK f : SignedSums(s, f, n - 1) /\ (SMARTValidateReadData(s) <=> f[n - 1] + Signed(s[n]) = 0)
  BY ValidateUnfolds
<1>3. PICK g : Sums(s, g, n) /\ TotalOf(s) = g[n]
  BY TotalUnfolds
<1>4. Agree(f[n - 1], g[n - 1])
  <2>1. n - 1 \in Nat /\ n - 1 < Len(s)
    BY <1>1
  <2> QED
    BY <1>2, <1>3, <2>1, SumsAgree
<1>5. g[n] = g[n - 1] + s[n]
  BY <1>1, <1>3, SumsGoOn
<1> DEFINE x == f[n - 1]
<1>6. PICK q \in Int : x \in -128 .. 127 /\ g[n - 1] = x + 256 * q
  BY <1>4 DEF Agree, Congruent
<1> HIDE DEF n, x
<1>7. x + Signed(s[n]) = 0 <=> g[n] % 256 = 0 /\ s[n] # \h80
  <2>1. x + Signed(s[n]) = 0 <=> (x + 256 * q + s[n]) % 256 = 0 /\ s[n] # \h80
    BY <1>1, <1>6, LastSum, Zenon
  <2>2. g[n] = x + 256 * q + s[n]
    BY <1>5, <1>6
  <2> QED
    BY <2>1, <2>2, Zenon
<1> QED
  BY <1>2, <1>3, <1>7 DEF n, x
-------------------------------------------------------------------------------
(* What validates is what the caller has read, and only that.  A request under    *)
(* way has no verdict on the data it will bring.                              *)
DataHeld ==
  /\ data = <<>> \/ data \in Samples
  /\ (data = <<>> \/ pc # "idle") => valid = "none"
  /\ valid # "none" => (valid = "yes" <=> SMARTValidateReadData(data))

LEMMA NoVerdictYet ==
  ASSUME data' = <<>> \/ data' \in Samples, valid' = "none"
  PROVE  DataHeld'
BY DEF DataHeld

LEMMA VerdictKept ==
  ASSUME DataHeld, UNCHANGED callerVars, pc # "idle" \/ pc' = "idle"
  PROVE  DataHeld'
BY DEF DataHeld, callerVars

(* Over every request, its answer and the validation. *)
THEOREM VerdictsHeld == Spec => []DataHeld
<1>1. Init => DataHeld
  BY DEF Init, DataHeld
<1>2. DataHeld /\ [Next]_vars => DataHeld'
  <2> SUFFICES ASSUME DataHeld, [Next]_vars
               PROVE  DataHeld'
    OBVIOUS
  <2>1. ASSUME NEW r \in Requests, Request(r)
        PROVE  DataHeld'
    BY <2>1, NoVerdictYet DEF Request, Begin
  <2>2. ASSUME NEW r \in OwnRequests, OwnRequest(r)
        PROVE  DataHeld'
    BY <2>2, NoVerdictYet DEF OwnRequest, Begin
  <2>3. CASE OwnComplete
    BY <2>3, VerdictKept DEF OwnComplete, Return
  <2>4. CASE Validate
    <3>1. /\ pc' = "idle" /\ data' = data /\ data # <<>>
          /\ valid' = IF SMARTValidateReadData(data) THEN "yes" ELSE "no"
      BY <2>4 DEF Validate
    <3>2. valid' = "yes" <=> SMARTValidateReadData(data')
      BY <3>1
    <3> QED
      BY <3>1, <3>2 DEF DataHeld
  <2>5. CASE SendSMARTCommand
    BY <2>5, VerdictKept DEF SendSMARTCommand
  <2>6. CASE Obey
    BY <2>6, VerdictKept DEF Obey
  <2>7. CASE Refuse
    BY <2>7, VerdictKept DEF Refuse
  <2>8. CASE Complete
    <3>1. data' = <<>> \/ data' \in Samples
      BY <2>8 DEF Complete, ReadBuffer
    <3>2. valid' = "none"
      BY <2>8 DEF Complete, DataHeld
    <3> QED
      BY <3>1, <3>2, NoVerdictYet
  <2>9. CASE UNCHANGED vars
    BY <2>9, VerdictKept DEF vars, callerVars
  <2> QED
    BY <2>1, <2>2, <2>3, <2>4, <2>5, <2>6, <2>7, <2>8, <2>9, Zenon DEF Next
<1> QED
  BY <1>1, <1>2, PTL DEF Spec

(* The verdict of SMARTValidateReadData on whatever READ DATA returns, of any      *)
(* length: the bytes add up to 0 modulo 256 and the checksum is not 80h.         *)
THEOREM VerdictIsSum == Spec => []ChecksumDecides
<1>1. DataHeld => ChecksumDecides
  <2> SUFFICES ASSUME DataHeld, valid # "none"
               PROVE  valid = "yes" <=> TotalOf(data) % 256 = 0 /\ data[Len(data)] # \h80
    BY DEF ChecksumDecides, TotalOf
  <2>1. data \in Seq(Byte) /\ Len(data) > 1
    BY SamplesAssumption DEF DataHeld
  <2>2. SMARTValidateReadData(data) <=> TotalOf(data) % 256 = 0 /\ data[Len(data)] # \h80
    BY <2>1, ChecksumCorrect
  <2> QED
    BY <2>2 DEF DataHeld
<1> QED
  BY <1>1, VerdictsHeld, PTL
===============================================================================
