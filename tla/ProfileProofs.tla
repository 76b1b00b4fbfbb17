---------------------------- MODULE ProfileProofs ----------------------------
(***************************************************************************)
(* Theorems about Profile and Inputs: the certificates issueCertificate    *)
(* makes, and what validateCertificate and decodeJcsExtension say of them. *)
(***************************************************************************)
EXTENDS DocumentProofs, SequenceTheorems

-----------------------------------------------------------------------------
(***************************************************************************)
(* What the validator says of the content, it says of the anchor's.        *)
(***************************************************************************)

LEMMA FirstAmong ==
  ASSUME NEW answers, NEW n \in Nat, DOMAIN answers = 1..n,
         NEW codes, "SOUND" \in codes, \A i \in 1..n : answers[i] \in codes
  PROVE  FirstOf(answers) \in codes
BY FirstAnswer

LEMMA FirstOfThree ==
  ASSUME NEW a, NEW b, NEW c
  PROVE  \/ a # "SOUND" /\ FirstOf(<<a, b, c>>) = a
         \/ a = "SOUND" /\ b # "SOUND" /\ FirstOf(<<a, b, c>>) = b
         \/ a = "SOUND" /\ b = "SOUND" /\ FirstOf(<<a, b, c>>) = c
<1> DEFINE answers == <<a, b, c>>
<1>1. DOMAIN answers = 1..3 /\ answers[1] = a /\ answers[2] = b /\ answers[3] = c
  OBVIOUS
<1>2. \A i \in 1..3 : i = 1 \/ i = 2 \/ i = 3
  OBVIOUS
<1>3. 1 \in 1..3 /\ 2 \in 1..3 /\ 3 \in 1..3 /\ 3 \in Nat
      /\ 1 \in 1..2 - 1 /\ 1 \in 1..3 - 1 /\ 2 \in 1..3 - 1
  OBVIOUS
<1> HIDE DEF answers
<1>4. \/ FirstOf(answers) = "SOUND" /\ \A i \in 1..3 : answers[i] = "SOUND"
      \/ \E i \in 1..3 : /\ FirstOf(answers) = answers[i] /\ answers[i] # "SOUND"
                         /\ \A j \in 1..i - 1 : answers[j] = "SOUND"
  BY <1>1, <1>3, FirstAnswer
<1>5. \/ a # "SOUND" /\ FirstOf(answers) = a
      \/ a = "SOUND" /\ b # "SOUND" /\ FirstOf(answers) = b
      \/ a = "SOUND" /\ b = "SOUND" /\ FirstOf(answers) = c
  BY <1>1, <1>2, <1>3, <1>4
<1> QED
  BY <1>5 DEF answers

\* What the checks before the signature refuse a certificate for.
StructureCode ==
  {"SOUND", "ERR_UNKNOWN_CRITICAL_EXT", "ERR_SUBJECT_MISMATCH", "ERR_AGENT_ID_FORMAT",
   "ERR_SELF_SIGNED", "ERR_WEAK_SIGNATURE", "ERR_BASIC_CONSTRAINTS", "ERR_KEY_USAGE",
   "ERR_SERIAL_ENCODING", "ERR_SERIAL_ENTROPY"}

LEMMA StructureAnswers ==
  ASSUME NEW c, NEW agentId
  PROVE  StructureRefusal(c, agentId) \in StructureCode
<1> DEFINE r1 == Require(~c.unknownCritical, "ERR_UNKNOWN_CRITICAL_EXT")
           r2 == Require(c.cn # None, "ERR_SUBJECT_MISMATCH")
           r3 == Require(c.cn \in Uuid, "ERR_AGENT_ID_FORMAT")
           r4 == Require(c.cn = agentId, "ERR_SUBJECT_MISMATCH")
           r5 == Require(c.issuer # c.cn, "ERR_SELF_SIGNED")
           r6 == Require(c.strongSignature, "ERR_WEAK_SIGNATURE")
           r7 == Require(c.role = "agent", "ERR_BASIC_CONSTRAINTS")
           r8 == assertKeyUsage(c.usage)
           r9 == assertSerialEncoding(c.serial)
           r10 == assertSerialEntropy(c.serial)
           answers == <<r1, r2, r3, r4, r5, r6, r7, r8, r9, r10>>
<1>1. /\ r1 \in StructureCode /\ r2 \in StructureCode /\ r3 \in StructureCode
      /\ r4 \in StructureCode /\ r5 \in StructureCode /\ r6 \in StructureCode
      /\ r7 \in StructureCode
  BY DEF Require, StructureCode
<1>2. r8 \in StructureCode /\ r9 \in StructureCode /\ r10 \in StructureCode
  <2>1. \A condition : Require(condition, "ERR_KEY_USAGE") \in StructureCode
                       /\ Require(condition, "ERR_SERIAL_ENCODING") \in StructureCode
                       /\ Require(condition, "ERR_SERIAL_ENTROPY") \in StructureCode
    BY DEF Require, StructureCode
  <2> QED
    BY <2>1, Zenon DEF assertKeyUsage, assertSerialEncoding, assertSerialEntropy
<1>3. "SOUND" \in StructureCode
  BY DEF StructureCode
<1>4. StructureRefusal(c, agentId) = FirstOf(answers)
  BY Zenon DEF StructureRefusal
<1> HIDE DEF r1, r2, r3, r4, r5, r6, r7, r8, r9, r10
<1>5. 10 \in Nat /\ DOMAIN answers = 1..10
  OBVIOUS
<1>6. \A i \in 1..10 : answers[i] \in StructureCode
  BY <1>1, <1>2
<1> HIDE DEF answers
<1>7. FirstOf(answers) \in StructureCode
  BY <1>3, <1>5, <1>6, FirstAmong
<1> QED
  BY <1>4, <1>7

LEMMA SignatureAnswers ==
  ASSUME NEW c
  PROVE  \/ SignatureRefusal(c) \in {"ERR_FORGED_ISSUER", "ERR_CHAIN_INVALID"}
         \/ c.genuine /\ c.signer = "anchor"
BY Zenon DEF SignatureRefusal

\* What the validator says of the content of a certificate, its acceptance
\* included, it says only of what the anchor signed: no content is read before
\* validateCertificate of src/x509.js has verified the signature.
THEOREM ContentIsTheAnchorsAlways == Spec => []ContentIsTheAnchors
<1>1. ContentIsTheAnchors
  <2> DEFINE structure == StructureRefusal(cert, "agent")
             signature == SignatureRefusal(cert)
             content == ContentRefusal(cert)
             answer == FirstOf(<<structure, signature, content>>)
  <2>1. structure \in StructureCode
    BY StructureAnswers
  <2>2. \/ signature \in {"ERR_FORGED_ISSUER", "ERR_CHAIN_INVALID"}
        \/ cert.genuine /\ cert.signer = "anchor"
    BY SignatureAnswers
  <2>3. validateCertificate(cert, "agent") = answer
    BY Zenon DEF validateCertificate
  <2>4. \/ structure # "SOUND" /\ answer = structure
        \/ structure = "SOUND" /\ signature # "SOUND" /\ answer = signature
        \/ structure = "SOUND" /\ signature = "SOUND" /\ answer = content
    <3> HIDE DEF structure, signature, content
    <3> QED
      BY FirstOfThree
  <2> HIDE DEF structure, signature, content, answer
  <2> QED
    BY <2>1, <2>2, <2>3, <2>4 DEF ContentIsTheAnchors, StructureCode
<1> QED
  BY <1>1, PTL


-----------------------------------------------------------------------------
(***************************************************************************)
(* The number a serial's octets write.                                     *)
(***************************************************************************)

NumberUpTo(octets, n, upTo) ==
  upTo = [room \in 0..n |-> IF room = 0 THEN 0 ELSE 256 * upTo[room - 1] + octets[room]]

LEMMA NumberDefined ==
  ASSUME NEW octets, NEW n \in Nat
  PROVE  \E upTo : NumberUpTo(octets, n, upTo)
<1> DEFINE Level(room, inner) ==
             IF room = 0 THEN 0 ELSE 256 * inner + octets[room]
           defined == {m \in Nat : \E upTo : NumberUpTo(octets, m, upTo)}
<1>1. 0 \in defined
  <2>1. NumberUpTo(octets, 0, [room \in 0..0 |-> Level(0, [x \in {} |-> x])])
    BY DEF NumberUpTo
  <2> QED
    BY <2>1
<1>2. ASSUME NEW m \in 0..n, m \in defined
      PROVE  m + 1 \in defined
  <2>1. PICK before : NumberUpTo(octets, m, before)
    BY <1>2
  <2>2. before = [room \in 0..m |-> Level(room, before[room - 1])]
    BY <2>1 DEF NumberUpTo
  <2> DEFINE upTo == [room \in 0..m + 1 |-> IF room <= m THEN before[room] ELSE Level(room, before[m])]
  <2> HIDE DEF Level
  <2>3. \A room \in 0..m + 1 : upTo[room] = Level(room, upTo[room - 1])
    <3>1. ASSUME NEW room \in 0..m + 1, room <= m, room # 0
          PROVE  upTo[room] = Level(room, upTo[room - 1])
      <4>1. room \in 0..m /\ room - 1 \in 0..m + 1 /\ room - 1 <= m
        BY <3>1
      <4>2. upTo[room] = before[room] /\ upTo[room - 1] = before[room - 1]
        BY <4>1
      <4> HIDE DEF upTo
      <4> QED
        BY <4>1, <4>2, <2>2
    <3>2. upTo[0] = before[0] /\ upTo[m + 1] = Level(m + 1, before[m])
          /\ upTo[(m + 1) - 1] = before[m] /\ 0 \in 0..m
      OBVIOUS
    <3>3. before[0] = Level(0, upTo[0 - 1])
      BY <2>2, <3>2 DEF Level
    <3> HIDE DEF upTo
    <3>4. \A room \in 0..m + 1 : room <= m \/ room = m + 1
      OBVIOUS
    <3> QED
      BY <3>1, <3>2, <3>3, <3>4
  <2>4. upTo = [room \in 0..m + 1 |-> Level(room, upTo[room - 1])]
    BY <2>3
  <2>5. NumberUpTo(octets, m + 1, upTo)
    <3> HIDE DEF upTo
    <3> QED
      BY <2>4 DEF NumberUpTo, Level
  <2> QED
    BY <2>5
<1> HIDE DEF defined
<1>3. n \in defined
  BY <1>1, <1>2, Counting
<1> QED
  BY <1>3 DEF defined

Number(octets) == CHOOSE upTo : NumberUpTo(octets, Len(octets), upTo)

LEMMA NumberIs ==
  ASSUME NEW octets, Len(octets) \in Nat
  PROVE  /\ ValueOf(octets) = Number(octets)[Len(octets)]
         /\ Number(octets)[0] = 0
         /\ \A k \in 0..Len(octets) - 1 :
              Number(octets)[k + 1] = 256 * Number(octets)[k] + octets[k + 1]
<1>1. NumberUpTo(octets, Len(octets), Number(octets))
  BY NumberDefined DEF Number
<1>2. ValueOf(octets) = Number(octets)[Len(octets)]
  BY DEF ValueOf, Number, NumberUpTo
<1> DEFINE n == Len(octets)
           upTo == Number(octets)
<1> HIDE DEF n, upTo
<1>3. n \in Nat /\ upTo = [room \in 0..n |-> IF room = 0 THEN 0 ELSE 256 * upTo[room - 1] + octets[room]]
  BY <1>1 DEF NumberUpTo, n, upTo
<1>4. upTo[0] = 0
  BY <1>3
<1>5. ASSUME NEW k \in 0..n - 1
      PROVE  upTo[k + 1] = 256 * upTo[k] + octets[k + 1]
  <2>1. k + 1 \in 0..n /\ k + 1 # 0 /\ (k + 1) - 1 = k
    BY <1>3
  <2> QED
    BY <1>3, <2>1
<1> QED
  BY <1>2, <1>4, <1>5 DEF n, upTo

Byte == 0..255

LEMMA NumberTyped ==
  ASSUME NEW octets \in Seq(Byte)
  PROVE  ValueOf(octets) \in Nat
<1> DEFINE n == Len(octets)
           upTo == Number(octets)
           typed == {k \in Nat : upTo[k] \in Nat}
<1>1. n \in Nat /\ \A k \in 1..n : octets[k] \in 0..255
  <2>1. n \in Nat /\ \A k \in 1..n : octets[k] \in Byte
    BY ElementOfSeq, LenProperties
  <2> QED
    BY <2>1 DEF Byte
<1>2. ValueOf(octets) = upTo[n] /\ upTo[0] = 0
      /\ \A k \in 0..n - 1 : upTo[k + 1] = 256 * upTo[k] + octets[k + 1]
  BY <1>1, NumberIs
<1> HIDE DEF n, upTo
<1>3. 0 \in typed
  BY <1>2
<1>4. ASSUME NEW k \in 0..n, k \in typed, k < n
      PROVE  k + 1 \in typed
  <2>1. k \in 0..n - 1 /\ k + 1 \in 1..n /\ k + 1 \in Nat
    BY <1>1, <1>4
  <2>2. upTo[k] \in Nat
    BY <1>4
  <2>4. octets[k + 1] \in Nat
    <3>1. octets[k + 1] \in 0..255
      BY <1>1, <2>1
    <3>2. \A octet \in 0..255 : octet \in Nat
      OBVIOUS
    <3> QED
      BY <3>1, <3>2
  <2>3. 256 * upTo[k] + octets[k + 1] \in Nat
    BY <2>2, <2>4
  <2> QED
    BY <1>2, <2>1, <2>3
<1>5. \A k \in 0..n : k \in typed
  <2> HIDE DEF typed
  <2> QED
    BY <1>1, <1>3, <1>4, Counting
<1> QED
  BY <1>1, <1>2, <1>5

\* Zeros before the octets change nothing of the number.
LEMMA ZerosBefore ==
  ASSUME NEW octets, NEW longer, NEW zeros \in Nat,
         Len(octets) \in Nat, Len(longer) = zeros + Len(octets),
         \A k \in 1..zeros : longer[k] = 0,
         \A k \in 1..Len(octets) : longer[zeros + k] = octets[k]
  PROVE  ValueOf(longer) = ValueOf(octets)
<1> DEFINE n == Len(octets)
           upTo == Number(octets)
           all == Number(longer)
           nothing == {k \in Nat : all[k] = 0}
           same == {k \in Nat : all[zeros + k] = upTo[k]}
<1>1. /\ n \in Nat /\ Len(longer) = zeros + n
      /\ \A k \in 1..zeros : longer[k] = 0
      /\ \A k \in 1..n : longer[zeros + k] = octets[k]
  OBVIOUS
<1>2. ValueOf(octets) = upTo[n] /\ upTo[0] = 0
      /\ \A k \in 0..n - 1 : upTo[k + 1] = 256 * upTo[k] + octets[k + 1]
  BY NumberIs
<1>3. ValueOf(longer) = all[zeros + n] /\ all[0] = 0
      /\ \A k \in 0..(zeros + n) - 1 : all[k + 1] = 256 * all[k] + longer[k + 1]
  <2>1. Len(longer) \in Nat
    BY <1>1
  <2>2. ValueOf(longer) = all[Len(longer)] /\ all[0] = 0
        /\ \A k \in 0..Len(longer) - 1 : all[k + 1] = 256 * all[k] + longer[k + 1]
    BY <2>1, NumberIs
  <2> HIDE DEF all, n
  <2> QED
    BY <1>1, <2>2
<1> HIDE DEF n, upTo, all
<1>4. 0 \in nothing
  BY <1>3
<1>5. ASSUME NEW k \in 0..zeros, k \in nothing, k < zeros
      PROVE  k + 1 \in nothing
  <2>1. k \in 0..(zeros + n) - 1 /\ k + 1 \in 1..zeros
    BY <1>1, <1>5
  <2>2. all[k + 1] = 256 * 0 + 0
    BY <1>1, <1>3, <1>5, <2>1
  <2> QED
    BY <2>2
<1>6. \A k \in 0..zeros : k \in nothing
  <2> HIDE DEF nothing
  <2> QED
    BY <1>4, <1>5, Counting
<1>7. 0 \in same
  BY <1>2, <1>6
<1>8. ASSUME NEW k \in 0..n, k \in same, k < n
      PROVE  k + 1 \in same
  <2>1. /\ k \in 0..n - 1 /\ k + 1 \in 1..n /\ zeros + k \in 0..(zeros + n) - 1
        /\ (zeros + k) + 1 = zeros + (k + 1)
    BY <1>1, <1>8
  <2>2. all[zeros + (k + 1)] = 256 * all[zeros + k] + longer[zeros + (k + 1)]
    BY <1>3, <2>1
  <2>3. longer[zeros + (k + 1)] = octets[k + 1]
    BY <1>1, <2>1
  <2>4. all[zeros + k] = upTo[k]
    BY <1>8
  <2>5. k + 1 \in Nat
    BY <2>1
  <2> QED
    BY <1>2, <2>1, <2>2, <2>3, <2>4, <2>5
<1>9. \A k \in 0..n : k \in same
  <2> HIDE DEF same
  <2> QED
    BY <1>1, <1>7, <1>8, Counting
<1> QED
  BY <1>1, <1>2, <1>3, <1>9


-----------------------------------------------------------------------------
(***************************************************************************)
(* The serial that issueCertificate makes of the octets drawn.             *)
(***************************************************************************)

\* What significant leaves: all but the zeros before it.
LEMMA SignificantIs ==
  ASSUME NEW octets \in Seq(Byte), Len(octets) >= 1
  PROVE  /\ significant(octets) \in Seq(Byte)
         /\ \E zeros \in Nat :
              /\ Len(octets) = zeros + Len(significant(octets)) /\ Len(significant(octets)) >= 1
              /\ \A k \in 1..zeros : octets[k] = 0
              /\ \A k \in 1..Len(significant(octets)) : octets[zeros + k] = significant(octets)[k]
              /\ Len(significant(octets)) = 1 \/ significant(octets)[1] # 0
<1> DEFINE n == Len(octets)
           Begins(i) == octets[i] # 0 \/ i = n
           First(i) == Begins(i) /\ \A j \in 1..i - 1 : octets[j] = 0
           beginnings == {i \in 1..n : Begins(i)}
           start == CHOOSE i \in 1..n : First(i)
<1>1. n \in Nat /\ n >= 1 /\ DOMAIN octets = 1..n /\ \A k \in 1..n : octets[k] \in Byte
  <2>1. n \in Nat /\ DOMAIN octets = 1..n /\ \A k \in 1..n : octets[k] \in Byte
    BY ElementOfSeq, LenProperties
  <2> QED
    BY <2>1
<1>2. significant(octets) = SubSeq(octets, start, n)
  BY <1>1 DEF significant
<1> HIDE DEF n
<1>3. beginnings \subseteq Nat /\ n \in beginnings
  BY <1>1
<1>4. PICK i \in beginnings : \A j \in beginnings : i <= j
  <2> HIDE DEF beginnings
  <2> QED
    BY <1>3, LeastMember
<1>5. \A j \in 1..i - 1 : j \in 1..n /\ ~(i <= j)
  BY <1>1, <1>4
<1>6. i \in 1..n /\ First(i)
  BY <1>4, <1>5
<1>7. start \in 1..n /\ First(start)
  <2> HIDE DEF First
  <2> QED
    BY <1>6
<1> HIDE DEF start
<1> DEFINE zeros == start - 1
           rest == SubSeq(octets, start, n)
<1>8. start \in Int /\ n \in Int /\ start <= n /\ zeros \in Nat /\ 1..zeros = 1..start - 1
      /\ \A k \in start..n : k \in 1..n
  BY <1>1, <1>7
<1>9. /\ rest \in Seq(Byte) /\ Len(rest) = (n - start) + 1
      /\ \A k \in 1..(n - start) + 1 : rest[k] = octets[(start + k) - 1]
  <2>1. \A k \in start..n : octets[k] \in Byte
    BY <1>1, <1>8
  <2> QED
    BY <1>8, <2>1, SubSeqProperties
<1> HIDE DEF rest
<1>10. n = zeros + Len(rest) /\ Len(rest) >= 1 /\ (n - start) + 1 = Len(rest)
  BY <1>8, <1>9
<1>11. \A k \in 1..zeros : octets[k] = 0
  BY <1>7, <1>8
<1>12. ASSUME NEW k \in 1..Len(rest)
       PROVE  octets[zeros + k] = rest[k]
  <2>1. zeros + k = (start + k) - 1 /\ k \in 1..(n - start) + 1
    BY <1>8, <1>10
  <2> QED
    BY <1>9, <2>1
<1>13. Len(rest) = 1 \/ rest[1] # 0
  <2>1. 1 \in 1..Len(rest) /\ zeros + 1 = start
    BY <1>8, <1>10
  <2>2. rest[1] = octets[start]
    BY <1>12, <2>1
  <2> QED
    BY <1>7, <1>8, <1>9, <2>2
<1> QED
  BY <1>2, <1>8, <1>9, <1>10, <1>11, <1>12, <1>13 DEF n, rest

\* The serial: a zero more where the sign needs it, and nothing else.
LEMMA SerialIs ==
  ASSUME NEW octets \in Seq(Byte), Len(octets) >= 1
  PROVE  /\ Len(serialNumber(octets)) \in 1..Len(octets) + 1
         /\ serialNumber(octets) \in Seq(Byte)
         /\ serialNumber(octets)[1] < 128
         /\ Len(serialNumber(octets)) > 1 /\ serialNumber(octets)[1] = 0 =>
              serialNumber(octets)[2] >= 128
         /\ ValueOf(serialNumber(octets)) = ValueOf(octets)
<1> DEFINE rest == significant(octets)
           serial == serialNumber(octets)
<1>0. Len(octets) \in Nat
  BY LenProperties
<1>1. /\ rest \in Seq(Byte)
      /\ \E zeros \in Nat :
           /\ Len(octets) = zeros + Len(rest) /\ Len(rest) >= 1
           /\ \A k \in 1..zeros : octets[k] = 0
           /\ \A k \in 1..Len(rest) : octets[zeros + k] = rest[k]
           /\ Len(rest) = 1 \/ rest[1] # 0
  BY SignificantIs
<1> HIDE DEF rest
<1>2. PICK zeros \in Nat :
        /\ Len(octets) = zeros + Len(rest) /\ Len(rest) >= 1
        /\ \A k \in 1..zeros : octets[k] = 0
        /\ \A k \in 1..Len(rest) : octets[zeros + k] = rest[k]
        /\ Len(rest) = 1 \/ rest[1] # 0
  BY <1>1
<1>3. Len(rest) \in Nat /\ Len(rest) <= Len(octets) /\ 1 \in 1..Len(rest)
  <2>1. Len(rest) \in Nat
    BY <1>1, LenProperties
  <2> QED
    BY <1>0, <1>2, <2>1
<1>4. ValueOf(octets) = ValueOf(rest)
  BY <1>2, <1>3, ZerosBefore
<1>5. Head(rest) = rest[1] /\ rest[1] \in Byte
  BY <1>1, <1>3, ElementOfSeq
<1>6. CASE rest[1] >= 128
  <2>1. serial = <<0>> \o rest
    BY <1>5, <1>6 DEF serialNumber, TopBit, rest
  <2> DEFINE zero == <<0>>
  <2>2. zero \in Seq(Byte) /\ Len(zero) = 1 /\ zero[1] = 0
    BY DEF Byte
  <2> HIDE DEF zero
  <2>3. /\ zero \o rest \in Seq(Byte) /\ Len(zero \o rest) = 1 + Len(rest)
        /\ \A k \in 1..1 + Len(rest) : (zero \o rest)[k] = IF k <= 1 THEN zero[k] ELSE rest[k - 1]
    <3>1. \A one, other \in Seq(Byte) :
            /\ one \o other \in Seq(Byte) /\ Len(one \o other) = Len(one) + Len(other)
            /\ \A k \in 1..Len(one) + Len(other) :
                 (one \o other)[k] = IF k <= Len(one) THEN one[k] ELSE other[k - Len(one)]
      BY ConcatProperties
    <3>2. /\ zero \o rest \in Seq(Byte) /\ Len(zero \o rest) = Len(zero) + Len(rest)
          /\ \A k \in 1..Len(zero) + Len(rest) :
               (zero \o rest)[k] = IF k <= Len(zero) THEN zero[k] ELSE rest[k - Len(zero)]
      BY <1>1, <2>2, <3>1
    <3> DEFINE both == zero \o rest
    <3> HIDE DEF both
    <3>3. \A k \in 1..1 + Len(rest) : both[k] = IF k <= 1 THEN zero[k] ELSE rest[k - 1]
      BY <2>2, <3>2 DEF both
    <3> QED
      BY <2>2, <3>2, <3>3 DEF both
  <2> HIDE DEF serial
  <2>4. /\ serial \in Seq(Byte) /\ Len(serial) = 1 + Len(rest)
        /\ \A k \in 1..1 + Len(rest) : serial[k] = IF k <= 1 THEN zero[k] ELSE rest[k - 1]
    BY <2>1, <2>3 DEF zero
  <2>5. 1 \in 1..1 + Len(rest) /\ 2 \in 1..1 + Len(rest) /\ 2 - 1 = 1 /\ ~(2 <= 1)
    BY <1>3
  <2>6. serial[1] = 0 /\ serial[2] = rest[1]
    BY <2>2, <2>4, <2>5
  <2>7. \A k \in 1..1 : serial[k] = 0
    BY <2>6
  <2>8. \A k \in 1..Len(rest) : serial[1 + k] = rest[k]
    <3>1. ASSUME NEW k \in 1..Len(rest)
          PROVE  1 + k \in 1..1 + Len(rest) /\ ~(1 + k <= 1) /\ (1 + k) - 1 = k
      BY <1>3
    <3> QED
      BY <2>4, <3>1
  <2>9. ValueOf(serial) = ValueOf(rest)
    BY <1>3, <2>4, <2>7, <2>8, ZerosBefore
  <2>10. Len(serial) \in 1..Len(octets) + 1
    BY <1>0, <1>3, <2>4
  <2> QED
    BY <1>4, <1>6, <2>4, <2>6, <2>9, <2>10 DEF serial
<1>7. CASE ~(rest[1] >= 128)
  <2>1. serial = rest
    BY <1>5, <1>7 DEF serialNumber, TopBit, rest
  <2> HIDE DEF serial
  <2>2. \A octet \in 0..255 : ~(octet >= 128) => octet < 128
    OBVIOUS
  <2>3. rest[1] < 128
    BY <1>5, <1>7, <2>2 DEF Byte
  <2>4. Len(rest) > 1 => Len(rest) # 1
    <3>1. \A k \in Nat : k > 1 => k # 1
      OBVIOUS
    <3> QED
      BY <1>3, <3>1
  <2>5. Len(serial) \in 1..Len(octets) + 1
    BY <1>0, <1>2, <1>3, <2>1
  <2>6. ~(Len(serial) > 1 /\ serial[1] = 0)
    BY <1>2, <2>1, <2>4
  <2>7. serial \in Seq(Byte) /\ serial[1] < 128 /\ ValueOf(serial) = ValueOf(octets)
    BY <1>1, <1>4, <2>1, <2>3
  <2> QED
    BY <2>5, <2>6, <2>7 DEF serial
<1> QED
  BY <1>6, <1>7


\* How many octets the overrides of issueRaw and spawn ask for.
LEMMA AskedFor ==
  ASSUME NEW options \in issueRaw \cup {spawn}
  PROVE  options.serialBytes \in {SERIAL_RANDOM_OCTETS, MAX_SERIAL_OCTETS, MIN_SERIAL_OCTETS - 1}
<1>1. spawn.serialBytes = SERIAL_RANDOM_OCTETS /\ "serialBytes" \in DOMAIN spawn
  BY DEF spawn
<1>2. \A value, other :
        /\ [spawn EXCEPT !.issuer = value].serialBytes = SERIAL_RANDOM_OCTETS
        /\ [spawn EXCEPT !.notBefore = value, !.notAfter = other].serialBytes = SERIAL_RANDOM_OCTETS
        /\ [spawn EXCEPT !.keyUsageBits = value].serialBytes = SERIAL_RANDOM_OCTETS
        /\ [spawn EXCEPT !.notAfter = value].serialBytes = SERIAL_RANDOM_OCTETS
        /\ [spawn EXCEPT !.revocationSource = value].serialBytes = SERIAL_RANDOM_OCTETS
        /\ [spawn EXCEPT !.criticalExtensions = value].serialBytes = SERIAL_RANDOM_OCTETS
        /\ [spawn EXCEPT !.serialBytes = value].serialBytes = value
        /\ [spawn EXCEPT !.serialOctets = value].serialBytes = SERIAL_RANDOM_OCTETS
        /\ [spawn EXCEPT !.template = value].serialBytes = SERIAL_RANDOM_OCTETS
  BY <1>1
<1> QED
  BY <1>1, <1>2 DEF issueRaw

LEMMA Bounds ==
  /\ MAX_SERIAL_OCTETS \in Nat /\ SERIAL_RANDOM_OCTETS \in Nat
  /\ SERIAL_RANDOM_OCTETS >= 1 /\ SERIAL_RANDOM_OCTETS + 1 = MAX_SERIAL_OCTETS
  /\ MIN_SERIAL_OCTETS \in 1..SERIAL_RANDOM_OCTETS
BY ProfileAssumption

LEMMA DrawnIs ==
  ASSUME NEW options \in issueRaw \cup {spawn}, NEW drawn \in Draw(options.serialBytes)
  PROVE  drawn \in Seq(Byte) /\ Len(drawn) \in 1..SERIAL_RANDOM_OCTETS
<1> DEFINE bytes == options.serialBytes
<1>1. bytes \in Int
  <2>1. \A size \in {SERIAL_RANDOM_OCTETS, MAX_SERIAL_OCTETS, MIN_SERIAL_OCTETS - 1} : size \in Int
    BY Bounds
  <2> QED
    BY <2>1, AskedFor
<1> HIDE DEF bytes
<1> DEFINE capped == IF bytes > SERIAL_RANDOM_OCTETS THEN SERIAL_RANDOM_OCTETS ELSE bytes
           size == IF capped < 1 THEN 1 ELSE capped
<1>2. size \in Nat /\ size \in 1..SERIAL_RANDOM_OCTETS
  BY <1>1, Bounds
<1>3. drawn \in [1..size -> Octet]
  BY DEF Draw, bytes
<1> HIDE DEF size
<1>4. drawn \in [1..size -> Byte]
  BY <1>3, ProfileAssumption DEF Byte
<1>5. drawn \in Seq(Byte)
  BY <1>2, <1>4, SeqDef
<1>6. Len(drawn) = size
  BY <1>2, <1>4, <1>5
<1> QED
  BY <1>2, <1>5, <1>6

\* What issueCertificate made and nobody changed since is what it made.
Issued ==
  /\ changes \in Nat
  /\ (cert # None /\ changes = 0) =>
       \E options \in issueRaw \cup {spawn} : \E drawn \in Draw(options.serialBytes) :
         request = [options |-> options, drawn |-> drawn] /\ cert = issueCertificate(options, drawn)

LEMMA IssuedAlways == Spec => []Issued
<1>1. Init => Issued
  BY DEF Init, Issued
<1>2. Issued /\ [Next]_vars => Issued'
  <2> SUFFICES ASSUME Issued, [Next]_vars PROVE Issued'
    OBVIOUS
  <2>1. CASE Arrive
    BY <2>1 DEF Arrive, Issued
  <2>2. CASE Issue
    BY <2>2 DEF Issue, Issued
  <2>3. CASE Change
    <3>1. changes \in Nat /\ changes' = changes + 1
      BY <2>3 DEF Change, Issued
    <3>2. changes' \in Nat /\ changes' # 0
      BY <3>1
    <3> QED
      BY <3>2 DEF Issued
  <2>4. CASE UNCHANGED vars
    BY <2>4 DEF Issued, vars
  <2> QED
    BY <2>1, <2>2, <2>3, <2>4 DEF Next
<1> QED
  BY <1>1, <1>2, PTL DEF Spec

LEMMA SerialSound ==
  ASSUME NEW serial \in Seq(Byte), Len(serial) \in 1..MAX_SERIAL_OCTETS, serial[1] < 128,
         Len(serial) > 1 /\ serial[1] = 0 => serial[2] >= 128
  PROVE  /\ assertSerialEncoding(serial) = "SOUND"
         /\ Signed(serial) = ValueOf(serial)
<1>1. serial # <<>> /\ Len(serial) <= MAX_SERIAL_OCTETS
  BY Bounds
<1>2. ~TopBit(serial[1])
  <2>1. serial[1] \in Byte
    BY Bounds, ElementOfSeq
  <2>2. \A octet \in 0..255 : octet < 128 => ~(octet >= 128)
    OBVIOUS
  <2> QED
    BY <2>1, <2>2 DEF TopBit, Byte
<1>3. Len(serial) > 1 /\ serial[1] = 0 => TopBit(serial[2])
  BY DEF TopBit
<1>4. assertSerialEncoding(serial) = "SOUND"
  BY <1>1, <1>2, <1>3 DEF assertSerialEncoding, Require
<1>5. \A number \in Nat : number - 0 = number
  OBVIOUS
<1>6. Signed(serial) = ValueOf(serial) - 0
  BY <1>2 DEF Signed
<1> QED
  BY <1>4, <1>5, <1>6, NumberTyped

\* A serial issueCertificate of src/mint.js draws passes assertSerialEncoding
\* of src/x509.js whatever the octets drawn, their number and the size asked
\* for, and is the number drawn: the sign octet and the zeros taken off are no
\* part of it.
THEOREM SerialKeepsTheDrawAlways == Spec => []SerialKeepsTheDraw
<1>1. Issued => SerialKeepsTheDraw
  <2> SUFFICES ASSUME Issued, cert # None, changes = 0, request.options.serialOctets = None
               PROVE  /\ assertSerialEncoding(cert.serial) = "SOUND"
                      /\ Signed(cert.serial) = ValueOf(request.drawn)
    BY DEF SerialKeepsTheDraw
  <2>0. PICK options \in issueRaw \cup {spawn} : \E drawn \in Draw(options.serialBytes) :
          request = [options |-> options, drawn |-> drawn] /\ cert = issueCertificate(options, drawn)
    BY DEF Issued
  <2>1. PICK drawn \in Draw(options.serialBytes) :
          request = [options |-> options, drawn |-> drawn] /\ cert = issueCertificate(options, drawn)
    BY <2>0
  <2>2. request.drawn = drawn /\ options.serialOctets = None
    BY <2>1
  <2>3. cert.serial = serialNumber(drawn)
    BY <2>1, <2>2, Zenon DEF issueCertificate
  <2>4. drawn \in Seq(Byte) /\ Len(drawn) \in 1..SERIAL_RANDOM_OCTETS
    BY DrawnIs
  <2>5. Len(drawn) >= 1 /\ Len(drawn) + 1 <= MAX_SERIAL_OCTETS /\ Len(drawn) \in Nat
    BY <2>4, Bounds
  <2> DEFINE serial == serialNumber(drawn)
  <2>6. /\ Len(serial) \in 1..Len(drawn) + 1 /\ serial \in Seq(Byte) /\ serial[1] < 128
        /\ Len(serial) > 1 /\ serial[1] = 0 => serial[2] >= 128
        /\ ValueOf(serial) = ValueOf(drawn)
    BY <2>4, <2>5, SerialIs
  <2> HIDE DEF serial
  <2>7. Len(serial) \in 1..MAX_SERIAL_OCTETS
    BY <2>5, <2>6, Bounds
  <2>8. assertSerialEncoding(serial) = "SOUND" /\ Signed(serial) = ValueOf(serial)
    BY <2>6, <2>7, SerialSound
  <2> QED
    BY <2>2, <2>3, <2>6, <2>8 DEF serial
<1> QED
  BY <1>1, IssuedAlways, PTL


-----------------------------------------------------------------------------
(***************************************************************************)
(* Two texts that differ in how strings are spelt.                         *)
(***************************************************************************)

Alike(t, u) ==
  /\ u \in Seq(Token) /\ Len(u) = Len(t)
  /\ \A i \in 1..Len(t) :
       u[i] = t[i] \/ (t[i] \in Spelling /\ u[i] \in Spelling /\ Meaning[u[i]] = Meaning[t[i]])

\* What is at i in them: the same, or two spellings of one string.
SameAt(t, u, i) ==
  /\ At(u, i) \in Spelling <=> At(t, i) \in Spelling
  /\ At(u, i) = At(t, i) \/ (At(t, i) \in Spelling /\ At(u, i) \in Spelling)
  /\ i \in 1..Len(t) => Meaning[u[i]] = Meaning[t[i]] /\ At(t, i) = t[i] /\ At(u, i) = u[i]
  /\ At(t, i) # "end" => i \in 1..Len(t)

LEMMA AlikeAt ==
  ASSUME NEW t \in Seq(Token), NEW u, Alike(t, u), NEW i
  PROVE  SameAt(t, u, i)
<1>1. DOMAIN t = 1..Len(t) /\ DOMAIN u = 1..Len(t)
  BY DEF Alike
<1>2. i \in 1..Len(t) => At(t, i) = t[i] /\ At(u, i) = u[i]
  BY <1>1 DEF At
<1>3. i \notin 1..Len(t) => At(t, i) = "end" /\ At(u, i) = "end"
  BY <1>1 DEF At
<1>4. i \in 1..Len(t) =>
        u[i] = t[i] \/ (t[i] \in Spelling /\ u[i] \in Spelling /\ Meaning[u[i]] = Meaning[t[i]])
  BY DEF Alike
<1> QED
  BY <1>2, <1>3, <1>4 DEF SameAt

\* What is no spelling is at i in both or in neither.
Kindred(t, u, i) == \A token : token \notin Spelling => (At(u, i) = token <=> At(t, i) = token)

LEMMA AlikeKindred ==
  ASSUME NEW t \in Seq(Token), NEW u, Alike(t, u), NEW i
  PROVE  Kindred(t, u, i)
BY AlikeAt DEF Kindred, SameAt

ContinuesAlike(t, u) ==
  \A v, taken, whole :
    /\ Continue(u, v, taken, whole, "}") = Continue(t, v, taken, whole, "}")
    /\ Continue(u, v, taken, whole, "]") = Continue(t, v, taken, whole, "]")

LEMMA ContinueAlike ==
  ASSUME NEW t \in Seq(Token), NEW u, Alike(t, u)
  PROVE  ContinuesAlike(t, u)
<1> SUFFICES ASSUME NEW v, NEW taken, NEW whole
             PROVE  /\ Continue(u, v, taken, whole, "}") = Continue(t, v, taken, whole, "}")
                    /\ Continue(u, v, taken, whole, "]") = Continue(t, v, taken, whole, "]")
  BY DEF ContinuesAlike
<1>1. "}" \notin Spelling /\ "]" \notin Spelling /\ "," \notin Spelling
  BY SpellingApart
<1>2. /\ At(u, v.next) = "," <=> At(t, v.next) = ","
      /\ At(u, v.next) = "}" <=> At(t, v.next) = "}"
      /\ At(u, v.next) = "]" <=> At(t, v.next) = "]"
  <2>1. Kindred(t, u, v.next)
    BY AlikeKindred
  <2> QED
    BY <1>1, <2>1 DEF Kindred
<1> QED
  BY <1>2 DEF Continue

LEMMA MemberAlike ==
  ASSUME NEW t \in Seq(Token), NEW u, Alike(t, u), NEW inner, NEW s
  PROVE  member(u, inner, s) = member(t, inner, s)
<1>0. SameAt(t, u, s.next) /\ Kindred(t, u, s.next + 1)
  BY AlikeAt, AlikeKindred
<1>1. At(u, s.next) \in Spelling <=> At(t, s.next) \in Spelling
  BY <1>0 DEF SameAt
<1>2. At(t, s.next) \in Spelling => Meaning[u[s.next]] = Meaning[t[s.next]]
  BY <1>0, SpellingApart DEF SameAt
<1>3. At(u, s.next + 1) = ":" <=> At(t, s.next + 1) = ":"
  <2>1. ":" \notin Spelling
    BY SpellingApart
  <2> QED
    BY <1>0, <2>1 DEF Kindred
<1> DEFINE name == Meaning[t[s.next]]
           v == inner[s.next + 2]
           taken == Append(s.value, [key |-> name, value |-> v.value])
<1>4. Continue(u, v, taken, Object(taken), "}") = Continue(t, v, taken, Object(taken), "}")
  <2>1. ContinuesAlike(t, u)
    BY ContinueAlike
  <2> HIDE DEF v, taken
  <2> QED
    BY <2>1 DEF ContinuesAlike
<1>5. Meaning[u[s.next]] = name => Entered(u, inner, s) = Entered(t, inner, s)
  <2>1. Meaning[u[s.next]] = name =>
          Append(s.value, [key |-> Meaning[u[s.next]], value |-> v.value]) = taken
    OBVIOUS
  <2> HIDE DEF v, taken
  <2> QED
    BY <1>3, <1>4, <2>1 DEF Entered, v, taken
<1> QED
  BY <1>1, <1>2, <1>5 DEF member

LEMMA NextAlike ==
  ASSUME NEW t \in Seq(Token), NEW u, Alike(t, u), NEW inner, NEW i \in 1..Len(t), NEW s
  PROVE  NextTurn(u, inner, i, s) = NextTurn(t, inner, i, s)
<1>1. u[i] = "{" <=> t[i] = "{"
  <2>1. SameAt(t, u, i) /\ Kindred(t, u, i) /\ "{" \notin Spelling
    BY SpellingApart, AlikeKindred, AlikeAt
  <2> QED
    BY <2>1 DEF Kindred, SameAt
<1>2. item(u, inner, s) = item(t, inner, s)
  <2> DEFINE v == inner[s.next]
             taken == Append(s.value, v.value)
  <2>1. Continue(u, v, taken, Array(taken), "]") = Continue(t, v, taken, Array(taken), "]")
    <3>1. ContinuesAlike(t, u)
      BY ContinueAlike
    <3> HIDE DEF v, taken
    <3> QED
      BY <3>1 DEF ContinuesAlike
  <2> QED
    BY <2>1, ItemIs
<1>3. member(u, inner, s) = member(t, inner, s)
  BY MemberAlike
<1> QED
  BY <1>1, <1>2, <1>3 DEF NextTurn

LEMMA PartsAlike ==
  ASSUME NEW t \in Seq(Token), NEW u, Alike(t, u), NEW inner, NEW i \in 1..Len(t)
  PROVE  parts(u, inner, i) = parts(t, inner, i)
<1>1. PICK turn : Looping(t, inner, i, turn) /\ parts(t, inner, i) = turn[Len(t)]
  BY PartsAre
<1>2. u \in Seq(Token) /\ Len(u) = Len(t) /\ Len(t) \in Nat
  BY LenInNat DEF Alike
<1>3. PICK other : Looping(u, inner, i, other) /\ parts(u, inner, i) = other[Len(t)]
  <2>1. \E other : Looping(u, inner, i, other) /\ parts(u, inner, i) = other[Len(u)]
    BY <1>2, PartsAre
  <2> QED
    BY <1>2, <2>1
<1> DEFINE n == Len(t)
           same == {k \in Nat : other[k] = turn[k]}
<1>4. 0 \in same
  BY <1>1, <1>3 DEF Looping
<1>5. ASSUME NEW k \in 0..n, k \in same, k < n
      PROVE  k + 1 \in same
  <2>1. other[k + 1] = NextTurn(u, inner, i, other[k]) /\ turn[k + 1] = NextTurn(t, inner, i, turn[k])
    BY <1>1, <1>2, <1>3, <1>5 DEF Looping
  <2>2. NextTurn(u, inner, i, turn[k]) = NextTurn(t, inner, i, turn[k])
    BY NextAlike
  <2>3. k + 1 \in Nat
    BY <1>2, <1>5
  <2> QED
    BY <1>5, <2>1, <2>2, <2>3
<1>6. \A k \in 0..n : k \in same
  <2> HIDE DEF same
  <2> QED
    BY <1>2, <1>4, <1>5, Counting
<1>7. n \in 0..n
  BY <1>2
<1> QED
  BY <1>1, <1>3, <1>6, <1>7

LEMMA ValueAlike ==
  ASSUME NEW t \in Seq(Token), NEW u, Alike(t, u), NEW inner, NEW i
  PROVE  valueAt(u, inner, i) = valueAt(t, inner, i)
<1>1. Cased(t, inner, i, valueAt(t, inner, i)) /\ Cased(u, inner, i, valueAt(u, inner, i))
  BY ValueCases
<1>0. SameAt(t, u, i) /\ Kindred(t, u, i) /\ Kindred(t, u, i + 1)
  BY AlikeKindred, AlikeAt
<1>2. /\ At(u, i) = "{" <=> At(t, i) = "{"
      /\ At(u, i) = "[" <=> At(t, i) = "["
      /\ At(u, i + 1) = "}" <=> At(t, i + 1) = "}"
      /\ At(u, i + 1) = "]" <=> At(t, i + 1) = "]"
      /\ At(u, i) = "integer" <=> At(t, i) = "integer"
      /\ At(u, i) = "null" <=> At(t, i) = "null"
  <2>1. /\ "{" \notin Spelling /\ "[" \notin Spelling /\ "}" \notin Spelling /\ "]" \notin Spelling
        /\ "integer" \notin Spelling /\ "null" \notin Spelling
    BY SpellingApart
  <2> QED
    BY <1>0, <2>1 DEF Kindred
<1>3. /\ At(u, i) \in Spelling <=> At(t, i) \in Spelling
      /\ At(t, i) \in Spelling => Meaning[u[i]] = Meaning[t[i]]
      /\ At(t, i) \in Scalar => u[i] = t[i]
      /\ At(u, i) \in Scalar <=> At(t, i) \in Scalar
  BY <1>0, <1>2, SpellingApart DEF SameAt, Scalar
<1>4. At(t, i) \in {"{", "["} => parts(u, inner, i) = parts(t, inner, i)
  <2>1. At(t, i) \in {"{", "["} => i \in 1..Len(t)
    BY <1>0 DEF SameAt
  <2> QED
    BY <2>1, PartsAlike
<1> DEFINE one == valueAt(t, inner, i)
           other == valueAt(u, inner, i)
<1> HIDE DEF one, other
<1>5. Cased(t, inner, i, one) /\ Cased(u, inner, i, other)
  BY <1>1 DEF one, other
<1>6. CASE At(t, i) \in {"{", "["}
  BY <1>2, <1>4, <1>5, <1>6 DEF Cased, one, other
<1>7. CASE At(t, i) \in Spelling
  BY <1>3, <1>5, <1>7 DEF Cased, one, other
<1>8. CASE At(t, i) \in Scalar
  BY <1>3, <1>5, <1>8 DEF Cased, one, other
<1>9. CASE At(t, i) \notin {"{", "["} \cup Spelling \cup Scalar
  BY <1>2, <1>3, <1>5, <1>9 DEF Cased, one, other
<1> QED
  BY <1>6, <1>7, <1>8, <1>9

LEMMA LevelsMap ==
  ASSUME NEW t
  PROVE  /\ Levels(t)[0] = [i \in 1..Len(t) + 1 |-> Refused("ERR_SCHEMA_VIOLATION", i)]
         /\ \A room \in 0..MAX_NESTING_DEPTH :
              Levels(t)[room + 1] = [i \in 1..Len(t) + 1 |-> valueAt(t, Levels(t)[room], i)]
<1> DEFINE Level(r, inner) ==
             [j \in 1..Len(t) + 1 |->
                IF r = 0 THEN Refused("ERR_SCHEMA_VIOLATION", j) ELSE valueAt(t, inner, j)]
           value == Levels(t)
           last == MAX_NESTING_DEPTH + 1
<1>0. last \in Nat /\ MAX_NESTING_DEPTH \in Nat
  BY ReaderAssumption
<1>1. LevelsUpTo(t, last, value)
  BY <1>0, LevelsDefined DEF Levels
<1>2. value = [r \in 0..last |-> Level(r, value[r - 1])]
  <2> HIDE DEF value
  <2> QED
    BY <1>1 DEF LevelsUpTo
<1> HIDE DEF value
<1>3. value[0] = Level(0, value[0 - 1])
  <2> HIDE DEF Level
  <2>1. 0 \in 0..last
    BY <1>0
  <2> QED
    BY <1>2, <2>1
<1>4. ASSUME NEW room \in 0..MAX_NESTING_DEPTH
      PROVE  value[room + 1] = Level(room + 1, value[room]) /\ room + 1 # 0
  <2> HIDE DEF Level
  <2>1. room + 1 \in 0..last /\ (room + 1) - 1 = room /\ room + 1 # 0
    BY <1>0
  <2> QED
    BY <1>2, <2>1
<1> QED
  BY <1>3, <1>4 DEF value

LEMMA LevelsAlike ==
  ASSUME NEW t \in Seq(Token), NEW u, Alike(t, u)
  PROVE  \A room \in 0..MAX_NESTING_DEPTH + 1 : Levels(u)[room] = Levels(t)[room]
<1> DEFINE last == MAX_NESTING_DEPTH + 1
           same == {room \in Nat : Levels(u)[room] = Levels(t)[room]}
<1>0. last \in Nat /\ Len(u) = Len(t)
  BY ReaderAssumption DEF Alike
<1>1. 0 \in same
  BY <1>0, LevelsMap
<1>2. ASSUME NEW room \in 0..last, room \in same, room < last
      PROVE  room + 1 \in same
  <2>1. room \in 0..MAX_NESTING_DEPTH /\ room + 1 \in Nat
    BY <1>2, ReaderAssumption
  <2>2. \A i : valueAt(u, Levels(t)[room], i) = valueAt(t, Levels(t)[room], i)
    BY ValueAlike
  <2>3. Levels(u)[room + 1] = [i \in 1..Len(t) + 1 |-> valueAt(u, Levels(t)[room], i)]
    <3>1. Levels(u)[room + 1] = [i \in 1..Len(u) + 1 |-> valueAt(u, Levels(u)[room], i)]
      BY <2>1, LevelsMap
    <3>2. Levels(u)[room] = Levels(t)[room]
      BY <1>2
    <3> QED
      BY <1>0, <3>1, <3>2
  <2>4. Levels(t)[room + 1] = [i \in 1..Len(t) + 1 |-> valueAt(t, Levels(t)[room], i)]
    BY <2>1, LevelsMap
  <2>5. Levels(u)[room + 1] = Levels(t)[room + 1]
    BY <2>2, <2>3, <2>4
  <2> QED
    BY <2>1, <2>5
<1>3. \A room \in 0..last : room \in same
  <2> HIDE DEF same
  <2> QED
    BY <1>0, <1>1, <1>2, Counting
<1> QED
  BY <1>3

LEMMA ReadAlike ==
  ASSUME NEW t \in Seq(Token), NEW u, Alike(t, u)
  PROVE  parseJsonStrict(u) = parseJsonStrict(t)
<1>1. u \in Seq(Token) /\ Len(u) = Len(t)
  BY DEF Alike
<1>2. MAX_NESTING_DEPTH + 1 \in 0..MAX_NESTING_DEPTH + 1
  BY ReaderAssumption
<1>3. Whole(u) = Whole(t)
  BY <1>2, LevelsAlike DEF Whole
<1> QED
  BY <1>1, <1>3, WholeIs


-----------------------------------------------------------------------------
(***************************************************************************)
(* An object of two members with a scalar value each, and a comma between. *)
(***************************************************************************)

PlainValue(token) == IF token \in Spelling THEN String(Meaning[token]) ELSE [type |-> token]

LEMMA PlainRead ==
  ASSUME NEW t \in Seq(Token), NEW inner, NEW i \in 1..Len(t), IsPlain(t, i)
  PROVE  valueAt(t, inner, i) = Read(PlainValue(t[i]), i + 1)
<1>1. At(t, i) = t[i]
  BY AtToken
<1>2. Cased(t, inner, i, valueAt(t, inner, i))
  BY ValueCases
<1>3. t[i] \in Scalar => t[i] \notin Spelling
  BY SpellingApart DEF Scalar
<1> QED
  BY <1>1, <1>2, <1>3 DEF Cased, IsPlain, PlainValue, String

LEMMA CutApart ==
  ASSUME NEW t, NEW i, IsCut(t, i)
  PROVE  ~Starting(t, i) /\ t[i] \notin Spelling /\ \A p : t[i] # BracketOf(t, p)
BY SpellingApart DEF IsCut, Starting, Scalar, BracketOf

\* A value of one token, or with a comma after the first, is a plain one.
LEMMA PlainAt ==
  ASSUME NEW t \in Seq(Token), NEW room \in 0..MAX_NESTING_DEPTH + 1, NEW i \in 1..Len(t),
         IsSound(Levels(t)[room][i]),
         \/ Levels(t)[room][i].next = i + 1
         \/ i + 1 \in 1..Len(t) /\ IsCut(t, i + 1)
  PROVE  Levels(t)[room][i].value = PlainValue(t[i]) /\ Levels(t)[room][i].next = i + 1
<1>0. MAX_NESTING_DEPTH \in Nat /\ i \in 1..Len(t) + 1 /\ Len(t) \in Nat
  BY ReaderAssumption, LenInNat
<1>1. room # 0
  BY <1>0, LevelsAre, Kinds
<1> DEFINE below == room - 1
           inner == Levels(t)[below]
           r == valueAt(t, inner, i)
<1>2. below \in 0..MAX_NESTING_DEPTH /\ below \in 0..MAX_NESTING_DEPTH + 1 /\ below + 1 = room
  BY <1>0, <1>1
<1>3. Levels(t)[room][i] = r
  <2> HIDE DEF below
  <2> QED
    BY <1>0, <1>2, LevelsAre
<1>4. Answers(t, inner) /\ Matches(t, inner, Grammar(t)[below])
  <2> HIDE DEF below
  <2> QED
    BY <1>2, LevelsWithin, LevelsMatch
<1> HIDE DEF inner, r
<1>5. IsPlain(t, i)
  <2>1. CASE IsWhole(t, i)
    <3>1. /\ At(t, i + 1) = BracketOf(t, i) => \E v : r = Read(v, i + 2)
          /\ At(t, i + 1) # BracketOf(t, i) => r = parts(t, inner, i)
      BY <2>1, WholeCases DEF r
    <3>2. i + 1 \in 1..Len(t) => At(t, i + 1) = t[i + 1]
      BY <1>0, AtToken
    <3>3. CASE At(t, i + 1) = BracketOf(t, i)
      <4>1. r.next = i + 2
        BY <3>1, <3>3, Kinds
      <4>2. i + 2 # i + 1
        BY <1>0
      <4>3. ~(i + 1 \in 1..Len(t) /\ IsCut(t, i + 1))
        BY <3>2, <3>3, CutApart
      <4> QED
        BY <1>3, <4>1, <4>2, <4>3
    <3>4. CASE At(t, i + 1) # BracketOf(t, i)
      <4>1. r = parts(t, inner, i) /\ IsSound(r)
        BY <1>3, <3>1, <3>4
      <4>2. PICK cuts, e, list : ClosesAt(t, inner, i, r, cuts, e, list)
        BY <1>4, <4>1, PartsClose
      <4>3. e \in i + 2..Len(t) /\ r.next = e + 1 /\ Closed(t, inner, i, cuts, e, list)
        BY <4>2 DEF ClosesAt
      <4>4. e + 1 # i + 1
        BY <1>0, <4>3
      <4>5. i + 1 \in 1..Len(t) /\ IsCut(t, i + 1)
        BY <1>3, <4>3, <4>4
      <4>6. i + 1 \in Starts(cuts, i + 1)
        BY DEF Starts
      <4>7. PICK b : PartAt(t, inner, i, i + 1, b)
        BY <4>3, <4>6 DEF Closed
      <4>8. t[i + 1] \in Spelling \/ IsSound(inner[i + 1])
        BY <4>7 DEF PartAt
      <4>9. IsSound(inner[i + 1]) => Starting(t, i + 1)
        BY <1>4, <4>5 DEF Matches
      <4> QED
        BY <4>5, <4>8, <4>9, CutApart
    <3> QED
      BY <3>3, <3>4
  <2>2. CASE ~IsWhole(t, i)
    <3>1. ~IsPlain(t, i) => r = fail(i)
      BY <2>2, PlainCases DEF r
    <3> QED
      BY <1>3, <3>1, Kinds
  <2> QED
    BY <2>1, <2>2
<1>6. r = Read(PlainValue(t[i]), i + 1)
  BY <1>5, PlainRead DEF r
<1> QED
  BY <1>3, <1>6, Kinds

LEMMA SoundIs ==
  ASSUME NEW t \in Seq(Token), IsSound(parseJsonStrict(t))
  PROVE  /\ parseJsonStrict(t) = Whole(t) /\ Whole(t).next = Len(t) + 1 /\ 1 \in 1..Len(t)
         /\ Whole(t).value \in Value[MAX_NESTING_DEPTH + 1]
<1> DEFINE v == Whole(t)
           parsed == parseJsonStrict(t)
<1>1. v.next \in 1..Len(t) + 1 /\ Within(t, v, 1)
      /\ parsed = IF IsSound(v) /\ v.next <= Len(t) THEN fail(v.next) ELSE v
  BY WholeIs
<1> HIDE DEF v, parsed
<1>2. parsed = v /\ IsSound(v) /\ ~(v.next <= Len(t))
  BY <1>1, Kinds DEF parsed
<1>3. Len(t) \in Nat /\ v.next > 1
  BY <1>1, <1>2, LenInNat DEF Within
<1>4. v.next = Len(t) + 1 /\ 1 \in 1..Len(t)
  BY <1>1, <1>2, <1>3
<1>5. MAX_NESTING_DEPTH + 1 \in 0..MAX_NESTING_DEPTH + 1
  BY ReaderAssumption
<1>6. Known(t, MAX_NESTING_DEPTH + 1, 1, v)
  BY <1>2, <1>4, <1>5, LevelsKnown DEF Understood, Whole, v
<1> QED
  BY <1>2, <1>4, <1>6 DEF v, parsed, Known

\* The member at a, if its value is plain.
Pair(t, a) == [key |-> Meaning[t[a]], value |-> PlainValue(t[a + 2])]

LEMMA TwoMembers ==
  ASSUME NEW t \in Seq(Token), Len(t) = 9, IsObject(t, 1), IsCut(t, 5), IsSound(parseJsonStrict(t))
  PROVE  \E list : /\ parseJsonStrict(t).value = Object(list)
                   /\ InRange(list) = {Pair(t, 2), Pair(t, 6)}
                   /\ Meaning[t[2]] # Meaning[t[6]]
<1>0. MAX_NESTING_DEPTH \in 0..MAX_NESTING_DEPTH /\ MAX_NESTING_DEPTH \in 0..MAX_NESTING_DEPTH + 1
  BY ReaderAssumption
<1> DEFINE inner == Levels(t)[MAX_NESTING_DEPTH]
           r == Whole(t)
<1>1. parseJsonStrict(t) = r /\ r.next = 10 /\ IsSound(r)
  <2>1. parseJsonStrict(t) = r /\ r.next = Len(t) + 1
    BY SoundIs
  <2> HIDE DEF r
  <2>2. IsSound(r)
    BY <2>1
  <2> QED
    BY <2>1, <2>2
<1>2. r = valueAt(t, inner, 1) /\ Answers(t, inner)
  <2>1. 1 \in 1..Len(t) + 1
    OBVIOUS
  <2> QED
    BY <1>0, <2>1, LevelsAre, LevelsWithin DEF Whole
<1> HIDE DEF inner, r
<1>3. r = parts(t, inner, 1)
  <2>1. IsWhole(t, 1)
    BY DEF IsObject, IsWhole
  <2>5. 1 \in 1..Len(t)
    OBVIOUS
  <2>6. ASSUME NEW i \in 1..Len(t), IsWhole(t, i)
        PROVE  \/ \E v : valueAt(t, inner, i) = Read(v, i + 2)
               \/ valueAt(t, inner, i) = parts(t, inner, i)
    BY <2>6, WholeCases
  <2>2. (\E v : r = Read(v, 1 + 2)) \/ r = parts(t, inner, 1)
    BY <1>2, <2>1, <2>5, <2>6
  <2>3. (\E v : r = Read(v, 1 + 2)) => r.next = 1 + 2
    BY Kinds
  <2>4. 1 + 2 # 10
    OBVIOUS
  <2> QED
    BY <1>1, <2>2, <2>3, <2>4
<1>4. PICK cuts, e, list : ClosesAt(t, inner, 1, r, cuts, e, list)
  <2>1. 1 \in 1..Len(t)
    OBVIOUS
  <2> QED
    BY <1>1, <1>2, <1>3, <2>1, PartsClose
<1>5. /\ Closed(t, inner, 1, cuts, e, list) /\ e \in 1 + 2..9 /\ r.next = e + 1
      /\ r.value = WholeOf(t, 1, list)
  BY <1>4 DEF ClosesAt
<1>6. e = 9
  BY <1>1, <1>5
<1>7. r.value = Object(list)
  BY <1>5 DEF WholeOf
<1>8. /\ cuts \in SUBSET (2..8)
      /\ \A a \in Starts(cuts, 2) : \E b \in a..8 : IsPart(cuts, 8, a, b) /\ PartAt(t, inner, 1, a, b)
      /\ Collected(t, inner, 1, Starts(cuts, 2), list)
  <2>1. 1 + 1 = 2 /\ e - 1 = 8
    BY <1>6
  <2>2. /\ cuts \in Divisions(t, 2, 8)
        /\ \A a \in Starts(cuts, 2) : \E b \in a..8 : IsPart(cuts, 8, a, b) /\ PartAt(t, inner, 1, a, b)
        /\ Collected(t, inner, 1, Starts(cuts, 2), list)
    BY <1>5, <2>1, Zenon DEF Closed
  <2> QED
    BY <2>2 DEF Divisions
<1>9. ASSUME NEW a \in {2, 6}, a \in Starts(cuts, 2)
      PROVE  \E b \in a..8 :
               /\ b + 1 \in cuts \cup {9} /\ \A k \in a..b : k \notin cuts
               /\ IsSound(inner[a + 2]) /\ inner[a + 2].next = b + 1
  <2>1. PICK b \in a..8 : IsPart(cuts, 8, a, b) /\ PartAt(t, inner, 1, a, b)
    BY <1>8, <1>9
  <2> QED
    BY <2>1 DEF IsPart, PartAt
<1>10. 2 \in Starts(cuts, 2)
  BY DEF Starts
<1>11. PICK b \in 2..8 : /\ b + 1 \in cuts \cup {9} /\ \A k \in 2..b : k \notin cuts
                         /\ IsSound(inner[4]) /\ inner[4].next = b + 1
  BY <1>9, <1>10
<1>12. inner[4].value = PlainValue(t[4]) /\ inner[4].next = 5
  <2>1. 4 \in 1..Len(t) /\ 4 + 1 \in 1..Len(t) /\ IsCut(t, 4 + 1)
    OBVIOUS
  <2>2. inner[4].value = PlainValue(t[4]) /\ inner[4].next = 4 + 1
    BY <1>0, <1>11, <2>1, PlainAt DEF inner
  <2> QED
    BY <2>2
<1>13. b = 4 /\ 5 \in cuts
  BY <1>11, <1>12
<1>14. 6 \in Starts(cuts, 2)
  <2>1. 5 + 1 = 6
    OBVIOUS
  <2> QED
    BY <1>13, <2>1 DEF Starts
<1>15. PICK c \in 6..8 : /\ c + 1 \in cuts \cup {9} /\ \A k \in 6..c : k \notin cuts
                         /\ IsSound(inner[8]) /\ inner[8].next = c + 1
  BY <1>9, <1>14
<1>16. c = 8
  <2>1. Within(t, inner[8], 8)
    BY <1>2 DEF Answers
  <2>2. inner[8].next > 8
    BY <1>15, <2>1 DEF Within
  <2> QED
    BY <1>15, <2>2
<1>17. inner[8].value = PlainValue(t[8])
  <2>1. 8 \in 1..Len(t) /\ inner[8].next = 8 + 1
    BY <1>15, <1>16
  <2> QED
    BY <1>0, <1>15, <2>1, PlainAt DEF inner
<1>18. cuts = {5}
  <2>1. \A k \in 2..8 : k \in 2..4 \/ k = 5 \/ k \in 6..8
    OBVIOUS
  <2> QED
    BY <1>8, <1>11, <1>13, <1>15, <1>16, <2>1
<1>19. Starts(cuts, 2) = {2, 6}
  BY <1>18 DEF Starts
<1>20. Collected(t, inner, 1, {2, 6}, list)
  BY <1>8, <1>19
<1>21. Made(t, inner, 1, 2) = Pair(t, 2) /\ Made(t, inner, 1, 6) = Pair(t, 6)
  BY <1>12, <1>17 DEF Made, Pair
<1>22. InRange(list) = {Pair(t, 2), Pair(t, 6)}
  BY <1>20, <1>21 DEF Collected
<1>23. Meaning[t[2]] # Meaning[t[6]]
  <2>1. 2 # 6
    OBVIOUS
  <2> QED
    BY <1>20, <2>1 DEF Collected
<1> QED
  BY <1>1, <1>7, <1>22, <1>23


-----------------------------------------------------------------------------
(***************************************************************************)
(* The canonical form of an object does not depend on how its members are  *)
(* ordered.                                                                *)
(***************************************************************************)

WriteFrom(values, below) == [w \in values |-> write(w, below)]

WriteUpTo(n, level) == level = [room \in 0..n |-> WriteFrom(Value[room], level[room - 1])]

LEMMA WriteDefined ==
  ASSUME NEW n \in Nat
  PROVE  \E level : WriteUpTo(n, level)
<1> DEFINE Level(room, inner) ==
             WriteFrom(Value[room], inner)
           defined == {m \in Nat : \E level : WriteUpTo(m, level)}
<1>0. \A one, two : Level(0, one) = Level(0, two)
  BY ValuesAre DEF WriteFrom
<1>1. 0 \in defined
  <2> DEFINE level == [room \in 0..0 |-> Level(0, [x \in {} |-> x])]
  <2>1. level = [room \in 0..0 |-> Level(room, level[room - 1])]
    <3> HIDE DEF Level
    <3>1. \A room \in 0..0 : room = 0 /\ level[room] = Level(0, [x \in {} |-> x])
      OBVIOUS
    <3>2. \A room \in 0..0 : level[room] = Level(room, level[room - 1])
      BY <1>0, <3>1
    <3> QED
      BY <3>2
  <2>2. WriteUpTo(0, level)
    <3> HIDE DEF level
    <3> QED
      BY <2>1 DEF WriteUpTo
  <2> QED
    BY <2>2
<1>2. ASSUME NEW m \in 0..n, m \in defined
      PROVE  m + 1 \in defined
  <2>1. PICK before : WriteUpTo(m, before)
    BY <1>2
  <2>2. before = [room \in 0..m |-> Level(room, before[room - 1])]
    BY <2>1 DEF WriteUpTo
  <2> DEFINE level == [room \in 0..m + 1 |-> IF room <= m THEN before[room] ELSE Level(room, before[m])]
  <2> HIDE DEF Level
  <2>3. \A room \in 0..m + 1 : level[room] = Level(room, level[room - 1])
    <3>1. ASSUME NEW room \in 0..m + 1, room <= m, room # 0
          PROVE  level[room] = Level(room, level[room - 1])
      <4>1. room \in 0..m /\ room - 1 \in 0..m + 1 /\ room - 1 <= m
        BY <3>1
      <4>2. level[room] = before[room] /\ level[room - 1] = before[room - 1]
        BY <4>1
      <4> HIDE DEF level
      <4> QED
        BY <4>1, <4>2, <2>2
    <3>2. level[0] = before[0] /\ level[m + 1] = Level(m + 1, before[m])
          /\ level[(m + 1) - 1] = before[m] /\ 0 \in 0..m
      OBVIOUS
    <3>3. before[0] = Level(0, level[0 - 1])
      BY <1>0, <2>2, <3>2
    <3> HIDE DEF level
    <3>4. \A room \in 0..m + 1 : room <= m \/ room = m + 1
      OBVIOUS
    <3> QED
      BY <3>1, <3>2, <3>3, <3>4
  <2>4. level = [room \in 0..m + 1 |-> Level(room, level[room - 1])]
    BY <2>3
  <2>5. WriteUpTo(m + 1, level)
    <3> HIDE DEF level
    <3> QED
      BY <2>4 DEF WriteUpTo, Level
  <2> QED
    BY <2>5
<1> HIDE DEF defined
<1>3. n \in defined
  BY <1>1, <1>2, Counting
<1> QED
  BY <1>3 DEF defined

Write == CHOOSE level : WriteUpTo(MAX_NESTING_DEPTH + 1, level)

LEMMA WritesAre ==
  /\ \A v : canonicalize(v) = Write[MAX_NESTING_DEPTH + 1][v]
  /\ \A room \in 0..MAX_NESTING_DEPTH : Write[room + 1] = WriteFrom(Value[room + 1], Write[room])
<1>0. MAX_NESTING_DEPTH \in Nat
  BY ReaderAssumption
<1>1. MAX_NESTING_DEPTH + 1 \in Nat
  BY <1>0
<1>2. WriteUpTo(MAX_NESTING_DEPTH + 1, Write)
  BY <1>1, WriteDefined DEF Write
<1>3. \A v : canonicalize(v) = Write[MAX_NESTING_DEPTH + 1][v]
  BY DEF canonicalize, Write, WriteUpTo, WriteFrom
<1>4. ASSUME NEW room \in 0..MAX_NESTING_DEPTH
      PROVE  Write[room + 1] = WriteFrom(Value[room + 1], Write[room])
  <2>1. room + 1 \in 0..MAX_NESTING_DEPTH + 1 /\ (room + 1) - 1 = room
    BY <1>0
  <2> QED
    BY <2>1, <1>2 DEF WriteUpTo
<1> QED
  BY <1>3, <1>4

\* The value of the member of that name.
ValueFor(object, name) == object[CHOOSE i \in DOMAIN object : object[i].key = name].value

\* What writeObject has after the n-th name.
Row(object, written, n, before) ==
  IF KeyOrder[n] \notin KeysOf(object) THEN before
  ELSE Listed(before, <<SpellingOf(KeyOrder[n]), ":">> \o written[ValueFor(object, KeyOrder[n])])

RowsUpTo(object, written, n, upTo) ==
  upTo = [room \in 0..n |-> IF room = 0 THEN <<>> ELSE Row(object, written, room, upTo[room - 1])]

LEMMA RowsDefined ==
  ASSUME NEW object, NEW written, NEW n \in Nat
  PROVE  \E upTo : RowsUpTo(object, written, n, upTo)
<1> DEFINE Level(room, inner) ==
             IF room = 0 THEN <<>> ELSE Row(object, written, room, inner)
           defined == {m \in Nat : \E upTo : RowsUpTo(object, written, m, upTo)}
<1>1. 0 \in defined
  <2>1. RowsUpTo(object, written, 0, [room \in 0..0 |-> Level(0, [x \in {} |-> x])])
    BY DEF RowsUpTo
  <2> QED
    BY <2>1
<1>2. ASSUME NEW m \in 0..n, m \in defined
      PROVE  m + 1 \in defined
  <2>1. PICK before : RowsUpTo(object, written, m, before)
    BY <1>2
  <2>2. before = [room \in 0..m |-> Level(room, before[room - 1])]
    BY <2>1 DEF RowsUpTo
  <2> DEFINE upTo == [room \in 0..m + 1 |-> IF room <= m THEN before[room] ELSE Level(room, before[m])]
  <2> HIDE DEF Level
  <2>3. \A room \in 0..m + 1 : upTo[room] = Level(room, upTo[room - 1])
    <3>1. ASSUME NEW room \in 0..m + 1, room <= m, room # 0
          PROVE  upTo[room] = Level(room, upTo[room - 1])
      <4>1. room \in 0..m /\ room - 1 \in 0..m + 1 /\ room - 1 <= m
        BY <3>1
      <4>2. upTo[room] = before[room] /\ upTo[room - 1] = before[room - 1]
        BY <4>1
      <4> HIDE DEF upTo
      <4> QED
        BY <4>1, <4>2, <2>2
    <3>2. upTo[0] = before[0] /\ upTo[m + 1] = Level(m + 1, before[m])
          /\ upTo[(m + 1) - 1] = before[m] /\ 0 \in 0..m
      OBVIOUS
    <3>3. before[0] = Level(0, upTo[0 - 1])
      BY <2>2, <3>2 DEF Level
    <3> HIDE DEF upTo
    <3>4. \A room \in 0..m + 1 : room <= m \/ room = m + 1
      OBVIOUS
    <3> QED
      BY <3>1, <3>2, <3>3, <3>4
  <2>4. upTo = [room \in 0..m + 1 |-> Level(room, upTo[room - 1])]
    BY <2>3
  <2>5. RowsUpTo(object, written, m + 1, upTo)
    <3> HIDE DEF upTo
    <3> QED
      BY <2>4 DEF RowsUpTo, Level
  <2> QED
    BY <2>5
<1> HIDE DEF defined
<1>3. n \in defined
  BY <1>1, <1>2, Counting
<1> QED
  BY <1>3 DEF defined

Rows(object, written) == CHOOSE upTo : RowsUpTo(object, written, Len(KeyOrder), upTo)

LEMMA RowsAre ==
  ASSUME NEW object, NEW written
  PROVE  /\ writeObject(object, written) = <<"{">> \o Rows(object, written)[Len(KeyOrder)] \o <<"}">>
         /\ Rows(object, written)[0] = <<>>
         /\ \A k \in 0..Len(KeyOrder) : k < Len(KeyOrder) =>
              Rows(object, written)[k + 1] = Row(object, written, k + 1, Rows(object, written)[k])
<1>1. Len(KeyOrder) \in Nat
  BY ProfileAssumption
<1>2. RowsUpTo(object, written, Len(KeyOrder), Rows(object, written))
  BY <1>1, RowsDefined DEF Rows
<1>3. writeObject(object, written) = <<"{">> \o Rows(object, written)[Len(KeyOrder)] \o <<"}">>
  BY DEF writeObject, Rows, RowsUpTo, Row, ValueFor
<1> DEFINE n == Len(KeyOrder)
           upTo == Rows(object, written)
<1> HIDE DEF n, upTo
<1>4. n \in Nat /\ upTo = [room \in 0..n |-> IF room = 0 THEN <<>> ELSE Row(object, written, room, upTo[room - 1])]
  BY <1>1, <1>2 DEF RowsUpTo, n, upTo
<1>5. upTo[0] = <<>>
  BY <1>4
<1>6. ASSUME NEW k \in 0..n, k < n
      PROVE  upTo[k + 1] = Row(object, written, k + 1, upTo[k])
  <2>1. k + 1 \in 0..n /\ k + 1 # 0 /\ (k + 1) - 1 = k
    BY <1>4, <1>6
  <2> QED
    BY <1>4, <2>1
<1> QED
  BY <1>3, <1>5, <1>6 DEF n, upTo

\* Two lists of the same members, each name once in them.
LEMMA OrderOfMembers ==
  ASSUME NEW list, NEW other, InRange(list) = InRange(other),
         \A m, w \in InRange(list) : m.key = w.key => m = w, NEW written
  PROVE  writeObject(list, written) = writeObject(other, written)
<1>1. KeysOf(list) = KeysOf(other)
  <2>1. KeysOf(list) = {m.key : m \in InRange(list)}
    BY DEF KeysOf, InRange
  <2>2. KeysOf(other) = {m.key : m \in InRange(other)}
    BY DEF KeysOf, InRange
  <2> QED
    BY <2>1, <2>2
<1>2. ASSUME NEW name \in KeysOf(list)
      PROVE  ValueFor(list, name) = ValueFor(other, name)
  <2> DEFINE i == CHOOSE k \in DOMAIN list : list[k].key = name
             j == CHOOSE k \in DOMAIN other : other[k].key = name
  <2>1. i \in DOMAIN list /\ list[i].key = name
    BY DEF KeysOf
  <2>2. j \in DOMAIN other /\ other[j].key = name
    BY <1>1 DEF KeysOf
  <2> HIDE DEF i, j
  <2>3. list[i] \in InRange(list) /\ other[j] \in InRange(list)
    BY <2>1, <2>2 DEF InRange
  <2>4. list[i] = other[j]
    BY <2>1, <2>2, <2>3
  <2> QED
    BY <2>4 DEF ValueFor, i, j
<1>3. \A k, before : Row(list, written, k, before) = Row(other, written, k, before)
  BY <1>1, <1>2 DEF Row
<1> DEFINE n == Len(KeyOrder)
           same == {k \in Nat : Rows(list, written)[k] = Rows(other, written)[k]}
<1>4. n \in Nat
  BY ProfileAssumption
<1>5. 0 \in same
  BY RowsAre
<1>6. ASSUME NEW k \in 0..n, k \in same, k < n
      PROVE  k + 1 \in same
  <2>1. Rows(list, written)[k + 1] = Row(list, written, k + 1, Rows(list, written)[k])
    BY <1>6, RowsAre
  <2>2. Rows(other, written)[k + 1] = Row(other, written, k + 1, Rows(other, written)[k])
    BY <1>6, RowsAre
  <2>3. k + 1 \in Nat
    BY <1>4
  <2> QED
    BY <1>3, <1>6, <2>1, <2>2, <2>3
<1>7. \A k \in 0..n : k \in same
  <2> HIDE DEF same
  <2> QED
    BY <1>4, <1>5, <1>6, Counting
<1>8. n \in 0..n
  BY <1>4
<1>9. Rows(list, written)[n] = Rows(other, written)[n]
  BY <1>7, <1>8
<1>10. writeObject(list, written) = <<"{">> \o Rows(list, written)[n] \o <<"}">>
  BY RowsAre
<1>11. writeObject(other, written) = <<"{">> \o Rows(other, written)[n] \o <<"}">>
  BY RowsAre
<1> HIDE DEF n
<1> QED
  BY <1>9, <1>10, <1>11

\* The canonical form of an object.
LEMMA CanonicalObject ==
  ASSUME NEW list, Object(list) \in Value[MAX_NESTING_DEPTH + 1]
  PROVE  canonicalize(Object(list)) = writeObject(list, Write[MAX_NESTING_DEPTH])
<1>1. MAX_NESTING_DEPTH \in 0..MAX_NESTING_DEPTH
  BY ReaderAssumption
<1> DEFINE v == Object(list)
           below == Write[MAX_NESTING_DEPTH]
<1>2. v.type = "object" /\ v.members = list
  BY DEF Object
<1> HIDE DEF v, below
<1>3. canonicalize(v) = write(v, below)
  BY <1>1, WritesAre DEF WriteFrom, v, below
<1>4. write(v, below) = writeObject(list, below)
  BY <1>2 DEF write, Scalar
<1> QED
  BY <1>3, <1>4 DEF v, below


-----------------------------------------------------------------------------
(***************************************************************************)
(* Of the texts that mean the same, one is decoded at most.                *)
(***************************************************************************)

\* The text was read, and is its own canonical form.
IsCanonical(t) ==
  IsSound(parseJsonStrict(t)) /\ canonicalize(parseJsonStrict(t).value) = t

LEMMA DecodeTyped ==
  ASSUME NEW content \in Seq(Token)
  PROVE  /\ decode(content) \in Seq(Token)
         /\ decode(<<MARK>> \o content) = content /\ <<MARK>> \o content \in Seq(Token)
         /\ (content # <<>> /\ content[1] # MARK) => decode(content) = content
<1>1. MARK \in Token /\ <<MARK>> \in Seq(Token) /\ Len(<<MARK>>) = 1
  BY DEF Token
<1>2. <<MARK>> \o content \in Seq(Token) /\ <<MARK>> \o content # <<>>
      /\ Head(<<MARK>> \o content) = MARK /\ Tail(<<MARK>> \o content) = content
  BY <1>1
<1>3. content # <<>> => Tail(content) \in Seq(Token) /\ Head(content) = content[1]
  OBVIOUS
<1> QED
  BY <1>2, <1>3 DEF decode

LEMMA LongNotEmpty ==
  ASSUME NEW s \in Seq(Token), Len(s) > 0
  PROVE  s # <<>>
<1>1. Len(<<>>) = 0
  OBVIOUS
<1> QED
  <2> SUFFICES ASSUME s = <<>> PROVE FALSE
    OBVIOUS
  <2>1. Len(s) = 0
    BY <1>1, Zenon
  <2> QED
    BY <2>1

\* No value begins with a byte order mark.
LEMMA MarkRefused ==
  ASSUME NEW t \in Seq(Token), IsSound(parseJsonStrict(t))
  PROVE  t # <<>> /\ t[1] # MARK
<1> DEFINE below == Levels(t)[MAX_NESTING_DEPTH]
<1>1. MAX_NESTING_DEPTH \in 0..MAX_NESTING_DEPTH /\ 1 \in 1..Len(t) + 1
  BY ReaderAssumption, LenInNat
<1>2. Whole(t) = valueAt(t, below, 1)
  BY <1>1, LevelsAre DEF Whole
<1>3. IsSound(Whole(t))
  BY WholeIs DEF IsSound, fail, Refused
<1> HIDE DEF below
<1>4. At(t, 1) \in {"{", "["} \cup Spelling \cup Scalar
  <2>1. At(t, 1) \notin {"{", "["} \cup Spelling \cup Scalar => Whole(t) = fail(1)
    BY <1>2, ValueCases DEF Cased
  <2>2. fail(1).code # "SOUND"
    BY DEF fail, Refused
  <2> QED
    BY <1>3, <2>1, <2>2 DEF IsSound
<1>5. At(t, 1) # "end"
  BY <1>4, SpellingApart DEF Scalar
<1>6. MARK \notin {"{", "["} \cup Spelling \cup Scalar
  BY ReaderAssumption DEF MARK, Scalar
<1>7. 1 \in 1..Len(t) /\ At(t, 1) = t[1]
  BY <1>5, AtToken
<1>8. t # <<>>
  BY <1>7
<1>9. t[1] # MARK
  <2>1. At(t, 1) # MARK
    BY <1>4, <1>6
  <2> QED
    BY <1>7, <2>1
<1> QED
  BY <1>8, <1>9

\* What decodeJcsExtension accepts is, as text, its own canonical form.
LEMMA Decoded ==
  ASSUME NEW content \in Seq(Token), decodeJcsExtension(content).code = "SOUND"
  PROVE  IsCanonical(decode(content))
<1> DEFINE t == decode(content)
           parsed == parseJsonStrict(t)
           decoded == decodeAnyEncoding(content)
           Answer(code) == [code |-> code, object |-> parsed.value]
           TooLong == Len(content) > MAX_TEMPLATE_EXTENSION_BYTES
           Short == Len(content) <= MAX_TEMPLATE_EXTENSION_BYTES
           flat == IF parsed.code = "SOUND" THEN assertFlatObject(parsed.value) ELSE parsed.code
<1>1. decoded = CASE TooLong -> Answer("ERR_EXTENSION_TOO_LARGE")
                  [] Short /\ parsed.code = "ERR_MALFORMED_JSON" -> Answer("ERR_TEMPLATE_EXT_INVALID")
                  [] OTHER -> Answer(flat)
  BY DEF decodeAnyEncoding
<1>2. \A code : Answer(code).code = code /\ Answer(code).object = parsed.value
                /\ [Answer(code) EXCEPT !.code = "ERR_TEMPLATE_EXT_INVALID"].code # "SOUND"
  OBVIOUS
<1>11. ~(TooLong /\ Short) /\ (TooLong \/ Short)
  BY LenInNat, ProfileAssumption
<1> HIDE DEF TooLong, Short, flat, Answer
<1>3. \/ decoded = Answer("ERR_EXTENSION_TOO_LARGE")
      \/ decoded = Answer("ERR_TEMPLATE_EXT_INVALID")
      \/ decoded = Answer(flat)
  <2> HIDE DEF decoded, parsed
  <2> QED
    BY <1>1, <1>11, Zenon
<1>4. decodeJcsExtension(content) =
        IF decoded.code = "SOUND" /\ canonicalize(decoded.object) # t
        THEN [decoded EXCEPT !.code = "ERR_TEMPLATE_EXT_INVALID"] ELSE decoded
  BY DEF decodeJcsExtension, canonicalOnly
<1> HIDE DEF decoded, parsed, t
<1>5. PICK code : decoded = Answer(code)
                  /\ (code = "ERR_EXTENSION_TOO_LARGE" \/ code = "ERR_TEMPLATE_EXT_INVALID" \/ code = flat)
  BY <1>3
<1>6. [decoded EXCEPT !.code = "ERR_TEMPLATE_EXT_INVALID"].code # "SOUND"
  BY <1>2, <1>5
<1>7. ~(decoded.code = "SOUND" /\ canonicalize(decoded.object) # t) /\ decoded.code = "SOUND"
  BY <1>4, <1>6
<1>8. code = "SOUND" /\ decoded.object = parsed.value
  BY <1>2, <1>5, <1>7
<1>9. flat = "SOUND"
  BY <1>5, <1>8
<1>10. parsed.code = "SOUND"
  BY <1>9 DEF flat
<1> QED
  BY <1>7, <1>8, <1>10 DEF IsCanonical, IsSound, parsed, t

\* Both is one after the other.
Joins(one, other, both) ==
  /\ Len(both) = Len(one) + Len(other)
  /\ \A i \in 1..Len(one) + Len(other) : both[i] = IF i <= Len(one) THEN one[i] ELSE other[i - Len(one)]

LEMMA ConcatAt ==
  ASSUME NEW S, NEW one \in Seq(S), NEW other \in Seq(S)
  PROVE  one \o other \in Seq(S) /\ Joins(one, other, one \o other)
BY DEF Joins

LEMMA SwapIs ==
  ASSUME NEW t \in Seq(Token), Len(t) = 9, IsObject(t, 1)
  PROVE  /\ Swap(t) \in Seq(Token) /\ Len(Swap(t)) = 9
         /\ IsObject(Swap(t), 1) /\ IsCut(Swap(t), 5)
         /\ Pair(Swap(t), 2) = Pair(t, 6) /\ Pair(Swap(t), 6) = Pair(t, 2)
<1>1. \A i \in 1..9 : t[i] \in Token
  BY ElementOfSeq
<1> DEFINE open == SubSeq(t, 1, 1)
           second == SubSeq(t, 6, 8)
           cut == ","
           comma == <<cut>>
           first == SubSeq(t, 2, 4)
           close == <<t[9]>>
           one == open \o second
           two == one \o comma
           three == two \o first
           u == three \o close
<1>2. open \in Seq(Token) /\ Len(open) = 1 /\ open[1] = t[1]
  <2>1. \A i \in 1..1 : t[i] \in Token
    BY <1>1
  <2> QED
    BY <2>1, SubSeqProperties
<1>3. second \in Seq(Token) /\ Len(second) = 3 /\ second[1] = t[6] /\ second[3] = t[8]
  <2>1. \A i \in 6..8 : t[i] \in Token
    BY <1>1
  <2> QED
    BY <2>1, SubSeqProperties
<1>4. first \in Seq(Token) /\ Len(first) = 3 /\ first[1] = t[2] /\ first[3] = t[4]
  <2>1. \A i \in 2..4 : t[i] \in Token
    BY <1>1
  <2> QED
    BY <2>1, SubSeqProperties
<1>5. comma \in Seq(Token) /\ Len(comma) = 1 /\ comma[1] = cut
  <2>1. cut \in Token
    BY DEF Token, Punctuation
  <2> HIDE DEF cut
  <2> QED
    BY <2>1
<1>7. close \in Seq(Token) /\ Len(close) = 1
  BY <1>1
<1>8. Swap(t) = u
  BY DEF Swap
<1> HIDE DEF open, second, comma, first, close, cut
<1>9. /\ one \in Seq(Token) /\ Len(one) = 4
      /\ one[1] = t[1] /\ one[2] = t[6] /\ one[4] = t[8]
  <2>1. one \in Seq(Token) /\ Joins(open, second, one)
    BY <1>2, <1>3, ConcatAt
  <2> HIDE DEF one
  <2> QED
    BY <1>2, <1>3, <2>1 DEF Joins
<1> HIDE DEF one
<1>10. /\ two \in Seq(Token) /\ Len(two) = 5
       /\ two[1] = t[1] /\ two[2] = t[6] /\ two[4] = t[8] /\ two[5] = cut
  <2>1. two \in Seq(Token) /\ Joins(one, comma, two)
    BY <1>5, <1>9, ConcatAt
  <2> HIDE DEF two
  <2> QED
    BY <1>5, <1>9, <2>1 DEF Joins
<1> HIDE DEF two
<1>11. /\ three \in Seq(Token) /\ Len(three) = 8
       /\ three[1] = t[1] /\ three[2] = t[6] /\ three[4] = t[8] /\ three[5] = cut
       /\ three[6] = t[2] /\ three[8] = t[4]
  <2>1. three \in Seq(Token) /\ Joins(two, first, three)
    BY <1>4, <1>10, ConcatAt
  <2> HIDE DEF three
  <2> QED
    BY <1>4, <1>10, <2>1 DEF Joins
<1> HIDE DEF three
<1>12. /\ u \in Seq(Token) /\ Len(u) = 9
       /\ u[1] = t[1] /\ u[2] = t[6] /\ u[4] = t[8] /\ u[5] = cut /\ u[6] = t[2] /\ u[8] = t[4]
  <2>1. u \in Seq(Token) /\ Joins(three, close, u)
    BY <1>7, <1>11, ConcatAt
  <2> HIDE DEF u
  <2> QED
    BY <1>7, <1>11, <2>1 DEF Joins
<1> HIDE DEF u
<1>13. IsObject(u, 1) /\ IsCut(u, 5)
  BY <1>12 DEF IsObject, IsCut, cut
<1>14. Pair(u, 2) = Pair(t, 6) /\ Pair(u, 6) = Pair(t, 2)
  <2>1. 2 + 2 = 4 /\ 6 + 2 = 8
    OBVIOUS
  <2> QED
    BY <1>12, <2>1, Zenon DEF Pair
<1> QED
  BY <1>8, <1>12, <1>13, <1>14

LEMMA SwapDecoded ==
  ASSUME NEW t \in Seq(Token), Len(t) = 9, IsObject(t, 1), IsCut(t, 5),
         IsCanonical(t), IsCanonical(Swap(t))
  PROVE  Swap(t) = t
<1> DEFINE u == Swap(t)
<1>1. /\ u \in Seq(Token) /\ Len(u) = 9 /\ IsObject(u, 1) /\ IsCut(u, 5)
      /\ Pair(u, 2) = Pair(t, 6) /\ Pair(u, 6) = Pair(t, 2)
  BY SwapIs
<1>2. IsSound(parseJsonStrict(t)) /\ canonicalize(parseJsonStrict(t).value) = t
  BY DEF IsCanonical
<1>3. IsSound(parseJsonStrict(u)) /\ canonicalize(parseJsonStrict(u).value) = u
  BY DEF IsCanonical
<1> HIDE DEF u
<1>4. PICK list : /\ parseJsonStrict(t).value = Object(list)
                  /\ InRange(list) = {Pair(t, 2), Pair(t, 6)}
                  /\ Meaning[t[2]] # Meaning[t[6]]
  BY <1>2, TwoMembers
<1>5. PICK other : /\ parseJsonStrict(u).value = Object(other)
                   /\ InRange(other) = {Pair(u, 2), Pair(u, 6)}
  BY <1>1, <1>3, TwoMembers
<1>6. canonicalize(Object(list)) = writeObject(list, Write[MAX_NESTING_DEPTH])
  BY <1>2, <1>4, SoundIs, CanonicalObject
<1>7. canonicalize(Object(other)) = writeObject(other, Write[MAX_NESTING_DEPTH])
  BY <1>1, <1>3, <1>5, SoundIs, CanonicalObject
<1>8. InRange(list) = InRange(other)
  BY <1>1, <1>4, <1>5
<1>9. \A m, w \in InRange(list) : m.key = w.key => m = w
  <2>1. Pair(t, 2).key = Meaning[t[2]] /\ Pair(t, 6).key = Meaning[t[6]]
    BY DEF Pair
  <2> QED
    BY <1>4, <2>1
<1>10. writeObject(list, Write[MAX_NESTING_DEPTH]) = writeObject(other, Write[MAX_NESTING_DEPTH])
  BY <1>8, <1>9, OrderOfMembers
<1> QED
  BY <1>2, <1>3, <1>4, <1>5, <1>6, <1>7, <1>10 DEF u

\* Two texts that mean the same, with strings spelt otherwise or two members
\* exchanged, are not both their own canonical form.
LEMMA OneCanonical ==
  ASSUME NEW t \in Seq(Token), IsCanonical(t), NEW other \in Respelt(t)
  PROVE  /\ other \in Seq(Token) /\ other # <<>> /\ other[1] # MARK
         /\ IsCanonical(other) => other = t
<1>0. t # <<>> /\ t[1] # MARK /\ 1 \in 1..Len(t) /\ DOMAIN t = 1..Len(t) /\ MARK \notin Spelling
  <2>1. t # <<>> /\ t[1] # MARK
    BY MarkRefused DEF IsCanonical
  <2> QED
    BY <2>1, ReaderAssumption
<1>1. CASE /\ Len(t) = 9 /\ t[1] = "{" /\ t[5] = ","
           /\ other = Swap(t)
  <2>1. IsObject(t, 1) /\ IsCut(t, 5)
    BY <1>1 DEF IsObject, IsCut
  <2>2. other \in Seq(Token) /\ Len(other) = 9 /\ IsObject(other, 1)
    BY <1>1, <2>1, SwapIs
  <2>3. other # <<>> /\ other[1] # MARK
    <3>1. other[1] = "{" /\ MARK # "{"
      BY <2>2 DEF IsObject, MARK
    <3>2. Len(other) > 0
      BY <2>2
    <3>3. other # <<>>
      BY <2>2, <3>2, LongNotEmpty, Zenon
    <3> QED
      BY <3>1, <3>3
  <2> QED
    BY <1>1, <2>1, <2>2, <2>3, SwapDecoded
<1>2. CASE Alike(t, other)
  <2>1. other \in Seq(Token) /\ Len(other) = Len(t) /\ parseJsonStrict(other) = parseJsonStrict(t)
    BY <1>2, ReadAlike DEF Alike
  <2>2. IsCanonical(other) => other = t
    BY <2>1 DEF IsCanonical
  <2>3. other[1] = t[1] \/ other[1] \in Spelling
    BY <1>0, <1>2 DEF Alike
  <2> QED
    BY <1>0, <2>1, <2>2, <2>3
<1>3. ASSUME NEW i \in DOMAIN t, t[i] \in Spelling, NEW s \in Spelling, other = [t EXCEPT ![i] = s],
             SameStrings(t, other)
      PROVE  Alike(t, other)
  <2>1. s \in Token /\ i \in 1..Len(t) /\ DOMAIN t = 1..Len(t)
    BY DEF Token
  <2>2. other \in Seq(Token) /\ Len(other) = Len(t)
    BY <1>3, <2>1, ExceptSeq
  <2>3. \A k \in 1..Len(t) : other[k] = IF k = i THEN s ELSE t[k]
    BY <1>3, <2>1
  <2> QED
    BY <1>3, <2>1, <2>2, <2>3 DEF Alike, SameStrings
<1>4. \/ Len(t) = 9 /\ t[1] = "{" /\ t[5] = "," /\ other = Swap(t)
      \/ \E i \in DOMAIN t, s \in Spelling :
           /\ t[i] \in Spelling /\ other = [t EXCEPT ![i] = s]
           /\ SameStrings(t, other)
  <2>1. \/ other \in Spelt(t) /\ SameStrings(t, other)
        \/ Len(t) = 9 /\ t[1] = "{" /\ t[5] = "," /\ other = Swap(t)
    BY Zenon DEF Respelt
  <2>2. other \in Spelt(t) =>
          \E i \in DOMAIN t, s \in Spelling : t[i] \in Spelling /\ other = [t EXCEPT ![i] = s]
    BY DEF Spelt
  <2> QED
    BY <2>1, <2>2
<1> QED
  BY <1>1, <1>2, <1>3, <1>4

\* An extension's content has one encoding but for a byte order mark before it,
\* for contents of any length: of the texts that mean the same decodeJcsExtension
\* of src/x509.js accepts one, with the mark or without.
THEOREM OneEncodingAlways == Spec => []OneEncoding
<1>1. TextOK => OneEncoding
  <2> SUFFICES ASSUME text \in Seq(Token), decodeJcsExtension(text).code = "SOUND",
                      NEW t \in Respelt(decode(text)), NEW content \in {t, <<MARK>> \o t},
                      decodeJcsExtension(content).code = "SOUND"
               PROVE  t = decode(text)
    BY DEF OneEncoding, TextOK
  <2>1. decode(text) \in Seq(Token) /\ IsCanonical(decode(text))
    BY DecodeTyped, Decoded
  <2>2. t \in Seq(Token) /\ t # <<>> /\ t[1] # MARK /\ (IsCanonical(t) => t = decode(text))
    BY <2>1, OneCanonical
  <2>3. content \in Seq(Token) /\ decode(content) = t
    BY <2>2, DecodeTyped
  <2> QED
    BY <2>2, <2>3, Decoded
<1> QED
  BY <1>1, TextTyped, PTL


-----------------------------------------------------------------------------
(***************************************************************************)
(* What is written is of tokens.                                           *)
(***************************************************************************)

LEMMA OneOf == \A S : \A x \in S : <<x>> \in Seq(S)
OBVIOUS

LEMMA Separators == \A token \in {"{", "}", "[", "]", ":", ","} : <<token>> \in Seq(Token)
<1>1. ASSUME NEW token \in {"{", "}", "[", "]", ":", ","}
      PROVE  <<token>> \in Seq(Token)
  <2>1. token \in Token
    BY DEF Token, Punctuation
  <2> QED
    BY <2>1, OneOf, Zenon
<1> QED
  BY <1>1

LEMMA Concatenated ==
  ASSUME NEW S, NEW one \in Seq(S), NEW other \in Seq(S)
  PROVE  one \o other \in Seq(S)
BY ConcatProperties

LEMMA ListedTyped ==
  ASSUME NEW list \in Seq(Token), NEW part \in Seq(Token)
  PROVE  Listed(list, part) \in Seq(Token)
<1>1. list \o <<",">> \in Seq(Token)
  BY Separators, Concatenated
<1>2. (list \o <<",">>) \o part \in Seq(Token)
  BY <1>1, Concatenated
<1> QED
  BY <1>2 DEF Listed

LEMMA SpeltTyped ==
  ASSUME NEW name \in Names
  PROVE  SpellingOf(name) \in Spelling /\ <<SpellingOf(name)>> \in Seq(Token)
<1>1. name \in Spelling
  BY SpellingAssumption DEF Names
<1>2. SpellingOf(name) \in Spelling
  BY <1>1 DEF SpellingOf
<1>3. SpellingOf(name) \in Token
  BY <1>2 DEF Token
<1> QED
  BY <1>2, <1>3

\* What writeArray has after the n-th item.
ItemsUpTo(list, written, n, upTo) ==
  upTo = [k \in 0..n |-> IF k = 0 THEN <<>> ELSE Listed(upTo[k - 1], written[list[k]])]

LEMMA ItemsDefined ==
  ASSUME NEW list, NEW written, NEW n \in Nat
  PROVE  \E upTo : ItemsUpTo(list, written, n, upTo)
<1> DEFINE Level(k, inner) == IF k = 0 THEN <<>> ELSE Listed(inner, written[list[k]])
           defined == {m \in Nat : \E upTo : ItemsUpTo(list, written, m, upTo)}
<1>1. 0 \in defined
  <2>1. ItemsUpTo(list, written, 0, [k \in 0..0 |-> Level(0, [x \in {} |-> x])])
    BY DEF ItemsUpTo
  <2> QED
    BY <2>1
<1>2. ASSUME NEW m \in 0..n, m \in defined
      PROVE  m + 1 \in defined
  <2>1. PICK before : ItemsUpTo(list, written, m, before)
    BY <1>2
  <2>2. before = [k \in 0..m |-> Level(k, before[k - 1])]
    BY <2>1 DEF ItemsUpTo
  <2> DEFINE upTo == [k \in 0..m + 1 |-> IF k <= m THEN before[k] ELSE Level(k, before[m])]
  <2> HIDE DEF Level
  <2>3. \A k \in 0..m + 1 : upTo[k] = Level(k, upTo[k - 1])
    <3>1. ASSUME NEW k \in 0..m + 1, k <= m, k # 0
          PROVE  upTo[k] = Level(k, upTo[k - 1])
      <4>1. k \in 0..m /\ k - 1 \in 0..m + 1 /\ k - 1 <= m
        BY <3>1
      <4>2. upTo[k] = before[k] /\ upTo[k - 1] = before[k - 1]
        BY <4>1
      <4> HIDE DEF upTo
      <4> QED
        BY <4>1, <4>2, <2>2
    <3>2. upTo[0] = before[0] /\ upTo[m + 1] = Level(m + 1, before[m])
          /\ upTo[(m + 1) - 1] = before[m] /\ 0 \in 0..m
      OBVIOUS
    <3>3. before[0] = Level(0, upTo[0 - 1])
      BY <2>2, <3>2 DEF Level
    <3> HIDE DEF upTo
    <3>4. \A k \in 0..m + 1 : k <= m \/ k = m + 1
      OBVIOUS
    <3> QED
      BY <3>1, <3>2, <3>3, <3>4
  <2>4. upTo = [k \in 0..m + 1 |-> Level(k, upTo[k - 1])]
    BY <2>3
  <2>5. ItemsUpTo(list, written, m + 1, upTo)
    <3> HIDE DEF upTo
    <3> QED
      BY <2>4 DEF ItemsUpTo, Level
  <2> QED
    BY <2>5
<1> HIDE DEF defined
<1>3. n \in defined
  BY <1>1, <1>2, Counting
<1> QED
  BY <1>3 DEF defined

LEMMA ArrayTyped ==
  ASSUME NEW values, NEW list \in Seq(values), NEW written,
         \A v \in values : written[v] \in Seq(Token)
  PROVE  writeArray(list, written) \in Seq(Token)
<1> DEFINE n == Len(list)
           upTo == CHOOSE f : ItemsUpTo(list, written, n, f)
           typed == {k \in Nat : upTo[k] \in Seq(Token)}
<1>1. n \in Nat
  BY LenProperties
<1>2. writeArray(list, written) = <<"[">> \o upTo[n] \o <<"]">>
  BY DEF writeArray, ItemsUpTo
<1>3. ItemsUpTo(list, written, n, upTo)
  BY <1>1, ItemsDefined
<1>4. \A k \in 1..n : list[k] \in values
  BY ElementOfSeq
<1> HIDE DEF n, upTo
<1>5. upTo = [k \in 0..n |-> IF k = 0 THEN <<>> ELSE Listed(upTo[k - 1], written[list[k]])]
  BY <1>3 DEF ItemsUpTo
<1>6. 0 \in typed
  BY <1>1, <1>5
<1>7. ASSUME NEW k \in 0..n, k \in typed, k < n
      PROVE  k + 1 \in typed
  <2>1. k + 1 \in 0..n /\ k + 1 \in 1..n /\ k + 1 # 0 /\ (k + 1) - 1 = k /\ k + 1 \in Nat
    BY <1>1, <1>7
  <2>2. upTo[k + 1] = Listed(upTo[k], written[list[k + 1]])
    BY <1>5, <2>1
  <2>3. written[list[k + 1]] \in Seq(Token)
    BY <1>4, <2>1
  <2> QED
    BY <1>7, <2>1, <2>2, <2>3, ListedTyped
<1>8. n \in 0..n
  BY <1>1
<1>9. n \in typed
  <2> HIDE DEF typed
  <2> QED
    BY <1>1, <1>6, <1>7, <1>8, Counting
<1>10. <<"[">> \o upTo[n] \in Seq(Token)
  BY <1>9, Separators, Concatenated
<1>11. (<<"[">> \o upTo[n]) \o <<"]">> \in Seq(Token)
  BY <1>10, Separators, Concatenated
<1> QED
  BY <1>2, <1>11


\* What writeObject writes of a member.
Line(object, written, name) == <<SpellingOf(name), ":">> \o written[ValueFor(object, name)]

LEMMA LineTyped ==
  ASSUME NEW values, NEW list \in Seq(Member(values)), NEW written,
         \A v \in values : written[v] \in Seq(Token),
         NEW name \in Names, name \in KeysOf(list)
  PROVE  Line(list, written, name) \in Seq(Token)
<1> DEFINE i == CHOOSE k \in DOMAIN list : list[k].key = name
           key == SpellingOf(name)
<1>1. i \in DOMAIN list
  BY DEF KeysOf
<1> HIDE DEF i
<1>2. list[i] \in Member(values)
  BY <1>1, ElementOfSeq, LenProperties
<1>3. list[i].value \in values
  BY <1>2 DEF Member
<1>4. written[ValueFor(list, name)] \in Seq(Token)
  BY <1>3 DEF ValueFor, i
<1>5. key \in Token /\ ":" \in Token
  BY SpeltTyped DEF Token, Punctuation
<1> HIDE DEF key
<1>6. \A colon \in Token : <<key, colon>> \in Seq(Token)
  BY <1>5
<1>7. <<key, ":">> \in Seq(Token)
  BY <1>5, <1>6
<1> QED
  BY <1>4, <1>7, Concatenated DEF Line, key

LEMMA RowTyped ==
  ASSUME NEW values, NEW list \in Seq(Member(values)), NEW written,
         \A v \in values : written[v] \in Seq(Token),
         NEW n \in 1..Len(KeyOrder), NEW before \in Seq(Token)
  PROVE  Row(list, written, n, before) \in Seq(Token)
<1> DEFINE name == KeyOrder[n]
<1>1. name \in Names
  <2>1. KeyOrder \in Seq(Names)
    BY ProfileAssumption DEF Names
  <2> QED
    BY <2>1, ElementOfSeq
<1>2. CASE name \in KeysOf(list)
  <2>1. Row(list, written, n, before) = Listed(before, Line(list, written, name))
    BY <1>2 DEF Row, Line
  <2> QED
    BY <1>1, <1>2, <2>1, LineTyped, ListedTyped
<1>3. CASE name \notin KeysOf(list)
  BY <1>3 DEF Row
<1> QED
  BY <1>2, <1>3

LEMMA ObjectTyped ==
  ASSUME NEW values, NEW list \in Seq(Member(values)), NEW written,
         \A v \in values : written[v] \in Seq(Token)
  PROVE  writeObject(list, written) \in Seq(Token)
<1> DEFINE n == Len(KeyOrder)
           upTo == Rows(list, written)
           typed == {k \in Nat : upTo[k] \in Seq(Token)}
<1>1. n \in Nat
  BY ProfileAssumption
<1>0. writeObject(list, written) = <<"{">> \o upTo[n] \o <<"}">>
  BY RowsAre
<1>2. /\ upTo[0] = <<>>
      /\ \A k \in 0..n : k < n => upTo[k + 1] = Row(list, written, k + 1, upTo[k])
  BY RowsAre
<1>3. \A k \in 1..n : \A before \in Seq(Token) : Row(list, written, k, before) \in Seq(Token)
  BY RowTyped
<1> HIDE DEF n, upTo
<1>4. 0 \in typed
  <2>1. <<>> \in Seq(Token) /\ 0 \in Nat
    OBVIOUS
  <2>2. upTo[0] \in Seq(Token)
    BY <1>2, <2>1, Zenon
  <2> QED
    BY <2>1, <2>2
<1>5. ASSUME NEW k \in 0..n, k \in typed, k < n
      PROVE  k + 1 \in typed
  <2>1. k + 1 \in 1..n /\ k + 1 \in Nat
    BY <1>1, <1>5
  <2>2. upTo[k + 1] = Row(list, written, k + 1, upTo[k])
    BY <1>2, <1>5
  <2> QED
    BY <1>3, <1>5, <2>1, <2>2
<1>6. n \in 0..n
  BY <1>1
<1>7. n \in typed
  <2> HIDE DEF typed
  <2> QED
    BY <1>1, <1>4, <1>5, <1>6, Counting
<1>8. <<"{">> \o upTo[n] \in Seq(Token)
  BY <1>7, Separators, Concatenated
<1>9. (<<"{">> \o upTo[n]) \o <<"}">> \in Seq(Token)
  BY <1>8, Separators, Concatenated
<1> QED
  BY <1>0, <1>9

LEMMA WriteTyped ==
  ASSUME NEW values, NEW v \in ValuesFrom(values), NEW below,
         \A w \in values : below[w] \in Seq(Token)
  PROVE  write(v, below) \in Seq(Token)
<1>1. CASE v \in [type: {"string"}, text: Names]
  <2>1. v.type = "string" /\ v.text \in Names
    BY <1>1
  <2>2. write(v, below) = <<SpellingOf(v.text)>>
    BY <2>1 DEF write, Scalar
  <2> QED
    BY <2>1, <2>2, SpeltTyped
<1>2. CASE v \in [type: Scalar]
  <2>1. v.type \in Scalar
    BY <1>2
  <2>2. v.type \in Token
    BY <2>1 DEF Token
  <2>3. write(v, below) = <<v.type>>
    BY <2>1, Zenon DEF write, Scalar
  <2> QED
    BY <2>2, <2>3, OneOf, Zenon
<1>3. CASE v \in [type: {"array"}, items: Seq(values)]
  <2>1. v.type = "array" /\ v.items \in Seq(values)
    BY <1>3
  <2>2. write(v, below) = writeArray(v.items, below)
    BY <2>1 DEF write, Scalar
  <2> QED
    BY <2>1, <2>2, ArrayTyped
<1>4. CASE v \in [type: {"object"}, members: Seq(Member(values))]
  <2>1. v.type = "object" /\ v.members \in Seq(Member(values))
    BY <1>4
  <2>2. write(v, below) = writeObject(v.members, below)
    BY <2>1 DEF write, Scalar
  <2> QED
    BY <2>1, <2>2, ObjectTyped
<1> QED
  BY <1>1, <1>2, <1>3, <1>4 DEF ValuesFrom

\* What is written is a text, at whatever depth the value nests.
LEMMA WritesTyped ==
  \A room \in 0..MAX_NESTING_DEPTH + 1 : \A v \in Value[room] : Write[room][v] \in Seq(Token)
<1> DEFINE n == MAX_NESTING_DEPTH + 1
           typed == {k \in Nat : \A w \in Value[k] : Write[k][w] \in Seq(Token)}
<1>1. MAX_NESTING_DEPTH \in Nat /\ n \in Nat
  BY ReaderAssumption
<1>2. 0 \in typed
  BY ValuesAre
<1>3. ASSUME NEW k \in 0..n, k \in typed, k < n
      PROVE  k + 1 \in typed
  <2>1. k \in 0..MAX_NESTING_DEPTH /\ k + 1 \in Nat
    BY <1>1, <1>3
  <2>2. Value[k + 1] = ValuesFrom(Value[k]) /\ Write[k + 1] = WriteFrom(Value[k + 1], Write[k])
    BY <2>1, ValuesAre, WritesAre
  <2>3. ASSUME NEW w \in Value[k + 1]
        PROVE  Write[k + 1][w] \in Seq(Token)
    <3>1. Write[k + 1][w] = write(w, Write[k])
      BY <2>2 DEF WriteFrom
    <3>2. \A x \in Value[k] : Write[k][x] \in Seq(Token)
      BY <1>3
    <3> QED
      BY <2>2, <3>1, <3>2, WriteTyped
  <2> QED
    BY <2>1, <2>3
<1>4. \A k \in 0..n : k \in typed
  <2> HIDE DEF typed
  <2> QED
    BY <1>1, <1>2, <1>3, Counting
<1> QED
  BY <1>4

LEMMA CanonicalTyped ==
  ASSUME NEW v \in Value[MAX_NESTING_DEPTH + 1]
  PROVE  canonicalize(v) \in Seq(Token)
<1>1. MAX_NESTING_DEPTH + 1 \in 0..MAX_NESTING_DEPTH + 1
  BY ReaderAssumption
<1> QED
  BY <1>1, WritesTyped, WritesAre

-----------------------------------------------------------------------------
(***************************************************************************)
(* The certificates that issueCertificate makes, and those changed since.  *)
(***************************************************************************)

LEMMA Rooms ==
  /\ MAX_NESTING_DEPTH \in 0..MAX_NESTING_DEPTH /\ MAX_NESTING_DEPTH - 1 \in 0..MAX_NESTING_DEPTH
  /\ MAX_NESTING_DEPTH - 2 \in 0..MAX_NESTING_DEPTH
  /\ (MAX_NESTING_DEPTH - 1) + 1 = MAX_NESTING_DEPTH
  /\ (MAX_NESTING_DEPTH - 2) + 1 = MAX_NESTING_DEPTH - 1
BY ReaderAssumption, InputsAssumption

LEMMA StringTyped ==
  ASSUME NEW string \in Names
  PROVE  String(string) \in Value[MAX_NESTING_DEPTH] /\ String(string) \in Value[MAX_NESTING_DEPTH - 1]
<1>1. \A values : String(string) \in ValuesFrom(values)
  BY DEF String, ValuesFrom
<1>2. Value[MAX_NESTING_DEPTH] = ValuesFrom(Value[MAX_NESTING_DEPTH - 1])
  BY Rooms, ValuesAre
<1>3. Value[MAX_NESTING_DEPTH - 1] = ValuesFrom(Value[MAX_NESTING_DEPTH - 2])
  BY Rooms, ValuesAre
<1> QED
  BY <1>1, <1>2, <1>3

LEMMA OversizedTyped ==
  /\ Oversized.items \in Seq(Value[MAX_NESTING_DEPTH - 1])
  /\ Oversized \in Value[MAX_NESTING_DEPTH]
<1> DEFINE values == Value[MAX_NESTING_DEPTH - 1]
           n == MAX_TEMPLATE_EXTENSION_BYTES
           id == String("id")
           list == [i \in 1..n |-> id]
<1>1. Value[MAX_NESTING_DEPTH] = ValuesFrom(values)
  BY Rooms, ValuesAre
<1>2. id \in values
  BY StringTyped, TemplateAssumption DEF Names
<1>3. n \in Nat
  BY ProfileAssumption
<1>4. Oversized = Array(list)
  BY DEF Oversized
<1> HIDE DEF values, n, id
<1>5. list \in [1..n -> values]
  BY <1>2
<1>6. list \in Seq(values)
  BY <1>3, <1>5, SeqDef
<1> HIDE DEF list
<1>7. Array(list).items = list /\ Array(list) \in ValuesFrom(values)
  BY <1>6 DEF Array, ValuesFrom
<1> QED
  BY <1>1, <1>4, <1>6, <1>7 DEF values

LEMMA MemberTyped ==
  ASSUME NEW name \in Names, NEW v \in Value[MAX_NESTING_DEPTH]
  PROVE  [key |-> name, value |-> v] \in Member(Value[MAX_NESTING_DEPTH])
BY DEF Member

LEMMA ObjectIsValue ==
  ASSUME NEW list \in Seq(Member(Value[MAX_NESTING_DEPTH]))
  PROVE  Object(list) \in Value[MAX_NESTING_DEPTH + 1]
<1>1. Value[MAX_NESTING_DEPTH + 1] = ValuesFrom(Value[MAX_NESTING_DEPTH])
  BY Rooms, ValuesAre
<1> QED
  BY <1>1 DEF Object, ValuesFrom

LEMMA TemplateTyped ==
  ASSUME NEW name \in Names, NEW string \in Names
  PROVE  /\ Template(name, string).members \in Seq(Member(Value[MAX_NESTING_DEPTH]))
         /\ Template(name, string) \in Value[MAX_NESTING_DEPTH + 1]
<1>1. [key |-> name, value |-> String(string)] \in Member(Value[MAX_NESTING_DEPTH])
  BY StringTyped, MemberTyped
<1> DEFINE list == <<[key |-> name, value |-> String(string)]>>
<1>2. list \in Seq(Member(Value[MAX_NESTING_DEPTH]))
  BY <1>1, OneOf
<1>3. Template(name, string) = Object(list)
  BY DEF Template
<1> HIDE DEF list
<1>4. Object(list).members = list
  BY DEF Object
<1> QED
  BY <1>2, <1>3, <1>4, ObjectIsValue

\* The template of the override that makes the extension too large.
LongTemplate ==
  Object(Append(spawn.template.members, [key |-> "agent", value |-> Oversized]))

LEMMA Templates ==
  /\ "id" \in Names /\ "agent" \in Names
  /\ spawn.template \in Value[MAX_NESTING_DEPTH + 1]
  /\ LongTemplate \in Value[MAX_NESTING_DEPTH + 1]
<1>1. "id" \in Names /\ "agent" \in Names
  BY TemplateAssumption DEF Names
<1>2. spawn.template = Template("id", "agent")
  BY DEF spawn
<1> DEFINE list == spawn.template.members
           extra == [key |-> "agent", value |-> Oversized]
<1>3. list \in Seq(Member(Value[MAX_NESTING_DEPTH])) /\ spawn.template \in Value[MAX_NESTING_DEPTH + 1]
  BY <1>1, <1>2, TemplateTyped
<1>4. extra \in Member(Value[MAX_NESTING_DEPTH])
  BY <1>1, OversizedTyped, MemberTyped
<1>5. LongTemplate = Object(Append(list, extra))
  BY DEF LongTemplate
<1> HIDE DEF list, extra
<1>6. Append(list, extra) \in Seq(Member(Value[MAX_NESTING_DEPTH]))
  BY <1>3, <1>4
<1> QED
  BY <1>1, <1>3, <1>5, <1>6, ObjectIsValue

\* Options whose certificate is one of the profile's, sound or not.
Sensible(o) ==
  /\ o.commonName \in Name /\ o.issuer.commonName \in Name /\ o.issuer.privateKey \in {"anchor", "rogue"}
  /\ o.isCa \in BOOLEAN /\ o.revocationSource \in BOOLEAN /\ o.criticalExtensions \in BOOLEAN
  /\ o.notBefore \in Int /\ o.notAfter \in Int
  /\ o.keyUsageBits # None => o.keyUsageBits \in SUBSET KEY_USAGE
  /\ o.template \in Value[MAX_NESTING_DEPTH + 1]
  /\ o.serialOctets # None =>
       o.serialOctets \in Seq(Octet) /\ Len(o.serialOctets) <= MAX_SERIAL_OCTETS

LEMMA SpawnSensible == Sensible(spawn)
<1>1. spawn.template \in Value[MAX_NESTING_DEPTH + 1]
  BY Templates
<1>2. spawn.notBefore \in Int /\ spawn.notAfter \in Int
  <2>1. now \in Int /\ now + ttl_seconds \in Int
    BY InputsAssumption, ProfileAssumption
  <2> QED
    BY <2>1 DEF spawn
<1>3. /\ spawn.commonName \in Name /\ spawn.issuer.commonName \in Name
      /\ spawn.issuer.privateKey \in {"anchor", "rogue"}
      /\ spawn.isCa \in BOOLEAN /\ spawn.revocationSource \in BOOLEAN /\ spawn.criticalExtensions \in BOOLEAN
      /\ spawn.keyUsageBits = None /\ spawn.serialOctets = None
  BY DEF spawn, Name, Uuid, Anchor
<1> QED
  BY <1>1, <1>2, <1>3 DEF Sensible


LEMMA RawSensible ==
  ASSUME NEW o \in issueRaw \cup {spawn}
  PROVE  Sensible(o)
<1>1. /\ "issuer" \in DOMAIN spawn /\ "notBefore" \in DOMAIN spawn /\ "notAfter" \in DOMAIN spawn
      /\ "keyUsageBits" \in DOMAIN spawn /\ "revocationSource" \in DOMAIN spawn
      /\ "criticalExtensions" \in DOMAIN spawn /\ "serialBytes" \in DOMAIN spawn
      /\ "serialOctets" \in DOMAIN spawn /\ "template" \in DOMAIN spawn
  BY DEF spawn
<1>2. ASSUME NEW issuer, issuer.commonName \in Name, issuer.privateKey \in {"anchor", "rogue"}
      PROVE  Sensible([spawn EXCEPT !.issuer = issuer])
  BY <1>1, <1>2, SpawnSensible DEF Sensible
<1>3. ASSUME NEW from \in Int, NEW to \in Int
      PROVE  /\ Sensible([spawn EXCEPT !.notBefore = from, !.notAfter = to])
             /\ Sensible([spawn EXCEPT !.notAfter = to])
  BY <1>1, SpawnSensible DEF Sensible
<1>4. ASSUME NEW usage \in SUBSET KEY_USAGE
      PROVE  Sensible([spawn EXCEPT !.keyUsageBits = usage])
  BY <1>1, SpawnSensible DEF Sensible
<1>5. ASSUME NEW truth \in BOOLEAN
      PROVE  /\ Sensible([spawn EXCEPT !.revocationSource = truth])
             /\ Sensible([spawn EXCEPT !.criticalExtensions = truth])
  BY <1>1, SpawnSensible DEF Sensible
<1>6. \A bytes : Sensible([spawn EXCEPT !.serialBytes = bytes])
  BY <1>1, SpawnSensible DEF Sensible
<1>7. ASSUME NEW octets \in Seq(Octet), Len(octets) <= MAX_SERIAL_OCTETS
      PROVE  Sensible([spawn EXCEPT !.serialOctets = octets])
  BY <1>1, <1>7, SpawnSensible DEF Sensible
<1>8. Sensible([spawn EXCEPT !.template = LongTemplate])
  BY <1>1, Templates, SpawnSensible DEF Sensible
<1>9. LET another == [commonName |-> "another", privateKey |-> "rogue"] IN
        another.commonName \in Name /\ another.privateKey \in {"anchor", "rogue"}
  BY DEF Name, Uuid
<1>10. 0 \in Int /\ ttl_seconds \in Int /\ now + ttl_seconds + 1 \in Int
  BY InputsAssumption, ProfileAssumption
<1>11. {"digitalSignature", "keyCertSign"} \in SUBSET KEY_USAGE
  BY DEF KEY_USAGE
<1>12. LET zeros == [i \in 1..MAX_SERIAL_OCTETS |-> 0] IN
         zeros \in Seq(Octet) /\ Len(zeros) <= MAX_SERIAL_OCTETS
  <2> DEFINE zeros == [i \in 1..MAX_SERIAL_OCTETS |-> 0]
  <2>1. zeros \in [1..MAX_SERIAL_OCTETS -> Octet]
    BY InputsAssumption
  <2>2. zeros \in Seq(Octet)
    BY <2>1, Bounds, SeqDef
  <2>3. Len(zeros) = MAX_SERIAL_OCTETS
    BY Bounds
  <2> QED
    BY <2>2, <2>3, Bounds
<1>13. FALSE \in BOOLEAN
  OBVIOUS
<1>14. [spawn EXCEPT !.template =
          Object(Append(@.members, [key |-> "agent", value |-> Oversized]))]
         = [spawn EXCEPT !.template = LongTemplate]
  BY DEF LongTemplate
<1> HIDE DEF LongTemplate
<1>15. \/ o = spawn
       \/ o = [spawn EXCEPT !.issuer = [commonName |-> "another", privateKey |-> "rogue"]]
       \/ o = [spawn EXCEPT !.notBefore = 0, !.notAfter = ttl_seconds]
       \/ o = [spawn EXCEPT !.keyUsageBits = {"digitalSignature", "keyCertSign"}]
       \/ o = [spawn EXCEPT !.notAfter = now + ttl_seconds + 1]
       \/ o = [spawn EXCEPT !.revocationSource = FALSE]
       \/ o = [spawn EXCEPT !.criticalExtensions = FALSE]
       \/ \E bytes : o = [spawn EXCEPT !.serialBytes = bytes]
       \/ o = [spawn EXCEPT !.serialOctets = [i \in 1..MAX_SERIAL_OCTETS |-> 0]]
       \/ o = [spawn EXCEPT !.template = LongTemplate]
  BY <1>14, Zenon DEF issueRaw
<1>16. CASE o = spawn \/ \E bytes : o = [spawn EXCEPT !.serialBytes = bytes]
  BY <1>6, <1>16, SpawnSensible
<1>17. CASE o = [spawn EXCEPT !.issuer = [commonName |-> "another", privateKey |-> "rogue"]]
  BY <1>2, <1>9, <1>17
<1>18. CASE o = [spawn EXCEPT !.notBefore = 0, !.notAfter = ttl_seconds]
  BY <1>3, <1>10, <1>18
<1>19. CASE o = [spawn EXCEPT !.keyUsageBits = {"digitalSignature", "keyCertSign"}]
  BY <1>4, <1>11, <1>19
<1>20. CASE o = [spawn EXCEPT !.notAfter = now + ttl_seconds + 1]
  BY <1>3, <1>10, <1>20
<1>21. CASE o = [spawn EXCEPT !.revocationSource = FALSE] \/ o = [spawn EXCEPT !.criticalExtensions = FALSE]
  BY <1>5, <1>13, <1>21
<1>22. CASE o = [spawn EXCEPT !.serialOctets = [i \in 1..MAX_SERIAL_OCTETS |-> 0]]
  BY <1>7, <1>12, <1>22
<1>23. CASE o = [spawn EXCEPT !.template = LongTemplate]
  BY <1>8, <1>23
<1> QED
  BY <1>15, <1>16, <1>17, <1>18, <1>19, <1>20, <1>21, <1>22, <1>23

\* The serial is of octets as those drawn are, the sign octet among them.
LEMMA SerialTyped ==
  ASSUME NEW o \in issueRaw \cup {spawn}, NEW drawn \in Draw(o.serialBytes)
  PROVE  serialNumber(drawn) \in Seq(Octet) /\ Len(serialNumber(drawn)) <= MAX_SERIAL_OCTETS
<1>1. drawn \in Seq(Byte) /\ Len(drawn) \in 1..SERIAL_RANDOM_OCTETS
  BY DrawnIs
<1>2. Len(drawn) >= 1 /\ Len(drawn) + 1 <= MAX_SERIAL_OCTETS /\ Len(drawn) \in Nat
  BY <1>1, Bounds
<1>3. Len(serialNumber(drawn)) \in 1..Len(drawn) + 1
  BY <1>1, <1>2, SerialIs
<1>4. Len(serialNumber(drawn)) <= MAX_SERIAL_OCTETS
  <2> DEFINE length == Len(serialNumber(drawn))
  <2> HIDE DEF length
  <2>1. length \in 1..Len(drawn) + 1
    BY <1>3 DEF length
  <2>2. length <= MAX_SERIAL_OCTETS
    BY <1>2, <2>1, Bounds
  <2> QED
    BY <2>2 DEF length
<1> DEFINE rest == significant(drawn)
<1>5. rest \in Seq(Octet)
  <2> DEFINE range == {drawn[k] : k \in 1..Len(drawn)}
  <2>1. rest \in Seq(Byte)
         /\ \E zeros \in Nat : /\ Len(drawn) = zeros + Len(rest) /\ Len(rest) >= 1
                               /\ \A k \in 1..Len(rest) : drawn[zeros + k] = rest[k]
    BY <1>1, <1>2, SignificantIs
  <2> HIDE DEF rest
  <2>2. PICK zeros \in Nat : /\ Len(drawn) = zeros + Len(rest) /\ Len(rest) >= 1
                             /\ \A k \in 1..Len(rest) : drawn[zeros + k] = rest[k]
    BY <2>1
  <2>3. \A k \in 1..Len(drawn) : drawn[k] \in Octet
    <3>1. DOMAIN drawn = 1..Len(drawn)
      BY <1>1, LenProperties
    <3> QED
      BY <3>1 DEF Draw
  <2>4. Len(rest) \in Nat /\ DOMAIN rest = 1..Len(rest) /\ rest = [k \in 1..Len(rest) |-> rest[k]]
    BY <2>1, LenProperties
  <2>5. \A k \in 1..Len(rest) : zeros + k \in 1..Len(drawn)
    BY <1>2, <2>2, <2>4
  <2>6. rest \in [1..Len(rest) -> Octet]
    BY <2>2, <2>3, <2>4, <2>5
  <2> QED
    BY <2>4, <2>6, SeqDef
<1>6. serialNumber(drawn) = rest \/ serialNumber(drawn) = <<0>> \o rest
  BY DEF serialNumber
<1> HIDE DEF rest
<1>7. <<0>> \in Seq(Octet)
  BY InputsAssumption, OneOf
<1>8. <<0>> \o rest \in Seq(Octet)
  BY <1>5, <1>7, Concatenated
<1> QED
  BY <1>4, <1>5, <1>6, <1>8


LEMMA ExtensionTyped ==
  ASSUME NEW template \in Value[MAX_NESTING_DEPTH + 1], NEW critical \in BOOLEAN
  PROVE  <<jcsExtension(template, critical)>> \in Seq(Extension)
<1>1. canonicalize(template) \in Seq(Token)
  BY CanonicalTyped
<1>2. jcsExtension(template, critical) \in Extension
  BY <1>1 DEF jcsExtension, Extension
<1> QED
  BY <1>2, OneOf, Zenon

LEMMA IssueTyped ==
  ASSUME NEW o \in issueRaw \cup {spawn}, NEW drawn \in Draw(o.serialBytes)
  PROVE  /\ issueCertificate(o, drawn) \in Certificate
         /\ Len(issueCertificate(o, drawn).serial) <= MAX_SERIAL_OCTETS
<1>1. Sensible(o)
  BY RawSensible
<1> DEFINE usage == CASE o.keyUsageBits # None -> o.keyUsageBits
                      [] o.keyUsageBits = None /\ o.isCa -> {"keyCertSign", "cRLSign"}
                      [] OTHER -> {"digitalSignature"}
           serial == IF o.serialOctets # None THEN o.serialOctets ELSE serialNumber(drawn)
           role == IF o.isCa THEN "CA" ELSE "agent"
           templates == <<jcsExtension(o.template, o.criticalExtensions)>>
<1>2. usage \in SUBSET KEY_USAGE
  <2>1. {"keyCertSign", "cRLSign"} \in SUBSET KEY_USAGE /\ {"digitalSignature"} \in SUBSET KEY_USAGE
    BY DEF KEY_USAGE
  <2>2. CASE o.keyUsageBits # None
    BY <1>1, <2>2, Zenon DEF Sensible
  <2>3. CASE o.keyUsageBits = None /\ o.isCa
    BY <2>1, <2>3, Zenon
  <2>4. CASE o.keyUsageBits = None /\ ~o.isCa
    BY <2>1, <2>4, Zenon
  <2> QED
    BY <2>2, <2>3, <2>4
<1>3. serial \in Seq(Octet) /\ Len(serial) <= MAX_SERIAL_OCTETS
  BY <1>1, SerialTyped DEF Sensible
<1>4. role \in {"absent", "agent", "CA"}
  OBVIOUS
<1>5. templates \in Seq(Extension)
  BY <1>1, ExtensionTyped DEF Sensible
<1>6. /\ o.commonName \in Name /\ o.issuer.commonName \in Name /\ o.issuer.privateKey \in {"anchor", "rogue"}
      /\ o.isCa \in BOOLEAN /\ o.revocationSource \in BOOLEAN
      /\ o.notBefore \in Int /\ o.notAfter \in Int
  BY <1>1 DEF Sensible
<1>7. issueCertificate(o, drawn) =
        [unknownCritical |-> FALSE, cn |-> o.commonName, issuer |-> o.issuer.commonName,
         strongSignature |-> TRUE, role |-> role, usage |-> usage, serial |-> serial,
         signer |-> o.issuer.privateKey, genuine |-> TRUE, permitted |-> TRUE,
         notBefore |-> o.notBefore, notAfter |-> o.notAfter,
         strongKey |-> TRUE, revocationSource |-> o.revocationSource /\ ~o.isCa, templates |-> templates]
  BY Zenon DEF issueCertificate
<1> HIDE DEF usage, serial, role, templates
<1> DEFINE source == o.revocationSource /\ ~o.isCa
<1> HIDE DEF source
<1>8. source \in BOOLEAN
  BY DEF source
<1>9. [unknownCritical |-> FALSE, cn |-> o.commonName, issuer |-> o.issuer.commonName,
         strongSignature |-> TRUE, role |-> role, usage |-> usage, serial |-> serial,
         signer |-> o.issuer.privateKey, genuine |-> TRUE, permitted |-> TRUE,
         notBefore |-> o.notBefore, notAfter |-> o.notAfter,
         strongKey |-> TRUE, revocationSource |-> source, templates |-> templates] \in Certificate
  BY <1>2, <1>3, <1>4, <1>5, <1>6, <1>8 DEF Certificate
<1>10. issueCertificate(o, drawn) \in Certificate
  BY <1>7, <1>9 DEF source
<1>11. issueCertificate(o, drawn).serial = serial
  BY <1>7
<1> QED
  BY <1>3, <1>10, <1>11

LEMMA ChangedTyped ==
  ASSUME NEW c \in Certificate, Len(c.serial) <= MAX_SERIAL_OCTETS, NEW changed \in Changed(c)
  PROVE  changed \in Certificate /\ Len(changed.serial) <= MAX_SERIAL_OCTETS
<1> DEFINE Fits(d) == d \in Certificate /\ Len(d.serial) <= MAX_SERIAL_OCTETS
<1>1. /\ Fits([c EXCEPT !.unknownCritical = TRUE]) /\ Fits([c EXCEPT !.strongSignature = FALSE])
      /\ Fits([c EXCEPT !.permitted = FALSE]) /\ Fits([c EXCEPT !.strongKey = FALSE])
  BY DEF Certificate
<1>2. \A cn \in Name \cup {None} : Fits([c EXCEPT !.cn = cn])
  BY DEF Certificate
<1>3. \A issuer \in Name : Fits([c EXCEPT !.issuer = issuer])
  BY DEF Certificate
<1>4. \A role \in {"absent", "agent", "CA"} : Fits([c EXCEPT !.role = role])
  BY DEF Certificate
<1>5. \A usage \in SUBSET KEY_USAGE : Fits([c EXCEPT !.usage = usage])
  BY DEF Certificate
<1>6. \A serial \in Seq(Octet) : Len(serial) <= MAX_SERIAL_OCTETS => Fits([c EXCEPT !.serial = serial])
  BY DEF Certificate
<1>7. \A from \in Int : Fits([c EXCEPT !.notBefore = from])
  BY DEF Certificate
<1>8. \A templates \in Seq(Extension) : Fits([c EXCEPT !.templates = templates])
  BY DEF Certificate
<1>9. None \in Name \cup {None} /\ Anchor \in Name /\ "another" \in Name /\ "agent" \in Name
  BY DEF Name, Uuid
<1>10. {"keyCertSign"} \in SUBSET KEY_USAGE /\ {} \in SUBSET KEY_USAGE
  BY DEF KEY_USAGE
<1>11. <<>> \in Seq(Octet) /\ <<128>> \in Seq(Octet) /\ Len(<<>>) <= MAX_SERIAL_OCTETS
       /\ Len(<<128>>) <= MAX_SERIAL_OCTETS
  <2>1. <<128>> \in Seq(Octet)
    BY InputsAssumption, OneOf
  <2>2. Len(<<>>) = 0 /\ Len(<<128>>) = 1 /\ <<>> \in Seq(Octet)
    OBVIOUS
  <2> QED
    BY <2>1, <2>2, Bounds
<1>12. now + 1 \in Int
  BY InputsAssumption
<1>13. <<>> \in Seq(Extension) /\ c.templates \o c.templates \in Seq(Extension)
  <2>1. c.templates \in Seq(Extension)
    BY DEF Certificate
  <2> QED
    BY <2>1, Concatenated
<1>14. /\ <<jcsExtension(Template("id", "id"), TRUE)>> \in Seq(Extension)
       /\ <<jcsExtension(Template("agent", "agent"), TRUE)>> \in Seq(Extension)
  BY Templates, TemplateTyped, ExtensionTyped
<1>16. <<[critical |-> TRUE, content |-> <<MARK>> \o canonicalize(Template("id", "agent"))]>> \in Seq(Extension)
  <2> DEFINE marked == <<MARK>> \o canonicalize(Template("id", "agent"))
  <2>1. marked \in Seq(Token)
    BY Templates, TemplateTyped, CanonicalTyped, DecodeTyped
  <2> HIDE DEF marked
  <2>2. [critical |-> TRUE, content |-> marked] \in Extension
    BY <2>1 DEF Extension
  <2>3. <<[critical |-> TRUE, content |-> marked]>> \in Seq(Extension)
    BY <2>2, OneOf, Zenon
  <2> QED
    BY <2>3 DEF marked
<1> HIDE DEF Fits
<1>15. Fits(changed)
  BY <1>1, <1>2, <1>3, <1>4, <1>5, <1>6, <1>7, <1>8, <1>9, <1>10, <1>11, <1>12, <1>13, <1>14, <1>16, Zenon
  DEF Changed
<1> QED
  BY <1>15 DEF Fits


\* A text is one of tokens, and every certificate, as issueCertificate of
\* src/mint.js makes it from the options of the Registry or of a button and as
\* it is changed since, is one of the profile's: its serial fits the 20 octets
\* of RFC 5280, and what canonicalize writes into its extension is a text.
THEOREM InputsTyped == Spec => []TypeOK
<1>1. Init => TypeOK
  BY InputsAssumption DEF Init, TypeOK
<1>2. TypeOK /\ [Next]_vars => TypeOK'
  <2> SUFFICES ASSUME TypeOK, [Next]_vars PROVE TypeOK'
    OBVIOUS
  <2>1. CASE Arrive
    <3>1. text' \in Seq(Token) /\ cert = None /\ cert' = cert /\ changes' = changes
      BY <2>1 DEF Arrive, TypeOK
    <3> QED
      BY <3>1 DEF TypeOK
  <2>2. CASE Issue
    <3>1. PICK o \in issueRaw \cup {spawn} : \E drawn \in Draw(o.serialBytes) :
            cert' = issueCertificate(o, drawn)
      BY <2>2 DEF Issue
    <3>2. PICK drawn \in Draw(o.serialBytes) : cert' = issueCertificate(o, drawn)
      BY <3>1
    <3>3. cert' \in Certificate /\ Len(cert'.serial) <= MAX_SERIAL_OCTETS
      BY <3>2, IssueTyped
    <3>4. text' = text /\ changes' = changes
      BY <2>2 DEF Issue
    <3> QED
      BY <3>3, <3>4 DEF TypeOK
  <2>3. CASE Change
    <3>1. cert \in Certificate /\ Len(cert.serial) <= MAX_SERIAL_OCTETS
      BY <2>3 DEF Change, TypeOK
    <3>2. PICK changed \in Changed(cert) : \E byIssuer \in BOOLEAN :
            cert' = [changed EXCEPT !.genuine = @ /\ byIssuer]
      BY <2>3 DEF Change
    <3>3. changed \in Certificate /\ Len(changed.serial) <= MAX_SERIAL_OCTETS
      BY <3>1, <3>2, ChangedTyped
    <3>4. PICK byIssuer \in BOOLEAN : cert' = [changed EXCEPT !.genuine = @ /\ byIssuer]
      BY <3>2
    <3> DEFINE genuine == changed.genuine /\ byIssuer
    <3>5. genuine \in BOOLEAN /\ cert' = [changed EXCEPT !.genuine = genuine]
      BY <3>4
    <3> HIDE DEF genuine
    <3>6. cert' \in Certificate /\ cert'.serial = changed.serial
      BY <3>3, <3>5 DEF Certificate
    <3>7. changes' \in 0..MaxChanges /\ text' = text
      BY <2>3, InputsAssumption DEF Change, TypeOK
    <3>8. Len(cert'.serial) <= MAX_SERIAL_OCTETS
      BY <3>3, <3>6
    <3> QED
      BY <3>6, <3>7, <3>8 DEF TypeOK
  <2>4. CASE UNCHANGED vars
    BY <2>4 DEF vars, TypeOK
  <2> QED
    BY <2>1, <2>2, <2>3, <2>4 DEF Next
<1> QED
  BY <1>1, <1>2, PTL DEF Spec


-----------------------------------------------------------------------------
(***************************************************************************)
(* What each certificate of a button is refused for.                       *)
(***************************************************************************)

Passing(answer) == answer = "SOUND"

\* The first answer that is no SOUND, given where it is, or the last.
LEMMA FirstIs ==
  ASSUME NEW answers, NEW n \in Nat, DOMAIN answers = 1..n, NEW m \in 1..n,
         \A i \in 1..m - 1 : Passing(answers[i]), ~Passing(answers[m]) \/ m = n
  PROVE  FirstOf(answers) = answers[m]
<1>1. \/ FirstOf(answers) = "SOUND" /\ \A i \in 1..n : answers[i] = "SOUND"
      \/ \E i \in 1..n : /\ FirstOf(answers) = answers[i] /\ answers[i] # "SOUND"
                         /\ \A j \in 1..i - 1 : answers[j] = "SOUND"
  BY FirstAnswer
<1>2. \A i \in 1..n : i = m \/ i \in 1..m - 1 \/ m \in 1..i - 1
  OBVIOUS
<1> QED
  BY <1>1, <1>2 DEF Passing

\* The checks before the signature, of a certificate of the agent that has no
\* flaw but in its key usage or its serial.
LEMMA StructureIs ==
  ASSUME NEW c, ~c.unknownCritical, c.cn = "agent", None # "agent", c.issuer # "agent",
         c.strongSignature, c.role = "agent"
  PROVE  /\ c.usage # {"digitalSignature"} => StructureRefusal(c, "agent") = "ERR_KEY_USAGE"
         /\ (c.usage = {"digitalSignature"} /\ assertSerialEncoding(c.serial) # "SOUND") =>
              StructureRefusal(c, "agent") = "ERR_SERIAL_ENCODING"
         /\ (c.usage = {"digitalSignature"} /\ assertSerialEncoding(c.serial) = "SOUND") =>
              StructureRefusal(c, "agent") = assertSerialEntropy(c.serial)
<1> DEFINE r1 == Require(~c.unknownCritical, "ERR_UNKNOWN_CRITICAL_EXT")
           r2 == Require(c.cn # None, "ERR_SUBJECT_MISMATCH")
           r3 == Require(c.cn \in Uuid, "ERR_AGENT_ID_FORMAT")
           r4 == Require(c.cn = "agent", "ERR_SUBJECT_MISMATCH")
           r5 == Require(c.issuer # c.cn, "ERR_SELF_SIGNED")
           r6 == Require(c.strongSignature, "ERR_WEAK_SIGNATURE")
           r7 == Require(c.role = "agent", "ERR_BASIC_CONSTRAINTS")
           r8 == assertKeyUsage(c.usage)
           r9 == assertSerialEncoding(c.serial)
           r10 == assertSerialEntropy(c.serial)
           answers == <<r1, r2, r3, r4, r5, r6, r7, r8, r9, r10>>
<1>1. /\ r1 = "SOUND" /\ r2 = "SOUND" /\ r3 = "SOUND" /\ r4 = "SOUND"
      /\ r5 = "SOUND" /\ r6 = "SOUND" /\ r7 = "SOUND"
  BY DEF Require, Uuid
<1>2. r8 = IF c.usage = {"digitalSignature"} THEN "SOUND" ELSE "ERR_KEY_USAGE"
  BY Zenon DEF assertKeyUsage, Require
<1>3. r9 = "SOUND" \/ r9 = "ERR_SERIAL_ENCODING"
  BY Zenon DEF assertSerialEncoding, Require
<1>4. StructureRefusal(c, "agent") = FirstOf(answers)
  BY Zenon DEF StructureRefusal
<1> HIDE DEF r1, r2, r3, r4, r5, r6, r7, r8, r9, r10
<1>5. /\ DOMAIN answers = 1..10
      /\ \A i \in 1..7 : answers[i] \in {r1, r2, r3, r4, r5, r6, r7}
      /\ answers[8] = r8 /\ answers[9] = r9 /\ answers[10] = r10
  OBVIOUS
<1> HIDE DEF answers
<1>6. \A i \in 1..7 : Passing(answers[i])
  BY <1>1, <1>5 DEF Passing
<1>7. 10 \in Nat /\ 8 \in 1..10 /\ 9 \in 1..10 /\ 10 \in 1..10
      /\ (\A i \in 1..8 - 1 : i \in 1..7) /\ (\A i \in 1..9 - 1 : i \in 1..7 \/ i = 8)
      /\ (\A i \in 1..10 - 1 : i \in 1..7 \/ i = 8 \/ i = 9)
      /\ (\A i \in 1..10 : i \in 1..7 \/ i = 8 \/ i = 9 \/ i = 10)
  OBVIOUS
<1>8. /\ ~Passing(r8) => FirstOf(answers) = r8
      /\ Passing(r8) /\ ~Passing(r9) => FirstOf(answers) = r9
      /\ Passing(r8) /\ Passing(r9) => FirstOf(answers) = r10
  BY <1>5, <1>6, <1>7, FirstIs
<1> QED
  BY <1>2, <1>3, <1>4, <1>8 DEF r9, r10, Passing

\* The checks after the signature, of a certificate with a strong key in the
\* anchor's subtree.
LEMMA ContentIs ==
  ASSUME NEW c, c.permitted, c.strongKey
  PROVE  /\ now \notin c.notBefore..c.notAfter => ContentRefusal(c) = "ERR_CERT_EXPIRED"
         /\ now \in c.notBefore..c.notAfter =>
              /\ ~c.revocationSource => ContentRefusal(c) = "ERR_NO_REVOCATION_SOURCE"
              /\ c.revocationSource =>
                   /\ parseTemplateExtension(c) # "SOUND" => ContentRefusal(c) = parseTemplateExtension(c)
                   /\ parseTemplateExtension(c) = "SOUND" =>
                        ContentRefusal(c) =
                          IF c.notAfter - c.notBefore <= ttl_seconds THEN "SOUND"
                          ELSE "ERR_VALIDITY_EXCEEDS_TTL"
<1> DEFINE inTime == now \in c.notBefore..c.notAfter
           short == c.notAfter - c.notBefore <= ttl_seconds
           r1 == Require(c.permitted, "ERR_NAME_CONSTRAINT")
           r2 == Require(inTime, "ERR_CERT_EXPIRED")
           r3 == Require(c.strongKey, "ERR_KEY_TOO_SMALL")
           r4 == Require(c.revocationSource, "ERR_NO_REVOCATION_SOURCE")
           r5 == parseTemplateExtension(c)
           r6 == Require(short, "ERR_VALIDITY_EXCEEDS_TTL")
           answers == <<r1, r2, r3, r4, r5, r6>>
<1>1. ContentRefusal(c) = FirstOf(answers)
  BY Zenon DEF ContentRefusal
<1> HIDE DEF inTime, short, r5
<1>2. /\ r1 = "SOUND" /\ r3 = "SOUND"
      /\ r2 = IF inTime THEN "SOUND" ELSE "ERR_CERT_EXPIRED"
      /\ r4 = IF c.revocationSource THEN "SOUND" ELSE "ERR_NO_REVOCATION_SOURCE"
      /\ r6 = IF short THEN "SOUND" ELSE "ERR_VALIDITY_EXCEEDS_TTL"
  BY Zenon DEF Require
<1> HIDE DEF r1, r2, r3, r4, r6
<1>3. /\ DOMAIN answers = 1..6
      /\ answers[1] = r1 /\ answers[2] = r2 /\ answers[3] = r3
      /\ answers[4] = r4 /\ answers[5] = r5 /\ answers[6] = r6
  OBVIOUS
<1> HIDE DEF answers
<1>4. 6 \in Nat /\ 2 \in 1..6 /\ 4 \in 1..6 /\ 5 \in 1..6 /\ 6 \in 1..6
      /\ (\A i \in 1..2 - 1 : i = 1) /\ (\A i \in 1..4 - 1 : i = 1 \/ i = 2 \/ i = 3)
      /\ (\A i \in 1..5 - 1 : i = 1 \/ i = 2 \/ i = 3 \/ i = 4)
      /\ (\A i \in 1..6 - 1 : i = 1 \/ i = 2 \/ i = 3 \/ i = 4 \/ i = 5)
      /\ (\A i \in 1..6 : i = 1 \/ i = 2 \/ i = 3 \/ i = 4 \/ i = 5 \/ i = 6)
  OBVIOUS
<1>5. Passing(r1) /\ Passing(r3)
  BY <1>2 DEF Passing
<1>6. /\ ~Passing(r2) => FirstOf(answers) = r2
      /\ Passing(r2) /\ ~Passing(r4) => FirstOf(answers) = r4
      /\ Passing(r2) /\ Passing(r4) /\ ~Passing(r5) => FirstOf(answers) = r5
      /\ Passing(r2) /\ Passing(r4) /\ Passing(r5) => FirstOf(answers) = r6
  BY <1>3, <1>4, <1>5, FirstIs
<1>7. "ERR_CERT_EXPIRED" # "SOUND" /\ "ERR_NO_REVOCATION_SOURCE" # "SOUND"
  OBVIOUS
<1> DEFINE refusal == ContentRefusal(c)
<1>8. /\ ~inTime => refusal = "ERR_CERT_EXPIRED"
      /\ inTime /\ ~c.revocationSource => refusal = "ERR_NO_REVOCATION_SOURCE"
      /\ inTime /\ c.revocationSource /\ r5 # "SOUND" => refusal = r5
      /\ inTime /\ c.revocationSource /\ r5 = "SOUND" =>
           refusal = IF short THEN "SOUND" ELSE "ERR_VALIDITY_EXCEEDS_TTL"
  BY <1>1, <1>2, <1>6, <1>7, Zenon DEF Passing
<1> QED
  BY <1>8, Zenon DEF inTime, short, r5


-----------------------------------------------------------------------------
(***************************************************************************)
(* The content of the extension spawn asks for.                            *)
(***************************************************************************)

\* A name is spelt as it is.
LEMMA PlainlySpelt ==
  ASSUME NEW name \in Names
  PROVE  name \in Spelling /\ Meaning[name] = name /\ SpellingOf(name) = name
<1>1. name \in Spelling /\ Meaning[name] = name
  BY SpellingAssumption DEF Names
<1>2. SpellingOf(name) = name
  BY <1>1 DEF SpellingOf
<1> QED
  BY <1>1, <1>2

\* A string is written as one token, itself.
LEMMA StringWritten ==
  ASSUME NEW string \in Names
  PROVE  /\ Write[MAX_NESTING_DEPTH][String(string)] = <<string>>
         /\ Write[MAX_NESTING_DEPTH - 1][String(string)] = <<string>>
<1> DEFINE v == String(string)
<1>1. v \in Value[MAX_NESTING_DEPTH] /\ v \in Value[MAX_NESTING_DEPTH - 1]
  BY StringTyped
<1>2. \A written : write(v, written) = <<SpellingOf(string)>>
  <2>1. v.type = "string" /\ v.text = string
    BY DEF String
  <2> HIDE DEF v
  <2> QED
    BY <2>1 DEF write, Scalar
<1> HIDE DEF v
<1>3. /\ Write[MAX_NESTING_DEPTH] = WriteFrom(Value[MAX_NESTING_DEPTH], Write[MAX_NESTING_DEPTH - 1])
      /\ Write[MAX_NESTING_DEPTH - 1] = WriteFrom(Value[MAX_NESTING_DEPTH - 1], Write[MAX_NESTING_DEPTH - 2])
  BY Rooms, WritesAre
<1> QED
  BY <1>1, <1>2, <1>3, PlainlySpelt DEF WriteFrom, v

\* An object with members of one name only.
LEMMA OneLine ==
  ASSUME NEW name \in Names, NEW list, KeysOf(list) = {name}, NEW written
  PROVE  writeObject(list, written) = <<"{">> \o Line(list, written, name) \o <<"}">>
<1> DEFINE n == Len(KeyOrder)
           upTo == Rows(list, written)
           line == Line(list, written, name)
           met(k) == \E j \in 1..k : KeyOrder[j] = name
           good == {k \in Nat : upTo[k] = IF met(k) THEN line ELSE <<>>}
<1>1. n \in Nat /\ DOMAIN KeyOrder = 1..n
  BY ProfileAssumption
<1>2. /\ writeObject(list, written) = <<"{">> \o upTo[n] \o <<"}">>
      /\ upTo[0] = <<>>
      /\ \A k \in 0..n : k < n => upTo[k + 1] = Row(list, written, k + 1, upTo[k])
  BY RowsAre
<1>3. \A k, before : Row(list, written, k, before) =
                       IF KeyOrder[k] = name THEN Listed(before, line) ELSE before
  BY DEF Row, Line
<1>4. \A before : before = <<>> => Listed(before, line) = line
  BY DEF Listed
<1> HIDE DEF n, upTo, line
<1>5. 0 \in good
  <2>1. 0 \in Nat /\ ~met(0)
    OBVIOUS
  <2> QED
    BY <1>2, <2>1
<1>6. ASSUME NEW k \in 0..n, k \in good, k < n
      PROVE  k + 1 \in good
  <2>1. k + 1 \in Nat /\ k + 1 \in 1..n /\ 1..k \subseteq 1..n
        /\ \A j \in 1..k + 1 : j \in 1..k \/ j = k + 1
    BY <1>1, <1>6
  <2>2. k + 1 \in 1..k + 1 /\ k + 1 \notin 1..k /\ 1..k \subseteq 1..k + 1
    BY <1>1, <1>6
  <2>3. CASE KeyOrder[k + 1] = name
    <3>1. ~met(k) /\ met(k + 1)
      BY <1>1, <2>1, <2>2, <2>3, ProfileAssumption
    <3> QED
      BY <1>2, <1>3, <1>4, <1>6, <2>1, <2>3, <3>1
  <2>4. CASE KeyOrder[k + 1] # name
    <3>1. met(k) <=> met(k + 1)
      BY <2>1, <2>2, <2>4
    <3> QED
      BY <1>2, <1>3, <1>6, <2>1, <2>4, <3>1
  <2> QED
    BY <2>3, <2>4
<1>7. n \in good
  <2> HIDE DEF good
  <2>1. n \in 0..n
    BY <1>1
  <2> QED
    BY <1>1, <1>5, <1>6, <2>1, Counting
<1>8. met(n)
  BY <1>1, ProfileAssumption DEF Names
<1>9. upTo[n] = line
  BY <1>7, <1>8
<1> QED
  BY <1>2, <1>9 DEF line

\* The template of spawn, in its canonical form.
Brief == <<"{">> \o (<<"id", ":">> \o <<"agent">>) \o <<"}">>

IsFive(t, a, b, c, d, e) ==
  /\ t \in Seq(Token) /\ Len(t) = 5
  /\ t[1] = a /\ t[2] = b /\ t[3] = c /\ t[4] = d /\ t[5] = e

LEMMA FiveTokens ==
  ASSUME NEW a \in Token, NEW b \in Token, NEW c \in Token, NEW d \in Token, NEW e \in Token
  PROVE  IsFive(<<a>> \o (<<b, c>> \o <<d>>) \o <<e>>, a, b, c, d, e)
<1> DEFINE inner == <<b, c>> \o <<d>>
           open == <<a>> \o inner
           all == open \o <<e>>
<1>1. /\ <<a>> \in Seq(Token) /\ <<b, c>> \in Seq(Token) /\ <<d>> \in Seq(Token) /\ <<e>> \in Seq(Token)
      /\ Len(<<a>>) = 1 /\ Len(<<b, c>>) = 2 /\ Len(<<d>>) = 1 /\ Len(<<e>>) = 1
      /\ <<a>>[1] = a /\ <<b, c>>[1] = b /\ <<b, c>>[2] = c /\ <<d>>[1] = d /\ <<e>>[1] = e
  OBVIOUS
<1>2. inner \in Seq(Token) /\ Len(inner) = 3 /\ inner[1] = b /\ inner[2] = c /\ inner[3] = d
  <2>1. inner \in Seq(Token) /\ Joins(<<b, c>>, <<d>>, inner)
    BY <1>1, ConcatAt
  <2> HIDE DEF inner
  <2> QED
    BY <1>1, <2>1 DEF Joins
<1> HIDE DEF inner
<1>3. /\ open \in Seq(Token) /\ Len(open) = 4
      /\ open[1] = a /\ open[2] = b /\ open[3] = c /\ open[4] = d
  <2>1. open \in Seq(Token) /\ Joins(<<a>>, inner, open)
    BY <1>1, <1>2, ConcatAt
  <2> HIDE DEF open
  <2> QED
    BY <1>1, <1>2, <2>1 DEF Joins
<1> HIDE DEF open
<1>4. /\ all \in Seq(Token) /\ Len(all) = 5
      /\ all[1] = a /\ all[2] = b /\ all[3] = c /\ all[4] = d /\ all[5] = e
  <2>1. all \in Seq(Token) /\ Joins(open, <<e>>, all)
    BY <1>1, <1>3, ConcatAt
  <2> HIDE DEF all
  <2> QED
    BY <1>1, <1>3, <2>1 DEF Joins
<1> QED
  BY <1>4 DEF all, open, inner, IsFive

LEMMA BriefIs ==
  /\ Brief \in Seq(Token) /\ Len(Brief) = 5
  /\ Brief[1] = "{" /\ Brief[2] = "id" /\ Brief[3] = ":" /\ Brief[4] = "agent" /\ Brief[5] = "}"
<1>1. "id" \in Spelling /\ "agent" \in Spelling
  BY Templates, PlainlySpelt
<1>2. "{" \in Token /\ "id" \in Token /\ ":" \in Token /\ "agent" \in Token /\ "}" \in Token
  BY <1>1 DEF Token, Punctuation
<1>3. Brief = <<"{">> \o (<<"id", ":">> \o <<"agent">>) \o <<"}">>
  BY DEF Brief
<1> HIDE DEF Brief
<1>4. IsFive(Brief, "{", "id", ":", "agent", "}")
  BY <1>2, <1>3, FiveTokens, Zenon
<1> QED
  BY <1>4, Zenon DEF IsFive

LEMMA BriefWritten == canonicalize(spawn.template) = Brief
<1> DEFINE list == <<[key |-> "id", value |-> String("agent")]>>
           written == Write[MAX_NESTING_DEPTH]
<1>1. spawn.template = Object(list) /\ Object(list) \in Value[MAX_NESTING_DEPTH + 1]
  <2>1. spawn.template = Template("id", "agent")
    BY DEF spawn
  <2>2. Template("id", "agent") = Object(list)
    BY DEF Template
  <2> QED
    BY <2>1, <2>2, Templates
<1>2. canonicalize(Object(list)) = writeObject(list, written)
  BY <1>1, CanonicalObject
<1>3. KeysOf(list) = {"id"} /\ ValueFor(list, "id") = String("agent")
  <2>1. DOMAIN list = {1} /\ list[1].key = "id" /\ list[1].value = String("agent")
    OBVIOUS
  <2> HIDE DEF list
  <2> QED
    BY <2>1 DEF KeysOf, ValueFor
<1>4. written[String("agent")] = <<"agent">>
  BY Templates, StringWritten
<1> HIDE DEF list, written
<1>5. writeObject(list, written) = <<"{">> \o Line(list, written, "id") \o <<"}">>
  BY <1>3, Templates, OneLine
<1>6. Line(list, written, "id") = <<"id", ":">> \o <<"agent">>
  BY <1>3, <1>4, Templates, PlainlySpelt DEF Line
<1> QED
  BY <1>1, <1>2, <1>5, <1>6 DEF Brief

\* An object with one member, a string.
IsBrief(t) == t[1] = "{" /\ t[2] \in Spelling /\ t[3] = ":" /\ t[4] \in Spelling /\ t[5] = "}"

\* It is read in one turn.
LEMMA OneMemberRead ==
  ASSUME NEW t \in Seq(Token), Len(t) = 5, IsBrief(t)
  PROVE  parseJsonStrict(t) =
           Read(Object(<<[key |-> Meaning[t[2]], value |-> String(Meaning[t[4]])]>>), 6)
<1> DEFINE inner == Levels(t)[MAX_NESTING_DEPTH]
           below == Levels(t)[MAX_NESTING_DEPTH - 1]
           v == Read(String(Meaning[t[4]]), 5)
           taken == <<[key |-> Meaning[t[2]], value |-> String(Meaning[t[4]])]>>
           whole == Read(Object(taken), 6)
<1>1. Whole(t) = valueAt(t, inner, 1)
  <2>1. 1 \in 1..Len(t) + 1
    OBVIOUS
  <2> QED
    BY <2>1, Rooms, LevelsAre DEF Whole
<1>2. inner[4] = valueAt(t, below, 4)
  <2>1. 4 \in 1..Len(t) + 1
    OBVIOUS
  <2>2. \A room \in 0..MAX_NESTING_DEPTH, i \in 1..Len(t) + 1 :
              Levels(t)[room + 1][i] = valueAt(t, Levels(t)[room], i)
    BY LevelsAre
  <2>3. Levels(t)[(MAX_NESTING_DEPTH - 1) + 1][4] = valueAt(t, below, 4)
    BY <2>1, <2>2, Rooms
  <2> QED
    BY <2>3, Rooms
<1>3. /\ At(t, 1) = t[1] /\ At(t, 2) = t[2] /\ At(t, 3) = t[3]
      /\ At(t, 4) = t[4] /\ At(t, 5) = t[5]
  <2>1. 1 \in 1..Len(t) /\ 2 \in 1..Len(t) /\ 3 \in 1..Len(t) /\ 4 \in 1..Len(t) /\ 5 \in 1..Len(t)
    OBVIOUS
  <2>2. DOMAIN t = 1..Len(t)
    BY LenProperties
  <2> QED
    BY <2>1, <2>2 DEF At
<1>4. 1 + 1 = 2 /\ 2 + 1 = 3 /\ 2 + 2 = 4 /\ 4 + 1 = 5 /\ 5 + 1 = 6
  OBVIOUS
<1> HIDE DEF inner, below
<1>5. Whole(t) = parts(t, inner, 1)
  <2>1. At(t, 1) = "{" => valueAt(t, inner, 1) = IF At(t, 1 + 1) = "}" THEN Read(Object(<<>>), 1 + 2) ELSE parts(t, inner, 1)
    <3>1. Cased(t, inner, 1, valueAt(t, inner, 1))
      BY ValueCases
    <3> QED
      BY <3>1, Zenon DEF Cased
  <2>2. t[1] = "{" /\ t[2] # "}"
    BY SpellingApart DEF IsBrief
  <2> QED
    BY <1>1, <1>3, <1>4, <2>1, <2>2, Zenon
<1>6. inner[4] = v
  <2>1. At(t, 4) \in Spelling => valueAt(t, below, 4) = Read([type |-> "string", text |-> Meaning[t[4]]], 4 + 1)
    <3>1. Cased(t, below, 4, valueAt(t, below, 4))
      BY ValueCases
    <3> QED
      BY <3>1, Zenon DEF Cased
  <2> QED
    BY <1>2, <1>3, <1>4, <2>1, Zenon DEF String, IsBrief
<1>7. PICK turn : Looping(t, inner, 1, turn) /\ parts(t, inner, 1) = turn[Len(t)]
  BY PartsAre
<1>8. turn[0] = Taking(<<>>, 2)
  BY <1>7 DEF Looping
<1>9. turn[1] = member(t, inner, turn[0])
  <2>1. 0 \in 0..Len(t) /\ 0 < Len(t) /\ 0 + 1 = 1
    OBVIOUS
  <2>2. turn[1] = NextTurn(t, inner, 1, turn[0])
    BY <1>7, <2>1 DEF Looping
  <2>3. turn[0].code = "TAKING"
    BY <1>8 DEF Taking
  <2> QED
    BY <2>2, <2>3 DEF NextTurn, IsBrief
<1>10. member(t, inner, turn[0]) = Entered(t, inner, turn[0])
  <2>1. turn[0].next = 2 /\ turn[0].value = <<>>
    BY <1>8 DEF Taking
  <2>2. KeysOf(<<>>) = {}
    BY DEF KeysOf
  <2> QED
    BY <1>3, <2>1, <2>2 DEF member, IsBrief
<1>11. Entered(t, inner, turn[0]) = Continue(t, v, taken, Object(taken), "}")
  <2>1. turn[0].next = 2 /\ turn[0].value = <<>>
    BY <1>8 DEF Taking
  <2>2. v.value = String(Meaning[t[4]])
    BY DEF Read
  <2>3. \A x : Append(<<>>, x) = <<x>>
    OBVIOUS
  <2> HIDE DEF v
  <2> QED
    BY <1>3, <1>4, <1>6, <2>1, <2>2, <2>3 DEF Entered, IsBrief
<1>12. Continue(t, v, taken, Object(taken), "}") = whole
  <2>1. v.code = "SOUND" /\ v.next = 5
    BY DEF Read
  <2> HIDE DEF v, taken
  <2> QED
    BY <1>3, <1>4, <2>1 DEF Continue, IsBrief
<1>13. whole.code = "SOUND" /\ whole.next = 6
  BY DEF Read
<1> HIDE DEF whole
<1>14. ASSUME NEW k \in 0..Len(t), k < Len(t), turn[k] = whole
       PROVE  turn[k + 1] = whole
  <2>1. turn[k + 1] = NextTurn(t, inner, 1, turn[k])
    BY <1>7, <1>14 DEF Looping
  <2> QED
    BY <1>13, <1>14, <2>1 DEF NextTurn
<1>15. turn[5] = whole
  <2>1. turn[1] = whole
    BY <1>9, <1>10, <1>11, <1>12 DEF whole
  <2>2. turn[2] = whole
    BY <1>14, <2>1
  <2>3. turn[3] = whole
    BY <1>14, <2>2
  <2>4. turn[4] = whole
    BY <1>14, <2>3
  <2> QED
    BY <1>14, <2>4
<1>16. Whole(t) = whole
  BY <1>5, <1>7, <1>15
<1>17. parseJsonStrict(t) = IF IsSound(whole) /\ whole.next <= Len(t) THEN fail(whole.next) ELSE whole
  BY <1>16, WholeIs
<1>18. ~(whole.next <= Len(t))
  BY <1>13
<1> QED
  BY <1>17, <1>18 DEF whole

LEMMA BriefRead == parseJsonStrict(Brief) = Read(spawn.template, 6)
<1>1. /\ "id" \in Spelling /\ Meaning["id"] = "id"
      /\ "agent" \in Spelling /\ Meaning["agent"] = "agent"
  BY Templates, PlainlySpelt
<1>2. parseJsonStrict(Brief) = Read(Object(<<[key |-> "id", value |-> String("agent")]>>), 6)
  BY <1>1, BriefIs, OneMemberRead DEF IsBrief
<1>3. spawn.template = Template("id", "agent")
  BY DEF spawn
<1> QED
  BY <1>2, <1>3 DEF Template

\* A content too long is refused unread; one that reads soundly is what was read.
LEMMA AnyDecoded ==
  ASSUME NEW content \in Seq(Token)
  PROVE  /\ Len(content) > MAX_TEMPLATE_EXTENSION_BYTES =>
              decodeAnyEncoding(content).code = "ERR_EXTENSION_TOO_LARGE"
         /\ (Len(content) <= MAX_TEMPLATE_EXTENSION_BYTES /\ parseJsonStrict(decode(content)).code = "SOUND") =>
              decodeAnyEncoding(content) =
                [code |-> assertFlatObject(parseJsonStrict(decode(content)).value),
                 object |-> parseJsonStrict(decode(content)).value]
<1> DEFINE parsed == parseJsonStrict(decode(content))
           decoded == decodeAnyEncoding(content)
           Answer(code) == [code |-> code, object |-> parsed.value]
           TooLong == Len(content) > MAX_TEMPLATE_EXTENSION_BYTES
           Short == Len(content) <= MAX_TEMPLATE_EXTENSION_BYTES
           flat == IF parsed.code = "SOUND" THEN assertFlatObject(parsed.value) ELSE parsed.code
<1>1. decoded = CASE TooLong -> Answer("ERR_EXTENSION_TOO_LARGE")
                  [] Short /\ parsed.code = "ERR_MALFORMED_JSON" -> Answer("ERR_TEMPLATE_EXT_INVALID")
                  [] OTHER -> Answer(flat)
  BY DEF decodeAnyEncoding
<1>2. \A code : Answer(code).code = code
  OBVIOUS
<1>3. ~(TooLong /\ Short)
  BY LenInNat, ProfileAssumption
<1> HIDE DEF TooLong, Short, decoded, parsed
<1>4. parsed.code = "SOUND" => parsed.code # "ERR_MALFORMED_JSON"
  OBVIOUS
<1>5. TooLong => decoded = Answer("ERR_EXTENSION_TOO_LARGE")
  <2> HIDE DEF Answer, flat
  <2> QED
    BY <1>1, <1>3, Zenon
<1>6. Short /\ parsed.code = "SOUND" => decoded = Answer(flat)
  <2> HIDE DEF Answer, flat
  <2> QED
    BY <1>1, <1>3, <1>4, Zenon
<1> QED
  BY <1>2, <1>5, <1>6, Zenon DEF TooLong, Short, decoded, parsed

LEMMA BriefDecoded ==
  decodeJcsExtension(Brief) = [code |-> "SOUND", object |-> spawn.template]
<1> DEFINE template == spawn.template
           decoded == [code |-> "SOUND", object |-> template]
<1>1. /\ template.type = "object" /\ DOMAIN template.members = {1}
      /\ template.members[1].value.type = "string"
  BY DEF spawn, Template, Object, String
<1> HIDE DEF template
<1>2. assertFlatObject(template) = "SOUND"
  BY <1>1 DEF assertFlatObject, Require
<1>3. Len(Brief) <= MAX_TEMPLATE_EXTENSION_BYTES
  <2>1. Len(Brief) = 5
    BY BriefIs
  <2> QED
    BY <2>1, InputsAssumption, ProfileAssumption
<1>4. parseJsonStrict(Brief).code = "SOUND" /\ parseJsonStrict(Brief).value = template
  BY BriefRead DEF Read, template
<1>8. decode(Brief) = Brief
  <2>0. Len(Brief) > 0
    <3>1. Len(Brief) = 5
      BY BriefIs
    <3> QED
      BY <3>1
  <2>1. Brief # <<>>
    BY <2>0, BriefIs, LongNotEmpty, Zenon
  <2>2. Brief[1] # MARK
    BY BriefIs DEF MARK
  <2> QED
    BY <2>1, <2>2, BriefIs, DecodeTyped
<1>5. decodeAnyEncoding(Brief) = decoded
  BY <1>2, <1>3, <1>4, <1>8, BriefIs, AnyDecoded
<1>6. decoded.code = "SOUND" /\ decoded.object = template
  OBVIOUS
<1>7. canonicalize(template) = Brief
  BY BriefWritten DEF template
<1> HIDE DEF decoded
<1> QED
  BY <1>5, <1>6, <1>7, <1>8 DEF decodeJcsExtension, canonicalOnly, decoded, template

\* The extension a certificate bears, alone.
Bears(c, template, critical) == c.templates = <<jcsExtension(template, critical)>>

LEMMA ExtensionIs ==
  ASSUME NEW c, NEW template, NEW critical \in BOOLEAN, Bears(c, template, critical)
  PROVE  /\ ~critical => parseTemplateExtension(c) = "ERR_TEMPLATE_EXT_INVALID"
         /\ critical => parseTemplateExtension(c) =
                          assertTemplate(decodeJcsExtension(canonicalize(template)), c.cn)
<1> DEFINE list == c.templates
<1>1. list = <<jcsExtension(template, critical)>>
  BY DEF Bears
<1>2. list # <<>> /\ Len(list) = 1 /\ list[1] = jcsExtension(template, critical)
  BY <1>1
<1>3. list[1].critical = critical /\ list[1].content = canonicalize(template)
  BY <1>2 DEF jcsExtension
<1>4. ~(Len(list) > 1)
  BY <1>2
<1> HIDE DEF list
<1>5. parseTemplateExtension(c) =
        CASE list = <<>> -> "ERR_TEMPLATE_EXT_MISSING"
          [] Len(list) > 1 -> "ERR_TEMPLATE_EXT_INVALID"
          [] Len(list) = 1 /\ ~list[1].critical -> "ERR_TEMPLATE_EXT_INVALID"
          [] OTHER -> assertTemplate(decodeJcsExtension(list[1].content), c.cn)
  BY Zenon DEF parseTemplateExtension, list
<1>6. CASE critical
  <2>1. ~(list = <<>>) /\ ~(Len(list) > 1) /\ ~(Len(list) = 1 /\ ~list[1].critical)
    BY <1>2, <1>3, <1>4, <1>6
  <2> QED
    BY <1>3, <1>5, <1>6, <2>1, Zenon
<1>7. CASE ~critical
  <2>1. ~(list = <<>>) /\ ~(Len(list) > 1) /\ (Len(list) = 1 /\ ~list[1].critical)
    BY <1>2, <1>3, <1>4, <1>7
  <2> QED
    BY <1>5, <1>7, <2>1, Zenon
<1> QED
  BY <1>6, <1>7

LEMMA TemplateSound ==
  ASSUME NEW c, Bears(c, spawn.template, TRUE), c.cn = "agent"
  PROVE  parseTemplateExtension(c) = "SOUND"
<1> DEFINE template == spawn.template
           decoded == [code |-> "SOUND", object |-> template]
<1>1. parseTemplateExtension(c) = assertTemplate(decoded, "agent")
  BY BriefDecoded, BriefWritten, ExtensionIs
<1>2. /\ KeysOf(template.members) = {"id"}
      /\ template.members[1].value.type = "string" /\ template.members[1].value.text = "agent"
  <2>1. template = Template("id", "agent")
    BY DEF spawn
  <2> DEFINE list == template.members
  <2>2. DOMAIN list = {1} /\ list[1].key = "id" /\ list[1].value = String("agent")
    BY <2>1 DEF Template, Object
  <2> HIDE DEF list
  <2> QED
    BY <2>2 DEF KeysOf, list, String
<1>3. assertTemplateMembers(template) = "SOUND"
  <2> HIDE DEF template
  <2>1. KeysOf(template.members) = TEMPLATE_FIELDS
    BY <1>2, TemplateAssumption
  <2>2. assertTemplateMembers(template) = Require(template.members[1].value.text \in Uuid, "ERR_AGENT_ID_FORMAT")
    BY <1>2, <2>1, Zenon DEF assertTemplateMembers
  <2> QED
    BY <1>2, <2>2 DEF Require, Uuid
<1>4. decoded.code = "SOUND" /\ decoded.object = template
  OBVIOUS
<1> HIDE DEF decoded, template
<1> QED
  BY <1>1, <1>2, <1>3, <1>4 DEF assertTemplate, Require


-----------------------------------------------------------------------------
(***************************************************************************)
(* The content of the one that is too large.                               *)
(***************************************************************************)

LEMMA Lengths ==
  ASSUME NEW S, NEW one \in Seq(S), NEW other \in Seq(S)
  PROVE  one \o other \in Seq(S) /\ Len(one \o other) = Len(one) + Len(other)
BY ConcatProperties

\* A list with a part more is longer than each of them.
LEMMA ListedLong ==
  ASSUME NEW list \in Seq(Token), NEW part \in Seq(Token)
  PROVE  /\ Len(Listed(list, part)) >= Len(list) /\ Len(Listed(list, part)) >= Len(part)
         /\ Len(part) >= 1 => Len(Listed(list, part)) >= Len(list) + 1
<1> DEFINE comma == <<",">>
<1>1. comma \in Seq(Token) /\ Len(comma) = 1
  <2>1. comma \in Seq(Token)
    BY Separators
  <2> QED
    BY <2>1
<1>2. Listed(list, part) = IF list = <<>> THEN part ELSE (list \o comma) \o part
  BY DEF Listed
<1> HIDE DEF comma
<1>3. list \o comma \in Seq(Token) /\ Len(list \o comma) = Len(list) + 1
  <2>1. list \o comma \in Seq(Token) /\ Len(list \o comma) = Len(list) + Len(comma)
    BY <1>1, Lengths
  <2> QED
    BY <1>1, <2>1
<1>4. Len((list \o comma) \o part) = (Len(list) + 1) + Len(part)
  BY <1>3, Lengths
<1>5. Len(list) \in Nat /\ Len(part) \in Nat /\ (list = <<>> => Len(list) = 0)
  BY LenProperties
<1> QED
  BY <1>2, <1>4, <1>5

\* Brackets around a text are two tokens more.
LEMMA Around ==
  ASSUME NEW open, <<open>> \in Seq(Token), NEW close, <<close>> \in Seq(Token), NEW inside \in Seq(Token)
  PROVE  Len(<<open>> \o inside \o <<close>>) = Len(inside) + 2
<1>1. Len(<<open>>) = 1 /\ Len(<<close>>) = 1
  OBVIOUS
<1> DEFINE first == <<open>>
           last == <<close>>
<1> HIDE DEF first, last
<1>2. first \o inside \in Seq(Token) /\ Len(first \o inside) = 1 + Len(inside)
  BY <1>1, Lengths DEF first
<1>3. Len((first \o inside) \o last) = (1 + Len(inside)) + 1
  BY <1>1, <1>2, Lengths DEF last
<1>4. Len(inside) \in Nat
  BY LenProperties
<1> QED
  BY <1>3, <1>4 DEF first, last

\* An array is as long as it has items, written each with a token or more.
LEMMA ArrayLong ==
  ASSUME NEW values, NEW list \in Seq(values), NEW written,
         \A v \in values : written[v] \in Seq(Token),
         \A k \in 1..Len(list) : Len(written[list[k]]) >= 1
  PROVE  Len(writeArray(list, written)) >= Len(list) + 2
<1> DEFINE n == Len(list)
           upTo == CHOOSE f : ItemsUpTo(list, written, n, f)
           long == {k \in Nat : upTo[k] \in Seq(Token) /\ Len(upTo[k]) >= k}
<1>1. n \in Nat
  BY LenProperties
<1>2. writeArray(list, written) = <<"[">> \o upTo[n] \o <<"]">>
  BY DEF writeArray, ItemsUpTo
<1>3. ItemsUpTo(list, written, n, upTo)
  BY <1>1, ItemsDefined
<1>4. \A k \in 1..n : written[list[k]] \in Seq(Token) /\ Len(written[list[k]]) >= 1
  BY ElementOfSeq
<1> HIDE DEF n, upTo
<1>5. upTo = [k \in 0..n |-> IF k = 0 THEN <<>> ELSE Listed(upTo[k - 1], written[list[k]])]
  BY <1>3 DEF ItemsUpTo
<1>6. 0 \in long
  <2>1. upTo[0] = <<>>
    BY <1>1, <1>5
  <2>2. <<>> \in Seq(Token) /\ Len(<<>>) >= 0
    OBVIOUS
  <2> QED
    BY <2>1, <2>2
<1>7. ASSUME NEW k \in 0..n, k \in long, k < n
      PROVE  k + 1 \in long
  <2>1. k + 1 \in 0..n /\ k + 1 \in 1..n /\ k + 1 # 0 /\ (k + 1) - 1 = k /\ k + 1 \in Nat /\ k \in Nat
    BY <1>1, <1>7
  <2>2. upTo[k + 1] = Listed(upTo[k], written[list[k + 1]])
    BY <1>5, <2>1
  <2>3. written[list[k + 1]] \in Seq(Token) /\ Len(written[list[k + 1]]) >= 1
    BY <1>4, <2>1
  <2>4. upTo[k] \in Seq(Token) /\ Len(upTo[k]) >= k
    BY <1>7
  <2>5. upTo[k + 1] \in Seq(Token) /\ Len(upTo[k + 1]) >= Len(upTo[k]) + 1
    BY <2>2, <2>3, <2>4, ListedTyped, ListedLong
  <2>6. Len(upTo[k + 1]) \in Nat /\ Len(upTo[k]) \in Nat
    BY <2>4, <2>5, LenProperties
  <2>7. Len(upTo[k + 1]) >= k + 1
    BY <2>1, <2>4, <2>5, <2>6
  <2> QED
    BY <2>1, <2>5, <2>7
<1>8. n \in 0..n
  BY <1>1
<1>9. n \in long
  <2> HIDE DEF long
  <2> QED
    BY <1>1, <1>6, <1>7, <1>8, Counting
<1>10. Len(writeArray(list, written)) = Len(upTo[n]) + 2
  <2>1. upTo[n] \in Seq(Token) /\ <<"[">> \in Seq(Token) /\ <<"]">> \in Seq(Token)
    BY <1>9, Separators
  <2>2. Len(<<"[">> \o upTo[n] \o <<"]">>) = Len(upTo[n]) + 2
    BY <2>1, Around, Zenon
  <2> QED
    BY <1>2, <2>2, Zenon
<1>11. Len(upTo[n]) \in Nat
  BY <1>9, LenProperties
<1> QED
  BY <1>1, <1>9, <1>10, <1>11 DEF n

LEMMA OversizedLong ==
  /\ Write[MAX_NESTING_DEPTH][Oversized] \in Seq(Token)
  /\ Len(Write[MAX_NESTING_DEPTH][Oversized]) > MAX_TEMPLATE_EXTENSION_BYTES
<1> DEFINE written == Write[MAX_NESTING_DEPTH - 1]
           values == Value[MAX_NESTING_DEPTH - 1]
           n == MAX_TEMPLATE_EXTENSION_BYTES
           list == Oversized.items
<1>1. /\ MAX_NESTING_DEPTH \in 0..MAX_NESTING_DEPTH + 1 /\ MAX_NESTING_DEPTH - 1 \in 0..MAX_NESTING_DEPTH + 1
      /\ n \in Nat
  BY Rooms, ReaderAssumption, ProfileAssumption
<1>2. Oversized.type = "array" /\ list = [i \in 1..n |-> String("id")]
  BY DEF Oversized, Array
<1>3. Oversized \in Value[MAX_NESTING_DEPTH] /\ list \in Seq(values)
  BY OversizedTyped
<1>4. Write[MAX_NESTING_DEPTH] = WriteFrom(Value[MAX_NESTING_DEPTH], written)
  BY Rooms, WritesAre
<1>5. Write[MAX_NESTING_DEPTH][Oversized] = write(Oversized, written)
  BY <1>3, <1>4 DEF WriteFrom
<1>6. write(Oversized, written) = writeArray(list, written)
  <2> DEFINE v == Oversized
  <2>1. v.type = "array" /\ v.items = list
    BY <1>2
  <2> HIDE DEF v, list
  <2> QED
    BY <2>1 DEF write, Scalar, v
<1>7. \A v \in values : written[v] \in Seq(Token)
  BY <1>1, WritesTyped
<1>8. Len(list) = n /\ \A k \in 1..Len(list) : list[k] = String("id")
  <2>1. DOMAIN list = 1..n
    BY <1>2
  <2>2. Len(list) = n
    BY <1>1, <1>3, <2>1
  <2> QED
    BY <1>2, <2>2
<1>9. \A k \in 1..Len(list) : Len(written[list[k]]) >= 1
  <2>1. "id" \in Names
    BY Templates
  <2>2. written[String("id")] = <<"id">>
    BY <2>1, StringWritten
  <2>3. Len(<<"id">>) = 1
    OBVIOUS
  <2>4. Len(written[String("id")]) = 1
    BY <2>2, <2>3
  <2>5. \A k \in 1..Len(list) : Len(written[list[k]]) = 1
    BY <1>8, <2>4
  <2> HIDE DEF list, written
  <2> QED
    BY <2>5
<1> HIDE DEF list, written, values
<1>10. Len(writeArray(list, written)) >= Len(list) + 2
  BY <1>3, <1>7, <1>9, ArrayLong
<1>11. Write[MAX_NESTING_DEPTH][Oversized] \in Seq(Token)
  BY <1>1, <1>3, WritesTyped
<1> DEFINE length == Len(Write[MAX_NESTING_DEPTH][Oversized])
<1>12. length \in Nat /\ length >= n + 2
  <2>1. Len(list) = n
    BY <1>8
  <2>2. length = Len(writeArray(list, written))
    BY <1>5, <1>6
  <2> QED
    BY <1>10, <1>11, <2>1, <2>2, LenProperties
<1>13. length > n
  <2> HIDE DEF length
  <2> QED
    BY <1>1, <1>12
<1> QED
  BY <1>11, <1>13

\* A value of a member is written whole, among the others.
LEMMA MemberLong ==
  ASSUME NEW values, NEW list \in Seq(Member(values)), NEW written,
         \A v \in values : written[v] \in Seq(Token),
         NEW name \in Names, name \in KeysOf(list), written[ValueFor(list, name)] \in Seq(Token)
  PROVE  Len(writeObject(list, written)) >= Len(written[ValueFor(list, name)])
<1> DEFINE n == Len(KeyOrder)
           upTo == Rows(list, written)
           part == written[ValueFor(list, name)]
           line == Line(list, written, name)
           length == Len(part)
           met(k) == \E j \in 1..k : KeyOrder[j] = name
           good == {k \in Nat : upTo[k] \in Seq(Token) /\ (met(k) => Len(upTo[k]) >= length)}
<1>0. \A k \in 1..n : KeyOrder[k] \in Names
  <2>1. KeyOrder \in Seq(Names)
    BY ProfileAssumption DEF Names
  <2> QED
    BY <2>1, ElementOfSeq
<1>1. n \in Nat /\ DOMAIN KeyOrder = 1..n /\ length \in Nat
  BY ProfileAssumption, LenProperties
<1>2. /\ writeObject(list, written) = <<"{">> \o upTo[n] \o <<"}">>
      /\ upTo[0] = <<>>
      /\ \A k \in 0..n : k < n => upTo[k + 1] = Row(list, written, k + 1, upTo[k])
  BY RowsAre
<1>3. line \in Seq(Token) /\ Len(line) >= length
  <2> DEFINE start == <<SpellingOf(name), ":">>
  <2>1. start \in Seq(Token) /\ Len(start) = 2
    <3>1. SpellingOf(name) \in Token /\ ":" \in Token
      BY SpeltTyped DEF Token, Punctuation
    <3>2. \A one, other \in Token : <<one, other>> \in Seq(Token) /\ Len(<<one, other>>) = 2
      OBVIOUS
    <3> QED
      BY <3>1, <3>2, Zenon
  <2> HIDE DEF start
  <2>2. start \o part \in Seq(Token) /\ Len(start \o part) = Len(start) + length
    BY <2>1, Lengths
  <2>3. Len(start \o part) >= length
    BY <1>1, <2>1, <2>2
  <2> QED
    BY <2>2, <2>3 DEF start, Line
<1>4. \A k, before : Row(list, written, k, before) = IF KeyOrder[k] = name THEN Listed(before, line)
                                                     ELSE Row(list, written, k, before)
  BY DEF Row, Line
<1>5. \A k \in 1..n : \A before \in Seq(Token) : Row(list, written, k, before) \in Seq(Token)
  BY RowTyped
<1>6. \A k \in 1..n : \A before \in Seq(Token) : Len(Row(list, written, k, before)) >= Len(before)
  <2> SUFFICES ASSUME NEW k \in 1..n, NEW before \in Seq(Token)
               PROVE  Len(Row(list, written, k, before)) >= Len(before)
    OBVIOUS
  <2> DEFINE key == KeyOrder[k]
             row == Line(list, written, key)
  <2>1. CASE key \notin KeysOf(list)
    <3>1. Row(list, written, k, before) = before /\ Len(before) \in Nat
      BY <2>1, LenProperties DEF Row
    <3> QED
      BY <3>1
  <2>2. CASE key \in KeysOf(list)
    <3>1. Row(list, written, k, before) = Listed(before, row)
      BY <2>2 DEF Row, Line
    <3>2. row \in Seq(Token)
      <4>1. key \in Names
        BY <1>0
      <4> QED
        BY <2>2, <4>1, LineTyped
    <3> HIDE DEF row
    <3> QED
      BY <3>1, <3>2, ListedLong
  <2> QED
    BY <2>1, <2>2
<1> HIDE DEF n, upTo, line, length
<1>7. 0 \in good
  <2>1. 0 \in Nat /\ ~met(0) /\ <<>> \in Seq(Token)
    OBVIOUS
  <2> QED
    BY <1>2, <2>1
<1>8. ASSUME NEW k \in 0..n, k \in good, k < n
      PROVE  k + 1 \in good
  <2>1. k + 1 \in Nat /\ k + 1 \in 1..n /\ \A j \in 1..k + 1 : j \in 1..k \/ j = k + 1
    BY <1>1, <1>8
  <2>2. upTo[k] \in Seq(Token) /\ upTo[k + 1] = Row(list, written, k + 1, upTo[k])
    BY <1>2, <1>8
  <2>3. upTo[k + 1] \in Seq(Token) /\ Len(upTo[k + 1]) >= Len(upTo[k])
    BY <1>5, <1>6, <2>1, <2>2
  <2>4. Len(upTo[k]) \in Nat /\ Len(upTo[k + 1]) \in Nat
    BY <2>2, <2>3, LenProperties
  <2>5. CASE KeyOrder[k + 1] = name
    <3>1. upTo[k + 1] = Listed(upTo[k], line)
      BY <1>4, <2>2, <2>5
    <3>2. Len(upTo[k + 1]) >= Len(line) /\ Len(line) \in Nat
      BY <1>3, <2>2, <3>1, ListedLong, LenProperties
    <3>3. Len(upTo[k + 1]) >= length
      BY <1>1, <1>3, <2>4, <3>2
    <3> QED
      BY <2>1, <2>3, <3>3
  <2>6. CASE KeyOrder[k + 1] # name
    <3>1. met(k + 1) => met(k)
      BY <2>1, <2>6
    <3>2. met(k) => Len(upTo[k]) >= length
      BY <1>8
    <3>3. met(k + 1) => Len(upTo[k + 1]) >= length
      BY <1>1, <2>3, <2>4, <3>1, <3>2
    <3> QED
      BY <2>1, <2>3, <3>3
  <2> QED
    BY <2>5, <2>6
<1>9. n \in good
  <2>1. n \in 0..n
    BY <1>1
  <2> HIDE DEF good
  <2> QED
    BY <1>1, <1>7, <1>8, <2>1, Counting
<1>10. met(n)
  BY <1>1, ProfileAssumption DEF Names
<1>11. Len(writeObject(list, written)) = Len(upTo[n]) + 2
  <2>1. upTo[n] \in Seq(Token) /\ <<"{">> \in Seq(Token) /\ <<"}">> \in Seq(Token)
    BY <1>9, Separators
  <2>2. Len(<<"{">> \o upTo[n] \o <<"}">>) = Len(upTo[n]) + 2
    BY <2>1, Around, Zenon
  <2> QED
    BY <1>2, <2>2, Zenon
<1>12. Len(upTo[n]) \in Nat /\ Len(upTo[n]) >= length
  BY <1>9, <1>10, LenProperties
<1> QED
  BY <1>1, <1>11, <1>12 DEF length

LEMMA Appended ==
  ASSUME NEW S, NEW one \in S, NEW other \in S
  PROVE  /\ Append(<<one>>, other) \in Seq(S) /\ DOMAIN Append(<<one>>, other) = 1..2
         /\ Append(<<one>>, other)[1] = one /\ Append(<<one>>, other)[2] = other
OBVIOUS

LEMMA LongWritten ==
  /\ canonicalize(LongTemplate) \in Seq(Token)
  /\ Len(canonicalize(LongTemplate)) > MAX_TEMPLATE_EXTENSION_BYTES
<1> DEFINE values == Value[MAX_NESTING_DEPTH]
           written == Write[MAX_NESTING_DEPTH]
           first == [key |-> "id", value |-> String("agent")]
           extra == [key |-> "agent", value |-> Oversized]
           list == Append(<<first>>, extra)
<1>1. LongTemplate = Object(list)
  <2>1. spawn.template = Object(<<first>>)
    BY DEF spawn, Template
  <2>2. Object(<<first>>).members = <<first>>
    BY DEF Object
  <2> HIDE DEF first
  <2> QED
    BY <2>1, <2>2 DEF LongTemplate
<1>2. first \in Member(values) /\ extra \in Member(values)
  BY Templates, StringTyped, OversizedTyped, MemberTyped
<1>3. list \in Seq(Member(values)) /\ DOMAIN list = 1..2 /\ list[1] = first /\ list[2] = extra
  <2> HIDE DEF first, extra, values
  <2> QED
    BY <1>2, Appended
<1>4. "agent" \in KeysOf(list) /\ ValueFor(list, "agent") = Oversized
  <2>1. first.key = "id" /\ extra.key = "agent" /\ extra.value = Oversized
    OBVIOUS
  <2>2. 1 \in 1..2 /\ 2 \in 1..2 /\ \A i \in 1..2 : i = 1 \/ i = 2
    OBVIOUS
  <2> HIDE DEF list, first, extra
  <2>3. \A i \in DOMAIN list : list[i].key = "agent" <=> i = 2
    BY <1>3, <2>1, <2>2
  <2> QED
    BY <1>3, <2>1, <2>2, <2>3 DEF KeysOf, ValueFor
<1> HIDE DEF list, values, written
<1>5. \A v \in values : written[v] \in Seq(Token)
  <2>1. MAX_NESTING_DEPTH \in 0..MAX_NESTING_DEPTH + 1
    BY ReaderAssumption
  <2> QED
    BY <2>1, WritesTyped DEF values, written
<1>6. LongTemplate \in Value[MAX_NESTING_DEPTH + 1]
  BY Templates
<1>7. canonicalize(LongTemplate) = writeObject(list, written)
  BY <1>1, <1>6, CanonicalObject DEF written
<1>8. canonicalize(LongTemplate) \in Seq(Token)
  BY <1>6, CanonicalTyped
<1>9. written[Oversized] \in Seq(Token) /\ Len(written[Oversized]) > MAX_TEMPLATE_EXTENSION_BYTES
  BY OversizedLong DEF written
<1>10. Len(writeObject(list, written)) >= Len(written[Oversized])
  <2> DEFINE name == "agent"
  <2>1. name \in Names
    BY Templates
  <2>2. name \in KeysOf(list) /\ ValueFor(list, name) = Oversized
    BY <1>4
  <2> HIDE DEF name
  <2> QED
    BY <1>3, <1>5, <1>9, <2>1, <2>2, MemberLong
<1> DEFINE all == Len(canonicalize(LongTemplate))
           part == Len(written[Oversized])
<1>11. all \in Nat /\ part \in Nat /\ all >= part /\ part > MAX_TEMPLATE_EXTENSION_BYTES
  BY <1>7, <1>8, <1>9, <1>10, LenProperties
<1> HIDE DEF all, part
<1>12. all > MAX_TEMPLATE_EXTENSION_BYTES
  BY <1>11, ProfileAssumption
<1> QED
  BY <1>8, <1>12 DEF all

LEMMA TemplateTooLong ==
  ASSUME NEW c, Bears(c, LongTemplate, TRUE)
  PROVE  parseTemplateExtension(c) = "ERR_EXTENSION_TOO_LARGE"
<1> DEFINE content == canonicalize(LongTemplate)
           decoded == decodeAnyEncoding(content)
<1>1. decoded.code = "ERR_EXTENSION_TOO_LARGE"
  BY LongWritten, AnyDecoded
<1>2. parseTemplateExtension(c) = assertTemplate(decodeJcsExtension(content), c.cn)
  BY ExtensionIs
<1> HIDE DEF content, decoded
<1>3. decodeJcsExtension(content) = decoded
  BY <1>1 DEF decodeJcsExtension, canonicalOnly, decoded
<1> QED
  BY <1>1, <1>2, <1>3 DEF assertTemplate


-----------------------------------------------------------------------------
(***************************************************************************)
(* The octets of a serial that count.                                      *)
(***************************************************************************)

\* A serial has as many significant octets as those drawn for it.
LEMMA SignificantKept ==
  ASSUME NEW octets \in Seq(Byte), Len(octets) >= 1
  PROVE  Len(significant(serialNumber(octets))) = Len(significant(octets))
<1> DEFINE rest == significant(octets)
           serial == serialNumber(octets)
           left == significant(serial)
<1>1. rest \in Seq(Byte) /\ Len(rest) >= 1 /\ (Len(rest) = 1 \/ rest[1] # 0)
  BY SignificantIs
<1>2. serial \in Seq(Byte) /\ Len(serial) >= 1
  <2>1. serial \in Seq(Byte) /\ Len(serial) \in 1..Len(octets) + 1 /\ Len(octets) \in Nat
    BY SerialIs, LenProperties
  <2> QED
    BY <2>1
<1>3. Head(rest) = rest[1] /\ rest[1] \in Byte
  <2>1. 1 \in 1..Len(rest)
    BY <1>1, LenProperties
  <2> QED
    BY <1>1, <2>1, ElementOfSeq
<1>4. \/ serial = rest
      \/ serial = <<0>> \o rest /\ rest[1] >= 128
  BY <1>3 DEF serialNumber, TopBit
<1>5. \E zeros \in Nat :
        /\ Len(serial) = zeros + Len(left) /\ Len(left) >= 1
        /\ \A k \in 1..zeros : serial[k] = 0
        /\ \A k \in 1..Len(left) : serial[zeros + k] = left[k]
        /\ Len(left) = 1 \/ left[1] # 0
  BY <1>2, SignificantIs
<1>6. left \in Seq(Byte)
  BY <1>2, SignificantIs
<1> SUFFICES Len(left) = Len(rest)
  OBVIOUS
<1> HIDE DEF rest, serial, left
<1>7. PICK zeros \in Nat :
        /\ Len(serial) = zeros + Len(left) /\ Len(left) >= 1
        /\ \A k \in 1..zeros : serial[k] = 0
        /\ \A k \in 1..Len(left) : serial[zeros + k] = left[k]
        /\ Len(left) = 1 \/ left[1] # 0
  BY <1>5
<1>8. Len(rest) \in Nat /\ Len(left) \in Nat /\ 1 \in 1..Len(left)
  <2>1. Len(rest) \in Nat /\ Len(left) \in Nat
    BY <1>1, <1>6, LenProperties
  <2> QED
    BY <1>7, <2>1
<1>9. CASE serial = rest
  <2>1. CASE Len(rest) = 1
    <3>1. 1 = zeros + Len(left) /\ Len(left) >= 1
      BY <1>7, <1>9, <2>1
    <3>2. Len(left) = 1
      <4>1. \A a, b \in Nat : 1 = a + b /\ b >= 1 => b = 1
        OBVIOUS
      <4> QED
        BY <1>8, <3>1, <4>1
    <3> QED
      BY <2>1, <3>2
  <2>2. CASE rest[1] # 0
    <3>1. 1 \notin 1..zeros
      BY <1>7, <1>9, <2>2
    <3>2. zeros = 0
      BY <3>1
    <3> QED
      BY <1>7, <1>8, <1>9, <3>2
  <2> QED
    BY <1>1, <2>1, <2>2
<1>10. CASE serial = <<0>> \o rest /\ rest[1] >= 128
  <2> DEFINE zero == <<0>>
  <2>1. zero \in Seq(Byte) /\ Len(zero) = 1 /\ zero[1] = 0
    BY DEF Byte
  <2>2. Joins(zero, rest, zero \o rest)
    BY <1>1, <2>1, ConcatAt
  <2> HIDE DEF zero
  <2>3. Joins(zero, rest, serial)
    BY <1>10, <2>2 DEF zero
  <2>4. Len(serial) = 1 + Len(rest) /\ serial[1] = 0 /\ serial[2] = rest[1]
    BY <1>1, <1>8, <2>1, <2>3 DEF Joins
  <2>5. zeros # 0
    <3>1. zeros = 0 => left[1] = serial[1]
      BY <1>7, <1>8
    <3>2. zeros = 0 => Len(left) = 1
      BY <1>7, <2>4, <3>1
    <3> QED
      BY <1>1, <1>7, <1>8, <2>4, <3>2
  <2>6. 2 \notin 1..zeros
    <3>1. rest[1] # 0
      <4>1. \A octet \in 0..255 : octet >= 128 => octet # 0
        OBVIOUS
      <4> QED
        BY <1>3, <1>10, <4>1 DEF Byte, rest
    <3> QED
      BY <1>7, <2>4, <3>1
  <2>7. zeros = 1
    BY <2>5, <2>6
  <2> QED
    BY <1>7, <1>8, <2>4, <2>7
<1> QED
  BY <1>4, <1>9, <1>10

\* The octets begin with so many zeros that what is left is too short.
TooShort(octets) == \A i \in 1..Len(octets) - MIN_SERIAL_OCTETS + 1 : octets[i] = 0

LEMMA ShortIs ==
  ASSUME NEW octets \in Seq(Byte), Len(octets) >= 1
  PROVE  TooShort(octets) <=> ~(Len(significant(octets)) >= MIN_SERIAL_OCTETS)
<1> DEFINE rest == significant(octets)
           n == Len(octets)
           min == MIN_SERIAL_OCTETS
<1>1. /\ rest \in Seq(Byte)
      /\ \E zeros \in Nat :
              /\ Len(octets) = zeros + Len(rest) /\ Len(rest) >= 1
              /\ \A k \in 1..zeros : octets[k] = 0
              /\ \A k \in 1..Len(rest) : octets[zeros + k] = rest[k]
              /\ Len(rest) = 1 \/ rest[1] # 0
  BY SignificantIs
<1> HIDE DEF rest
<1>2. PICK zeros \in Nat :
        /\ n = zeros + Len(rest) /\ Len(rest) >= 1
        /\ \A k \in 1..zeros : octets[k] = 0
        /\ \A k \in 1..Len(rest) : octets[zeros + k] = rest[k]
        /\ Len(rest) = 1 \/ rest[1] # 0
  BY <1>1
<1>3. n \in Nat /\ Len(rest) \in Nat /\ min \in Nat /\ min >= 2
  BY <1>1, Bounds, InputsAssumption, LenProperties
<1> DEFINE length == Len(rest)
<1> HIDE DEF n, min, length
<1>4. CASE ~(length >= min)
  <2>1. \A i \in 1..n - min + 1 : i \in 1..zeros
    BY <1>2, <1>3, <1>4 DEF length
  <2> QED
    BY <1>2, <1>4, <2>1 DEF TooShort, n, min, length, rest
<1>5. CASE length >= min
  <2>1. /\ zeros + 1 \in 1..n - min + 1 /\ 1 \in 1..length /\ length # 1
    BY <1>2, <1>3, <1>5 DEF length
  <2>2. octets[zeros + 1] = rest[1] /\ rest[1] # 0
    BY <1>2, <2>1 DEF length
  <2>3. ~\A i \in 1..n - min + 1 : octets[i] = 0
    BY <2>1, <2>2
  <2> QED
    BY <1>5, <2>3 DEF TooShort, n, min, length, rest
<1> QED
  BY <1>4, <1>5

LEMMA EntropyIs ==
  ASSUME NEW octets \in Seq(Byte), Len(octets) >= 1
  PROVE  assertSerialEntropy(serialNumber(octets)) =
           IF TooShort(octets) THEN "ERR_SERIAL_ENTROPY" ELSE "SOUND"
<1> DEFINE serial == serialNumber(octets)
           enough == Len(significant(serial)) >= MIN_SERIAL_OCTETS
<1>1. serial # <<>>
  <2>1. Len(serial) \in 1..Len(octets) + 1
    BY SerialIs
  <2>2. Len(serial) # 0
    BY <2>1
  <2> QED
    BY <2>2
<1>2. enough <=> ~TooShort(octets)
  BY SignificantKept, ShortIs
<1>3. assertSerialEntropy(serial) = Require(serial # <<>> /\ enough, "ERR_SERIAL_ENTROPY")
  BY Zenon DEF assertSerialEntropy
<1> HIDE DEF serial, enough
<1> QED
  BY <1>1, <1>2, <1>3, Zenon DEF Require, serial

\* The serial of zeros only.
LEMMA ZerosRefused ==
  assertSerialEncoding([i \in 1..MAX_SERIAL_OCTETS |-> 0]) = "ERR_SERIAL_ENCODING"
<1> DEFINE n == MAX_SERIAL_OCTETS
           zeros == [i \in 1..n |-> 0]
<1>1. n \in Nat /\ n > 1 /\ 1 \in 1..n /\ 2 \in 1..n
  BY Bounds, InputsAssumption
<1> HIDE DEF n
<1>2. Len(zeros) = n /\ zeros[1] = 0 /\ zeros[2] = 0
  BY <1>1
<1> HIDE DEF zeros
<1>3. Len(zeros) > 1 /\ zeros[1] = 0 /\ ~TopBit(zeros[2])
  BY <1>1, <1>2 DEF TopBit
<1> DEFINE fine == /\ zeros # <<>> /\ Len(zeros) <= MAX_SERIAL_OCTETS
                   /\ ~TopBit(zeros[1])
                   /\ (Len(zeros) > 1 /\ zeros[1] = 0) => TopBit(zeros[2])
<1>4. ~fine
  BY <1>3
<1>5. assertSerialEncoding(zeros) = Require(fine, "ERR_SERIAL_ENCODING")
  BY Zenon DEF assertSerialEncoding
<1> HIDE DEF fine
<1> QED
  BY <1>4, <1>5, Zenon DEF Require, zeros, n


-----------------------------------------------------------------------------
(***************************************************************************)
(* The flaw of each certificate.                                           *)
(***************************************************************************)

\* The flaw is what FlawOf names, and there is no other.
OnlyFlaw(o, flaw) ==
  /\ o.issuer # spawn.issuer <=> flaw = "ERR_FORGED_ISSUER"
  /\ o.notBefore # now <=> flaw = "ERR_CERT_EXPIRED"
  /\ (o.notBefore = now /\ o.notAfter # spawn.notAfter) <=> flaw = "ERR_VALIDITY_EXCEEDS_TTL"
  /\ o.keyUsageBits # None <=> flaw = "ERR_KEY_USAGE"
  /\ ~o.revocationSource <=> flaw = "ERR_NO_REVOCATION_SOURCE"
  /\ ~o.criticalExtensions <=> flaw = "ERR_TEMPLATE_EXT_INVALID"
  /\ o.serialBytes < MIN_SERIAL_OCTETS <=> flaw = "ERR_SERIAL_ENTROPY"
  /\ o.serialOctets # None <=> flaw = "ERR_SERIAL_ENCODING"
  /\ o.template # spawn.template <=> flaw = "ERR_EXTENSION_TOO_LARGE"

LEMMA FlawIs ==
  ASSUME NEW o, NEW flaw, OnlyFlaw(o, flaw),
         flaw \in {"ERR_FORGED_ISSUER", "ERR_CERT_EXPIRED", "ERR_VALIDITY_EXCEEDS_TTL", "ERR_KEY_USAGE",
                   "ERR_NO_REVOCATION_SOURCE", "ERR_TEMPLATE_EXT_INVALID", "ERR_SERIAL_ENTROPY",
                   "ERR_SERIAL_ENCODING", "ERR_EXTENSION_TOO_LARGE", "SOUND"}
  PROVE  FlawOf(o) = flaw
<1> DEFINE g1 == o.issuer # spawn.issuer
           g2 == o.notBefore # now
           g3 == o.notBefore = now /\ o.notAfter # spawn.notAfter
           g4 == o.keyUsageBits # None
           g5 == ~o.revocationSource
           g6 == ~o.criticalExtensions
           g7 == o.serialBytes < MIN_SERIAL_OCTETS
           g8 == o.serialOctets # None
           g9 == o.template # spawn.template
<1>1. FlawOf(o) = CASE g1 -> "ERR_FORGED_ISSUER"
                    [] g2 -> "ERR_CERT_EXPIRED"
                    [] g3 -> "ERR_VALIDITY_EXCEEDS_TTL"
                    [] g4 -> "ERR_KEY_USAGE"
                    [] g5 -> "ERR_NO_REVOCATION_SOURCE"
                    [] g6 -> "ERR_TEMPLATE_EXT_INVALID"
                    [] g7 -> "ERR_SERIAL_ENTROPY"
                    [] g8 -> "ERR_SERIAL_ENCODING"
                    [] g9 -> "ERR_EXTENSION_TOO_LARGE"
                    [] OTHER -> "SOUND"
  BY Zenon DEF FlawOf
<1>2. /\ g1 <=> flaw = "ERR_FORGED_ISSUER"
      /\ g2 <=> flaw = "ERR_CERT_EXPIRED"
      /\ g3 <=> flaw = "ERR_VALIDITY_EXCEEDS_TTL"
      /\ g4 <=> flaw = "ERR_KEY_USAGE"
      /\ g5 <=> flaw = "ERR_NO_REVOCATION_SOURCE"
      /\ g6 <=> flaw = "ERR_TEMPLATE_EXT_INVALID"
      /\ g7 <=> flaw = "ERR_SERIAL_ENTROPY"
      /\ g8 <=> flaw = "ERR_SERIAL_ENCODING"
      /\ g9 <=> flaw = "ERR_EXTENSION_TOO_LARGE"
  BY Zenon DEF OnlyFlaw
<1> HIDE DEF g1, g2, g3, g4, g5, g6, g7, g8, g9
<1>3. CASE flaw = "ERR_FORGED_ISSUER"
  <2>1. g1 /\ ~g2 /\ ~g3 /\ ~g4 /\ ~g5 /\ ~g6 /\ ~g7 /\ ~g8 /\ ~g9
    BY <1>2, <1>3
  <2> QED
    BY <1>1, <1>3, <2>1, Zenon
<1>4. CASE flaw = "ERR_CERT_EXPIRED"
  <2>1. ~g1 /\ g2 /\ ~g3 /\ ~g4 /\ ~g5 /\ ~g6 /\ ~g7 /\ ~g8 /\ ~g9
    BY <1>2, <1>4
  <2> QED
    BY <1>1, <1>4, <2>1, Zenon
<1>5. CASE flaw = "ERR_VALIDITY_EXCEEDS_TTL"
  <2>1. ~g1 /\ ~g2 /\ g3 /\ ~g4 /\ ~g5 /\ ~g6 /\ ~g7 /\ ~g8 /\ ~g9
    BY <1>2, <1>5
  <2> QED
    BY <1>1, <1>5, <2>1, Zenon
<1>6. CASE flaw = "ERR_KEY_USAGE"
  <2>1. ~g1 /\ ~g2 /\ ~g3 /\ g4 /\ ~g5 /\ ~g6 /\ ~g7 /\ ~g8 /\ ~g9
    BY <1>2, <1>6
  <2> QED
    BY <1>1, <1>6, <2>1, Zenon
<1>7. CASE flaw = "ERR_NO_REVOCATION_SOURCE"
  <2>1. ~g1 /\ ~g2 /\ ~g3 /\ ~g4 /\ g5 /\ ~g6 /\ ~g7 /\ ~g8 /\ ~g9
    BY <1>2, <1>7
  <2> QED
    BY <1>1, <1>7, <2>1, Zenon
<1>8. CASE flaw = "ERR_TEMPLATE_EXT_INVALID"
  <2>1. ~g1 /\ ~g2 /\ ~g3 /\ ~g4 /\ ~g5 /\ g6 /\ ~g7 /\ ~g8 /\ ~g9
    BY <1>2, <1>8
  <2> QED
    BY <1>1, <1>8, <2>1, Zenon
<1>9. CASE flaw = "ERR_SERIAL_ENTROPY"
  <2>1. ~g1 /\ ~g2 /\ ~g3 /\ ~g4 /\ ~g5 /\ ~g6 /\ g7 /\ ~g8 /\ ~g9
    BY <1>2, <1>9
  <2> QED
    BY <1>1, <1>9, <2>1, Zenon
<1>10. CASE flaw = "ERR_SERIAL_ENCODING"
  <2>1. ~g1 /\ ~g2 /\ ~g3 /\ ~g4 /\ ~g5 /\ ~g6 /\ ~g7 /\ g8 /\ ~g9
    BY <1>2, <1>10
  <2> QED
    BY <1>1, <1>10, <2>1, Zenon
<1>11. CASE flaw = "ERR_EXTENSION_TOO_LARGE"
  <2>1. ~g1 /\ ~g2 /\ ~g3 /\ ~g4 /\ ~g5 /\ ~g6 /\ ~g7 /\ ~g8 /\ g9
    BY <1>2, <1>11
  <2> QED
    BY <1>1, <1>11, <2>1, Zenon
<1>12. CASE flaw = "SOUND"
  <2>1. ~g1 /\ ~g2 /\ ~g3 /\ ~g4 /\ ~g5 /\ ~g6 /\ ~g7 /\ ~g8 /\ ~g9
    BY <1>2, <1>12
  <2> QED
    BY <1>1, <1>12, <2>1, Zenon
<1> QED
  BY <1>3, <1>4, <1>5, <1>6, <1>7, <1>8, <1>9, <1>10, <1>11, <1>12

\* Options for a certificate of the agent, from the anchor or a rogue.
Ordinary(o) ==
  /\ o.commonName = "agent" /\ o.isCa = FALSE
  /\ o.criticalExtensions \in BOOLEAN /\ o.revocationSource \in BOOLEAN
  /\ \/ o.issuer.commonName = Anchor /\ o.issuer.privateKey = "anchor"
     \/ o.issuer.commonName = "another" /\ o.issuer.privateKey = "rogue"

LEMMA IssuedIs ==
  ASSUME NEW o, NEW drawn, Ordinary(o), NEW c, c = issueCertificate(o, drawn)
  PROVE  /\ ~c.unknownCritical /\ c.cn = "agent" /\ c.strongSignature /\ c.role = "agent"
         /\ c.genuine /\ c.permitted /\ c.strongKey
         /\ c.issuer = o.issuer.commonName /\ c.signer = o.issuer.privateKey
         /\ c.usage = IF o.keyUsageBits # None THEN o.keyUsageBits ELSE {"digitalSignature"}
         /\ c.serial = IF o.serialOctets # None THEN o.serialOctets ELSE serialNumber(drawn)
         /\ c.notBefore = o.notBefore /\ c.notAfter = o.notAfter
         /\ c.revocationSource = o.revocationSource
         /\ Bears(c, o.template, o.criticalExtensions)
<1> DEFINE usage == CASE o.keyUsageBits # None -> o.keyUsageBits
                      [] o.keyUsageBits = None /\ o.isCa -> {"keyCertSign", "cRLSign"}
                      [] OTHER -> {"digitalSignature"}
           serial == IF o.serialOctets # None THEN o.serialOctets ELSE serialNumber(drawn)
           role == IF o.isCa THEN "CA" ELSE "agent"
           source == o.revocationSource /\ ~o.isCa
           templates == <<jcsExtension(o.template, o.criticalExtensions)>>
<1>1. o.isCa = FALSE /\ o.commonName = "agent" /\ o.revocationSource \in BOOLEAN
  BY DEF Ordinary
<1>2. usage = IF o.keyUsageBits # None THEN o.keyUsageBits ELSE {"digitalSignature"}
  <2>1. CASE o.keyUsageBits # None
    BY <2>1, Zenon
  <2>2. CASE o.keyUsageBits = None
    BY <1>1, <2>2, Zenon
  <2> QED
    BY <2>1, <2>2
<1>3. role = "agent" /\ source = o.revocationSource
  BY <1>1
<1>4. c = [unknownCritical |-> FALSE, cn |-> o.commonName, issuer |-> o.issuer.commonName,
           strongSignature |-> TRUE, role |-> role, usage |-> usage, serial |-> serial,
           signer |-> o.issuer.privateKey, genuine |-> TRUE, permitted |-> TRUE,
           notBefore |-> o.notBefore, notAfter |-> o.notAfter,
           strongKey |-> TRUE, revocationSource |-> source, templates |-> templates]
  BY Zenon DEF issueCertificate
<1> HIDE DEF usage, serial, role, source, templates
<1>5. /\ c.unknownCritical = FALSE /\ c.cn = o.commonName /\ c.strongSignature = TRUE /\ c.role = role
      /\ c.genuine = TRUE /\ c.permitted = TRUE /\ c.strongKey = TRUE
      /\ c.issuer = o.issuer.commonName /\ c.signer = o.issuer.privateKey
      /\ c.usage = usage /\ c.serial = serial
      /\ c.notBefore = o.notBefore /\ c.notAfter = o.notAfter
      /\ c.revocationSource = source /\ c.templates = templates
  BY <1>4
<1>6. Bears(c, o.template, o.criticalExtensions)
  BY <1>5 DEF Bears, templates
<1>7. c.serial = IF o.serialOctets # None THEN o.serialOctets ELSE serialNumber(drawn)
  BY <1>5 DEF serial
<1>8. c.usage = IF o.keyUsageBits # None THEN o.keyUsageBits ELSE {"digitalSignature"}
  BY <1>2, <1>5, Zenon
<1> HIDE DEF Ordinary, Bears
<1>9. ~c.unknownCritical /\ c.strongSignature /\ c.genuine /\ c.permitted /\ c.strongKey
  BY <1>5
<1>10. c.cn = "agent" /\ c.role = "agent" /\ c.revocationSource = o.revocationSource
  BY <1>1, <1>3, <1>5
<1> QED
  BY <1>5, <1>6, <1>7, <1>8, <1>9, <1>10, Zenon

LEMMA Verdict ==
  ASSUME NEW o, NEW drawn, Ordinary(o), NEW c, c = issueCertificate(o, drawn)
  PROVE  /\ (o.keyUsageBits # None /\ o.keyUsageBits # {"digitalSignature"}) =>
              validateCertificate(c, "agent") = "ERR_KEY_USAGE"
         /\ (o.keyUsageBits = None /\ assertSerialEncoding(c.serial) # "SOUND") =>
              validateCertificate(c, "agent") = "ERR_SERIAL_ENCODING"
         /\ (o.keyUsageBits = None /\ assertSerialEncoding(c.serial) = "SOUND") =>
              /\ assertSerialEntropy(c.serial) # "SOUND" =>
                   validateCertificate(c, "agent") = assertSerialEntropy(c.serial)
              /\ assertSerialEntropy(c.serial) = "SOUND" =>
                   validateCertificate(c, "agent") =
                     IF o.issuer.privateKey = "rogue" THEN "ERR_FORGED_ISSUER" ELSE ContentRefusal(c)
<1> DEFINE structure == StructureRefusal(c, "agent")
           signature == SignatureRefusal(c)
           content == ContentRefusal(c)
           answer == FirstOf(<<structure, signature, content>>)
<1>1. validateCertificate(c, "agent") = answer
  BY Zenon DEF validateCertificate
<1>2. \/ structure # "SOUND" /\ answer = structure
      \/ structure = "SOUND" /\ signature # "SOUND" /\ answer = signature
      \/ structure = "SOUND" /\ signature = "SOUND" /\ answer = content
  <2> HIDE DEF structure, signature, content
  <2> QED
    BY FirstOfThree
<1>3. /\ ~c.unknownCritical /\ c.cn = "agent" /\ c.strongSignature /\ c.role = "agent"
      /\ c.genuine /\ c.issuer = o.issuer.commonName /\ c.signer = o.issuer.privateKey
      /\ c.usage = IF o.keyUsageBits # None THEN o.keyUsageBits ELSE {"digitalSignature"}
  BY IssuedIs
<1>4. None # "agent"
  BY OptionAssumption DEF Name, Uuid
<1>5. \/ o.issuer.commonName = Anchor /\ o.issuer.privateKey = "anchor"
      \/ o.issuer.commonName = "another" /\ o.issuer.privateKey = "rogue"
  BY DEF Ordinary
<1>6. c.issuer # "agent"
  BY <1>3, <1>5 DEF Anchor
<1>7. /\ c.usage # {"digitalSignature"} => structure = "ERR_KEY_USAGE"
      /\ (c.usage = {"digitalSignature"} /\ assertSerialEncoding(c.serial) # "SOUND") =>
           structure = "ERR_SERIAL_ENCODING"
      /\ (c.usage = {"digitalSignature"} /\ assertSerialEncoding(c.serial) = "SOUND") =>
           structure = assertSerialEntropy(c.serial)
  BY <1>3, <1>4, <1>6, StructureIs
<1>8. signature = IF o.issuer.privateKey = "rogue" THEN "ERR_FORGED_ISSUER" ELSE "SOUND"
  <2> DEFINE g1 == c.genuine /\ c.signer = "anchor"
             g2 == ~(c.genuine /\ c.signer = "anchor") /\ c.issuer # Anchor
  <2>1. signature = CASE g1 -> "SOUND" [] g2 -> "ERR_FORGED_ISSUER" [] OTHER -> "ERR_CHAIN_INVALID"
    BY Zenon DEF SignatureRefusal
  <2>2. o.issuer.privateKey = "rogue" => ~g1 /\ g2
    BY <1>3, <1>5 DEF Anchor
  <2>3. o.issuer.privateKey # "rogue" => g1 /\ ~g2
    BY <1>3, <1>5
  <2> HIDE DEF g1, g2, signature
  <2> QED
    BY <2>1, <2>2, <2>3, Zenon
<1>9. "ERR_KEY_USAGE" # "SOUND" /\ "ERR_SERIAL_ENCODING" # "SOUND" /\ "ERR_FORGED_ISSUER" # "SOUND"
  OBVIOUS
<1> HIDE DEF structure, signature, content, answer
<1>10. content = ContentRefusal(c)
  BY DEF content
<1> HIDE DEF Ordinary
<1> DEFINE sound == assertSerialEncoding(c.serial) = "SOUND"
           entropy == assertSerialEntropy(c.serial)
           rogue == o.issuer.privateKey = "rogue"
<1> HIDE DEF sound, entropy, rogue
<1>11. /\ c.usage # {"digitalSignature"} => structure = "ERR_KEY_USAGE"
       /\ c.usage = {"digitalSignature"} /\ ~sound => structure = "ERR_SERIAL_ENCODING"
       /\ c.usage = {"digitalSignature"} /\ sound => structure = entropy
       /\ signature = IF rogue THEN "ERR_FORGED_ISSUER" ELSE "SOUND"
  BY <1>7, <1>8, Zenon DEF sound, entropy, rogue
<1>12. /\ (o.keyUsageBits # None /\ o.keyUsageBits # {"digitalSignature"}) => answer = "ERR_KEY_USAGE"
       /\ (o.keyUsageBits = None /\ ~sound) => answer = "ERR_SERIAL_ENCODING"
       /\ (o.keyUsageBits = None /\ sound) =>
            /\ entropy # "SOUND" => answer = entropy
            /\ entropy = "SOUND" => answer = IF rogue THEN "ERR_FORGED_ISSUER" ELSE content
  BY <1>2, <1>3, <1>9, <1>11
<1> QED
  BY <1>1, <1>10, <1>12, Zenon DEF sound, entropy, rogue

\* What a certificate with the serial drawn is refused for.
LEMMA DrawnVerdict ==
  ASSUME NEW o, NEW drawn \in Seq(Byte), Ordinary(o), NEW c, c = issueCertificate(o, drawn),
         Len(drawn) \in 1..SERIAL_RANDOM_OCTETS, o.keyUsageBits = None, o.serialOctets = None
  PROVE  validateCertificate(c, "agent") =
           IF TooShort(drawn) THEN "ERR_SERIAL_ENTROPY"
           ELSE IF o.issuer.privateKey = "rogue" THEN "ERR_FORGED_ISSUER" ELSE ContentRefusal(c)
<1> DEFINE serial == serialNumber(drawn)
<1>1. c.serial = serial
  BY IssuedIs
<1>2. Len(drawn) >= 1 /\ Len(drawn) + 1 <= MAX_SERIAL_OCTETS /\ Len(drawn) \in Nat
  BY Bounds
<1>3. /\ Len(serial) \in 1..Len(drawn) + 1 /\ serial \in Seq(Byte) /\ serial[1] < 128
      /\ Len(serial) > 1 /\ serial[1] = 0 => serial[2] >= 128
  BY <1>2, SerialIs
<1>4. Len(serial) \in 1..MAX_SERIAL_OCTETS
  BY <1>2, <1>3, Bounds
<1>5. assertSerialEncoding(serial) = "SOUND"
  <2> HIDE DEF serial
  <2> QED
    BY <1>3, <1>4, SerialSound
<1>6. assertSerialEntropy(serial) = IF TooShort(drawn) THEN "ERR_SERIAL_ENTROPY" ELSE "SOUND"
  BY <1>2, EntropyIs
<1>7. "ERR_SERIAL_ENTROPY" # "SOUND"
  OBVIOUS
<1> HIDE DEF serial
<1>8. /\ assertSerialEntropy(serial) # "SOUND" =>
           validateCertificate(c, "agent") = assertSerialEntropy(serial)
      /\ assertSerialEntropy(serial) = "SOUND" =>
           validateCertificate(c, "agent") =
             IF o.issuer.privateKey = "rogue" THEN "ERR_FORGED_ISSUER" ELSE ContentRefusal(c)
  BY <1>1, <1>5, Verdict
<1> QED
  BY <1>6, <1>7, <1>8, Zenon

\* FlawsAreNamed, of a certificate just issued.
Named(o, drawn) ==
  validateCertificate(issueCertificate(o, drawn), "agent") =
    IF (o.serialOctets = None /\ TooShort(drawn)) /\ FlawOf(o) \notin {"ERR_KEY_USAGE", "ERR_SERIAL_ENCODING"}
    THEN "ERR_SERIAL_ENTROPY" ELSE FlawOf(o)

LEMMA DrawnNamed ==
  ASSUME NEW o, NEW drawn \in Seq(Byte), Ordinary(o),
         Len(drawn) \in 1..SERIAL_RANDOM_OCTETS, o.keyUsageBits = None, o.serialOctets = None,
         NEW flaw, OnlyFlaw(o, flaw),
         flaw \in {"ERR_FORGED_ISSUER", "ERR_CERT_EXPIRED", "ERR_VALIDITY_EXCEEDS_TTL",
                   "ERR_NO_REVOCATION_SOURCE", "ERR_TEMPLATE_EXT_INVALID", "ERR_SERIAL_ENTROPY",
                   "ERR_EXTENSION_TOO_LARGE", "SOUND"},
         ~TooShort(drawn) =>
           flaw = IF o.issuer.privateKey = "rogue" THEN "ERR_FORGED_ISSUER"
                  ELSE ContentRefusal(issueCertificate(o, drawn))
  PROVE  Named(o, drawn)
<1> DEFINE c == issueCertificate(o, drawn)
<1>1. FlawOf(o) = flaw
  BY FlawIs
<1>2. validateCertificate(c, "agent") =
        IF TooShort(drawn) THEN "ERR_SERIAL_ENTROPY"
        ELSE IF o.issuer.privateKey = "rogue" THEN "ERR_FORGED_ISSUER" ELSE ContentRefusal(c)
  BY DrawnVerdict
<1>3. FlawOf(o) \notin {"ERR_KEY_USAGE", "ERR_SERIAL_ENCODING"}
  BY <1>1
<1> QED
  BY <1>1, <1>2, <1>3, Zenon DEF Named

\* What the options of spawn and of the buttons are.
Fields(o, issuer, from, to, usage, bytes, octets, source, critical, template) ==
  /\ o.commonName = "agent" /\ o.isCa = FALSE /\ o.issuer = issuer
  /\ o.notBefore = from /\ o.notAfter = to /\ o.keyUsageBits = usage
  /\ o.serialBytes = bytes /\ o.serialOctets = octets
  /\ o.revocationSource = source /\ o.criticalExtensions = critical /\ o.template = template

LEMMA SpawnFields ==
  Fields(spawn, spawn.issuer, now, now + ttl_seconds, None, SERIAL_RANDOM_OCTETS, None,
         TRUE, TRUE, spawn.template)
BY Zenon DEF Fields, spawn

LEMMA OverrideFields ==
  ASSUME NEW x, NEW y, NEW until, until = now + ttl_seconds
  PROVE  /\ Fields([spawn EXCEPT !.issuer = x], x, now, until, None, SERIAL_RANDOM_OCTETS, None,
                   TRUE, TRUE, spawn.template)
         /\ Fields([spawn EXCEPT !.notBefore = x, !.notAfter = y], spawn.issuer, x, y, None,
                   SERIAL_RANDOM_OCTETS, None, TRUE, TRUE, spawn.template)
         /\ Fields([spawn EXCEPT !.keyUsageBits = x], spawn.issuer, now, until, x, SERIAL_RANDOM_OCTETS,
                   None, TRUE, TRUE, spawn.template)
         /\ Fields([spawn EXCEPT !.notAfter = x], spawn.issuer, now, x, None, SERIAL_RANDOM_OCTETS,
                   None, TRUE, TRUE, spawn.template)
         /\ Fields([spawn EXCEPT !.revocationSource = x], spawn.issuer, now, until, None,
                   SERIAL_RANDOM_OCTETS, None, x, TRUE, spawn.template)
         /\ Fields([spawn EXCEPT !.criticalExtensions = x], spawn.issuer, now, until, None,
                   SERIAL_RANDOM_OCTETS, None, TRUE, x, spawn.template)
         /\ Fields([spawn EXCEPT !.serialBytes = x], spawn.issuer, now, until, None, x, None,
                   TRUE, TRUE, spawn.template)
         /\ Fields([spawn EXCEPT !.serialOctets = x], spawn.issuer, now, until, None,
                   SERIAL_RANDOM_OCTETS, x, TRUE, TRUE, spawn.template)
         /\ Fields([spawn EXCEPT !.template = x], spawn.issuer, now, until, None, SERIAL_RANDOM_OCTETS,
                   None, TRUE, TRUE, x)
<1>1. /\ "issuer" \in DOMAIN spawn /\ "notBefore" \in DOMAIN spawn /\ "notAfter" \in DOMAIN spawn
      /\ "keyUsageBits" \in DOMAIN spawn /\ "revocationSource" \in DOMAIN spawn
      /\ "criticalExtensions" \in DOMAIN spawn /\ "serialBytes" \in DOMAIN spawn
      /\ "serialOctets" \in DOMAIN spawn /\ "template" \in DOMAIN spawn
      /\ "commonName" \in DOMAIN spawn /\ "isCa" \in DOMAIN spawn
  BY DEF spawn
<1>2. Fields(spawn, spawn.issuer, now, until, None, SERIAL_RANDOM_OCTETS, None, TRUE, TRUE, spawn.template)
  BY SpawnFields
<1> QED
  BY <1>1, <1>2 DEF Fields

\* What the checks after the signature make of each of them.
LEMMA ContentFor ==
  ASSUME NEW o, NEW drawn, Ordinary(o), NEW c, c = issueCertificate(o, drawn)
  PROVE  /\ now \notin o.notBefore..o.notAfter => ContentRefusal(c) = "ERR_CERT_EXPIRED"
         /\ now \in o.notBefore..o.notAfter =>
              /\ ~o.revocationSource => ContentRefusal(c) = "ERR_NO_REVOCATION_SOURCE"
              /\ o.revocationSource =>
                   /\ ~o.criticalExtensions => ContentRefusal(c) = "ERR_TEMPLATE_EXT_INVALID"
                   /\ (o.criticalExtensions /\ o.template = LongTemplate) =>
                        ContentRefusal(c) = "ERR_EXTENSION_TOO_LARGE"
                   /\ (o.criticalExtensions /\ o.template = spawn.template) =>
                        ContentRefusal(c) =
                          IF o.notAfter - o.notBefore <= ttl_seconds THEN "SOUND"
                          ELSE "ERR_VALIDITY_EXCEEDS_TTL"
<1> DEFINE from == o.notBefore
           to == o.notAfter
           source == o.revocationSource
           critical == o.criticalExtensions
           template == o.template
<1>1. source \in BOOLEAN /\ critical \in BOOLEAN
  BY DEF Ordinary
<1> HIDE DEF from, to, source, critical, template
<1>2. /\ c.permitted /\ c.strongKey /\ c.cn = "agent"
      /\ c.notBefore = from /\ c.notAfter = to /\ c.revocationSource = source
      /\ Bears(c, template, critical)
  BY IssuedIs DEF from, to, source, critical, template
<1>3. /\ now \notin from..to => ContentRefusal(c) = "ERR_CERT_EXPIRED"
      /\ now \in from..to =>
           /\ ~source => ContentRefusal(c) = "ERR_NO_REVOCATION_SOURCE"
           /\ source =>
                /\ parseTemplateExtension(c) # "SOUND" => ContentRefusal(c) = parseTemplateExtension(c)
                /\ parseTemplateExtension(c) = "SOUND" =>
                     ContentRefusal(c) = IF to - from <= ttl_seconds THEN "SOUND" ELSE "ERR_VALIDITY_EXCEEDS_TTL"
  <2>1. c.permitted /\ c.strongKey
    BY <1>2
  <2> QED
    BY <1>2, <2>1, ContentIs, Zenon
<1>4. ~critical => parseTemplateExtension(c) = "ERR_TEMPLATE_EXT_INVALID"
  BY <1>1, <1>2, ExtensionIs
<1>5. critical /\ template = LongTemplate => parseTemplateExtension(c) = "ERR_EXTENSION_TOO_LARGE"
  <2> SUFFICES ASSUME critical, template = LongTemplate
               PROVE  parseTemplateExtension(c) = "ERR_EXTENSION_TOO_LARGE"
    OBVIOUS
  <2>1. critical = TRUE
    BY <1>1
  <2>2. Bears(c, LongTemplate, TRUE)
    BY <1>2, <2>1
  <2> QED
    BY <2>2, TemplateTooLong
<1>6. critical /\ template = spawn.template => parseTemplateExtension(c) = "SOUND"
  <2> SUFFICES ASSUME critical, template = spawn.template
               PROVE  parseTemplateExtension(c) = "SOUND"
    OBVIOUS
  <2>1. critical = TRUE
    BY <1>1
  <2>2. Bears(c, spawn.template, TRUE)
    BY <1>2, <2>1
  <2> QED
    BY <1>2, <2>2, TemplateSound
<1>7. "ERR_TEMPLATE_EXT_INVALID" # "SOUND" /\ "ERR_EXTENSION_TOO_LARGE" # "SOUND"
  OBVIOUS
<1> QED
  BY <1>3, <1>4, <1>5, <1>6, <1>7, Zenon DEF from, to, source, critical, template

\* The instants and sizes of the options.
LEMMA Sizes ==
  /\ 0 # now /\ now \notin 0..ttl_seconds
  /\ now \in now..now + ttl_seconds /\ (now + ttl_seconds) - now <= ttl_seconds
  /\ now \in now..now + ttl_seconds + 1 /\ ~((now + ttl_seconds + 1) - now <= ttl_seconds)
  /\ now + ttl_seconds + 1 # now + ttl_seconds
  /\ ~(SERIAL_RANDOM_OCTETS < MIN_SERIAL_OCTETS) /\ ~(MAX_SERIAL_OCTETS < MIN_SERIAL_OCTETS)
  /\ MIN_SERIAL_OCTETS - 1 < MIN_SERIAL_OCTETS
BY InputsAssumption, ProfileAssumption

LEMMA Apart ==
  /\ LongTemplate # spawn.template
  /\ {"digitalSignature", "keyCertSign"} # None /\ {"digitalSignature", "keyCertSign"} # {"digitalSignature"}
  /\ [i \in 1..MAX_SERIAL_OCTETS |-> 0] # None
  /\ [commonName |-> "another", privateKey |-> "rogue"] # spawn.issuer
<1>1. LongTemplate # spawn.template
  <2>1. Len(canonicalize(spawn.template)) = 5
    BY BriefWritten, BriefIs
  <2>2. Len(canonicalize(LongTemplate)) > MAX_TEMPLATE_EXTENSION_BYTES
    BY LongWritten
  <2>3. ~(5 > MAX_TEMPLATE_EXTENSION_BYTES)
    BY InputsAssumption, ProfileAssumption
  <2> QED
    BY <2>1, <2>2, <2>3
<1>2. {"digitalSignature", "keyCertSign"} # None
  <2>1. {"digitalSignature", "keyCertSign"} \in SUBSET KEY_USAGE
    BY DEF KEY_USAGE
  <2> QED
    BY <2>1, OptionAssumption
<1>3. {"digitalSignature", "keyCertSign"} # {"digitalSignature"}
  OBVIOUS
<1>4. [i \in 1..MAX_SERIAL_OCTETS |-> 0] # None
  <2>1. [i \in 1..MAX_SERIAL_OCTETS |-> 0] \in [1..MAX_SERIAL_OCTETS -> {0}]
    OBVIOUS
  <2> QED
    BY <2>1, OptionAssumption
<1>5. [commonName |-> "another", privateKey |-> "rogue"] # spawn.issuer
  <2>1. [commonName |-> "another", privateKey |-> "rogue"].privateKey = "rogue"
    OBVIOUS
  <2>2. spawn.issuer.privateKey = "anchor"
    BY DEF spawn
  <2> QED
    BY <2>1, <2>2
<1> QED
  BY <1>1, <1>2, <1>3, <1>4, <1>5

\* Fewer octets than a serial must have are too few, whichever they are.
LEMMA FewDrawn ==
  ASSUME NEW drawn \in Draw(MIN_SERIAL_OCTETS - 1)
  PROVE  TooShort(drawn)
<1> DEFINE bytes == MIN_SERIAL_OCTETS - 1
<1>1. bytes \in Nat /\ bytes >= 1 /\ ~(bytes > SERIAL_RANDOM_OCTETS) /\ ~(bytes < 1)
  BY Bounds, InputsAssumption
<1>2. drawn \in [1..bytes -> Octet]
  BY <1>1 DEF Draw
<1>3. Len(drawn) = bytes
  BY <1>1, <1>2, SeqDef
<1>4. 1..Len(drawn) - MIN_SERIAL_OCTETS + 1 = {}
  <2>1. bytes - MIN_SERIAL_OCTETS + 1 = 0
    BY Bounds
  <2>2. 1..0 = {}
    OBVIOUS
  <2> QED
    BY <1>3, <2>1, <2>2
<1> QED
  BY <1>4 DEF TooShort

Rogue == [commonName |-> "another", privateKey |-> "rogue"]

LEMMA FieldsOrdinary ==
  ASSUME NEW o, NEW issuer \in {spawn.issuer, Rogue}, NEW from, NEW to, NEW usage, NEW bytes, NEW octets,
         NEW source \in BOOLEAN, NEW critical \in BOOLEAN, NEW template,
         Fields(o, issuer, from, to, usage, bytes, octets, source, critical, template)
  PROVE  Ordinary(o)
<1>1. /\ spawn.issuer.commonName = Anchor /\ spawn.issuer.privateKey = "anchor"
      /\ Rogue.commonName = "another" /\ Rogue.privateKey = "rogue"
  BY DEF spawn, Rogue
<1> QED
  BY <1>1, Zenon DEF Ordinary, Fields

\* Options of the anchor with the serial drawn.
LEMMA AnchorNamed ==
  ASSUME NEW o, NEW drawn \in Seq(Byte), Len(drawn) \in 1..SERIAL_RANDOM_OCTETS,
         NEW from, NEW to, NEW bytes, NEW source \in BOOLEAN, NEW critical \in BOOLEAN, NEW template,
         Fields(o, spawn.issuer, from, to, None, bytes, None, source, critical, template),
         NEW flaw, OnlyFlaw(o, flaw),
         flaw \in {"ERR_CERT_EXPIRED", "ERR_VALIDITY_EXCEEDS_TTL", "ERR_NO_REVOCATION_SOURCE",
                   "ERR_TEMPLATE_EXT_INVALID", "ERR_SERIAL_ENTROPY", "ERR_EXTENSION_TOO_LARGE", "SOUND"},
         TooShort(drawn) \/ ContentRefusal(issueCertificate(o, drawn)) = flaw
  PROVE  Named(o, drawn)
<1>1. Ordinary(o)
  BY FieldsOrdinary
<1>2. o.issuer.privateKey = "anchor" /\ o.keyUsageBits = None /\ o.serialOctets = None
  <2>1. spawn.issuer.privateKey = "anchor"
    BY DEF spawn
  <2> QED
    BY <2>1 DEF Fields
<1>3. ~TooShort(drawn) =>
        flaw = IF o.issuer.privateKey = "rogue" THEN "ERR_FORGED_ISSUER"
               ELSE ContentRefusal(issueCertificate(o, drawn))
  BY <1>2
<1>4. flaw \in {"ERR_FORGED_ISSUER", "ERR_CERT_EXPIRED", "ERR_VALIDITY_EXCEEDS_TTL",
                "ERR_NO_REVOCATION_SOURCE", "ERR_TEMPLATE_EXT_INVALID", "ERR_SERIAL_ENTROPY",
                "ERR_EXTENSION_TOO_LARGE", "SOUND"}
  OBVIOUS
<1> QED
  BY <1>1, <1>2, <1>3, <1>4, DrawnNamed

LEMMA EachNamed ==
  ASSUME NEW o \in issueRaw \cup {spawn}, NEW drawn \in Draw(o.serialBytes)
  PROVE  Named(o, drawn)
<1> DEFINE until == now + ttl_seconds
           template == spawn.template
           octets == SERIAL_RANDOM_OCTETS
           c == issueCertificate(o, drawn)
           zeros == [i \in 1..MAX_SERIAL_OCTETS |-> 0]
           both == {"digitalSignature", "keyCertSign"}
           later == now + ttl_seconds + 1
           Shown(issuer, from, to, usage, bytes, serial, source, critical, t) ==
             Fields(o, issuer, from, to, usage, bytes, serial, source, critical, t)
<1>1. drawn \in Seq(Byte) /\ Len(drawn) \in 1..SERIAL_RANDOM_OCTETS
  BY DrawnIs
<1>2. \/ o = spawn
      \/ o = [spawn EXCEPT !.issuer = Rogue]
      \/ o = [spawn EXCEPT !.notBefore = 0, !.notAfter = ttl_seconds]
      \/ o = [spawn EXCEPT !.keyUsageBits = both]
      \/ o = [spawn EXCEPT !.notAfter = later]
      \/ o = [spawn EXCEPT !.revocationSource = FALSE]
      \/ o = [spawn EXCEPT !.criticalExtensions = FALSE]
      \/ o = [spawn EXCEPT !.serialBytes = MAX_SERIAL_OCTETS]
      \/ o = [spawn EXCEPT !.serialBytes = MIN_SERIAL_OCTETS - 1]
      \/ o = [spawn EXCEPT !.serialOctets = zeros]
      \/ o = [spawn EXCEPT !.template = LongTemplate]
  <2>1. [spawn EXCEPT !.template =
           Object(Append(@.members, [key |-> "agent", value |-> Oversized]))]
          = [spawn EXCEPT !.template = LongTemplate]
    BY DEF LongTemplate
  <2> HIDE DEF LongTemplate
  <2> QED
    BY <2>1, Zenon DEF issueRaw, Rogue
<1>3. \/ Shown(spawn.issuer, now, until, None, octets, None, TRUE, TRUE, template)
      \/ Shown(Rogue, now, until, None, octets, None, TRUE, TRUE, template)
      \/ Shown(spawn.issuer, 0, ttl_seconds, None, octets, None, TRUE, TRUE, template)
      \/ Shown(spawn.issuer, now, until, both, octets, None, TRUE, TRUE, template)
      \/ Shown(spawn.issuer, now, later, None, octets, None, TRUE, TRUE, template)
      \/ Shown(spawn.issuer, now, until, None, octets, None, FALSE, TRUE, template)
      \/ Shown(spawn.issuer, now, until, None, octets, None, TRUE, FALSE, template)
      \/ Shown(spawn.issuer, now, until, None, MAX_SERIAL_OCTETS, None, TRUE, TRUE, template)
      \/ Shown(spawn.issuer, now, until, None, MIN_SERIAL_OCTETS - 1, None, TRUE, TRUE, template)
      \/ Shown(spawn.issuer, now, until, None, octets, zeros, TRUE, TRUE, template)
      \/ Shown(spawn.issuer, now, until, None, octets, None, TRUE, TRUE, LongTemplate)
  <2>1. until = now + ttl_seconds
    OBVIOUS
  <2>2. o = spawn => Shown(spawn.issuer, now, until, None, octets, None, TRUE, TRUE, template)
    BY SpawnFields
  <2> HIDE DEF until
  <2>3. o = [spawn EXCEPT !.issuer = Rogue] =>
         Shown(Rogue, now, until, None, octets, None, TRUE, TRUE, template)
    <3>1. Fields([spawn EXCEPT !.issuer = Rogue],
                 Rogue, now, until, None, octets, None, TRUE, TRUE, template)
      BY <2>1, OverrideFields, Zenon
    <3> QED
      BY <3>1, Zenon
  <2>4. o = [spawn EXCEPT !.notBefore = 0, !.notAfter = ttl_seconds] =>
         Shown(spawn.issuer, 0, ttl_seconds, None, octets, None, TRUE, TRUE, template)
    <3>1. Fields([spawn EXCEPT !.notBefore = 0, !.notAfter = ttl_seconds],
                 spawn.issuer, 0, ttl_seconds, None, octets, None, TRUE, TRUE, template)
      BY <2>1, OverrideFields, Zenon
    <3> QED
      BY <3>1, Zenon
  <2>5. o = [spawn EXCEPT !.keyUsageBits = both] =>
         Shown(spawn.issuer, now, until, both, octets, None, TRUE, TRUE, template)
    <3>1. Fields([spawn EXCEPT !.keyUsageBits = both],
                 spawn.issuer, now, until, both, octets, None, TRUE, TRUE, template)
      BY <2>1, OverrideFields, Zenon
    <3> QED
      BY <3>1, Zenon
  <2>6. o = [spawn EXCEPT !.notAfter = later] =>
         Shown(spawn.issuer, now, later, None, octets, None, TRUE, TRUE, template)
    <3>1. Fields([spawn EXCEPT !.notAfter = later],
                 spawn.issuer, now, later, None, octets, None, TRUE, TRUE, template)
      BY <2>1, OverrideFields, Zenon
    <3> QED
      BY <3>1, Zenon
  <2>7. o = [spawn EXCEPT !.revocationSource = FALSE] =>
         Shown(spawn.issuer, now, until, None, octets, None, FALSE, TRUE, template)
    <3>1. Fields([spawn EXCEPT !.revocationSource = FALSE],
                 spawn.issuer, now, until, None, octets, None, FALSE, TRUE, template)
      BY <2>1, OverrideFields, Zenon
    <3> QED
      BY <3>1, Zenon
  <2>8. o = [spawn EXCEPT !.criticalExtensions = FALSE] =>
         Shown(spawn.issuer, now, until, None, octets, None, TRUE, FALSE, template)
    <3>1. Fields([spawn EXCEPT !.criticalExtensions = FALSE],
                 spawn.issuer, now, until, None, octets, None, TRUE, FALSE, template)
      BY <2>1, OverrideFields, Zenon
    <3> QED
      BY <3>1, Zenon
  <2>9. o = [spawn EXCEPT !.serialBytes = MAX_SERIAL_OCTETS] =>
         Shown(spawn.issuer, now, until, None, MAX_SERIAL_OCTETS, None, TRUE, TRUE, template)
    <3>1. Fields([spawn EXCEPT !.serialBytes = MAX_SERIAL_OCTETS],
                 spawn.issuer, now, until, None, MAX_SERIAL_OCTETS, None, TRUE, TRUE, template)
      BY <2>1, OverrideFields, Zenon
    <3> QED
      BY <3>1, Zenon
  <2>10. o = [spawn EXCEPT !.serialBytes = MIN_SERIAL_OCTETS - 1] =>
         Shown(spawn.issuer, now, until, None, MIN_SERIAL_OCTETS - 1, None, TRUE, TRUE, template)
    <3>1. Fields([spawn EXCEPT !.serialBytes = MIN_SERIAL_OCTETS - 1],
                 spawn.issuer, now, until, None, MIN_SERIAL_OCTETS - 1, None, TRUE, TRUE, template)
      BY <2>1, OverrideFields, Zenon
    <3> QED
      BY <3>1, Zenon
  <2>11. o = [spawn EXCEPT !.serialOctets = zeros] =>
         Shown(spawn.issuer, now, until, None, octets, zeros, TRUE, TRUE, template)
    <3>1. Fields([spawn EXCEPT !.serialOctets = zeros],
                 spawn.issuer, now, until, None, octets, zeros, TRUE, TRUE, template)
      BY <2>1, OverrideFields, Zenon
    <3> QED
      BY <3>1, Zenon
  <2>12. o = [spawn EXCEPT !.template = LongTemplate] =>
         Shown(spawn.issuer, now, until, None, octets, None, TRUE, TRUE, LongTemplate)
    <3>1. Fields([spawn EXCEPT !.template = LongTemplate],
                 spawn.issuer, now, until, None, octets, None, TRUE, TRUE, LongTemplate)
      BY <2>1, OverrideFields, Zenon
    <3> QED
      BY <3>1, Zenon
  <2> HIDE DEF Shown
  <2> QED
    BY <1>2, <2>2, <2>3, <2>4, <2>5, <2>6, <2>7, <2>8, <2>9, <2>10, <2>11, <2>12, Zenon
<1>4. spawn.notAfter = until
  BY SpawnFields DEF Fields
<1> HIDE DEF until, template, octets, c, zeros, both, later, LongTemplate, Rogue
<1>5. /\ 0 # now /\ now \notin 0..ttl_seconds
      /\ now \in now..until /\ until - now <= ttl_seconds
      /\ now \in now..later /\ ~(later - now <= ttl_seconds) /\ later # until
      /\ ~(octets < MIN_SERIAL_OCTETS) /\ ~(MAX_SERIAL_OCTETS < MIN_SERIAL_OCTETS)
      /\ MIN_SERIAL_OCTETS - 1 < MIN_SERIAL_OCTETS
  BY Sizes DEF until, later, octets
<1>6. LongTemplate # template /\ both # None /\ both # {"digitalSignature"} /\ zeros # None
      /\ Rogue # spawn.issuer
  BY Apart, Zenon DEF template, both, zeros, Rogue
<1>7. c = issueCertificate(o, drawn)
  BY DEF c
<1>8. spawn.issuer \in {spawn.issuer, Rogue} /\ Rogue \in {spawn.issuer, Rogue}
      /\ TRUE \in BOOLEAN /\ FALSE \in BOOLEAN
  OBVIOUS
<1>9. CASE Shown(spawn.issuer, now, until, None, octets, None, TRUE, TRUE, template)
  <2>1. OnlyFlaw(o, "SOUND")
    BY <1>4, <1>5, <1>9, Zenon DEF Fields, OnlyFlaw, template
  <2>2. Ordinary(o)
    BY <1>8, <1>9, FieldsOrdinary
  <2>3. ContentRefusal(c) = "SOUND"
    <3>1. now \in o.notBefore..o.notAfter /\ o.revocationSource /\ o.criticalExtensions
          /\ o.template = spawn.template /\ o.notAfter - o.notBefore <= ttl_seconds
      BY <1>5, <1>9, Zenon DEF Fields, template
    <3> QED
      BY <1>7, <2>2, <3>1, ContentFor, Zenon
  <2> QED
    BY <1>1, <1>9, <2>1, <2>3, AnchorNamed DEF c
<1>10. CASE Shown(Rogue, now, until, None, octets, None, TRUE, TRUE, template)
  <2>1. OnlyFlaw(o, "ERR_FORGED_ISSUER")
    BY <1>4, <1>5, <1>6, <1>10, Zenon DEF Fields, OnlyFlaw, template
  <2>2. Ordinary(o)
    BY <1>8, <1>10, FieldsOrdinary
  <2>3. o.issuer.privateKey = "rogue" /\ o.keyUsageBits = None /\ o.serialOctets = None
    BY <1>10 DEF Fields, Rogue
  <2> QED
    BY <1>1, <2>1, <2>2, <2>3, DrawnNamed
<1>11. CASE Shown(spawn.issuer, 0, ttl_seconds, None, octets, None, TRUE, TRUE, template)
  <2>1. OnlyFlaw(o, "ERR_CERT_EXPIRED")
    BY <1>4, <1>5, <1>11, Zenon DEF Fields, OnlyFlaw, template
  <2>2. Ordinary(o)
    BY <1>8, <1>11, FieldsOrdinary
  <2>3. ContentRefusal(c) = "ERR_CERT_EXPIRED"
    <3>1. now \notin o.notBefore..o.notAfter
      BY <1>5, <1>11, Zenon DEF Fields, template
    <3> QED
      BY <1>7, <2>2, <3>1, ContentFor, Zenon
  <2> QED
    BY <1>1, <1>11, <2>1, <2>3, AnchorNamed DEF c
<1>12. CASE Shown(spawn.issuer, now, until, both, octets, None, TRUE, TRUE, template)
  <2>1. OnlyFlaw(o, "ERR_KEY_USAGE")
    BY <1>4, <1>5, <1>6, <1>12, Zenon DEF Fields, OnlyFlaw, template
  <2>2. Ordinary(o)
    BY <1>8, <1>12, FieldsOrdinary
  <2>3. o.keyUsageBits # None /\ o.keyUsageBits # {"digitalSignature"}
    BY <1>6, <1>12, Zenon DEF Fields
  <2>4. validateCertificate(c, "agent") = "ERR_KEY_USAGE"
    BY <1>7, <2>2, <2>3, Verdict
  <2>5. FlawOf(o) = "ERR_KEY_USAGE"
    BY <2>1, FlawIs
  <2> QED
    BY <2>4, <2>5, Zenon DEF Named, c
<1>13. CASE Shown(spawn.issuer, now, later, None, octets, None, TRUE, TRUE, template)
  <2>1. OnlyFlaw(o, "ERR_VALIDITY_EXCEEDS_TTL")
    BY <1>4, <1>5, <1>13, Zenon DEF Fields, OnlyFlaw, template
  <2>2. Ordinary(o)
    BY <1>8, <1>13, FieldsOrdinary
  <2>3. ContentRefusal(c) = "ERR_VALIDITY_EXCEEDS_TTL"
    <3>1. now \in o.notBefore..o.notAfter /\ o.revocationSource /\ o.criticalExtensions
          /\ o.template = spawn.template /\ ~(o.notAfter - o.notBefore <= ttl_seconds)
      BY <1>5, <1>13, Zenon DEF Fields, template
    <3> QED
      BY <1>7, <2>2, <3>1, ContentFor, Zenon
  <2> QED
    BY <1>1, <1>13, <2>1, <2>3, AnchorNamed DEF c
<1>14. CASE Shown(spawn.issuer, now, until, None, octets, None, FALSE, TRUE, template)
  <2>1. OnlyFlaw(o, "ERR_NO_REVOCATION_SOURCE")
    BY <1>4, <1>5, <1>14, Zenon DEF Fields, OnlyFlaw, template
  <2>2. Ordinary(o)
    BY <1>8, <1>14, FieldsOrdinary
  <2>3. ContentRefusal(c) = "ERR_NO_REVOCATION_SOURCE"
    <3>1. now \in o.notBefore..o.notAfter /\ ~o.revocationSource
      BY <1>5, <1>14, Zenon DEF Fields, template
    <3> QED
      BY <1>7, <2>2, <3>1, ContentFor, Zenon
  <2> QED
    BY <1>1, <1>14, <2>1, <2>3, AnchorNamed DEF c
<1>15. CASE Shown(spawn.issuer, now, until, None, octets, None, TRUE, FALSE, template)
  <2>1. OnlyFlaw(o, "ERR_TEMPLATE_EXT_INVALID")
    BY <1>4, <1>5, <1>15, Zenon DEF Fields, OnlyFlaw, template
  <2>2. Ordinary(o)
    BY <1>8, <1>15, FieldsOrdinary
  <2>3. ContentRefusal(c) = "ERR_TEMPLATE_EXT_INVALID"
    <3>1. now \in o.notBefore..o.notAfter /\ o.revocationSource /\ ~o.criticalExtensions
      BY <1>5, <1>15, Zenon DEF Fields, template
    <3> QED
      BY <1>7, <2>2, <3>1, ContentFor, Zenon
  <2> QED
    BY <1>1, <1>15, <2>1, <2>3, AnchorNamed DEF c
<1>16. CASE Shown(spawn.issuer, now, until, None, MAX_SERIAL_OCTETS, None, TRUE, TRUE, template)
  <2>1. OnlyFlaw(o, "SOUND")
    BY <1>4, <1>5, <1>16, Zenon DEF Fields, OnlyFlaw, template
  <2>2. Ordinary(o)
    BY <1>8, <1>16, FieldsOrdinary
  <2>3. ContentRefusal(c) = "SOUND"
    <3>1. now \in o.notBefore..o.notAfter /\ o.revocationSource /\ o.criticalExtensions
          /\ o.template = spawn.template /\ o.notAfter - o.notBefore <= ttl_seconds
      BY <1>5, <1>16, Zenon DEF Fields, template
    <3> QED
      BY <1>7, <2>2, <3>1, ContentFor, Zenon
  <2> QED
    BY <1>1, <1>16, <2>1, <2>3, AnchorNamed DEF c
<1>17. CASE Shown(spawn.issuer, now, until, None, MIN_SERIAL_OCTETS - 1, None, TRUE, TRUE, template)
  <2>1. OnlyFlaw(o, "ERR_SERIAL_ENTROPY")
    BY <1>4, <1>5, <1>17, Zenon DEF Fields, OnlyFlaw, template
  <2>2. o.serialBytes = MIN_SERIAL_OCTETS - 1
    BY <1>17 DEF Fields
  <2>3. TooShort(drawn)
    BY <2>2, FewDrawn
  <2> QED
    BY <1>1, <1>17, <2>1, <2>3, AnchorNamed
<1>18. CASE Shown(spawn.issuer, now, until, None, octets, zeros, TRUE, TRUE, template)
  <2>1. OnlyFlaw(o, "ERR_SERIAL_ENCODING")
    BY <1>4, <1>5, <1>6, <1>18, Zenon DEF Fields, OnlyFlaw, template
  <2>2. Ordinary(o)
    BY <1>8, <1>18, FieldsOrdinary
  <2>3. o.keyUsageBits = None /\ o.serialOctets # None /\ o.serialOctets = zeros
    BY <1>6, <1>18, Zenon DEF Fields
  <2>4. c.serial = zeros
    BY <1>7, <2>2, <2>3, IssuedIs
  <2>5. assertSerialEncoding(c.serial) = "ERR_SERIAL_ENCODING"
    BY <2>4, ZerosRefused DEF zeros
  <2>6. "ERR_SERIAL_ENCODING" # "SOUND"
    OBVIOUS
  <2>7. validateCertificate(c, "agent") = "ERR_SERIAL_ENCODING"
    BY <1>7, <2>2, <2>3, <2>5, <2>6, Verdict
  <2>8. FlawOf(o) = "ERR_SERIAL_ENCODING"
    BY <2>1, FlawIs
  <2> QED
    BY <2>7, <2>8, Zenon DEF Named, c
<1>19. CASE Shown(spawn.issuer, now, until, None, octets, None, TRUE, TRUE, LongTemplate)
  <2>1. OnlyFlaw(o, "ERR_EXTENSION_TOO_LARGE")
    BY <1>4, <1>5, <1>6, <1>19, Zenon DEF Fields, OnlyFlaw, template
  <2>2. Ordinary(o)
    BY <1>8, <1>19, FieldsOrdinary
  <2>3. ContentRefusal(c) = "ERR_EXTENSION_TOO_LARGE"
    <3>1. now \in o.notBefore..o.notAfter /\ o.revocationSource /\ o.criticalExtensions /\ o.template = LongTemplate
      BY <1>5, <1>19, Zenon DEF Fields, template
    <3> QED
      BY <1>7, <2>2, <3>1, ContentFor, Zenon
  <2> QED
    BY <1>1, <1>19, <2>1, <2>3, AnchorNamed DEF c
<1> HIDE DEF Shown
<1> QED
  BY <1>3, <1>9, <1>10, <1>11, <1>12, <1>13, <1>14, <1>15, <1>16, <1>17, <1>18, <1>19, Zenon

\* What validateCertificate of src/x509.js says of a certificate that
\* issueCertificate of src/mint.js made and nobody changed: of one a button
\* ordered with a flaw, that flaw and no other; of one the Registry ordered,
\* that it is sound; of either, that its serial has too little entropy, when
\* the octets drawn begin with so many zeros, for whatever the draw is.
THEOREM FlawsAreNamedAlways == Spec => []FlawsAreNamed
<1>1. Issued => FlawsAreNamed
  <2> SUFFICES ASSUME Issued, cert # None, changes = 0
               PROVE  LET o == request.options
                          short == /\ o.serialOctets = None
                                   /\ \A i \in 1..Len(request.drawn) - MIN_SERIAL_OCTETS + 1 :
                                        request.drawn[i] = 0
                          early == {"ERR_KEY_USAGE", "ERR_SERIAL_ENCODING"} IN
                      validateCertificate(cert, "agent") =
                        IF short /\ FlawOf(o) \notin early THEN "ERR_SERIAL_ENTROPY" ELSE FlawOf(o)
    BY Zenon DEF FlawsAreNamed
  <2>1. PICK o \in issueRaw \cup {spawn} : \E drawn \in Draw(o.serialBytes) :
          request = [options |-> o, drawn |-> drawn] /\ cert = issueCertificate(o, drawn)
    BY DEF Issued
  <2>2. PICK drawn \in Draw(o.serialBytes) :
          request = [options |-> o, drawn |-> drawn] /\ cert = issueCertificate(o, drawn)
    BY <2>1
  <2>3. request.options = o /\ request.drawn = drawn
    BY <2>2
  <2>4. Named(o, drawn)
    BY EachNamed
  <2> QED
    BY <2>2, <2>3, <2>4, Zenon DEF Named, TooShort
<1> QED
  BY <1>1, IssuedAlways, PTL

=============================================================================
