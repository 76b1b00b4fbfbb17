------------------------------ MODULE Profile ------------------------------
(***************************************************************************)
(* A certificate of an agent: how issueCertificate of src/mint.js makes    *)
(* one, and the checks validateCertificate of src/x509.js makes, one by    *)
(* one.  The trust anchor is sound, and a template is its subject member:  *)
(* its ttl_seconds is a constant, its extension's content a text.          *)
(***************************************************************************)
EXTENDS StrictJson

CONSTANTS
  None,
  KeyOrder,                     \* member names, in the order JCS sorts them
  TEMPLATE_FIELDS,
  MAX_TEMPLATE_EXTENSION_BYTES, \* in tokens
  SERIAL_RANDOM_OCTETS, MAX_SERIAL_OCTETS,
  MIN_SERIAL_OCTETS,            \* of randomness; eight in the code
  Octet,
  ttl_seconds,
  now

ASSUME ProfileAssumption ==
  /\ MAX_SERIAL_OCTETS \in Nat /\ SERIAL_RANDOM_OCTETS = MAX_SERIAL_OCTETS - 1
  /\ MIN_SERIAL_OCTETS \in 1..SERIAL_RANDOM_OCTETS
  /\ MAX_TEMPLATE_EXTENSION_BYTES \in Nat /\ Octet \subseteq 0..255 /\ ttl_seconds \in Nat \ {0}
  /\ KeyOrder \in Seq({Meaning[s] : s \in Spelling})
  /\ \A s \in Spelling : \E i \in DOMAIN KeyOrder : KeyOrder[i] = Meaning[s]
  /\ \A i, j \in DOMAIN KeyOrder : KeyOrder[i] = KeyOrder[j] => i = j

\* A string means itself, if it is spelt without escapes.
ASSUME SpellingAssumption ==
  \A s \in Spelling : Meaning[s] \in Spelling /\ Meaning[Meaning[s]] = Meaning[s]

\* Names a certificate can bear; the anchor's is no UUID.
Anchor == "CA"
Uuid == {"agent", "another"}
Name == Uuid \cup {Anchor}

KEY_USAGE == {"digitalSignature", "keyCertSign", "cRLSign"}

Extension == [critical: BOOLEAN, content: Seq(Token)]

\* role is basicConstraints; a usage that is absent or not critical is empty;
\* permitted: the subject is in the anchor's subtree; genuine: signed as it is.
Certificate ==
  [unknownCritical: BOOLEAN, cn: Name \cup {None}, issuer: Name, strongSignature: BOOLEAN,
   role: {"absent", "agent", "CA"}, usage: SUBSET KEY_USAGE, serial: Seq(Octet),
   signer: {"anchor", "rogue"}, genuine: BOOLEAN, permitted: BOOLEAN,
   notBefore: Int, notAfter: Int, strongKey: BOOLEAN, revocationSource: BOOLEAN,
   templates: Seq(Extension)]

-----------------------------------------------------------------------------
TopBit(octet) == octet >= 128

\* The random octets less their leading zeros, and one zero where a sign needs it.
significant(octets) ==
  LET start == CHOOSE i \in DOMAIN octets :
                 /\ octets[i] # 0 \/ i = Len(octets)
                 /\ \A j \in 1..i - 1 : octets[j] = 0
  IN SubSeq(octets, start, Len(octets))

\* The top bit cleared, in place of a zero before it.
serialNumberCleared(raw) ==
  [raw EXCEPT ![1] = IF TopBit(@) THEN @ - 128 ELSE @]

serialNumber(raw) ==
  IF TopBit(Head(significant(raw))) THEN <<0>> \o significant(raw) ELSE significant(raw)

\* What is drawn when a caller asks for so many octets.
DrawUnclamped(bytes) == [1..bytes -> Octet]

\* Math.max(1, Math.min(bytes, SERIAL_RANDOM_OCTETS)) octets.
Draw(bytes) ==
  LET capped == IF bytes > SERIAL_RANDOM_OCTETS THEN SERIAL_RANDOM_OCTETS ELSE bytes IN
  [1..(IF capped < 1 THEN 1 ELSE capped) -> Octet]

\* The spelling JSON.stringify gives a string, of those that mean it.
SpellingOf(string) == CHOOSE s \in Spelling : s = string

\* One more part of a list.
Listed(list, part) == IF list = <<>> THEN part ELSE list \o <<",">> \o part

\* The items, with what was written of each.
writeArray(list, written) ==
  LET upTo[n \in 0..Len(list)] ==
        IF n = 0 THEN <<>> ELSE Listed(upTo[n - 1], written[list[n]])
  IN <<"[">> \o upTo[Len(list)] \o <<"]">>

\* writeObject: the members in the order of their names.
writeObject(object, written) ==
  LET valueOf(key) == object[CHOOSE i \in DOMAIN object : object[i].key = key].value
      upTo[n \in 0..Len(KeyOrder)] ==
        IF n = 0 THEN <<>>
        ELSE IF KeyOrder[n] \notin KeysOf(object) THEN upTo[n - 1]
        ELSE Listed(upTo[n - 1], <<SpellingOf(KeyOrder[n]), ":">> \o written[valueOf(KeyOrder[n])])
  IN <<"{">> \o upTo[Len(KeyOrder)] \o <<"}">>

\* A value, where the values in it are written already.
write(v, written) ==
  CASE v.type = "string" -> <<SpellingOf(v.text)>>
    [] v.type \in Scalar -> <<v.type>>
    [] v.type = "array" -> writeArray(v.items, written)
    [] v.type = "object" -> writeObject(v.members, written)

canonicalize(v) ==
  LET level[n \in 0..MAX_NESTING_DEPTH + 1] == [w \in Value[n] |-> write(w, level[n - 1])]
  IN level[MAX_NESTING_DEPTH + 1][v]

jcsExtension(template, critical) == [critical |-> critical, content |-> canonicalize(template)]

\* o: the options; drawn: the octets the CSPRNG gave for them.
issueCertificate(o, drawn) ==
  [unknownCritical |-> FALSE, cn |-> o.commonName, issuer |-> o.issuer.commonName,
   strongSignature |-> TRUE,
   role |-> IF o.isCa THEN "CA" ELSE "agent",
   usage |-> CASE o.keyUsageBits # None -> o.keyUsageBits
               [] o.keyUsageBits = None /\ o.isCa -> {"keyCertSign", "cRLSign"}
               [] OTHER -> {"digitalSignature"},
   serial |-> IF o.serialOctets # None THEN o.serialOctets ELSE serialNumber(drawn),
   signer |-> o.issuer.privateKey, genuine |-> TRUE, permitted |-> TRUE,
   notBefore |-> o.notBefore, notAfter |-> o.notAfter,
   strongKey |-> TRUE, revocationSource |-> o.revocationSource /\ ~o.isCa,
   templates |-> <<jcsExtension(o.template, o.criticalExtensions)>>]

-----------------------------------------------------------------------------
Require(condition, code) == IF condition THEN "SOUND" ELSE code

assertSerialEncoding(serial) ==
  Require(/\ serial # <<>> /\ Len(serial) <= MAX_SERIAL_OCTETS
          /\ ~TopBit(serial[1])
          /\ (Len(serial) > 1 /\ serial[1] = 0) => TopBit(serial[2]),
          "ERR_SERIAL_ENCODING")

assertSerialEntropyPadded(serial) ==
  Require(Len(serial) >= MIN_SERIAL_OCTETS, "ERR_SERIAL_ENTROPY")

\* The octets that carry a sign only are not counted.
assertSerialEntropy(serial) ==
  Require(serial # <<>> /\ Len(significant(serial)) >= MIN_SERIAL_OCTETS, "ERR_SERIAL_ENTROPY")

assertFlatObject(v) ==
  Require(/\ v.type = "object"
          /\ \A i \in DOMAIN v.members :
               LET w == v.members[i].value IN
               \/ w.type \in {"string", "integer"}
               \/ w.type = "array" /\ \A j \in DOMAIN w.items : w.items[j].type = "string",
          "ERR_OBJECT_NOT_FLAT")

\* The text of an extension's octets: TextDecoder leaves out a byte order mark
\* that comes first, and no other.
decode(content) ==
  IF content # <<>> /\ Head(content) = MARK THEN Tail(content) ELSE content

\* Read as it stands, whatever its canonical form is.
decodeAnyEncoding(content) ==
  LET parsed == parseJsonStrict(decode(content))
      Answer(code) == [code |-> code, object |-> parsed.value]
  IN CASE Len(content) > MAX_TEMPLATE_EXTENSION_BYTES -> Answer("ERR_EXTENSION_TOO_LARGE")
       [] Len(content) <= MAX_TEMPLATE_EXTENSION_BYTES /\ parsed.code = "ERR_MALFORMED_JSON" ->
            Answer("ERR_TEMPLATE_EXT_INVALID")
       [] OTHER -> Answer(IF parsed.code = "SOUND" THEN assertFlatObject(parsed.value) ELSE parsed.code)

\* What was decoded, if the text is its canonical form.
canonicalOnly(decoded, t) ==
  IF decoded.code = "SOUND" /\ canonicalize(decoded.object) # t
  THEN [decoded EXCEPT !.code = "ERR_TEMPLATE_EXT_INVALID"] ELSE decoded

decodeJcsExtension(content) == canonicalOnly(decodeAnyEncoding(content), decode(content))

\* The subject is one of the members; the others' rules are left out.
assertTemplateMembers(t) ==
  CASE KeysOf(t.members) # TEMPLATE_FIELDS -> "ERR_TEMPLATE_EXT_INVALID"
    [] KeysOf(t.members) = TEMPLATE_FIELDS /\ t.members[1].value.type = "string" ->
         Require(t.members[1].value.text \in Uuid, "ERR_AGENT_ID_FORMAT")
    [] OTHER -> "ERR_AGENT_ID_FORMAT"

\* What an extension's content says, once decoded, of the certificate of cn.
assertTemplate(decoded, cn) ==
  IF decoded.code # "SOUND" THEN decoded.code
  ELSE IF assertTemplateMembers(decoded.object) # "SOUND" THEN assertTemplateMembers(decoded.object)
  ELSE Require(decoded.object.members[1].value.text = cn, "ERR_SUBJECT_MISMATCH")

\* A non-critical extension is refused before its content is looked at.
parseTemplateExtension(c) ==
  CASE c.templates = <<>> -> "ERR_TEMPLATE_EXT_MISSING"
    [] Len(c.templates) > 1 -> "ERR_TEMPLATE_EXT_INVALID"
    [] Len(c.templates) = 1 /\ ~c.templates[1].critical -> "ERR_TEMPLATE_EXT_INVALID"
    [] OTHER -> assertTemplate(decodeJcsExtension(c.templates[1].content), c.cn)

assertKeyUsage(usage) == Require(usage = {"digitalSignature"}, "ERR_KEY_USAGE")

\* The two ways isSignedBy fails are told apart by the issuer's name.
SignatureRefusal(c) ==
  CASE c.genuine /\ c.signer = "anchor" -> "SOUND"
    [] ~(c.genuine /\ c.signer = "anchor") /\ c.issuer # Anchor -> "ERR_FORGED_ISSUER"
    [] OTHER -> "ERR_CHAIN_INVALID"

\* The checks before the signature is verified.
StructureRefusal(c, agentId) ==
  FirstOf(<<Require(~c.unknownCritical, "ERR_UNKNOWN_CRITICAL_EXT"),
            Require(c.cn # None, "ERR_SUBJECT_MISMATCH"),
            Require(c.cn \in Uuid, "ERR_AGENT_ID_FORMAT"),
            Require(c.cn = agentId, "ERR_SUBJECT_MISMATCH"),
            Require(c.issuer # c.cn, "ERR_SELF_SIGNED"),
            Require(c.strongSignature, "ERR_WEAK_SIGNATURE"),
            Require(c.role = "agent", "ERR_BASIC_CONSTRAINTS"),
            assertKeyUsage(c.usage),
            assertSerialEncoding(c.serial),
            assertSerialEntropy(c.serial)>>)

\* The checks after it: standing, and the content last.
ContentRefusal(c) ==
  FirstOf(<<Require(c.permitted, "ERR_NAME_CONSTRAINT"),
            Require(now \in c.notBefore..c.notAfter, "ERR_CERT_EXPIRED"),
            Require(c.strongKey, "ERR_KEY_TOO_SMALL"),
            Require(c.revocationSource, "ERR_NO_REVOCATION_SOURCE"),
            parseTemplateExtension(c),
            Require(c.notAfter - c.notBefore <= ttl_seconds, "ERR_VALIDITY_EXCEEDS_TTL")>>)

\* The content read before the signature.
validateContentFirst(c, agentId) ==
  FirstOf(<<StructureRefusal(c, agentId), ContentRefusal(c), SignatureRefusal(c)>>)

validateCertificate(c, agentId) ==
  FirstOf(<<StructureRefusal(c, agentId), SignatureRefusal(c), ContentRefusal(c)>>)

=============================================================================
