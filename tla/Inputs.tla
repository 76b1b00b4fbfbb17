------------------------------- MODULE Inputs -------------------------------
(***************************************************************************)
(* What reaches the validators from outside: a text that comes one token   *)
(* after another, as the editor's document or as the content of an         *)
(* extension, and certificates that issueCertificate made or that someone  *)
(* changed since.                                                          *)
(***************************************************************************)
EXTENDS Profile, FiniteSets

CONSTANTS
  MaxText,     \* bound: the tokens of a text
  MaxStray,    \* bound: of one that goes on where the grammar does not
  MaxChanges   \* bound: the changes to a certificate

\* A template names its subject and has no other member here.
ASSUME TemplateAssumption ==
  {"id", "agent"} \subseteq {Meaning[s] : s \in Spelling} /\ TEMPLATE_FIELDS = {"id"}

\* The five tokens of a template fit, and a list in one is not too deep; the
\* epoch is further back than a certificate is valid.
ASSUME InputsAssumption ==
  /\ MaxChanges \in Nat /\ MAX_NESTING_DEPTH >= 2 /\ MAX_TEMPLATE_EXTENSION_BYTES >= 5
  /\ now \in Nat /\ now > ttl_seconds
  /\ {0, 128} \subseteq Octet /\ MIN_SERIAL_OCTETS >= 2

\* An option left out is no value it could have.
ASSUME OptionAssumption ==
  /\ None \notin Name /\ \A usage \in SUBSET KEY_USAGE : None # usage
  /\ \A octets \in [1..MAX_SERIAL_OCTETS -> {0}] : None # octets

VARIABLES
  text,
  request,  \* the options the certificate was issued with, and the octets drawn
  cert,     \* the certificate presented
  changes   \* how often it was changed

vars == <<text, request, cert, changes>>

String(string) == [type |-> "string", text |-> string]

\* The object with one member, of that name and string.
Template(name, string) == Object(<<[key |-> name, value |-> String(string)]>>)

\* The options spawn issues a certificate with.
spawn ==
  [commonName |-> "agent", issuer |-> [commonName |-> Anchor, privateKey |-> "anchor"],
   isCa |-> FALSE, notBefore |-> now, notAfter |-> now + ttl_seconds,
   template |-> Template("id", "agent"), keyUsageBits |-> None, serialBytes |-> SERIAL_RANDOM_OCTETS,
   serialOctets |-> None, revocationSource |-> TRUE, criticalExtensions |-> TRUE]

\* A value that alone is longer than an extension may be.
Oversized == Array([i \in 1..MAX_TEMPLATE_EXTENSION_BYTES |-> String("id")])

\* The overrides the buttons of the page issue one with, and the rogue Registry's.
issueRaw ==
  {[spawn EXCEPT !.issuer = [commonName |-> "another", privateKey |-> "rogue"]],
   [spawn EXCEPT !.notBefore = 0, !.notAfter = ttl_seconds],
   [spawn EXCEPT !.keyUsageBits = {"digitalSignature", "keyCertSign"}],
   [spawn EXCEPT !.notAfter = now + ttl_seconds + 1],
   [spawn EXCEPT !.revocationSource = FALSE],
   [spawn EXCEPT !.criticalExtensions = FALSE],
   [spawn EXCEPT !.serialBytes = MAX_SERIAL_OCTETS],
   [spawn EXCEPT !.serialBytes = MIN_SERIAL_OCTETS - 1],
   [spawn EXCEPT !.serialOctets = [i \in 1..MAX_SERIAL_OCTETS |-> 0]],
   [spawn EXCEPT !.template = Object(Append(@.members, [key |-> "agent", value |-> Oversized]))]}

Init == text = <<>> /\ request = None /\ cert = None /\ changes = 0

-----------------------------------------------------------------------------
(***************************************************************************)
(* Whoever writes a text knows the grammar of RFC 8259, and nothing of the *)
(* reader: a text goes on with any token, and after one the grammar has no *)
(* place for it ends soon, or the texts would be too many.                 *)
(***************************************************************************)

\* How many more brackets are opened than closed from place i on.
Unclosed(t, i) ==
  Cardinality({k \in i..Len(t) : t[k] \in {"{", "["}}) - Cardinality({k \in i..Len(t) : t[k] \in {"}", "]"}})

\* The innermost bracket that is open at the end, if one is.
Innermost(t) ==
  LET open == {i \in 1..Len(t) : t[i] \in {"{", "["} /\ Unclosed(t, i) = 1}
  IN {t[i] : i \in {k \in open : \A j \in open : j <= k}}

\* What the grammar has a place for after t.
Expected(t) ==
  LET last == IF t = <<>> THEN ":" ELSE t[Len(t)]
      within == Innermost(t)
      first == Spelling \cup Scalar \cup {"{", "["}
      named == /\ last \in Spelling /\ within = {"{"}
               /\ t[Len(t) - 1] \in {"{", ","}
  IN CASE last = ":" -> first
       [] last = "[" -> first \cup {"]"}
       [] last = "{" -> Spelling \cup {"}"}
       [] last = "," -> IF within = {"{"} THEN Spelling ELSE first
       [] named -> {":"}
       [] OTHER -> IF within = {} THEN {} ELSE IF within = {"{"} THEN {",", "}"} ELSE {",", "]"}

Astray(t) == \E i \in 1..Len(t) : t[i] \notin Expected(SubSeq(t, 1, i - 1))

Arrive ==
  /\ cert = None
  /\ \E token \in Token : text' = Append(text, token)
  /\ IF Astray(text) THEN Len(text') <= MaxStray
     ELSE Len(text') + Unclosed(text', 1) <= MaxText
  /\ UNCHANGED <<request, cert, changes>>

Issue ==
  /\ cert = None /\ text = <<>>
  /\ \E options \in issueRaw \cup {spawn} : \E drawn \in Draw(options.serialBytes) :
       /\ request' = [options |-> options, drawn |-> drawn]
       /\ cert' = issueCertificate(options, drawn)
  /\ UNCHANGED <<text, changes>>

\* A certificate with another content, name or standing.
Changed(c) ==
  {[c EXCEPT !.templates = <<[critical |-> TRUE, content |-> <<MARK>> \o canonicalize(Template("id", "agent"))]>>],
   [c EXCEPT !.unknownCritical = TRUE], [c EXCEPT !.cn = None], [c EXCEPT !.cn = "another"],
   [c EXCEPT !.cn = Anchor], [c EXCEPT !.issuer = "another"], [c EXCEPT !.issuer = "agent"],
   [c EXCEPT !.strongSignature = FALSE], [c EXCEPT !.role = "absent"], [c EXCEPT !.role = "CA"],
   [c EXCEPT !.usage = {"keyCertSign"}], [c EXCEPT !.usage = {}],
   [c EXCEPT !.serial = <<>>], [c EXCEPT !.serial = <<128>>], [c EXCEPT !.permitted = FALSE],
   [c EXCEPT !.notBefore = now + 1], [c EXCEPT !.strongKey = FALSE],
   [c EXCEPT !.templates = <<>>], [c EXCEPT !.templates = @ \o @],
   [c EXCEPT !.templates = <<jcsExtension(Template("id", "id"), TRUE)>>],
   [c EXCEPT !.templates = <<jcsExtension(Template("agent", "agent"), TRUE)>>]}

\* Changed by whoever carries the certificate, or by its issuer before signing.
Change ==
  /\ cert # None /\ changes < MaxChanges
  /\ \E changed \in Changed(cert), byIssuer \in BOOLEAN :
       cert' = [changed EXCEPT !.genuine = @ /\ byIssuer]
  /\ changes' = changes + 1
  /\ UNCHANGED <<text, request>>

Next == Arrive \/ Issue \/ Change

Spec == Init /\ [][Next]_vars

-----------------------------------------------------------------------------
\* A text is one of tokens, a certificate one of the profile's, with a serial
\* RFC 5280 has room for.
TypeOK ==
  /\ text \in Seq(Token) /\ changes \in 0..MaxChanges
  /\ cert # None => /\ cert \in Certificate
                    /\ Len(cert.serial) <= MAX_SERIAL_OCTETS

\* The grammar of RFC 8259 with the profile's two restrictions: no reader goes
\* through the text, every way of dividing it at commas is tried.  A division of
\* the tokens from i to j is the set of its commas.
Divisions(t, i, j) == SUBSET {k \in i..j : t[k] = ","}

Starts(cuts, i) == {i} \cup {k + 1 : k \in cuts}

\* The part that starts at a ends at b.
IsPart(cuts, j, a, b) == b + 1 \in cuts \cup {j + 1} /\ \A k \in a..b : k \notin cuts

IsMembers(t, i, j, inner) ==
  \E cuts \in Divisions(t, i, j) :
    /\ \A a \in Starts(cuts, i) :
         \E b \in a + 2..j : /\ IsPart(cuts, j, a, b)
                             /\ t[a] \in Spelling /\ t[a + 1] = ":" /\ <<a + 2, b>> \in inner
    /\ \A a, c \in Starts(cuts, i) : Meaning[t[a]] = Meaning[t[c]] => a = c

IsItems(t, i, j, inner) ==
  \E cuts \in Divisions(t, i, j) :
    \A a \in Starts(cuts, i) : \E b \in a..j : IsPart(cuts, j, a, b) /\ <<a, b>> \in inner

\* The tokens from i to j are a value, if inner are the pairs that are one inside it.
IsValueAt(t, i, j, inner) ==
  \/ i = j /\ t[i] \in Spelling \cup Scalar
  \/ t[i] = "{" /\ t[j] = "}" /\ i < j /\ (j = i + 1 \/ IsMembers(t, i + 1, j - 1, inner))
  \/ t[i] = "[" /\ t[j] = "]" /\ i < j /\ (j = i + 1 \/ IsItems(t, i + 1, j - 1, inner))

IsJson(t) ==
  LET values[n \in 0..MAX_NESTING_DEPTH + 1] ==
        IF n = 0 THEN {}
        ELSE {p \in (1..Len(t)) \X (1..Len(t)) : IsValueAt(t, p[1], p[2], values[n - 1])}
  IN <<1, Len(t)>> \in values[MAX_NESTING_DEPTH + 1]

\* The reader accepts the texts of that grammar, those JSON.parse accepts
\* less those that name a member of one object twice, however spelt, or nest
\* too deep (the comment at src/validate-input.js:283).
ReaderAgrees ==
  (parseJsonStrict(text).code = "SOUND") <=> IsJson(text)

\* A refusal found before the end of a text is about what was read: nothing
\* that comes after it turns it into an acceptance or into another refusal,
\* so a duplicate member is never reported as a syntax error of what follows.
RefusalStands ==
  [][LET before == parseJsonStrict(text) IN
     (before.code # "SOUND" /\ before.next <= Len(text) /\ text' # text) =>
       parseJsonStrict(text').code = before.code]_vars

\* A document that is accepted has no forbidden member at any depth, however
\* its name is spelt, and at the top only the known ones, each once.
DocumentSafe ==
  parseDocument(text).code = "SOUND" =>
    LET names == {i \in 1..Len(text) - 1 : text[i] \in Spelling /\ text[i + 1] = ":"}
        opened(i, bracket) == Cardinality({j \in 1..i : text[j] = bracket})
        nested(i) == opened(i, "{") + opened(i, "[") - opened(i, "}") - opened(i, "]")
        top == {i \in names : nested(i) = 1}
    IN /\ Len(text) <= MAX_DOCUMENT_BYTES
       /\ \A i \in names : Meaning[text[i]] \notin FORBIDDEN_KEYS
       /\ \A i \in top : Meaning[text[i]] \in KNOWN_DOCUMENT_FIELDS
       /\ \A i, k \in top : Meaning[text[i]] = Meaning[text[k]] => i = k

\* A text of nine tokens, its two members with a scalar value each exchanged.
Swap(t) == SubSeq(t, 1, 1) \o SubSeq(t, 6, 8) \o <<",">> \o SubSeq(t, 2, 4) \o <<t[9]>>

\* One string spelt otherwise.
Spelt(t) == {[t EXCEPT ![i] = s] : i \in {k \in DOMAIN t : t[k] \in Spelling}, s \in Spelling}

SameStrings(t, u) == \A i \in DOMAIN t : t[i] \in Spelling => Meaning[u[i]] = Meaning[t[i]]

\* The texts with the same meaning.
Respelt(t) ==
  {u \in Spelt(t) : SameStrings(t, u)}
  \cup IF Len(t) = 9 /\ t[1] = "{" /\ t[5] = "," THEN {Swap(t)} ELSE {}

\* An extension's content has one encoding but for a byte order mark before it:
\* of the texts that mean the same one at most is decoded, so two templates
\* compared as texts are compared by what they say.
OneEncoding ==
  decodeJcsExtension(text).code = "SOUND" =>
    \A t \in Respelt(decode(text)) : \A content \in {t, <<MARK>> \o t} :
      decodeJcsExtension(content).code = "SOUND" => t = decode(text)

\* The comment at src/x509.js:515, "byte-identical to its own canonical form".
ByteIdentical ==
  LET decoded == decodeJcsExtension(text) IN
  decoded.code = "SOUND" => canonicalize(decoded.object) = text

\* The number the octets write in base 256.
ValueOf(octets) ==
  LET upTo[n \in 0..Len(octets)] == IF n = 0 THEN 0 ELSE 256 * upTo[n - 1] + octets[n]
  IN upTo[Len(octets)]

\* The two's complement number DER makes of them.
Signed(octets) ==
  ValueOf(octets) - IF TopBit(octets[1]) THEN 256 ^ Len(octets) ELSE 0

\* A serial issueCertificate draws passes the relying party's encoding rules
\* whatever the octets, and is the number drawn: no bit of it is lost.
SerialKeepsTheDraw ==
  (cert # None /\ changes = 0 /\ request.options.serialOctets = None) =>
    /\ assertSerialEncoding(cert.serial) = "SOUND"
    /\ Signed(cert.serial) = ValueOf(request.drawn)

\* What each override of issueCertificate is refused for, as the tables of
\* tests/e2e/run.mjs have it; what spawn issues is accepted.
FlawOf(o) ==
  CASE o.issuer # spawn.issuer -> "ERR_FORGED_ISSUER"
    [] o.notBefore # now -> "ERR_CERT_EXPIRED"
    [] o.notBefore = now /\ o.notAfter # spawn.notAfter -> "ERR_VALIDITY_EXCEEDS_TTL"
    [] o.keyUsageBits # None -> "ERR_KEY_USAGE"
    [] ~o.revocationSource -> "ERR_NO_REVOCATION_SOURCE"
    [] ~o.criticalExtensions -> "ERR_TEMPLATE_EXT_INVALID"
    [] o.serialBytes < MIN_SERIAL_OCTETS -> "ERR_SERIAL_ENTROPY"
    [] o.serialOctets # None -> "ERR_SERIAL_ENCODING"
    [] o.template # spawn.template -> "ERR_EXTENSION_TOO_LARGE"
    [] OTHER -> "SOUND"

\* Every certificate of a button is refused for the flaw it was made with and
\* no other, and one the Registry issues is accepted, unless the octets drawn
\* begin with so many zeros that what is left is too short.
FlawsAreNamed ==
  (cert # None /\ changes = 0) =>
    LET o == request.options
        short == /\ o.serialOctets = None
                 /\ \A i \in 1..Len(request.drawn) - MIN_SERIAL_OCTETS + 1 : request.drawn[i] = 0
        early == {"ERR_KEY_USAGE", "ERR_SERIAL_ENCODING"} IN
    validateCertificate(cert, "agent") =
      IF short /\ FlawOf(o) \notin early THEN "ERR_SERIAL_ENTROPY" ELSE FlawOf(o)

\* The content of a certificate is the anchor's statement before it is anyone
\* else's (Section 8.2): what the validator says of it, acceptance included,
\* it says only of a certificate the anchor signed as it stands.
ContentIsTheAnchors ==
  (cert # None /\ validateCertificate(cert, "agent") \in
     {"SOUND", "ERR_NAME_CONSTRAINT", "ERR_NO_REVOCATION_SOURCE", "ERR_TEMPLATE_EXT_MISSING",
      "ERR_TEMPLATE_EXT_INVALID", "ERR_EXTENSION_TOO_LARGE", "ERR_VALIDITY_EXCEEDS_TTL"}) =>
    cert.genuine /\ cert.signer = "anchor"

=============================================================================
