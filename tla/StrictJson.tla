----------------------------- MODULE StrictJson -----------------------------
(***************************************************************************)
(* The reader of the editor's text (src/validate-input.js): the strict     *)
(* JSON parser, and parseDocument around it.  A text is a sequence of      *)
(* lexical tokens; two spellings of one string are two tokens, and one     *)
(* token stands for every integer, one for the other scalars.              *)
(***************************************************************************)
EXTENDS Integers, Sequences

CONSTANTS
  MAX_NESTING_DEPTH,
  MAX_DOCUMENT_BYTES,   \* in tokens
  Spelling,             \* tokens of strings
  Meaning,              \* what each of them decodes to
  FORBIDDEN_KEYS,
  KNOWN_DOCUMENT_FIELDS

Punctuation == {"{", "}", "[", "]", ":", ","}
Scalar == {"integer", "null"}

\* U+FEFF outside a string, which is no part of JSON.
MARK == "mark"

Token == Punctuation \cup Spelling \cup Scalar \cup {MARK}

ASSUME ReaderAssumption ==
  /\ MAX_NESTING_DEPTH \in Nat /\ MAX_DOCUMENT_BYTES \in Nat
  /\ Spelling = DOMAIN Meaning
  /\ Spelling \cap (Punctuation \cup Scalar \cup {"end", MARK}) = {}

Text == [type |-> "string"]

\* What follows a value that was read starts at next; a refusal is where it is found.
Read(value, next) == [code |-> "SOUND", value |-> value, next |-> next]
Refused(code, at) == [code |-> code, value |-> Text, next |-> at]
fail(at) == Refused("ERR_MALFORMED_JSON", at)

\* The token at i, or the end of the text.
At(t, i) == IF i \in DOMAIN t THEN t[i] ELSE "end"

Array(items) == [type |-> "array", items |-> items]
Object(members) == [type |-> "object", members |-> members]
KeysOf(members) == {members[i].key : i \in DOMAIN members}

-----------------------------------------------------------------------------
(***************************************************************************)
(* parseValue.  Its two loops take one part of an object or an array each  *)
(* turn; inner answers for the values in it, by where they start.          *)
(***************************************************************************)

\* A loop that has taken some parts is at the next one.
Taking(taken, next) == [code |-> "TAKING", value |-> taken, next |-> next]

\* After the part v: the next turn after a comma, the whole after its bracket.
Continue(t, v, taken, whole, bracket) ==
  IF v.code # "SOUND" THEN v
  ELSE IF At(t, v.next) = "," THEN Taking(taken, v.next + 1)
  ELSE IF At(t, v.next) = bracket THEN Read(whole, v.next + 1)
  ELSE fail(v.next)

Entered(t, inner, s) ==
  LET v == inner[s.next + 2]
      taken == Append(s.value, [key |-> Meaning[t[s.next]], value |-> v.value])
  IN IF At(t, s.next + 1) # ":" THEN fail(s.next + 1)
     ELSE Continue(t, v, taken, Object(taken), "}")

\* The names seen are those of the whole text.
memberOfAny(t, inner, s) ==
  IF At(t, s.next) \notin Spelling THEN fail(s.next)
  ELSE IF \E j \in 1..s.next - 2 :
            At(t, j) \in Spelling /\ Meaning[t[j]] = Meaning[t[s.next]] /\ At(t, j + 1) = ":"
  THEN Refused("ERR_DUPLICATE_MEMBER", s.next)
  ELSE Entered(t, inner, s)

member(t, inner, s) ==
  IF At(t, s.next) \notin Spelling THEN fail(s.next)
  ELSE IF Meaning[t[s.next]] \in KeysOf(s.value) THEN Refused("ERR_DUPLICATE_MEMBER", s.next)
  ELSE Entered(t, inner, s)

item(t, inner, s) ==
  LET v == inner[s.next]
      taken == Append(s.value, v.value)
  IN Continue(t, v, taken, Array(taken), "]")

\* The loop over the parts of what opens at i; a text of n tokens has fewer than n.
parts(t, inner, i) ==
  LET part(s) == IF t[i] = "{" THEN member(t, inner, s) ELSE item(t, inner, s)
      turn[k \in 0..Len(t)] ==
        IF k = 0 THEN Taking(<<>>, i + 1)
        ELSE LET s == turn[k - 1] IN IF s.code = "TAKING" THEN part(s) ELSE s
  IN turn[Len(t)]

valueAt(t, inner, i) ==
  CASE At(t, i) = "{" ->
         IF At(t, i + 1) = "}" THEN Read(Object(<<>>), i + 2) ELSE parts(t, inner, i)
    [] At(t, i) = "[" ->
         IF At(t, i + 1) = "]" THEN Read(Array(<<>>), i + 2) ELSE parts(t, inner, i)
    [] At(t, i) \in Spelling -> Read([type |-> "string", text |-> Meaning[t[i]]], i + 1)
    [] At(t, i) \in Scalar -> Read([type |-> t[i]], i + 1)
    [] OTHER -> fail(i)

\* The value at each place, where room more levels may nest: none past
\* MAX_NESTING_DEPTH, whatever is there.
parseValue(t) ==
  LET value[room \in 0..MAX_NESTING_DEPTH + 1] ==
        [i \in 1..Len(t) + 1 |->
           IF room = 0 THEN Refused("ERR_SCHEMA_VIOLATION", i) ELSE valueAt(t, value[room - 1], i)]
  IN value[MAX_NESTING_DEPTH + 1]

\* Syntax first, as a reader that leaves it to JSON.parse would.
parseJsonBalanced(t) ==
  LET v == parseValue(t)[1]
      places(bracket) == {i \in DOMAIN t : t[i] = bracket}
      matched == \E f \in [places("{") -> places("}")] :
                   /\ \A i, j \in places("{") : f[i] = f[j] => i = j
                   /\ \A j \in places("}") : \E i \in places("{") : f[i] = j
  IN IF ~matched \/ (v.code = "SOUND" /\ v.next <= Len(t)) THEN fail(v.next) ELSE v

parseJsonStrict(t) ==
  LET v == parseValue(t)[1] IN
  IF v.code = "SOUND" /\ v.next <= Len(t) THEN fail(v.next) ELSE v

-----------------------------------------------------------------------------
\* The values that nest less than n deep.
Value[n \in 0..MAX_NESTING_DEPTH + 1] ==
  IF n = 0 THEN {}
  ELSE LET Name == {Meaning[s] : s \in Spelling} IN
       [type: {"string"}, text: Name] \cup [type: Scalar]
       \cup [type: {"array"}, items: Seq(Value[n - 1])]
       \cup [type: {"object"}, members: Seq([key: Name, value: Value[n - 1]])]

\* The first answer that is no SOUND.
FirstOf(answers) ==
  IF \A i \in DOMAIN answers : answers[i] = "SOUND" THEN "SOUND"
  ELSE answers[CHOOSE i \in DOMAIN answers :
                 answers[i] # "SOUND" /\ \A j \in 1..i - 1 : answers[j] = "SOUND"]

assertNoForbiddenTopKeys(v) ==
  IF v.type = "object" /\ KeysOf(v.members) \cap FORBIDDEN_KEYS # {} THEN "ERR_PROTOTYPE_POLLUTION"
  ELSE "SOUND"

\* A depth-first walk, a member's key before its value.  Its own guard against
\* depth is the reader's, which has refused what nests deeper.
assertNoForbiddenKeys(v) ==
  LET walk[n \in 0..MAX_NESTING_DEPTH + 1] ==
        [w \in Value[n] |->
           CASE w.type = "array" -> FirstOf([i \in DOMAIN w.items |-> walk[n - 1][w.items[i]]])
             [] w.type = "object" ->
                  FirstOf([i \in DOMAIN w.members |->
                    IF w.members[i].key \in FORBIDDEN_KEYS THEN "ERR_PROTOTYPE_POLLUTION"
                    ELSE walk[n - 1][w.members[i].value]])
             [] OTHER -> "SOUND"]
  IN walk[MAX_NESTING_DEPTH + 1][v]

\* The answer for a text, and the document if it is SOUND.
parseDocument(t) ==
  LET parsed == parseJsonStrict(t)
      allowed == assertNoForbiddenKeys(parsed.value)
      Deny(code) == [code |-> code, document |-> Text]
  IN IF Len(t) > MAX_DOCUMENT_BYTES THEN Deny("ERR_DOCUMENT_TOO_LARGE")
     ELSE IF parsed.code # "SOUND" THEN Deny(parsed.code)
     ELSE IF parsed.value.type # "object" THEN Deny("ERR_SCHEMA_VIOLATION")
     ELSE IF allowed # "SOUND" THEN Deny(allowed)
     ELSE IF ~(KeysOf(parsed.value.members) \subseteq KNOWN_DOCUMENT_FIELDS)
     THEN Deny("ERR_SCHEMA_VIOLATION")
     ELSE [code |-> "SOUND", document |-> parsed.value]

=============================================================================
