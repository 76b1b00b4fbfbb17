--------------------------- MODULE DocumentProofs ---------------------------
(***************************************************************************)
(* Theorems about parseDocument of StrictJson: what a document that is     *)
(* accepted names, at any depth and at the top.                            *)
(***************************************************************************)
EXTENDS ReaderProofs

-----------------------------------------------------------------------------
(***************************************************************************)
(* The values by how deep they nest.                                       *)
(***************************************************************************)

Names == {Meaning[s] : s \in Spelling}
Member(values) == [key: Names, value: values]

ValuesFrom(values) ==
  [type: {"string"}, text: Names] \cup [type: Scalar]
  \cup [type: {"array"}, items: Seq(values)] \cup [type: {"object"}, members: Seq(Member(values))]

ValuesUpTo(n, value) ==
  value = [room \in 0..n |-> IF room = 0 THEN {} ELSE ValuesFrom(value[room - 1])]

LEMMA ValuesDefined ==
  ASSUME NEW n \in Nat
  PROVE  \E value : ValuesUpTo(n, value)
<1> DEFINE Level(room, inner) ==
             IF room = 0 THEN {} ELSE ValuesFrom(inner)
           defined == {m \in Nat : \E value : ValuesUpTo(m, value)}
<1>1. 0 \in defined
  <2>1. ValuesUpTo(0, [room \in 0..0 |-> Level(0, [x \in {} |-> x])])
    BY DEF ValuesUpTo
  <2> QED
    BY <2>1
<1>2. ASSUME NEW m \in 0..n, m \in defined
      PROVE  m + 1 \in defined
  <2>1. PICK before : ValuesUpTo(m, before)
    BY <1>2
  <2>2. before = [room \in 0..m |-> Level(room, before[room - 1])]
    BY <2>1 DEF ValuesUpTo
  <2> DEFINE value == [room \in 0..m + 1 |-> IF room <= m THEN before[room] ELSE Level(room, before[m])]
  <2> HIDE DEF Level
  <2>3. \A room \in 0..m + 1 : value[room] = Level(room, value[room - 1])
    <3>1. ASSUME NEW room \in 0..m + 1, room <= m, room # 0
          PROVE  value[room] = Level(room, value[room - 1])
      <4>1. room \in 0..m /\ room - 1 \in 0..m + 1 /\ room - 1 <= m
        BY <3>1
      <4>2. value[room] = before[room] /\ value[room - 1] = before[room - 1]
        BY <4>1
      <4> HIDE DEF value
      <4> QED
        BY <4>1, <4>2, <2>2
    <3>2. value[0] = before[0] /\ value[m + 1] = Level(m + 1, before[m])
          /\ value[(m + 1) - 1] = before[m] /\ 0 \in 0..m
      OBVIOUS
    <3>3. before[0] = Level(0, value[0 - 1])
      BY <2>2, <3>2 DEF Level
    <3> HIDE DEF value
    <3>4. \A room \in 0..m + 1 : room <= m \/ room = m + 1
      OBVIOUS
    <3> QED
      BY <3>1, <3>2, <3>3, <3>4
  <2>4. value = [room \in 0..m + 1 |-> Level(room, value[room - 1])]
    BY <2>3
  <2>5. ValuesUpTo(m + 1, value)
    <3> HIDE DEF value
    <3> QED
      BY <2>4 DEF ValuesUpTo, Level
  <2> QED
    BY <2>5
<1> HIDE DEF defined
<1>3. n \in defined
  BY <1>1, <1>2, Counting
<1> QED
  BY <1>3 DEF defined

LEMMA ValuesAre ==
  /\ Value[0] = {}
  /\ \A room \in 0..MAX_NESTING_DEPTH : Value[room + 1] = ValuesFrom(Value[room])
<1>0. MAX_NESTING_DEPTH \in Nat
  BY ReaderAssumption
<1>1. MAX_NESTING_DEPTH + 1 \in Nat
  BY <1>0
<1> DEFINE value == CHOOSE v : ValuesUpTo(MAX_NESTING_DEPTH + 1, v)
<1>2. ValuesUpTo(MAX_NESTING_DEPTH + 1, value)
  BY <1>1, ValuesDefined
<1>3. Value = value
  BY DEF Value, ValuesUpTo, ValuesFrom, Names, Member
<1> HIDE DEF value
<1>4. \A room \in 0..MAX_NESTING_DEPTH + 1 : Value[room] = IF room = 0 THEN {} ELSE ValuesFrom(Value[room - 1])
  BY <1>1, <1>2, <1>3 DEF ValuesUpTo
<1>5. ASSUME NEW room \in 0..MAX_NESTING_DEPTH
      PROVE  Value[room + 1] = ValuesFrom(Value[room])
  <2>1. room + 1 \in 0..MAX_NESTING_DEPTH + 1 /\ room + 1 # 0 /\ (room + 1) - 1 = room
    BY <1>0
  <2> QED
    BY <2>1, <1>4
<1>6. Value[0] = {}
  BY <1>1, <1>4
<1> QED
  BY <1>5, <1>6

-----------------------------------------------------------------------------
(***************************************************************************)
(* The walk of assertNoForbiddenKeys.                                      *)
(***************************************************************************)

Walked(below, w) ==
  CASE w.type = "array" -> FirstOf([i \in DOMAIN w.items |-> below[w.items[i]]])
    [] w.type = "object" ->
         FirstOf([i \in DOMAIN w.members |->
           IF w.members[i].key \in FORBIDDEN_KEYS THEN "ERR_PROTOTYPE_POLLUTION"
           ELSE below[w.members[i].value]])
    [] OTHER -> "SOUND"

WalkFrom(values, below) == [w \in values |-> Walked(below, w)]

WalkUpTo(n, walk) == walk = [room \in 0..n |-> WalkFrom(Value[room], walk[room - 1])]

LEMMA WalkDefined ==
  ASSUME NEW n \in Nat
  PROVE  \E walk : WalkUpTo(n, walk)
<1> DEFINE Level(room, inner) ==
             WalkFrom(Value[room], inner)
           defined == {m \in Nat : \E walk : WalkUpTo(m, walk)}
<1>0. \A one, two : Level(0, one) = Level(0, two)
  BY ValuesAre DEF WalkFrom
<1>1. 0 \in defined
  <2> DEFINE walk == [room \in 0..0 |-> Level(0, [x \in {} |-> x])]
  <2>1. walk = [room \in 0..0 |-> Level(room, walk[room - 1])]
    <3> HIDE DEF Level
    <3>1. \A room \in 0..0 : room = 0 /\ walk[room] = Level(0, [x \in {} |-> x])
      OBVIOUS
    <3>2. \A room \in 0..0 : walk[room] = Level(room, walk[room - 1])
      BY <1>0, <3>1
    <3> QED
      BY <3>2
  <2>2. WalkUpTo(0, walk)
    <3> HIDE DEF walk
    <3> QED
      BY <2>1 DEF WalkUpTo
  <2> QED
    BY <2>2
<1>2. ASSUME NEW m \in 0..n, m \in defined
      PROVE  m + 1 \in defined
  <2>1. PICK before : WalkUpTo(m, before)
    BY <1>2
  <2>2. before = [room \in 0..m |-> Level(room, before[room - 1])]
    BY <2>1 DEF WalkUpTo
  <2> DEFINE walk == [room \in 0..m + 1 |-> IF room <= m THEN before[room] ELSE Level(room, before[m])]
  <2> HIDE DEF Level
  <2>3. \A room \in 0..m + 1 : walk[room] = Level(room, walk[room - 1])
    <3>1. ASSUME NEW room \in 0..m + 1, room <= m, room # 0
          PROVE  walk[room] = Level(room, walk[room - 1])
      <4>1. room \in 0..m /\ room - 1 \in 0..m + 1 /\ room - 1 <= m
        BY <3>1
      <4>2. walk[room] = before[room] /\ walk[room - 1] = before[room - 1]
        BY <4>1
      <4> HIDE DEF walk
      <4> QED
        BY <4>1, <4>2, <2>2
    <3>2. walk[0] = before[0] /\ walk[m + 1] = Level(m + 1, before[m])
          /\ walk[(m + 1) - 1] = before[m] /\ 0 \in 0..m
      OBVIOUS
    <3>3. before[0] = Level(0, walk[0 - 1])
      BY <1>0, <2>2, <3>2
    <3> HIDE DEF walk
    <3>4. \A room \in 0..m + 1 : room <= m \/ room = m + 1
      OBVIOUS
    <3> QED
      BY <3>1, <3>2, <3>3, <3>4
  <2>4. walk = [room \in 0..m + 1 |-> Level(room, walk[room - 1])]
    BY <2>3
  <2>5. WalkUpTo(m + 1, walk)
    <3> HIDE DEF walk
    <3> QED
      BY <2>4 DEF WalkUpTo, Level
  <2> QED
    BY <2>5
<1> HIDE DEF defined
<1>3. n \in defined
  BY <1>1, <1>2, Counting
<1> QED
  BY <1>3 DEF defined

Walk == CHOOSE walk : WalkUpTo(MAX_NESTING_DEPTH + 1, walk)

LEMMA WalksAre ==
  /\ \A v : assertNoForbiddenKeys(v) = Walk[MAX_NESTING_DEPTH + 1][v]
  /\ \A room \in 0..MAX_NESTING_DEPTH : Walk[room + 1] = WalkFrom(Value[room + 1], Walk[room])
<1>0. MAX_NESTING_DEPTH \in Nat
  BY ReaderAssumption
<1>1. MAX_NESTING_DEPTH + 1 \in Nat
  BY <1>0
<1>2. WalkUpTo(MAX_NESTING_DEPTH + 1, Walk)
  BY <1>1, WalkDefined DEF Walk
<1>3. \A v : assertNoForbiddenKeys(v) = Walk[MAX_NESTING_DEPTH + 1][v]
  BY DEF assertNoForbiddenKeys, Walk, WalkUpTo, WalkFrom, Walked
<1>4. ASSUME NEW room \in 0..MAX_NESTING_DEPTH
      PROVE  Walk[room + 1] = WalkFrom(Value[room + 1], Walk[room])
  <2>1. room + 1 \in 0..MAX_NESTING_DEPTH + 1 /\ (room + 1) - 1 = room
    BY <1>0
  <2> QED
    BY <2>1, <1>2 DEF WalkUpTo
<1> QED
  BY <1>3, <1>4

\* What FirstOf says of a list of n answers.
LEMMA FirstAnswer ==
  ASSUME NEW answers, NEW n \in Nat, DOMAIN answers = 1..n
  PROVE  \/ FirstOf(answers) = "SOUND" /\ \A i \in 1..n : answers[i] = "SOUND"
         \/ \E i \in 1..n : /\ FirstOf(answers) = answers[i] /\ answers[i] # "SOUND"
                            /\ \A j \in 1..i - 1 : answers[j] = "SOUND"
<1>1. CASE \A i \in 1..n : answers[i] = "SOUND"
  BY <1>1 DEF FirstOf
<1>2. CASE \E i \in 1..n : answers[i] # "SOUND"
  <2> DEFINE refusing == {i \in 1..n : answers[i] # "SOUND"}
             IsFirst(i) == answers[i] # "SOUND" /\ \A j \in 1..i - 1 : answers[j] = "SOUND"
             first == CHOOSE i \in 1..n : IsFirst(i)
  <2>1. refusing \subseteq Nat /\ refusing # {}
    BY <1>2
  <2>2. PICK i \in refusing : \A j \in refusing : i <= j
    <3> HIDE DEF refusing
    <3> QED
      BY <2>1, LeastMember
  <2>3. \A j \in 1..i - 1 : j \in 1..n /\ ~(i <= j)
    OBVIOUS
  <2>4. i \in 1..n /\ IsFirst(i)
    BY <2>2, <2>3
  <2>5. first \in 1..n /\ IsFirst(first)
    <3> HIDE DEF IsFirst
    <3> QED
      BY <2>4
  <2>6. FirstOf(answers) = answers[first]
    BY <1>2 DEF FirstOf
  <2> HIDE DEF first
  <2> QED
    BY <2>5, <2>6
<1> QED
  BY <1>1, <1>2

\* A list of values is walked to its end when no answer refuses.
LEMMA WalkItems ==
  ASSUME NEW room \in 0..MAX_NESTING_DEPTH, NEW list \in Seq(Value[room]),
         Walk[room + 1][Array(list)] = "SOUND"
  PROVE  \A i \in DOMAIN list : Walk[room][list[i]] = "SOUND"
<1> DEFINE v == Array(list)
           answers == [i \in DOMAIN list |-> Walk[room][list[i]]]
<1>1. v \in Value[room + 1] /\ v.type = "array" /\ v.items = list
  BY ValuesAre DEF ValuesFrom, Array
<1>2. Walk[room + 1][v] = FirstOf(answers)
  <2>1. Walk[room + 1][v] = Walked(Walk[room], v)
    BY <1>1, WalksAre DEF WalkFrom
  <2> HIDE DEF v
  <2> QED
    BY <1>1, <2>1 DEF Walked
<1>3. Len(list) \in Nat /\ DOMAIN list = 1..Len(list) /\ DOMAIN answers = 1..Len(list)
  OBVIOUS
<1>4. FirstOf(answers) = "SOUND"
  BY <1>2
<1>5. \A i \in 1..Len(list) : answers[i] = "SOUND"
  <2> HIDE DEF answers
  <2> QED
    BY <1>3, <1>4, FirstAnswer
<1> QED
  BY <1>3, <1>5

LEMMA WalkMembers ==
  ASSUME NEW room \in 0..MAX_NESTING_DEPTH, NEW list \in Seq(Member(Value[room])),
         Walk[room + 1][Object(list)] = "SOUND"
  PROVE  \A i \in DOMAIN list : list[i].key \notin FORBIDDEN_KEYS /\ Walk[room][list[i].value] = "SOUND"
<1> DEFINE v == Object(list)
           answers == [i \in DOMAIN list |->
                         IF list[i].key \in FORBIDDEN_KEYS THEN "ERR_PROTOTYPE_POLLUTION"
                         ELSE Walk[room][list[i].value]]
<1>1. v \in Value[room + 1] /\ v.type = "object" /\ v.members = list
  BY ValuesAre DEF ValuesFrom, Object
<1>2. Walk[room + 1][v] = FirstOf(answers)
  <2>1. Walk[room + 1][v] = Walked(Walk[room], v)
    BY <1>1, WalksAre DEF WalkFrom
  <2> HIDE DEF v
  <2> QED
    BY <1>1, <2>1 DEF Walked
<1>3. Len(list) \in Nat /\ DOMAIN list = 1..Len(list) /\ DOMAIN answers = 1..Len(list)
  OBVIOUS
<1>4. FirstOf(answers) = "SOUND"
  BY <1>2
<1>5. \A i \in 1..Len(list) : answers[i] = "SOUND"
  <2> HIDE DEF answers
  <2> QED
    BY <1>3, <1>4, FirstAnswer
<1> QED
  BY <1>3, <1>5

-----------------------------------------------------------------------------
(***************************************************************************)
(* How deep a token is, and the names among the tokens.                    *)
(***************************************************************************)

Opened(t, i, bracket) == Cardinality({j \in 1..i : t[j] = bracket})
Nested(t, i) == Opened(t, i, "{") + Opened(t, i, "[") - Opened(t, i, "}") - Opened(t, i, "]")

IsNamed(t, k) == t[k] \in Spelling /\ t[k + 1] = ":"

LEMMA OpenedNext ==
  ASSUME NEW t, NEW bracket
  PROVE  /\ Opened(t, 0, bracket) = 0
         /\ \A i \in Nat : Opened(t, i, bracket) \in Nat
         /\ \A i \in Nat \ {0} : Opened(t, i, bracket) = Opened(t, i - 1, bracket) + IF t[i] = bracket THEN 1 ELSE 0
<1> DEFINE S(i) == {j \in 1..i : t[j] = bracket}
<1>1. \A i \in Nat : IsFiniteSet(S(i)) /\ Cardinality(S(i)) \in Nat
  <2>1. ASSUME NEW i \in Nat
        PROVE  IsFiniteSet(S(i))
    <3>1. IsFiniteSet(1..i)
      BY FS_Interval
    <3>2. S(i) \subseteq 1..i
      OBVIOUS
    <3> HIDE DEF S
    <3> QED
      BY <3>1, <3>2, FS_Subset
  <2> HIDE DEF S
  <2> QED
    BY <2>1, FS_CardinalityType
<1>2. Cardinality(S(0)) = 0
  <2>1. S(0) = {}
    OBVIOUS
  <2> QED
    BY <2>1, FS_EmptySet
<1>3. ASSUME NEW i \in Nat \ {0}
      PROVE  Cardinality(S(i)) = Cardinality(S(i - 1)) + IF t[i] = bracket THEN 1 ELSE 0
  <2>1. \A j \in 1..i : j = i \/ j \in 1..i - 1
    OBVIOUS
  <2>2. i \in 1..i /\ i \notin 1..i - 1 /\ i - 1 \in Nat /\ \A j \in 1..i - 1 : j \in 1..i
    OBVIOUS
  <2>3. CASE t[i] = bracket
    <3>1. S(i) = S(i - 1) \cup {i} /\ i \notin S(i - 1)
      BY <2>1, <2>2, <2>3
    <3> HIDE DEF S
    <3>2. Cardinality(S(i - 1) \cup {i}) = Cardinality(S(i - 1)) + 1
      BY <1>1, <2>2, <3>1, FS_AddElement
    <3> QED
      BY <2>3, <3>1, <3>2
  <2>4. CASE t[i] # bracket
    <3>1. S(i) = S(i - 1)
      BY <2>1, <2>2, <2>4
    <3> HIDE DEF S
    <3>2. Cardinality(S(i - 1)) \in Nat
      BY <1>1, <2>2
    <3> QED
      BY <2>4, <3>1, <3>2
  <2> QED
    BY <2>3, <2>4
<1>4. \A i : Opened(t, i, bracket) = Cardinality(S(i))
  BY DEF Opened
<1> HIDE DEF S
<1> QED
  BY <1>1, <1>2, <1>3, <1>4

LEMMA NestedNext ==
  ASSUME NEW t
  PROVE  /\ Nested(t, 0) = 0
         /\ \A i \in Nat : Nested(t, i) \in Int
         /\ \A i \in Nat \ {0} :
              /\ IsWhole(t, i) => Nested(t, i) = Nested(t, i - 1) + 1
              /\ IsBracket(t[i]) => Nested(t, i) = Nested(t, i - 1) - 1
              /\ ~IsWhole(t, i) /\ ~IsBracket(t[i]) => Nested(t, i) = Nested(t, i - 1)
<1> DEFINE One(i, bracket) == IF t[i] = bracket THEN 1 ELSE 0
           a == "{"
           b == "["
           c == "}"
           d == "]"
<1>1. \A i : /\ IsWhole(t, i) => One(i, a) + One(i, b) = 1 /\ One(i, c) = 0 /\ One(i, d) = 0
             /\ IsBracket(t[i]) => One(i, a) = 0 /\ One(i, b) = 0 /\ One(i, c) + One(i, d) = 1
             /\ ~IsWhole(t, i) /\ ~IsBracket(t[i]) => One(i, a) = 0 /\ One(i, b) = 0 /\ One(i, c) = 0 /\ One(i, d) = 0
  <2>1. /\ \A i : IsWhole(t, i) <=> t[i] = a \/ t[i] = b
        /\ \A i : IsBracket(t[i]) <=> t[i] = c \/ t[i] = d
        /\ a # b /\ a # c /\ a # d /\ b # c /\ b # d /\ c # d
    BY DEF IsWhole, IsBracket
  <2> HIDE DEF a, b, c, d
  <2> QED
    BY <2>1
<1>2. \A i, bracket : One(i, bracket) \in Nat
  OBVIOUS
<1>3. \A i : Nested(t, i) = Opened(t, i, a) + Opened(t, i, b) - Opened(t, i, c) - Opened(t, i, d)
  BY DEF Nested
<1>4. \A bracket : /\ Opened(t, 0, bracket) = 0
                   /\ \A i \in Nat : Opened(t, i, bracket) \in Nat
                   /\ \A i \in Nat \ {0} : Opened(t, i, bracket) = Opened(t, i - 1, bracket) + One(i, bracket)
  BY OpenedNext
<1> HIDE DEF One, a, b, c, d
<1>5. ASSUME NEW i \in Nat \ {0}
      PROVE  Nested(t, i) = Nested(t, i - 1) + (One(i, a) + One(i, b)) - One(i, c) - One(i, d)
  <2>1. i \in Nat /\ i - 1 \in Nat
    OBVIOUS
  <2>2. \A bracket : /\ Opened(t, i - 1, bracket) \in Nat
                     /\ Opened(t, i, bracket) = Opened(t, i - 1, bracket) + One(i, bracket)
    BY <1>4, <2>1
  <2> QED
    BY <1>2, <1>3, <2>2
<1>6. ASSUME NEW i \in Nat PROVE Nested(t, i) \in Int
  <2>1. \A bracket : Opened(t, i, bracket) \in Nat
    BY <1>4
  <2> QED
    BY <1>3, <2>1
<1>7. Nested(t, 0) = 0
  BY <1>3, <1>4
<1>8. ASSUME NEW i \in Nat \ {0}
      PROVE  /\ IsWhole(t, i) => Nested(t, i) = Nested(t, i - 1) + 1
             /\ IsBracket(t[i]) => Nested(t, i) = Nested(t, i - 1) - 1
             /\ ~IsWhole(t, i) /\ ~IsBracket(t[i]) => Nested(t, i) = Nested(t, i - 1)
  <2>1. i \in Nat /\ i - 1 \in Nat
    OBVIOUS
  <2>2. /\ Nested(t, i - 1) \in Int
        /\ One(i, a) \in Nat /\ One(i, b) \in Nat /\ One(i, c) \in Nat /\ One(i, d) \in Nat
    BY <1>2, <1>6, <2>1
  <2> QED
    BY <1>1, <1>5, <2>2
<1> QED
  BY <1>6, <1>7, <1>8

-----------------------------------------------------------------------------
(***************************************************************************)
(* What a value that was read says of its tokens.                          *)
(***************************************************************************)

\* The tokens from i to j are deeper than those around them, but for the last.
Deep(t, i, j) ==
  Nested(t, j) = Nested(t, i - 1) /\ \A k \in i..j - 1 : Nested(t, k) > Nested(t, i - 1)

\* None of them is a forbidden name.
Clean(t, i, j) == \A k \in i..j - 1 : IsNamed(t, k) => Meaning[t[k]] \notin FORBIDDEN_KEYS

\* Those among them that are names at the top are keys of members, each once.
IsTop(t, i, k) == IsNamed(t, k) /\ Nested(t, k) = Nested(t, i - 1) + 1

Tops(t, i, j, members) ==
  /\ \A k \in i..j - 1 : IsTop(t, i, k) => Meaning[t[k]] \in KeysOf(members)
  /\ \A k, l \in i..j - 1 : IsTop(t, i, k) /\ IsTop(t, i, l) /\ Meaning[t[k]] = Meaning[t[l]] => k = l

\* The walk lets v pass.
Passes(room, v) == Walk[room][v] = "SOUND"

IsObjectValue(v) == v.type = "object"

Known(t, room, i, r) ==
  /\ r.value \in Value[room] /\ Deep(t, i, r.next - 1)
  /\ Passes(room, r.value) => Clean(t, i, r.next - 1)
  /\ IsObjectValue(r.value) => Tops(t, i, r.next - 1, r.value.members)

Understood(t, inner, room) == \A i \in 1..Len(t) : IsSound(inner[i]) => Known(t, room, i, inner[i])

\* A part of what opens at p, and whether the walk lets it pass.
PartOf(t, p, room) == IF IsObject(t, p) THEN Member(Value[room]) ELSE Value[room]

PartPasses(t, p, room, x) ==
  IF IsObject(t, p) THEN x.key \notin FORBIDDEN_KEYS /\ Passes(room, x.value) ELSE Passes(room, x)

\* Tokens that are no bracket.
LEMMA FlatTokens ==
  ASSUME NEW t, NEW i
  PROVE  /\ t[i] \in Spelling => ~IsWhole(t, i) /\ ~IsBracket(t[i])
         /\ t[i] = ":" => ~IsWhole(t, i) /\ ~IsBracket(t[i]) /\ t[i] \notin Spelling
         /\ IsCut(t, i) => ~IsWhole(t, i) /\ ~IsBracket(t[i]) /\ t[i] \notin Spelling /\ t[i] # ":"
         /\ IsWhole(t, i) => t[i] \notin Spelling
         /\ \A p : t[i] = BracketOf(t, p) => IsBracket(t[i]) /\ t[i] \notin Spelling /\ t[i] # ":"
BY SpellingApart DEF IsWhole, IsBracket, IsCut, BracketOf

\* What a part adds, from a to b.
PartKnown(t, room, p, a, b, x) ==
  /\ x \in PartOf(t, p, room)
  /\ Nested(t, b) = Nested(t, a - 1) /\ \A k \in a..b : Nested(t, k) >= Nested(t, a - 1)
  /\ PartPasses(t, p, room, x) => Clean(t, a, b)
  /\ IsObject(t, p) => /\ \A k \in a..b - 1 : IsNamed(t, k) /\ Nested(t, k) = Nested(t, a - 1) => k = a
                       /\ x.key = Meaning[t[a]]

LEMMA PartIsKnown ==
  ASSUME NEW t \in Seq(Token), NEW inner, Answers(t, inner), NEW room, Understood(t, inner, room),
         NEW p \in 1..Len(t), NEW a \in p + 1..Len(t), NEW b \in a..Len(t) - 1, PartAt(t, inner, p, a, b)
  PROVE  PartKnown(t, room, p, a, b, Made(t, inner, p, a))
<1> DEFINE x == Made(t, inner, p, a)
<1>0. /\ Len(t) \in Nat /\ a \in Nat \ {0} /\ b \in Nat /\ a - 1 \in Nat /\ a + 1 \in Nat \ {0}
      /\ (a + 1) - 1 = a /\ (b + 1) - 1 = b /\ a + 2 \in 1..Len(t) + 1 /\ a \in 1..Len(t)
      /\ (a + 2) - 1 = a + 1 /\ p \in Nat /\ a + 2 \in Nat
  BY LenInNat
<1>1. CASE IsObject(t, p)
  <2> DEFINE v == inner[a + 2]
  <2>1. t[a] \in Spelling /\ t[a + 1] = ":" /\ IsSound(v) /\ v.next = b + 1
    BY <1>1 DEF PartAt
  <2>2. x = [key |-> Meaning[t[a]], value |-> v.value]
    BY <1>1 DEF Made
  <2>3. v.next > a + 2
    BY <1>0, <2>1 DEF Answers, Within
  <2>4. IsNamed(t, a)
    BY <2>1 DEF IsNamed
  <2>5. Nested(t, a) = Nested(t, a - 1) /\ Nested(t, a + 1) = Nested(t, a) /\ ~IsNamed(t, a + 1)
        /\ Meaning[t[a]] \in Names
    <3>1. /\ ~IsWhole(t, a) /\ ~IsBracket(t[a]) /\ ~IsWhole(t, a + 1) /\ ~IsBracket(t[a + 1])
          /\ ~IsNamed(t, a + 1) /\ Meaning[t[a]] \in Names
      BY <2>1, FlatTokens DEF IsNamed, Names
    <3>2. Nested(t, a) = Nested(t, a - 1)
      BY <1>0, <3>1, NestedNext
    <3>3. Nested(t, a + 1) = Nested(t, (a + 1) - 1)
      BY <1>0, <3>1, NestedNext
    <3> QED
      BY <1>0, <3>1, <3>2, <3>3
  <2>6. IsSound(v) /\ v.next = b + 1
    BY <2>1
  <2> HIDE DEF v, x
  <2>7. a + 2 \in 1..Len(t) /\ a + 2 <= b
    BY <1>0, <2>3, <2>6
  <2>8. Known(t, room, a + 2, v)
    BY <2>6, <2>7 DEF Understood, v
  <2>9. v.value \in Value[room] /\ Deep(t, a + 2, b) /\ (Passes(room, v.value) => Clean(t, a + 2, b))
    BY <1>0, <2>6, <2>8 DEF Known
  <2>10. Nested(t, b) = Nested(t, a + 1) /\ \A k \in a + 2..b - 1 : Nested(t, k) > Nested(t, a + 1)
    BY <1>0, <2>9 DEF Deep
  <2>11. \A k \in a..b : k = a \/ k = a + 1 \/ k \in a + 2..b - 1 \/ k = b
    BY <1>0
  <2>12. \A k \in a..b : k \in Nat
    BY <1>0
  <2>13. \A k \in Nat : Nested(t, k) \in Int
    BY NestedNext
  <2>14. ASSUME NEW k \in a..b PROVE Nested(t, k) >= Nested(t, a - 1)
    <3>1. Nested(t, k) \in Int /\ Nested(t, a - 1) \in Int
      BY <1>0, <2>12, <2>13
    <3>2. Nested(t, k) = Nested(t, a - 1) \/ Nested(t, k) > Nested(t, a - 1)
      BY <1>0, <2>5, <2>10, <2>11
    <3> QED
      BY <3>1, <3>2
  <2>15. \A k \in a..b - 1 : k = a \/ k = a + 1 \/ k \in a + 2..b - 1
    BY <1>0
  <2>16. \A k \in a..b - 1 : IsNamed(t, k) /\ Nested(t, k) = Nested(t, a - 1) => k = a
    <3>1. \A k \in a + 2..b - 1 : k \in Nat /\ Nested(t, k) > Nested(t, a - 1)
      BY <1>0, <2>5, <2>10
    <3>2. \A k \in a + 2..b - 1 : Nested(t, k) # Nested(t, a - 1)
      BY <1>0, <3>1, <2>13
    <3> QED
      BY <2>5, <2>15, <3>2
  <2>17. PartPasses(t, p, room, x) => Clean(t, a, b)
    <3>1. PartPasses(t, p, room, x) => Meaning[t[a]] \notin FORBIDDEN_KEYS /\ Passes(room, v.value)
      BY <1>1, <2>2 DEF PartPasses
    <3> QED
      BY <2>5, <2>9, <2>15, <3>1 DEF Clean
  <2>18. x \in PartOf(t, p, room)
    BY <1>1, <2>2, <2>5, <2>9 DEF PartOf, Member
  <2> QED
    BY <1>0, <1>1, <2>2, <2>5, <2>10, <2>14, <2>16, <2>17, <2>18 DEF PartKnown, x
<1>2. CASE ~IsObject(t, p)
  <2>1. IsSound(inner[a]) /\ inner[a].next = b + 1 /\ x = inner[a].value
    BY <1>2 DEF PartAt, Made
  <2>2. Known(t, room, a, inner[a])
    BY <1>0, <2>1 DEF Understood
  <2> HIDE DEF x
  <2>3. x \in Value[room] /\ Deep(t, a, b) /\ (Passes(room, x) => Clean(t, a, b))
    BY <1>0, <2>1, <2>2 DEF Known
  <2>4. Nested(t, b) = Nested(t, a - 1) /\ \A k \in a..b - 1 : Nested(t, k) > Nested(t, a - 1)
    BY <2>3 DEF Deep
  <2>5. \A k \in a..b : (k = b \/ k \in a..b - 1) /\ k \in Nat
    BY <1>0
  <2>6. \A k \in Nat : Nested(t, k) \in Int
    BY NestedNext
  <2>7. ASSUME NEW k \in a..b PROVE Nested(t, k) >= Nested(t, a - 1)
    <3>1. Nested(t, k) \in Int /\ Nested(t, a - 1) \in Int
      BY <1>0, <2>5, <2>6
    <3>2. Nested(t, k) = Nested(t, a - 1) \/ Nested(t, k) > Nested(t, a - 1)
      BY <2>4, <2>5
    <3> QED
      BY <3>1, <3>2
  <2> QED
    BY <1>2, <2>3, <2>4, <2>7 DEF PartKnown, PartPasses, PartOf, x
<1> QED
  BY <1>1, <1>2

LEMMA AppendParts ==
  ASSUME NEW S, NEW list \in Seq(S), NEW x \in S
  PROVE  LET longer == Append(list, x) IN
         /\ longer \in Seq(S) /\ KeysOf(longer) = KeysOf(list) \cup {x.key}
         /\ \A i \in DOMAIN list : i \in DOMAIN longer /\ longer[i] = list[i]
         /\ \E i \in DOMAIN longer : longer[i] = x
<1> DEFINE longer == Append(list, x)
<1>1. /\ Len(list) \in Nat /\ DOMAIN list = 1..Len(list)
      /\ DOMAIN longer = 1..Len(list) + 1 /\ longer[Len(list) + 1] = x
      /\ \A i \in 1..Len(list) : longer[i] = list[i]
  OBVIOUS
<1>2. \A i \in 1..Len(list) + 1 : i \in 1..Len(list) \/ i = Len(list) + 1
  BY <1>1
<1>3. longer \in Seq(S)
  OBVIOUS
<1>4. Len(list) + 1 \in 1..Len(list) + 1 /\ \A i \in 1..Len(list) : i \in 1..Len(list) + 1
  BY <1>1
<1> HIDE DEF longer
<1>5. KeysOf(longer) = KeysOf(list) \cup {x.key}
  BY <1>1, <1>2, <1>4 DEF KeysOf
<1>6. /\ longer \in Seq(S) /\ KeysOf(longer) = KeysOf(list) \cup {x.key}
      /\ \A i \in DOMAIN list : i \in DOMAIN longer /\ longer[i] = list[i]
      /\ \E i \in DOMAIN longer : longer[i] = x
  BY <1>1, <1>3, <1>4, <1>5
<1> QED
  BY <1>6 DEF longer

AllPass(t, p, room, list) == \A i \in DOMAIN list : PartPasses(t, p, room, list[i])

\* A loop is at n, and has taken list.
Reached(t, room, p, n, list) ==
  /\ list \in Seq(PartOf(t, p, room))
  /\ Nested(t, n - 1) = Nested(t, p - 1) + 1
  /\ \A k \in p..n - 1 : Nested(t, k) > Nested(t, p - 1)
  /\ t[n - 1] \notin Spelling
  /\ AllPass(t, p, room, list) => Clean(t, p, n - 1)
  /\ IsObject(t, p) => Tops(t, p, n - 1, list)

\* It has taken a part that ends at b.
Joined(t, room, p, b, list) ==
  /\ list \in Seq(PartOf(t, p, room))
  /\ Nested(t, b) = Nested(t, p - 1) + 1
  /\ \A k \in p..b : Nested(t, k) > Nested(t, p - 1)
  /\ AllPass(t, p, room, list) => Clean(t, p, b + 1)
  /\ IsObject(t, p) => Tops(t, p, b + 1, list)

LEMMA PartJoins ==
  ASSUME NEW t, NEW room, NEW p \in Nat \ {0}, NEW n \in Nat, n > p, NEW list,
         Reached(t, room, p, n, list), NEW b \in Nat, b >= n, NEW x, PartKnown(t, room, p, n, b, x),
         ~IsNamed(t, b), IsObject(t, p) => \A i \in DOMAIN list : list[i].key # Meaning[t[n]]
  PROVE  Joined(t, room, p, b, Append(list, x))
<1> DEFINE longer == Append(list, x)
           S == PartOf(t, p, room)
<1>0. /\ \A k \in p..b : k \in p..n - 1 \/ k \in n..b
      /\ \A k \in p..(b + 1) - 1 : k \in p..(n - 1) - 1 \/ k = n - 1 \/ k \in n..b - 1 \/ k = b
      /\ n - 1 \in Nat /\ p - 1 \in Nat /\ (b + 1) - 1 = b /\ (n - 1) - 1 = n - 2
  OBVIOUS
<1>1. list \in Seq(S) /\ x \in S
  BY DEF Reached, PartKnown
<1>2. /\ longer \in Seq(S) /\ KeysOf(longer) = KeysOf(list) \cup {x.key}
      /\ \A i \in DOMAIN list : i \in DOMAIN longer /\ longer[i] = list[i]
      /\ \E i \in DOMAIN longer : longer[i] = x
  <2> HIDE DEF S
  <2> QED
    BY <1>1, AppendParts
<1>3. \A k \in Nat : Nested(t, k) \in Int
  BY NestedNext
<1>4. Nested(t, n - 1) = Nested(t, p - 1) + 1 /\ Nested(t, b) = Nested(t, n - 1)
  BY DEF Reached, PartKnown
<1>5. ASSUME NEW k \in p..b
      PROVE  Nested(t, k) > Nested(t, p - 1)
  <2>1. CASE k \in p..n - 1
    BY <2>1 DEF Reached
  <2>2. CASE k \in n..b
    <3>1. Nested(t, k) >= Nested(t, n - 1)
      BY <2>2 DEF PartKnown
    <3>2. Nested(t, k) \in Int /\ Nested(t, p - 1) \in Int
      BY <1>0, <1>3
    <3> QED
      BY <1>4, <3>1, <3>2
  <2> QED
    BY <1>0, <2>1, <2>2
<1>6. ~IsNamed(t, n - 1)
  BY DEF Reached, IsNamed
<1>7. AllPass(t, p, room, longer) => Clean(t, p, b + 1)
  <2>1. ASSUME AllPass(t, p, room, longer)
        PROVE  Clean(t, p, b + 1)
    <3>1. AllPass(t, p, room, list) /\ PartPasses(t, p, room, x)
      BY <1>2, <2>1 DEF AllPass
    <3>2. Clean(t, p, n - 1) /\ Clean(t, n, b)
      BY <3>1 DEF Reached, PartKnown
    <3> QED
      BY <1>0, <1>6, <3>2 DEF Clean
  <2> QED
    BY <2>1
<1>8. ASSUME IsObject(t, p)
      PROVE  Tops(t, p, b + 1, longer)
  <2>1. Tops(t, p, n - 1, list) /\ x.key = Meaning[t[n]]
    BY <1>8 DEF Reached, PartKnown
  <2>2. ASSUME NEW k \in p..(b + 1) - 1, IsTop(t, p, k)
        PROVE  k = n \/ k \in p..(n - 1) - 1
    <3>1. CASE k \in n..b - 1
      BY <1>4, <1>8, <2>2, <3>1 DEF PartKnown, IsTop
    <3> QED
      BY <1>0, <1>6, <2>2, <3>1 DEF IsTop
  <2>3. \A k \in p..(n - 1) - 1 : IsTop(t, p, k) => Meaning[t[k]] \in KeysOf(list)
    BY <2>1 DEF Tops
  <2>4. Meaning[t[n]] \notin KeysOf(list)
    BY <1>8, NoKey
  <2>5. \A k \in p..(b + 1) - 1 : IsTop(t, p, k) => Meaning[t[k]] \in KeysOf(longer)
    BY <1>2, <2>1, <2>2, <2>3
  <2>6. \A k, l \in p..(n - 1) - 1 :
          IsTop(t, p, k) /\ IsTop(t, p, l) /\ Meaning[t[k]] = Meaning[t[l]] => k = l
    BY <2>1 DEF Tops
  <2>7. ASSUME NEW k \in p..(b + 1) - 1, NEW l \in p..(b + 1) - 1, IsTop(t, p, k), IsTop(t, p, l),
               Meaning[t[k]] = Meaning[t[l]]
        PROVE  k = l
    BY <2>2, <2>3, <2>4, <2>6, <2>7
  <2> HIDE DEF longer
  <2> QED
    BY <2>5, <2>7 DEF Tops
<1>9. Nested(t, b) = Nested(t, p - 1) + 1
  BY <1>4
<1>10. Joined(t, room, p, b, longer)
  <2> HIDE DEF longer
  <2> QED
    BY <1>2, <1>5, <1>7, <1>8, <1>9 DEF Joined
<1> QED
  BY <1>10

\* Before a comma the loop goes on.
LEMMA JoinedOn ==
  ASSUME NEW t, NEW room, NEW p \in Nat \ {0}, NEW b \in Nat, b >= p, NEW list, Joined(t, room, p, b, list),
         IsCut(t, b + 1)
  PROVE  Reached(t, room, p, b + 2, list)
<1>0. b + 1 \in Nat \ {0} /\ (b + 1) - 1 = b /\ (b + 2) - 1 = b + 1 /\ \A k \in p..b + 1 : k \in p..b \/ k = b + 1
  OBVIOUS
<1>1. Nested(t, b + 1) = Nested(t, b) /\ t[b + 1] \notin Spelling
  <2>1. ~IsWhole(t, b + 1) /\ ~IsBracket(t[b + 1]) /\ t[b + 1] \notin Spelling
    BY FlatTokens
  <2>2. Nested(t, b + 1) = Nested(t, (b + 1) - 1)
    BY <1>0, <2>1, NestedNext
  <2> QED
    BY <1>0, <2>1, <2>2
<1>2. Nested(t, b + 1) > Nested(t, p - 1)
  <2>1. b \in p..b
    OBVIOUS
  <2> QED
    BY <1>1, <2>1 DEF Joined
<1> QED
  BY <1>0, <1>1, <1>2 DEF Joined, Reached

\* Before its bracket the whole is known.
LEMMA JoinedWhole ==
  ASSUME NEW t, NEW room \in 0..MAX_NESTING_DEPTH, NEW p \in Nat \ {0}, NEW b \in Nat, b >= p, NEW list,
         Joined(t, room, p, b, list), t[b + 1] = BracketOf(t, p),
         NEW r, r.next = b + 2, r.value = WholeOf(t, p, list)
  PROVE  Known(t, room + 1, p, r)
<1>0. /\ b + 1 \in Nat \ {0} /\ (b + 1) - 1 = b /\ (b + 2) - 1 = b + 1
      /\ p - 1 \in Nat /\ b \in p..b
  OBVIOUS
<1>1. Deep(t, p, b + 1)
  <2>1. IsBracket(t[b + 1])
    BY FlatTokens
  <2>2. Nested(t, b + 1) = Nested(t, (b + 1) - 1) - 1
    BY <1>0, <2>1, NestedNext
  <2>3. Nested(t, p - 1) \in Int /\ Nested(t, b) = Nested(t, p - 1) + 1
    BY <1>0, NestedNext DEF Joined
  <2>4. Nested(t, b + 1) = Nested(t, p - 1)
    BY <1>0, <2>2, <2>3
  <2> QED
    BY <1>0, <2>4 DEF Deep, Joined
<1>2. CASE IsObject(t, p)
  <2>1. list \in Seq(Member(Value[room]))
    BY <1>2 DEF Joined, PartOf
  <2>2. r.value = Object(list)
    BY <1>2 DEF WholeOf
  <2>3. r.value \in Value[room + 1] /\ r.value.members = list
    BY <2>1, <2>2, ValuesAre DEF ValuesFrom, Object
  <2>4. Passes(room + 1, r.value) => AllPass(t, p, room, list)
    BY <1>2, <2>1, <2>2, WalkMembers DEF Passes, AllPass, PartPasses
  <2>5. Tops(t, p, b + 1, list)
    BY <1>2 DEF Joined
  <2> QED
    BY <1>0, <1>1, <2>3, <2>4, <2>5 DEF Known, Joined
<1>3. CASE ~IsObject(t, p)
  <2>1. list \in Seq(Value[room])
    BY <1>3 DEF Joined, PartOf
  <2>2. r.value = Array(list)
    BY <1>3 DEF WholeOf
  <2>3. r.value \in Value[room + 1] /\ ~IsObjectValue(r.value)
    BY <2>1, <2>2, ValuesAre DEF ValuesFrom, Array, IsObjectValue
  <2>4. Passes(room + 1, r.value) => AllPass(t, p, room, list)
    BY <1>3, <2>1, <2>2, WalkItems DEF Passes, AllPass, PartPasses
  <2> QED
    BY <1>0, <1>1, <2>3, <2>4 DEF Known, Joined
<1> QED
  BY <1>2, <1>3

-----------------------------------------------------------------------------
(***************************************************************************)
(* So all that is known of a value holds of what the reader reads.         *)
(***************************************************************************)

LEMMA Opening ==
  ASSUME NEW t \in Seq(Token), NEW room, NEW p \in 1..Len(t), IsWhole(t, p)
  PROVE  Reached(t, room, p, p + 1, <<>>) /\ Joined(t, room, p, p, <<>>)
<1>0. /\ p \in Nat \ {0} /\ (p + 1) - 1 = p /\ p - 1 \in Nat
      /\ (\A k \in p..p : k = p) /\ (\A k \in p..p - 1 : FALSE)
  BY LenInNat
<1>1. t[p] \notin Spelling /\ ~IsNamed(t, p)
  BY FlatTokens DEF IsNamed
<1>2. Nested(t, p) = Nested(t, p - 1) + 1 /\ Nested(t, p) > Nested(t, p - 1)
  <2>1. Nested(t, p) = Nested(t, p - 1) + 1
    BY <1>0, NestedNext
  <2>2. Nested(t, p - 1) \in Int
    BY <1>0, NestedNext
  <2> QED
    BY <2>1, <2>2
<1>3. <<>> \in Seq(PartOf(t, p, room))
  OBVIOUS
<1> QED
  BY <1>0, <1>1, <1>2, <1>3 DEF Reached, Joined, Clean, Tops, IsTop

LEMMA TurnKnows ==
  ASSUME NEW t \in Seq(Token), NEW inner, Answers(t, inner), NEW room \in 0..MAX_NESTING_DEPTH,
         Understood(t, inner, room), NEW p \in 1..Len(t),
         NEW s, IsTaking(s), s.next \in p + 1..Len(t) + 1, Reached(t, room, p, s.next, s.value),
         NEW r, r = NextTurn(t, inner, p, s)
  PROVE  /\ IsTaking(r) => Reached(t, room, p, r.next, r.value)
         /\ IsSound(r) => Known(t, room + 1, p, r)
<1> DEFINE n == s.next
           x == Made(t, inner, p, n)
           list == Append(s.value, x)
<1>0. p \in Nat \ {0} /\ n \in Nat /\ n > p
  BY LenInNat
<1>1. ASSUME NEW b \in n..Len(t) - 1, Took(t, inner, p, s, b), ~IsNamed(t, b)
      PROVE  b \in Nat /\ b >= p /\ Joined(t, room, p, b, list)
  <2>1. b \in Nat /\ b >= n /\ b >= p /\ n \in p + 1..Len(t)
    BY <1>0, LenInNat
  <2>2. PartAt(t, inner, p, n, b)
    BY <1>1 DEF Took
  <2>3. PartKnown(t, room, p, n, b, x)
    BY <2>1, <2>2, PartIsKnown
  <2>4. IsObject(t, p) => \A i \in DOMAIN s.value : s.value[i].key # Meaning[t[n]]
    BY <1>1 DEF Took
  <2>5. Joined(t, room, p, b, list)
    BY <1>0, <1>1, <2>1, <2>3, <2>4, PartJoins
  <2> QED
    BY <2>1, <2>5
<1>2. (IsTaking(r) => TakesOn(t, inner, p, s, r)) /\ (IsSound(r) => Closes(t, inner, p, s, r))
  BY TurnComes
<1>3. ASSUME IsTaking(r)
      PROVE  Reached(t, room, p, r.next, r.value)
  <2>1. PICK b \in n..Len(t) - 1 :
          Took(t, inner, p, s, b) /\ IsCut(t, b + 1) /\ r.next = b + 2 /\ r.value = list
    BY <1>2, <1>3 DEF TakesOn
  <2>2. ~IsNamed(t, b)
    BY <2>1, FlatTokens DEF IsNamed
  <2>3. b \in Nat /\ b >= p /\ Joined(t, room, p, b, list)
    BY <1>1, <2>1, <2>2
  <2>4. Reached(t, room, p, b + 2, list)
    <3> HIDE DEF list
    <3> QED
      BY <1>0, <2>1, <2>3, JoinedOn
  <2> QED
    BY <2>1, <2>4
<1>4. ASSUME IsSound(r)
      PROVE  Known(t, room + 1, p, r)
  <2>1. PICK b \in n..Len(t) - 1 :
          Took(t, inner, p, s, b) /\ t[b + 1] = BracketOf(t, p)
          /\ r.next = b + 2 /\ r.value = WholeOf(t, p, list)
    BY <1>2, <1>4 DEF Closes
  <2>2. ~IsNamed(t, b)
    BY <2>1, FlatTokens DEF IsNamed
  <2>3. b \in Nat /\ b >= p /\ Joined(t, room, p, b, list)
    BY <1>1, <2>1, <2>2
  <2> HIDE DEF list
  <2> QED
    BY <1>0, <2>1, <2>3, JoinedWhole
<1> QED
  BY <1>3, <1>4

LEMMA PartsKnown ==
  ASSUME NEW t \in Seq(Token), NEW inner, Answers(t, inner), NEW room \in 0..MAX_NESTING_DEPTH,
         Understood(t, inner, room), NEW p \in 1..Len(t), IsWhole(t, p), IsSound(parts(t, inner, p))
  PROVE  Known(t, room + 1, p, parts(t, inner, p))
<1>1. PICK turn : Looping(t, inner, p, turn) /\ parts(t, inner, p) = turn[Len(t)]
  BY PartsAre
<1> DEFINE good == {k \in 0..Len(t) : /\ IsTaking(turn[k]) => Reached(t, room, p, turn[k].next, turn[k].value)
                                      /\ IsSound(turn[k]) => Known(t, room + 1, p, turn[k])}
<1>2. Len(t) \in Nat
  BY LenInNat
<1>3. 0 \in good
  <2>1. turn[0] = Taking(<<>>, p + 1) /\ 0 \in 0..Len(t)
    BY <1>1, <1>2 DEF Looping
  <2>2. ~IsSound(turn[0]) /\ turn[0].next = p + 1 /\ turn[0].value = <<>>
    BY <2>1, Kinds
  <2>3. Reached(t, room, p, p + 1, <<>>)
    BY Opening
  <2> QED
    BY <2>1, <2>2, <2>3
<1>4. ASSUME NEW k \in 0..Len(t), k \in good, k < Len(t)
      PROVE  k + 1 \in good
  <2>1. k + 1 \in 0..Len(t) /\ turn[k + 1] = NextTurn(t, inner, p, turn[k])
    BY <1>1, <1>2, <1>4 DEF Looping
  <2>2. CASE IsTaking(turn[k])
    <3>1. turn[k].next \in p + 1 + k..Len(t) + 1
      BY <1>1, <2>2, TurnsWithin
    <3>2. turn[k].next \in p + 1..Len(t) + 1
      BY <1>2, <3>1
    <3>3. Reached(t, room, p, turn[k].next, turn[k].value)
      BY <1>4, <2>2
    <3> QED
      BY <2>1, <2>2, <3>2, <3>3, TurnKnows
  <2>3. CASE ~IsTaking(turn[k])
    <3>1. turn[k + 1] = turn[k]
      BY <2>1, <2>3 DEF NextTurn, IsTaking
    <3> QED
      BY <1>4, <2>1, <2>3, <3>1
  <2> QED
    BY <2>2, <2>3
<1> HIDE DEF good
<1>5. \A k \in 0..Len(t) : k \in good
  BY <1>2, <1>3, <1>4, Counting
<1>6. Len(t) \in good
  BY <1>2, <1>5
<1> QED
  BY <1>1, <1>6 DEF good

LEMMA ValueKnown ==
  ASSUME NEW t \in Seq(Token), NEW inner, Answers(t, inner), NEW room \in 0..MAX_NESTING_DEPTH,
         Understood(t, inner, room), NEW i \in 1..Len(t), NEW r, r = valueAt(t, inner, i), IsSound(r)
  PROVE  Known(t, room + 1, i, r) /\ (IsObjectValue(r.value) => IsObject(t, i))
<1>0. i \in Nat \ {0} /\ i >= i /\ (i + 1) - 1 = i /\ \A k \in i..i - 1 : FALSE
  BY LenInNat
<1>1. Cased(t, inner, i, r)
  BY ValueCases
<1>2. At(t, i) = t[i]
  BY AtToken
<1>3. CASE IsWhole(t, i)
  <2>1. IsObject(t, i) \/ (~IsObject(t, i) /\ t[i] = "[")
    BY <1>3 DEF IsWhole, IsObject
  <2>2. r = IF At(t, i + 1) = BracketOf(t, i) THEN Read(WholeOf(t, i, <<>>), i + 2) ELSE parts(t, inner, i)
    BY <1>1, <1>2, <2>1 DEF Cased, BracketOf, WholeOf, IsObject
  <2>3. CASE At(t, i + 1) = BracketOf(t, i)
    <3>1. r.next = i + 2 /\ r.value = WholeOf(t, i, <<>>)
      BY <2>2, <2>3, Kinds
    <3>2. t[i + 1] = BracketOf(t, i)
      <4>1. BracketOf(t, i) # "end"
        BY DEF BracketOf
      <4>2. i + 1 \in Nat
        BY <1>0
      <4> QED
        BY <2>3, <4>1, <4>2, AtToken
    <3>3. Joined(t, room, i, i, <<>>)
      BY <1>3, Opening
    <3>4. Known(t, room + 1, i, r)
      BY <1>0, <3>1, <3>2, <3>3, JoinedWhole
    <3>5. IsObjectValue(WholeOf(t, i, <<>>)) => IsObject(t, i)
      BY DEF IsObjectValue, WholeOf, Array
    <3> QED
      BY <3>1, <3>4, <3>5
  <2>4. CASE At(t, i + 1) # BracketOf(t, i)
    <3>1. r = parts(t, inner, i)
      BY <2>2, <2>4
    <3>2. Known(t, room + 1, i, r)
      BY <1>3, <3>1, PartsKnown
    <3>3. PICK cuts, e, list : ClosesAt(t, inner, i, r, cuts, e, list)
      BY <3>1, PartsClose
    <3>4. IsObjectValue(WholeOf(t, i, list)) => IsObject(t, i)
      BY DEF IsObjectValue, WholeOf, Array
    <3> QED
      BY <3>2, <3>3, <3>4 DEF ClosesAt
  <2> QED
    BY <2>3, <2>4
<1>4. CASE ~IsWhole(t, i)
  <2>1. t[i] \in Spelling \cup Scalar
    <3>1. t[i] \notin Spelling \cup Scalar => r = fail(i)
      BY <1>1, <1>2, <1>4 DEF Cased, IsWhole
    <3>2. ~IsSound(fail(i))
      BY Kinds
    <3> QED
      BY <3>1, <3>2
  <2>2. r.next = i + 1 /\ r.value \in Value[room + 1] /\ ~IsObjectValue(r.value)
    <3>1. CASE t[i] \in Spelling
      <4>1. r = Read([type |-> "string", text |-> Meaning[t[i]]], i + 1)
        BY <1>1, <1>2, <3>1 DEF Cased
      <4>2. r.next = i + 1 /\ r.value = [type |-> "string", text |-> Meaning[t[i]]]
        BY <4>1, Kinds
      <4> QED
        BY <3>1, <4>2, ValuesAre DEF ValuesFrom, Names, IsObjectValue
    <3>2. CASE t[i] \in Scalar
      <4>1. r = Read([type |-> t[i]], i + 1)
        BY <1>1, <1>2, <3>2 DEF Cased
      <4>2. r.next = i + 1 /\ r.value = [type |-> t[i]]
        BY <4>1, Kinds
      <4> QED
        BY <3>2, <4>2, ValuesAre DEF ValuesFrom, IsObjectValue, Scalar
    <3> QED
      BY <2>1, <3>1, <3>2
  <2>3. ~IsBracket(t[i])
    BY <2>1, SpellingApart DEF IsBracket, Scalar
  <2>4. Nested(t, i) = Nested(t, i - 1)
    BY <1>0, <1>4, <2>3, NestedNext
  <2> QED
    BY <1>0, <2>2, <2>4 DEF Known, Deep, Clean
<1> QED
  BY <1>3, <1>4

LEMMA LevelsKnown ==
  ASSUME NEW t \in Seq(Token)
  PROVE  \A room \in 0..MAX_NESTING_DEPTH + 1 : Understood(t, Levels(t)[room], room)
<1> DEFINE good == {room \in 0..MAX_NESTING_DEPTH + 1 : Understood(t, Levels(t)[room], room)}
<1>0. MAX_NESTING_DEPTH \in Nat /\ MAX_NESTING_DEPTH + 1 \in Nat /\ \A i \in 1..Len(t) : i \in 1..Len(t) + 1
  BY ReaderAssumption, LenInNat
<1>1. 0 \in good
  <2>1. 0 \in 0..MAX_NESTING_DEPTH + 1
    BY <1>0
  <2>2. \A i \in 1..Len(t) : ~IsSound(Levels(t)[0][i])
    BY <1>0, LevelsAre, Kinds
  <2> QED
    BY <2>1, <2>2 DEF Understood
<1>2. ASSUME NEW room \in 0..MAX_NESTING_DEPTH + 1, room \in good, room < MAX_NESTING_DEPTH + 1
      PROVE  room + 1 \in good
  <2>1. room \in 0..MAX_NESTING_DEPTH /\ room + 1 \in 0..MAX_NESTING_DEPTH + 1
    BY <1>0, <1>2
  <2>2. Answers(t, Levels(t)[room]) /\ Understood(t, Levels(t)[room], room)
    BY <1>2, <2>1, LevelsWithin
  <2>3. \A i \in 1..Len(t) : Levels(t)[room + 1][i] = valueAt(t, Levels(t)[room], i)
    BY <1>0, <2>1, LevelsAre
  <2>4. \A i \in 1..Len(t) : IsSound(valueAt(t, Levels(t)[room], i)) =>
          Known(t, room + 1, i, valueAt(t, Levels(t)[room], i))
    BY <2>1, <2>2, ValueKnown
  <2>5. Understood(t, Levels(t)[room + 1], room + 1)
    BY <2>3, <2>4 DEF Understood
  <2> QED
    BY <2>1, <2>5
<1> HIDE DEF good
<1>3. \A room \in 0..MAX_NESTING_DEPTH + 1 : room \in good
  BY <1>0, <1>1, <1>2, Counting
<1> QED
  BY <1>3 DEF good

\* What parseDocument accepts.
LEMMA AcceptedDocument ==
  ASSUME NEW t \in Seq(Token), parseDocument(t).code = "SOUND"
  PROVE  LET members == Whole(t).value.members IN
         /\ Len(t) <= MAX_DOCUMENT_BYTES /\ 1 \in 1..Len(t)
         /\ Clean(t, 1, Len(t)) /\ Tops(t, 1, Len(t), members)
         /\ KeysOf(members) \subseteq KNOWN_DOCUMENT_FIELDS
<1> DEFINE v == Whole(t)
           parsed == parseJsonStrict(t)
<1>1. /\ Len(t) <= MAX_DOCUMENT_BYTES /\ parsed.code = "SOUND" /\ parsed.value.type = "object"
      /\ assertNoForbiddenKeys(parsed.value) = "SOUND"
      /\ KeysOf(parsed.value.members) \subseteq KNOWN_DOCUMENT_FIELDS
  <2> DEFINE TooLong == Len(t) > MAX_DOCUMENT_BYTES
             allowed == assertNoForbiddenKeys(parsed.value)
             KeysKnown == KeysOf(parsed.value.members) \subseteq KNOWN_DOCUMENT_FIELDS
             Deny(code) == [code |-> code, document |-> Text]
  <2>1. parseDocument(t) =
          IF TooLong THEN Deny("ERR_DOCUMENT_TOO_LARGE")
          ELSE IF parsed.code # "SOUND" THEN Deny(parsed.code)
          ELSE IF parsed.value.type # "object" THEN Deny("ERR_SCHEMA_VIOLATION")
          ELSE IF allowed # "SOUND" THEN Deny(allowed)
          ELSE IF ~KeysKnown THEN Deny("ERR_SCHEMA_VIOLATION")
          ELSE [code |-> "SOUND", document |-> parsed.value]
    BY DEF parseDocument
  <2>2. \A code : Deny(code).code = code
    OBVIOUS
  <2>3. ~TooLong => Len(t) <= MAX_DOCUMENT_BYTES
    BY LenInNat, ReaderAssumption
  <2> HIDE DEF TooLong, allowed, KeysKnown, Deny, parsed
  <2>4. ~TooLong /\ parsed.code = "SOUND" /\ parsed.value.type = "object" /\ allowed = "SOUND" /\ KeysKnown
    BY <2>1, <2>2
  <2> QED
    BY <2>3, <2>4 DEF allowed, KeysKnown
<1>2. IsSound(parsed) /\ IsObjectValue(parsed.value) /\ Passes(MAX_NESTING_DEPTH + 1, parsed.value)
  BY <1>1, WalksAre DEF IsSound, IsObjectValue, Passes
<1>3. v.next \in 1..Len(t) + 1 /\ Within(t, v, 1)
      /\ parsed = IF IsSound(v) /\ v.next <= Len(t) THEN fail(v.next) ELSE v
  BY WholeIs
<1> HIDE DEF v, parsed
<1>4. parsed = v /\ IsSound(v) /\ ~(v.next <= Len(t))
  BY <1>2, <1>3, Kinds
<1>5. Len(t) \in Nat /\ v.next > 1
  BY <1>3, <1>4, LenInNat DEF Within
<1>6. v.next = Len(t) + 1 /\ v.next - 1 = Len(t) /\ 1 \in 1..Len(t)
  BY <1>3, <1>4, <1>5
<1>7. MAX_NESTING_DEPTH + 1 \in 0..MAX_NESTING_DEPTH + 1
  BY ReaderAssumption
<1>8. Known(t, MAX_NESTING_DEPTH + 1, 1, v)
  BY <1>4, <1>6, <1>7, LevelsKnown DEF Understood, Whole, v
<1>9. Clean(t, 1, Len(t)) /\ Tops(t, 1, Len(t), v.value.members)
  BY <1>2, <1>4, <1>6, <1>8 DEF Known
<1>10. Len(t) <= MAX_DOCUMENT_BYTES /\ KeysOf(v.value.members) \subseteq KNOWN_DOCUMENT_FIELDS
  BY <1>1, <1>4 DEF parsed
<1> QED
  BY <1>6, <1>9, <1>10 DEF v

\* A document that parseDocument accepts names no forbidden member at any
\* depth, however the name is spelt, and at the top only the known members,
\* each of them once: for documents of any length and depth of nesting.
THEOREM DocumentSafeAlways == Spec => []DocumentSafe
<1>1. TextOK => DocumentSafe
  <2>1. SUFFICES ASSUME text \in Seq(Token), parseDocument(text).code = "SOUND"
                 PROVE  LET names == {i \in 1..Len(text) - 1 : text[i] \in Spelling /\ text[i + 1] = ":"}
                            top == {i \in names : Nested(text, i) = 1}
                        IN /\ Len(text) <= MAX_DOCUMENT_BYTES
                           /\ \A i \in names : Meaning[text[i]] \notin FORBIDDEN_KEYS
                           /\ \A i \in top : Meaning[text[i]] \in KNOWN_DOCUMENT_FIELDS
                           /\ \A i, k \in top : Meaning[text[i]] = Meaning[text[k]] => i = k
    BY DEF TextOK, DocumentSafe, Nested, Opened
  <2> DEFINE members == Whole(text).value.members
  <2>2. /\ Len(text) <= MAX_DOCUMENT_BYTES
        /\ Clean(text, 1, Len(text)) /\ Tops(text, 1, Len(text), members)
        /\ KeysOf(members) \subseteq KNOWN_DOCUMENT_FIELDS
    BY <2>1, AcceptedDocument
  <2>3. Nested(text, 1 - 1) + 1 = 1
    BY NestedNext
  <2> HIDE DEF members
  <2>4. \A i : text[i] \in Spelling /\ text[i + 1] = ":" /\ Nested(text, i) = 1 => IsTop(text, 1, i)
    BY <2>3 DEF IsTop, IsNamed
  <2> QED
    BY <2>2, <2>4 DEF Clean, Tops, IsNamed
<1> QED
  BY <1>1, TextTyped, PTL

=============================================================================
