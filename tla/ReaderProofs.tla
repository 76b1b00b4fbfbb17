---------------------------- MODULE ReaderProofs ----------------------------
(***************************************************************************)
(* Theorems about the reader of StrictJson, for texts of any length and    *)
(* whatever depth it allows.                                               *)
(***************************************************************************)
EXTENDS Inputs, TLAPS, FiniteSetTheorems, WellFoundedInduction

LEMMA LeastMember ==
  ASSUME NEW S, S \subseteq Nat, S # {}
  PROVE  \E i \in S : \A j \in S : i <= j
<1>1. PICK i \in S : \A j \in S : ~(<<j, i>> \in OpToRel(<, Nat))
  BY NatLessThanWellFounded, WFMin
<1>2. \A j, k \in Nat : <<j, k>> \in OpToRel(<, Nat) <=> j < k
  BY DEF OpToRel
<1>3. \A j \in S : ~(j < i) /\ i \in Nat /\ j \in Nat
  BY <1>1, <1>2
<1> QED
  BY <1>3

\* Induction over the first naturals: a set that has zero, and with k the next.
LEMMA Counting ==
  ASSUME NEW n \in Nat, NEW S, 0 \in S, \A k \in 0..n : k \in S /\ k < n => k + 1 \in S
  PROVE  \A k \in 0..n : k \in S
<1> DEFINE others == {k \in 0..n : k \notin S}
<1>1. SUFFICES ASSUME others # {} PROVE FALSE
  OBVIOUS
<1>2. others \subseteq Nat
  OBVIOUS
<1>3. PICK m \in others : \A j \in others : m <= j
  <2> HIDE DEF others
  <2> QED
    BY <1>1, <1>2, LeastMember
<1>4. m # 0 /\ m - 1 \in 0..n /\ m - 1 \notin others
  BY <1>3
<1>5. m - 1 \in S /\ (m - 1) + 1 = m /\ m - 1 < n
  BY <1>3, <1>4
<1> QED
  BY <1>3, <1>4, <1>5

-----------------------------------------------------------------------------
(***************************************************************************)
(* The loop over the parts of what opens at i.                             *)
(***************************************************************************)

NextTurn(t, inner, i, s) ==
  IF s.code = "TAKING"
  THEN IF t[i] = "{" THEN member(t, inner, s) ELSE item(t, inner, s)
  ELSE s

\* Its first n turns.
Turns(t, inner, i, n, turn) ==
  turn = [k \in 0..n |-> IF k = 0 THEN Taking(<<>>, i + 1) ELSE NextTurn(t, inner, i, turn[k - 1])]

LEMMA TurnsDefined ==
  ASSUME NEW t, NEW inner, NEW i, NEW n \in Nat
  PROVE  \E turn : Turns(t, inner, i, n, turn)
<1> DEFINE defined == {m \in Nat : \E turn : Turns(t, inner, i, m, turn)}
<1>1. 0 \in defined
  <2>1. Turns(t, inner, i, 0, [k \in 0..0 |-> Taking(<<>>, i + 1)])
    BY DEF Turns
  <2> QED
    BY <2>1
<1>2. ASSUME NEW m \in 0..n, m \in defined
      PROVE  m + 1 \in defined
  <2>1. PICK before : Turns(t, inner, i, m, before)
    BY <1>2
  <2> DEFINE turn == [k \in 0..m + 1 |-> IF k <= m THEN before[k] ELSE NextTurn(t, inner, i, before[m])]
  <2>2. \A k \in 0..m + 1 : k # 0 => k - 1 \in 0..m /\ turn[k - 1] = before[k - 1]
    OBVIOUS
  <2>3. \A k \in 0..m + 1 :
          turn[k] = IF k = 0 THEN Taking(<<>>, i + 1) ELSE NextTurn(t, inner, i, turn[k - 1])
    <3>1. ASSUME NEW k \in 0..m + 1, k <= m
          PROVE  turn[k] = IF k = 0 THEN Taking(<<>>, i + 1) ELSE NextTurn(t, inner, i, turn[k - 1])
      <4>1. k \in 0..m /\ turn[k] = before[k]
        BY <3>1
      <4> HIDE DEF turn
      <4> QED
        BY <4>1, <2>1, <2>2 DEF Turns
    <3>2. turn[m + 1] = NextTurn(t, inner, i, before[m]) /\ m + 1 # 0 /\ (m + 1) - 1 = m
      OBVIOUS
    <3> HIDE DEF turn
    <3>3. turn[m + 1] = IF m + 1 = 0 THEN Taking(<<>>, i + 1) ELSE NextTurn(t, inner, i, turn[(m + 1) - 1])
      BY <3>2, <2>2
    <3>4. \A k \in 0..m + 1 : k <= m \/ k = m + 1
      OBVIOUS
    <3> QED
      BY <3>1, <3>3, <3>4
  <2>4. Turns(t, inner, i, m + 1, turn)
    BY <2>3 DEF Turns
  <2> QED
    BY <2>4
<1> HIDE DEF defined
<1>3. n \in defined
  BY <1>1, <1>2, Counting
<1> QED
  BY <1>3 DEF defined

\* The turns of a loop, as many as there are tokens.
Looping(t, inner, i, turn) ==
  /\ turn[0] = Taking(<<>>, i + 1)
  /\ \A k \in 0..Len(t) : k < Len(t) => turn[k + 1] = NextTurn(t, inner, i, turn[k])

\* What the loop answers is the last of its turns.
LEMMA PartsAre ==
  ASSUME NEW t \in Seq(Token), NEW inner, NEW i
  PROVE  \E turn : Looping(t, inner, i, turn) /\ parts(t, inner, i) = turn[Len(t)]
<1> DEFINE last == CHOOSE turn : Turns(t, inner, i, Len(t), turn)
<1>1. Len(t) \in Nat
  OBVIOUS
<1>2. Turns(t, inner, i, Len(t), last)
  BY <1>1, TurnsDefined
<1>3. parts(t, inner, i) = last[Len(t)]
  BY DEF parts, Turns, NextTurn
<1> HIDE DEF last
<1>4. last[0] = Taking(<<>>, i + 1)
  BY <1>1, <1>2 DEF Turns
<1>5. ASSUME NEW k \in 0..Len(t), k < Len(t)
      PROVE  last[k + 1] = NextTurn(t, inner, i, last[k])
  <2>1. k + 1 \in 0..Len(t) /\ k + 1 # 0 /\ (k + 1) - 1 = k
    BY <1>1, <1>5
  <2> QED
    BY <2>1, <1>2 DEF Turns
<1> QED
  BY <1>3, <1>4, <1>5 DEF Looping

-----------------------------------------------------------------------------
(***************************************************************************)
(* The values at each place, by the room for levels inside them.           *)
(***************************************************************************)

LevelsUpTo(t, n, value) ==
  value = [room \in 0..n |->
    [i \in 1..Len(t) + 1 |->
       IF room = 0 THEN Refused("ERR_SCHEMA_VIOLATION", i) ELSE valueAt(t, value[room - 1], i)]]

LEMMA LevelsDefined ==
  ASSUME NEW t, NEW n \in Nat
  PROVE  \E value : LevelsUpTo(t, n, value)
<1> DEFINE Level(room, inner) ==
             [i \in 1..Len(t) + 1 |->
                IF room = 0 THEN Refused("ERR_SCHEMA_VIOLATION", i) ELSE valueAt(t, inner, i)]
           defined == {m \in Nat : \E value : LevelsUpTo(t, m, value)}
<1>1. 0 \in defined
  <2> DEFINE value == [room \in 0..0 |-> [i \in 1..Len(t) + 1 |-> Refused("ERR_SCHEMA_VIOLATION", i)]]
  <2>1. LevelsUpTo(t, 0, value)
    BY DEF LevelsUpTo
  <2> QED
    BY <2>1
<1>2. ASSUME NEW m \in 0..n, m \in defined
      PROVE  m + 1 \in defined
  <2>1. PICK before : LevelsUpTo(t, m, before)
    BY <1>2
  <2>2. before = [room \in 0..m |-> Level(room, before[room - 1])]
    BY <2>1 DEF LevelsUpTo
  <2> DEFINE value == [room \in 0..m + 1 |-> IF room <= m THEN before[room] ELSE Level(room, before[m])]
  <2> HIDE DEF Level
  <2>3. \A room \in 0..m + 1 : value[room] = Level(room, value[room - 1])
    <3>1. ASSUME NEW room \in 0..m + 1, room <= m, room # 0
          PROVE  value[room] = Level(room, value[room - 1])
      <4>1. room \in 0..m /\ room - 1 \in 0..m + 1 /\ room - 1 <= m
        BY <3>1
      <4>2. value[room] = before[room] /\ value[room - 1] = before[room - 1]
        BY <4>1
      <4> HIDE DEF value
      <4> QED
        BY <4>1, <4>2, <2>2
    <3>2. value[0] = before[0] /\ value[m + 1] = Level(m + 1, before[m])
          /\ value[(m + 1) - 1] = before[m] /\ 0 \in 0..m
      OBVIOUS
    <3>3. before[0] = Level(0, value[0 - 1])
      BY <2>2, <3>2 DEF Level
    <3> HIDE DEF value
    <3>4. \A room \in 0..m + 1 : room <= m \/ room = m + 1
      OBVIOUS
    <3> QED
      BY <3>1, <3>2, <3>3, <3>4
  <2>4. value = [room \in 0..m + 1 |-> Level(room, value[room - 1])]
    BY <2>3
  <2>5. LevelsUpTo(t, m + 1, value)
    <3> HIDE DEF value
    <3> QED
      BY <2>4 DEF LevelsUpTo, Level
  <2> QED
    BY <2>5
<1> HIDE DEF defined
<1>3. n \in defined
  BY <1>1, <1>2, Counting
<1> QED
  BY <1>3 DEF defined

LEMMA LevelAt ==
  ASSUME NEW t, NEW n \in Nat, NEW value, LevelsUpTo(t, n, value),
         NEW room \in 0..n, NEW i \in 1..Len(t) + 1
  PROVE  value[room][i] = IF room = 0 THEN Refused("ERR_SCHEMA_VIOLATION", i)
                          ELSE valueAt(t, value[room - 1], i)
<1> DEFINE Level(r, inner) ==
             [j \in 1..Len(t) + 1 |->
                IF r = 0 THEN Refused("ERR_SCHEMA_VIOLATION", j) ELSE valueAt(t, inner, j)]
<1>1. value = [r \in 0..n |-> Level(r, value[r - 1])]
  BY DEF LevelsUpTo
<1>2. value[room] = Level(room, value[room - 1])
  <2> HIDE DEF Level
  <2> QED
    BY <1>1
<1> QED
  BY <1>2

\* What is read at i with so much room.
Levels(t) == CHOOSE value : LevelsUpTo(t, MAX_NESTING_DEPTH + 1, value)

LEMMA LevelsAre ==
  ASSUME NEW t
  PROVE  /\ parseValue(t) = Levels(t)[MAX_NESTING_DEPTH + 1]
         /\ \A i \in 1..Len(t) + 1 : Levels(t)[0][i] = Refused("ERR_SCHEMA_VIOLATION", i)
         /\ \A room \in 0..MAX_NESTING_DEPTH, i \in 1..Len(t) + 1 :
              Levels(t)[room + 1][i] = valueAt(t, Levels(t)[room], i)
<1>0. MAX_NESTING_DEPTH \in Nat
  BY ReaderAssumption
<1>1. MAX_NESTING_DEPTH + 1 \in Nat
  BY <1>0
<1>2. LevelsUpTo(t, MAX_NESTING_DEPTH + 1, Levels(t))
  BY <1>1, LevelsDefined DEF Levels
<1>3. parseValue(t) = Levels(t)[MAX_NESTING_DEPTH + 1]
  BY DEF parseValue, Levels, LevelsUpTo
<1>4. \A i \in 1..Len(t) + 1 : Levels(t)[0][i] = Refused("ERR_SCHEMA_VIOLATION", i)
  BY <1>1, <1>2 DEF LevelsUpTo
<1>5. ASSUME NEW room \in 0..MAX_NESTING_DEPTH, NEW i \in 1..Len(t) + 1
      PROVE  Levels(t)[room + 1][i] = valueAt(t, Levels(t)[room], i)
  <2>1. room + 1 \in 0..MAX_NESTING_DEPTH + 1 /\ room + 1 # 0 /\ (room + 1) - 1 = room
    BY <1>0
  <2> QED
    BY <2>1, <1>1, <1>2, LevelAt
<1> QED
  BY <1>3, <1>4, <1>5

-----------------------------------------------------------------------------
(***************************************************************************)
(* What one part of an object or an array does, case by case.              *)
(***************************************************************************)

LEMMA SpellingApart ==
  /\ "end" \notin Spelling
  /\ \A s \in Spelling : s \notin {"{", "}", "[", "]", ":", ",", "integer", "null"}
  /\ Spelling = DOMAIN Meaning
BY ReaderAssumption DEF Punctuation, Scalar

LEMMA AtToken ==
  ASSUME NEW t \in Seq(Token), NEW i \in Nat
  PROVE  /\ i \in 1..Len(t) => At(t, i) = t[i] /\ t[i] \in Token
         /\ i \notin 1..Len(t) => At(t, i) = "end"
BY DEF At

LEMMA LenInNat ==
  ASSUME NEW t \in Seq(Token)
  PROVE  Len(t) \in Nat
OBVIOUS

\* The three kinds of answer.
IsTaking(r) == r.code = "TAKING"
IsSound(r) == r.code = "SOUND"

LEMMA Kinds ==
  /\ \A value, next : LET r == Taking(value, next) IN
       IsTaking(r) /\ ~IsSound(r) /\ r.next = next /\ r.value = value
  /\ \A value, next : LET r == Read(value, next) IN
       ~IsTaking(r) /\ IsSound(r) /\ r.next = next /\ r.value = value
  /\ \A at : ~IsTaking(fail(at)) /\ ~IsSound(fail(at)) /\ fail(at).next = at
  /\ \A at : LET r == Refused("ERR_DUPLICATE_MEMBER", at) IN ~IsTaking(r) /\ ~IsSound(r) /\ r.next = at
  /\ \A at : LET r == Refused("ERR_SCHEMA_VIOLATION", at) IN ~IsTaking(r) /\ ~IsSound(r) /\ r.next = at
BY DEF Taking, Read, fail, Refused, IsTaking, IsSound

\* What was read may be gone on from.
Within(t, r, i) ==
  /\ r.next \in i..Len(t) + 1 /\ ~IsTaking(r)
  /\ IsSound(r) => r.next > i

IsBracket(bracket) == bracket \in {"}", "]"}

\* r is what follows the part v.
Continued(t, v, taken, whole, bracket, r) ==
  \/ ~IsSound(v) /\ r = v
  \/ /\ IsSound(v) /\ v.next \in 1..Len(t)
     /\ t[v.next] = "," /\ r = Taking(taken, v.next + 1)
  \/ /\ IsSound(v) /\ v.next \in 1..Len(t)
     /\ t[v.next] = bracket /\ r = Read(whole, v.next + 1)
  \/ IsSound(v) /\ At(t, v.next) \notin {",", bracket} /\ r = fail(v.next)

LEMMA ContinueIs ==
  ASSUME NEW t \in Seq(Token), NEW i \in Nat \ {0}, NEW v, Within(t, v, i),
         NEW taken, NEW whole, NEW bracket, IsBracket(bracket)
  PROVE  Continued(t, v, taken, whole, bracket, Continue(t, v, taken, whole, bracket))
<1>1. v.next \in Nat
  BY LenInNat DEF Within
<1>2. At(t, v.next) # "end" => v.next \in 1..Len(t) /\ At(t, v.next) = t[v.next]
  BY <1>1, AtToken
<1> QED
  BY <1>2 DEF Continued, Continue, IsSound, IsBracket

\* r is what the turn s of an object comes to.
Membered(t, inner, s, r) ==
  \/ At(t, s.next) \notin Spelling /\ r = fail(s.next)
  \/ /\ s.next \in 1..Len(t) /\ t[s.next] \in Spelling
     /\ Meaning[t[s.next]] \in KeysOf(s.value) /\ r = Refused("ERR_DUPLICATE_MEMBER", s.next)
  \/ /\ s.next \in 1..Len(t) /\ t[s.next] \in Spelling
     /\ Meaning[t[s.next]] \notin KeysOf(s.value)
     /\ At(t, s.next + 1) # ":" /\ r = fail(s.next + 1)
  \/ LET v == inner[s.next + 2]
         taken == Append(s.value, [key |-> Meaning[t[s.next]], value |-> v.value])
     IN /\ s.next \in 1..Len(t) - 1 /\ t[s.next] \in Spelling
        /\ Meaning[t[s.next]] \notin KeysOf(s.value) /\ t[s.next + 1] = ":"
        /\ r = Continue(t, v, taken, Object(taken), "}")

LEMMA MemberIs ==
  ASSUME NEW t \in Seq(Token), NEW inner, NEW s, s.next \in 1..Len(t) + 1
  PROVE  Membered(t, inner, s, member(t, inner, s))
<1>1. Len(t) \in Nat /\ s.next \in Nat /\ s.next + 1 \in Nat /\ s.next >= 1
  BY LenInNat
<1>2. At(t, s.next) \in Spelling => s.next \in 1..Len(t) /\ At(t, s.next) = t[s.next]
  BY <1>1, AtToken, SpellingApart
<1>3. At(t, s.next + 1) = ":" => s.next + 1 \in 1..Len(t) /\ t[s.next + 1] = ":"
  BY <1>1, AtToken
<1>4. s.next + 1 \in 1..Len(t) => s.next \in 1..Len(t) - 1
  BY <1>1
<1> QED
  BY <1>2, <1>3, <1>4 DEF Membered, member, Entered

LEMMA ItemIs ==
  ASSUME NEW t, NEW inner, NEW s
  PROVE  LET v == inner[s.next]
             taken == Append(s.value, v.value)
         IN item(t, inner, s) = Continue(t, v, taken, Array(taken), "]")
BY DEF item

-----------------------------------------------------------------------------
(***************************************************************************)
(* Where a loop is after each turn.                                        *)
(***************************************************************************)

\* inner answers for every place.
Answers(t, inner) == \A i \in 1..Len(t) + 1 : Within(t, inner[i], i)

\* What a turn that starts at j may come to.
Turned(t, r, j) ==
  /\ IsTaking(r) => r.next \in j + 2..Len(t) + 1
  /\ ~IsTaking(r) => Within(t, r, j)

LEMMA ContinueWithin ==
  ASSUME NEW t \in Seq(Token), NEW i \in Nat \ {0}, NEW j \in Nat \ {0}, j <= i, NEW v, Within(t, v, i),
         NEW taken, NEW whole, NEW bracket, IsBracket(bracket)
  PROVE  Turned(t, Continue(t, v, taken, whole, bracket), j)
<1> SUFFICES ASSUME NEW r, r = Continue(t, v, taken, whole, bracket)
             PROVE  Turned(t, r, j)
  OBVIOUS
<1>1. v.next \in i..Len(t) + 1 /\ Len(t) \in Nat /\ (IsSound(v) => v.next > i)
  BY LenInNat DEF Within
<1>2. CASE ~IsSound(v) /\ r = v
  <2>1. v.next \in j..Len(t) + 1
    BY <1>1
  <2> QED
    BY <1>2, <2>1 DEF Within, Turned
<1>3. ASSUME IsSound(v), v.next \in 1..Len(t), r = Taking(taken, v.next + 1)
      PROVE  Turned(t, r, j)
  <2>1. v.next + 1 \in j + 2..Len(t) + 1
    BY <1>1, <1>3
  <2> QED
    BY <1>3, <2>1, Kinds DEF Turned
<1>4. ASSUME IsSound(v), v.next \in 1..Len(t), r = Read(whole, v.next + 1)
      PROVE  Turned(t, r, j)
  <2>1. v.next + 1 \in j..Len(t) + 1 /\ v.next + 1 > j
    BY <1>1, <1>4
  <2> QED
    BY <1>4, <2>1, Kinds DEF Turned, Within
<1>5. ASSUME r = fail(v.next)
      PROVE  Turned(t, r, j)
  <2>1. v.next \in j..Len(t) + 1
    BY <1>1
  <2> QED
    BY <1>5, <2>1, Kinds DEF Turned, Within
<1>6. \/ ~IsSound(v) /\ r = v
      \/ IsSound(v) /\ v.next \in 1..Len(t) /\ r = Taking(taken, v.next + 1)
      \/ IsSound(v) /\ v.next \in 1..Len(t) /\ r = Read(whole, v.next + 1)
      \/ r = fail(v.next)
  <2>1. Continued(t, v, taken, whole, bracket, r)
    BY ContinueIs
  <2> QED
    BY <2>1 DEF Continued
<1> QED
  BY <1>2, <1>3, <1>4, <1>5, <1>6

LEMMA NextWithin ==
  ASSUME NEW t \in Seq(Token), NEW inner, Answers(t, inner), NEW i \in 1..Len(t),
         NEW s, IsTaking(s), s.next \in i + 1..Len(t) + 1
  PROVE  Turned(t, NextTurn(t, inner, i, s), s.next)
<1> SUFFICES ASSUME NEW r, r = NextTurn(t, inner, i, s)
             PROVE  Turned(t, r, s.next)
  OBVIOUS
<1>1. s.next \in Nat \ {0} /\ s.next \in 1..Len(t) + 1 /\ Len(t) \in Nat
  BY LenInNat
<1>2. CASE t[i] = "{"
  <2>0. s.next \in 1..Len(t) - 1 =>
          s.next + 2 \in 1..Len(t) + 1 /\ s.next + 2 \in Nat \ {0} /\ s.next <= s.next + 2
    BY <1>1
  <2>1. r = member(t, inner, s)
    BY <1>2 DEF NextTurn, IsTaking
  <2>2. ASSUME NEW at \in s.next..s.next + 1, at <= Len(t) + 1, ~IsTaking(r) /\ ~IsSound(r), r.next = at
        PROVE  Turned(t, r, s.next)
    <3>1. at \in s.next..Len(t) + 1
      BY <1>1, <2>2
    <3> QED
      BY <3>1, <2>2 DEF Turned, Within
  <2>3. ASSUME NEW taken, s.next \in 1..Len(t) - 1, r = Continue(t, inner[s.next + 2], taken, Object(taken), "}")
        PROVE  Turned(t, r, s.next)
    <3>1. s.next + 2 \in 1..Len(t) + 1 /\ s.next + 2 \in Nat \ {0} /\ s.next <= s.next + 2
      BY <2>0, <2>3
    <3>2. Within(t, inner[s.next + 2], s.next + 2)
      BY <3>1 DEF Answers
    <3>3. IsBracket("}")
      BY DEF IsBracket
    <3> QED
      BY <1>1, <2>3, <3>1, <3>2, <3>3, ContinueWithin
  <2>4. s.next \in s.next..s.next + 1 /\ s.next <= Len(t) + 1
    BY <1>1
  <2>5. s.next \in 1..Len(t) => s.next + 1 \in s.next..s.next + 1 /\ s.next + 1 <= Len(t) + 1
    BY <1>1
  <2>6. \/ r = fail(s.next)
        \/ s.next \in 1..Len(t) /\ r = Refused("ERR_DUPLICATE_MEMBER", s.next)
        \/ s.next \in 1..Len(t) /\ r = fail(s.next + 1)
        \/ \E taken : s.next \in 1..Len(t) - 1 /\ r = Continue(t, inner[s.next + 2], taken, Object(taken), "}")
    <3>1. Membered(t, inner, s, r)
      BY <1>1, <2>1, MemberIs
    <3> QED
      BY <3>1 DEF Membered
  <2>7. CASE r = fail(s.next) \/ r = Refused("ERR_DUPLICATE_MEMBER", s.next)
    BY <2>2, <2>4, <2>7, Kinds
  <2>8. CASE s.next \in 1..Len(t) /\ r = fail(s.next + 1)
    BY <2>2, <2>5, <2>8, Kinds
  <2> QED
    BY <2>3, <2>6, <2>7, <2>8
<1>3. CASE t[i] # "{"
  <2>1. r = Continue(t, inner[s.next], Append(s.value, inner[s.next].value),
                     Array(Append(s.value, inner[s.next].value)), "]")
    BY <1>3, ItemIs DEF NextTurn, IsTaking
  <2>2. Within(t, inner[s.next], s.next) /\ s.next <= s.next
    BY <1>1 DEF Answers
  <2>3. IsBracket("]")
    BY DEF IsBracket
  <2> QED
    BY <1>1, <2>1, <2>2, <2>3, ContinueWithin
<1> QED
  BY <1>2, <1>3

\* A loop that goes on is one token further at least each turn.
LEMMA TurnsWithin ==
  ASSUME NEW t \in Seq(Token), NEW inner, Answers(t, inner), NEW i \in 1..Len(t), NEW turn,
         Looping(t, inner, i, turn)
  PROVE  \A k \in 0..Len(t) :
           /\ IsTaking(turn[k]) => turn[k].next \in i + 1 + k..Len(t) + 1
           /\ ~IsTaking(turn[k]) => Within(t, turn[k], i + 1)
<1> DEFINE good == {k \in 0..Len(t) : /\ IsTaking(turn[k]) => turn[k].next \in i + 1 + k..Len(t) + 1
                                      /\ ~IsTaking(turn[k]) => Within(t, turn[k], i + 1)}
<1>0. Len(t) \in Nat
  BY LenInNat
<1>1. 0 \in good
  <2>1. 0 \in 0..Len(t) /\ i + 1 \in i + 1 + 0..Len(t) + 1
    BY <1>0
  <2>2. turn[0] = Taking(<<>>, i + 1)
    BY DEF Looping
  <2> QED
    BY <2>1, <2>2, Kinds
<1>2. ASSUME NEW k \in 0..Len(t), k \in good, k < Len(t)
      PROVE  k + 1 \in good
  <2>1. k + 1 \in 0..Len(t) /\ turn[k + 1] = NextTurn(t, inner, i, turn[k])
    BY <1>0, <1>2 DEF Looping
  <2>2. CASE IsTaking(turn[k])
    <3>1. turn[k].next \in i + 1 + k..Len(t) + 1
      BY <1>2, <2>2
    <3>2. turn[k].next \in i + 1..Len(t) + 1
      BY <1>0, <3>1
    <3>3. Turned(t, turn[k + 1], turn[k].next)
      BY <2>1, <2>2, <3>2, NextWithin
    <3>4. ASSUME turn[k + 1].next \in turn[k].next + 2..Len(t) + 1
          PROVE  turn[k + 1].next \in i + 1 + (k + 1)..Len(t) + 1
      BY <1>0, <3>1, <3>4
    <3>5. ASSUME NEW r, Within(t, r, turn[k].next)
          PROVE  Within(t, r, i + 1)
      <4>1. r.next \in turn[k].next..Len(t) + 1
        BY <3>5 DEF Within
      <4>2. r.next \in i + 1..Len(t) + 1 /\ (r.next > turn[k].next => r.next > i + 1)
        BY <1>0, <3>2, <4>1
      <4> QED
        BY <3>5, <4>2 DEF Within
    <3> QED
      BY <2>1, <3>3, <3>4, <3>5 DEF Turned
  <2>3. CASE ~IsTaking(turn[k])
    <3>1. turn[k + 1] = turn[k]
      BY <2>1, <2>3 DEF NextTurn, IsTaking
    <3> QED
      BY <1>2, <2>1, <2>3, <3>1
  <2> QED
    BY <2>2, <2>3
<1> HIDE DEF good
<1>3. \A k \in 0..Len(t) : k \in good
  BY <1>0, <1>1, <1>2, Counting
<1> QED
  BY <1>3 DEF good

\* So it has ended after as many turns as there are tokens.
LEMMA LoopEnds ==
  ASSUME NEW t \in Seq(Token), NEW inner, Answers(t, inner), NEW i \in 1..Len(t), NEW turn,
         Looping(t, inner, i, turn)
  PROVE  ~IsTaking(turn[Len(t)]) /\ Within(t, turn[Len(t)], i + 1)
<1>1. Len(t) \in 0..Len(t)
  BY LenInNat
<1>2. turn[Len(t)].next \notin i + 1 + Len(t)..Len(t) + 1
  BY LenInNat
<1> QED
  BY <1>1, <1>2, TurnsWithin

LEMMA PartsWithin ==
  ASSUME NEW t \in Seq(Token), NEW inner, Answers(t, inner), NEW i \in 1..Len(t)
  PROVE  Within(t, parts(t, inner, i), i + 1)
<1>1. PICK turn : Looping(t, inner, i, turn) /\ parts(t, inner, i) = turn[Len(t)]
  BY PartsAre
<1> QED
  BY <1>1, LoopEnds

\* valueAt, one case after another.
Cased(t, inner, i, r) ==
  /\ At(t, i) = "{" => r = IF At(t, i + 1) = "}" THEN Read(Object(<<>>), i + 2) ELSE parts(t, inner, i)
  /\ At(t, i) = "[" => r = IF At(t, i + 1) = "]" THEN Read(Array(<<>>), i + 2) ELSE parts(t, inner, i)
  /\ At(t, i) \in Spelling => r = Read([type |-> "string", text |-> Meaning[t[i]]], i + 1)
  /\ At(t, i) \in Scalar => r = Read([type |-> t[i]], i + 1)
  /\ At(t, i) \notin {"{", "["} \cup Spelling \cup Scalar => r = fail(i)

LEMMA ValueCases ==
  ASSUME NEW t, NEW inner, NEW i
  PROVE  Cased(t, inner, i, valueAt(t, inner, i))
<1>1. At(t, i) = "{" =>
        valueAt(t, inner, i) = IF At(t, i + 1) = "}" THEN Read(Object(<<>>), i + 2) ELSE parts(t, inner, i)
  BY SpellingApart DEF valueAt, Scalar
<1>2. At(t, i) = "[" =>
        valueAt(t, inner, i) = IF At(t, i + 1) = "]" THEN Read(Array(<<>>), i + 2) ELSE parts(t, inner, i)
  BY SpellingApart DEF valueAt, Scalar
<1>3. At(t, i) \in Spelling => valueAt(t, inner, i) = Read([type |-> "string", text |-> Meaning[t[i]]], i + 1)
  BY SpellingApart DEF valueAt, Scalar
<1>4. At(t, i) \in Scalar => valueAt(t, inner, i) = Read([type |-> t[i]], i + 1)
  BY SpellingApart DEF valueAt, Scalar
<1>5. At(t, i) \notin {"{", "["} \cup Spelling \cup Scalar => valueAt(t, inner, i) = fail(i)
  BY DEF valueAt
<1> QED
  BY <1>1, <1>2, <1>3, <1>4, <1>5 DEF Cased

\* r is what is read at i.
Valued(t, inner, i, r) ==
  \/ i \in 1..Len(t) - 1 /\ t[i] = "{" /\ t[i + 1] = "}" /\ r = Read(Object(<<>>), i + 2)
  \/ i \in 1..Len(t) - 1 /\ t[i] = "[" /\ t[i + 1] = "]" /\ r = Read(Array(<<>>), i + 2)
  \/ i \in 1..Len(t) /\ t[i] = "{" /\ At(t, i + 1) # "}" /\ r = parts(t, inner, i)
  \/ i \in 1..Len(t) /\ t[i] = "[" /\ At(t, i + 1) # "]" /\ r = parts(t, inner, i)
  \/ i \in 1..Len(t) /\ t[i] \in Spelling /\ r = Read([type |-> "string", text |-> Meaning[t[i]]], i + 1)
  \/ i \in 1..Len(t) /\ t[i] \in Scalar /\ r = Read([type |-> t[i]], i + 1)
  \/ At(t, i) \notin {"{", "["} \cup Spelling \cup Scalar /\ r = fail(i)

LEMMA ValueIs ==
  ASSUME NEW t \in Seq(Token), NEW inner, NEW i \in 1..Len(t) + 1
  PROVE  Valued(t, inner, i, valueAt(t, inner, i))
<1>1. i \in Nat /\ i + 1 \in Nat /\ Len(t) \in Nat
  BY LenInNat
<1>2. At(t, i) # "end" => i \in 1..Len(t) /\ At(t, i) = t[i]
  BY <1>1, AtToken
<1>3. At(t, i + 1) # "end" => i + 1 \in 1..Len(t) /\ At(t, i + 1) = t[i + 1]
  BY <1>1, AtToken
<1>4. i + 1 \in 1..Len(t) => i \in 1..Len(t) - 1
  BY <1>1
<1>5. At(t, i) \in Spelling \cup Scalar => At(t, i) # "end" /\ At(t, i) \notin {"{", "["}
  BY SpellingApart DEF Scalar
<1>6. At(t, i) \in Scalar => At(t, i) \notin Spelling
  BY SpellingApart DEF Scalar
<1>7. At(t, i) = "{" => At(t, i) # "["
  OBVIOUS
<1> QED
  BY <1>2, <1>3, <1>4, <1>5, <1>6, <1>7 DEF Valued, valueAt

LEMMA ValueWithin ==
  ASSUME NEW t \in Seq(Token), NEW inner, Answers(t, inner), NEW i \in 1..Len(t) + 1
  PROVE  Within(t, valueAt(t, inner, i), i)
<1> SUFFICES ASSUME NEW r, r = valueAt(t, inner, i)
             PROVE  Within(t, r, i)
  OBVIOUS
<1>1. Len(t) \in Nat
  BY LenInNat
<1>2. \/ i \in 1..Len(t) - 1 /\ \E v : r = Read(v, i + 2)
      \/ i \in 1..Len(t) /\ \E v : r = Read(v, i + 1)
      \/ i \in 1..Len(t) /\ r = parts(t, inner, i)
      \/ r = fail(i)
  <2>1. Valued(t, inner, i, r)
    BY ValueIs
  <2> QED
    BY <2>1 DEF Valued
<1>3. ASSUME NEW v, i \in 1..Len(t) - 1, r = Read(v, i + 2)
      PROVE  Within(t, r, i)
  <2>1. i + 2 \in i..Len(t) + 1 /\ i + 2 > i
    BY <1>1, <1>3
  <2> QED
    BY <1>3, <2>1, Kinds DEF Within
<1>4. ASSUME NEW v, i \in 1..Len(t), r = Read(v, i + 1)
      PROVE  Within(t, r, i)
  <2>1. i + 1 \in i..Len(t) + 1 /\ i + 1 > i
    BY <1>1, <1>4
  <2> QED
    BY <1>4, <2>1, Kinds DEF Within
<1>5. ASSUME i \in 1..Len(t), r = parts(t, inner, i)
      PROVE  Within(t, r, i)
  <2>1. Within(t, r, i + 1)
    BY <1>5, PartsWithin
  <2>2. r.next \in i + 1..Len(t) + 1
    BY <2>1 DEF Within
  <2>3. r.next \in i..Len(t) + 1 /\ r.next > i
    BY <2>2, <1>1
  <2> QED
    BY <2>1, <2>3 DEF Within
<1>6. ASSUME r = fail(i)
      PROVE  Within(t, r, i)
  <2>1. i \in i..Len(t) + 1
    BY <1>1
  <2> QED
    BY <1>6, <2>1, Kinds DEF Within
<1> QED
  BY <1>2, <1>3, <1>4, <1>5, <1>6

LEMMA LevelsWithin ==
  ASSUME NEW t \in Seq(Token)
  PROVE  \A room \in 0..MAX_NESTING_DEPTH + 1 : Answers(t, Levels(t)[room])
<1> DEFINE answered == {room \in 0..MAX_NESTING_DEPTH + 1 : Answers(t, Levels(t)[room])}
<1>0. MAX_NESTING_DEPTH + 1 \in Nat
  BY ReaderAssumption
<1>1. 0 \in answered
  <2>1. 0 \in 0..MAX_NESTING_DEPTH + 1
    BY <1>0
  <2>2. ASSUME NEW i \in 1..Len(t) + 1
        PROVE  Within(t, Levels(t)[0][i], i)
    <3>1. i \in i..Len(t) + 1
      BY LenInNat
    <3> QED
      BY <3>1, LevelsAre, Kinds DEF Within
  <2> QED
    BY <2>1, <2>2 DEF Answers
<1>2. ASSUME NEW room \in 0..MAX_NESTING_DEPTH + 1, room \in answered, room < MAX_NESTING_DEPTH + 1
      PROVE  room + 1 \in answered
  <2>1. room \in 0..MAX_NESTING_DEPTH /\ room + 1 \in 0..MAX_NESTING_DEPTH + 1
    <3>1. MAX_NESTING_DEPTH \in Nat
      BY ReaderAssumption
    <3> QED
      BY <3>1, <1>2
  <2>2. \A i \in 1..Len(t) + 1 : Within(t, valueAt(t, Levels(t)[room], i), i)
    BY <1>2, ValueWithin
  <2> QED
    BY <2>1, <2>2, LevelsAre DEF Answers
<1> HIDE DEF answered
<1>3. \A room \in 0..MAX_NESTING_DEPTH + 1 : room \in answered
  BY <1>0, <1>1, <1>2, Counting
<1> QED
  BY <1>3 DEF answered

-----------------------------------------------------------------------------
(***************************************************************************)
(* A text that goes on after t.  What the reader says of t before its end, *)
(* or of a value that ends with it, it says of u too.                      *)
(***************************************************************************)

GoesOn(t, u) == u \in Seq(Token) /\ Len(u) = Len(t) + 1 /\ \A i \in 1..Len(t) : u[i] = t[i]

Settled(t, r) == IsSound(r) \/ r.next \in 1..Len(t)

Follows(t, inner, outer) == \A i \in 1..Len(t) + 1 : Settled(t, inner[i]) => outer[i] = inner[i]

LEMMA AtFollows ==
  ASSUME NEW t \in Seq(Token), NEW u, GoesOn(t, u)
  PROVE  \A i \in 1..Len(t) : At(u, i) = At(t, i)
<1> SUFFICES ASSUME NEW i \in 1..Len(t) PROVE At(u, i) = At(t, i)
  OBVIOUS
<1>1. u \in Seq(Token) /\ i \in Nat /\ i \in 1..Len(u) /\ u[i] = t[i]
  BY LenInNat DEF GoesOn
<1> QED
  BY <1>1, AtToken

LEMMA ContinueFollows ==
  ASSUME NEW t \in Seq(Token), NEW u, GoesOn(t, u), NEW i \in Nat \ {0}, NEW v, Within(t, v, i),
         NEW taken, NEW whole, NEW bracket, IsBracket(bracket), NEW r,
         r = Continue(t, v, taken, whole, bracket), Settled(t, r) \/ IsTaking(r)
  PROVE  Settled(t, v) /\ r = Continue(u, v, taken, whole, bracket)
<1>1. Continued(t, v, taken, whole, bracket, r)
  BY ContinueIs
<1>2. CASE ~IsSound(v) /\ r = v
  <2>1. Continue(u, v, taken, whole, bracket) = v
    BY <1>2 DEF Continue, IsSound
  <2> QED
    BY <1>2, <2>1 DEF Within
<1>3. CASE IsSound(v) /\ v.next \in 1..Len(t)
  <2>1. At(u, v.next) = At(t, v.next)
    BY <1>3, AtFollows
  <2> QED
    BY <1>3, <2>1 DEF Settled, Continue
<1>4. CASE IsSound(v) /\ r = fail(v.next)
  <2>1. v.next \in 1..Len(t)
    BY <1>4, Kinds DEF Settled
  <2> QED
    BY <1>3, <1>4, <2>1
<1>5. (~IsSound(v) /\ r = v) \/ (IsSound(v) /\ v.next \in 1..Len(t)) \/ (IsSound(v) /\ r = fail(v.next))
  BY <1>1 DEF Continued
<1> QED
  BY <1>2, <1>3, <1>4, <1>5

LEMMA MemberFollows ==
  ASSUME NEW t \in Seq(Token), NEW u, GoesOn(t, u), NEW inner, NEW outer,
         Answers(t, inner), Follows(t, inner, outer), NEW s, s.next \in 1..Len(t) + 1,
         NEW r, r = member(t, inner, s), Settled(t, r) \/ IsTaking(r)
  PROVE  r = member(u, outer, s)
<1>1. Membered(t, inner, s, r)
  BY MemberIs
<1>2. CASE At(t, s.next) \notin Spelling /\ r = fail(s.next)
  <2>1. At(u, s.next) = At(t, s.next)
    BY <1>2, Kinds, AtFollows DEF Settled
  <2> QED
    BY <1>2, <2>1 DEF member
<1>3. s.next \in 1..Len(t) => At(u, s.next) = At(t, s.next) /\ u[s.next] = t[s.next] /\ At(t, s.next) = t[s.next]
  <2>1. s.next \in 1..Len(t) => s.next \in Nat
    OBVIOUS
  <2> QED
    BY <2>1, AtFollows, AtToken DEF GoesOn
<1>4. CASE /\ s.next \in 1..Len(t) /\ t[s.next] \in Spelling
           /\ Meaning[t[s.next]] \in KeysOf(s.value) /\ r = Refused("ERR_DUPLICATE_MEMBER", s.next)
  BY <1>3, <1>4 DEF member
<1>5. CASE /\ s.next \in 1..Len(t) /\ t[s.next] \in Spelling
           /\ Meaning[t[s.next]] \notin KeysOf(s.value)
           /\ At(t, s.next + 1) # ":" /\ r = fail(s.next + 1)
  <2>1. At(u, s.next + 1) = At(t, s.next + 1)
    BY <1>5, Kinds, AtFollows DEF Settled
  <2> QED
    BY <1>3, <1>5, <2>1 DEF member, Entered
<1>6. CASE LET v == inner[s.next + 2]
               taken == Append(s.value, [key |-> Meaning[t[s.next]], value |-> v.value])
           IN /\ s.next \in 1..Len(t) - 1 /\ t[s.next] \in Spelling
              /\ Meaning[t[s.next]] \notin KeysOf(s.value) /\ t[s.next + 1] = ":"
              /\ r = Continue(t, v, taken, Object(taken), "}")
  <2> DEFINE v == inner[s.next + 2]
             taken == Append(s.value, [key |-> Meaning[t[s.next]], value |-> v.value])
  <2>0. s.next \in 1..Len(t) - 1
    BY <1>6
  <2>1. /\ s.next \in 1..Len(t) /\ s.next + 1 \in 1..Len(t) /\ s.next + 2 \in 1..Len(t) + 1
        /\ s.next + 1 \in Nat
    BY <2>0, LenInNat
  <2>8. s.next + 2 \in Nat \ {0}
    BY <2>0, LenInNat
  <2>2. Within(t, v, s.next + 2)
    BY <2>1 DEF Answers
  <2>3. IsBracket("}")
    BY DEF IsBracket
  <2>4. r = Continue(t, v, taken, Object(taken), "}")
    BY <1>6
  <2>5. Settled(t, v) /\ r = Continue(u, v, taken, Object(taken), "}")
    <3> DEFINE bracket == "}"
    <3>1. IsBracket(bracket) /\ r = Continue(t, v, taken, Object(taken), bracket)
      BY <2>3, <2>4
    <3>2. Settled(t, v) /\ r = Continue(u, v, taken, Object(taken), bracket)
      <4> HIDE DEF v, taken, bracket
      <4> QED
        BY <2>8, <2>2, <3>1, ContinueFollows
    <3> QED
      BY <3>2
  <2>6. outer[s.next + 2] = v
    BY <2>1, <2>5 DEF Follows
  <2>7. At(u, s.next + 1) = ":"
    BY <1>6, <2>1, AtFollows, AtToken
  <2> QED
    BY <1>3, <1>6, <2>1, <2>5, <2>6, <2>7 DEF member, Entered
<1> QED
  BY <1>1, <1>2, <1>4, <1>5, <1>6 DEF Membered

LEMMA NextFollows ==
  ASSUME NEW t \in Seq(Token), NEW u, GoesOn(t, u), NEW inner, NEW outer,
         Answers(t, inner), Follows(t, inner, outer), NEW i \in 1..Len(t),
         NEW s, IsTaking(s), s.next \in 1..Len(t) + 1,
         NEW r, r = NextTurn(t, inner, i, s), Settled(t, r) \/ IsTaking(r)
  PROVE  r = NextTurn(u, outer, i, s)
<1>1. u[i] = t[i]
  BY DEF GoesOn
<1>2. CASE t[i] = "{"
  <2>1. r = member(t, inner, s)
    BY <1>2 DEF NextTurn, IsTaking
  <2>2. r = member(u, outer, s)
    BY <2>1, MemberFollows
  <2> QED
    BY <1>1, <1>2, <2>2 DEF NextTurn, IsTaking
<1>3. CASE t[i] # "{"
  <2> DEFINE v == inner[s.next]
             taken == Append(s.value, v.value)
  <2>1. r = Continue(t, v, taken, Array(taken), "]")
    BY <1>3, ItemIs DEF NextTurn, IsTaking
  <2>2. s.next \in Nat \ {0}
    BY LenInNat
  <2>3. Within(t, v, s.next)
    BY DEF Answers
  <2>4. IsBracket("]")
    BY DEF IsBracket
  <2>5. Settled(t, v) /\ r = Continue(u, v, taken, Array(taken), "]")
    <3> HIDE DEF v, taken
    <3> QED
      BY <2>1, <2>2, <2>3, <2>4, ContinueFollows
  <2>6. outer[s.next] = v
    BY <2>5 DEF Follows
  <2> QED
    BY <1>1, <1>3, <2>5, <2>6, ItemIs DEF NextTurn, IsTaking
<1> QED
  BY <1>2, <1>3

LEMMA TurnsFollow ==
  ASSUME NEW t \in Seq(Token), NEW u, GoesOn(t, u), NEW inner, NEW outer,
         Answers(t, inner), Follows(t, inner, outer), NEW i \in 1..Len(t),
         NEW turn, Looping(t, inner, i, turn), NEW next, Looping(u, outer, i, next)
  PROVE  \A k \in 0..Len(t) : Settled(t, turn[k]) \/ IsTaking(turn[k]) => next[k] = turn[k]
<1> DEFINE good == {k \in 0..Len(t) : Settled(t, turn[k]) \/ IsTaking(turn[k]) => next[k] = turn[k]}
<1>0. Len(t) \in Nat
  BY LenInNat
<1>1. 0 \in good
  BY <1>0 DEF Looping
<1>2. ASSUME NEW k \in 0..Len(t), k \in good, k < Len(t)
      PROVE  k + 1 \in good
  <2>1. k + 1 \in 0..Len(t) /\ k \in 0..Len(u) /\ k < Len(u)
    BY <1>0, <1>2 DEF GoesOn
  <2>2. turn[k + 1] = NextTurn(t, inner, i, turn[k]) /\ next[k + 1] = NextTurn(u, outer, i, next[k])
    BY <1>2, <2>1 DEF Looping
  <2>3. SUFFICES ASSUME Settled(t, turn[k + 1]) \/ IsTaking(turn[k + 1])
                 PROVE  next[k + 1] = turn[k + 1]
    BY <2>1
  <2>4. CASE IsTaking(turn[k])
    <3>1. turn[k].next \in i + 1 + k..Len(t) + 1
      BY <2>4, TurnsWithin
    <3>2. turn[k].next \in 1..Len(t) + 1
      BY <1>0, <3>1
    <3>3. turn[k + 1] = NextTurn(u, outer, i, turn[k])
      BY <2>2, <2>3, <2>4, <3>2, NextFollows
    <3> QED
      BY <1>2, <2>2, <2>4, <3>3
  <2>5. CASE ~IsTaking(turn[k])
    BY <1>2, <2>2, <2>3, <2>5 DEF NextTurn, IsTaking
  <2> QED
    BY <2>4, <2>5
<1> HIDE DEF good
<1>3. \A k \in 0..Len(t) : k \in good
  BY <1>0, <1>1, <1>2, Counting
<1> QED
  BY <1>3 DEF good

LEMMA PartsFollow ==
  ASSUME NEW t \in Seq(Token), NEW u, GoesOn(t, u), NEW inner, NEW outer,
         Answers(t, inner), Follows(t, inner, outer), NEW i \in 1..Len(t),
         Settled(t, parts(t, inner, i))
  PROVE  parts(u, outer, i) = parts(t, inner, i)
<1>1. PICK turn : Looping(t, inner, i, turn) /\ parts(t, inner, i) = turn[Len(t)]
  BY PartsAre
<1>2. PICK next : Looping(u, outer, i, next) /\ parts(u, outer, i) = next[Len(u)]
  BY PartsAre DEF GoesOn
<1>3. Len(t) \in 0..Len(t) /\ Len(t) \in 0..Len(u) /\ Len(t) < Len(u) /\ Len(u) = Len(t) + 1
  BY LenInNat DEF GoesOn
<1>4. next[Len(t)] = turn[Len(t)]
  BY <1>1, <1>2, <1>3, TurnsFollow
<1>5. next[Len(u)] = NextTurn(u, outer, i, next[Len(t)])
  BY <1>2, <1>3 DEF Looping
<1>6. ~IsTaking(turn[Len(t)])
  BY <1>1, LoopEnds
<1> QED
  BY <1>1, <1>2, <1>4, <1>5, <1>6 DEF NextTurn, IsTaking

LEMMA ValueFollows ==
  ASSUME NEW t \in Seq(Token), NEW u, GoesOn(t, u), NEW inner, NEW outer,
         Answers(t, inner), Follows(t, inner, outer), NEW i \in 1..Len(t) + 1,
         Settled(t, valueAt(t, inner, i))
  PROVE  valueAt(u, outer, i) = valueAt(t, inner, i)
<1> DEFINE r == valueAt(t, inner, i)
           q == valueAt(u, outer, i)
<1>c. Cased(t, inner, i, r) /\ Cased(u, outer, i, q)
  BY ValueCases
<1> SUFFICES q = r
  OBVIOUS
<1>s. Settled(t, r)
  OBVIOUS
<1> HIDE DEF r, q
<1>0. Len(t) \in Nat /\ i \in Nat
  BY LenInNat
<1>1. i \in 1..Len(t)
  <2>1. CASE i = Len(t) + 1
    <3>1. At(t, i) = "end"
      BY <1>0, <2>1, AtToken
    <3>2. r = fail(i)
      BY <1>c, <3>1, SpellingApart DEF Cased, Scalar
    <3>3. i \notin 1..Len(t)
      BY <1>0, <2>1
    <3> QED
      BY <1>s, <3>2, <3>3, Kinds DEF Settled
  <2> QED
    BY <1>0, <2>1
<1>2. At(u, i) = At(t, i) /\ At(t, i) = t[i] /\ u[i] = t[i]
  BY <1>0, <1>1, AtFollows, AtToken DEF GoesOn
<1>3. CASE At(t, i) \in {"{", "["}
  <2>1. CASE i + 1 \in 1..Len(t)
    <3>1. At(u, i + 1) = At(t, i + 1)
      BY <2>1, AtFollows
    <3>2. CASE r = parts(t, inner, i)
      <4>1. parts(u, outer, i) = parts(t, inner, i)
        BY <1>1, <1>s, <3>2, PartsFollow
      <4> QED
        BY <1>c, <1>2, <1>3, <3>1, <3>2, <4>1 DEF Cased
    <3>3. CASE r # parts(t, inner, i)
      <4>1. CASE At(t, i) = "{"
        BY <1>c, <1>2, <3>1, <3>3, <4>1 DEF Cased
      <4>2. CASE At(t, i) = "["
        BY <1>c, <1>2, <3>1, <3>3, <4>2 DEF Cased
      <4> QED
        BY <1>3, <4>1, <4>2
    <3> QED
      BY <3>2, <3>3
  <2>2. CASE i + 1 \notin 1..Len(t)
    <3>1. At(t, i + 1) = "end" /\ i = Len(t)
      BY <1>0, <1>1, <2>2, AtToken
    <3>2. r = parts(t, inner, i)
      BY <1>c, <1>3, <3>1 DEF Cased
    <3>3. Within(t, parts(t, inner, i), i + 1)
      BY <1>1, PartsWithin
    <3>4. \A n \in i + 1..Len(t) + 1 : n \notin 1..Len(t) /\ ~(n > i + 1)
      BY <1>0, <3>1
    <3> QED
      BY <1>s, <3>2, <3>3, <3>4 DEF Within, Settled
  <2> QED
    BY <2>1, <2>2
<1>4. CASE At(t, i) \notin {"{", "["}
  BY <1>c, <1>2, <1>4 DEF Cased
<1> QED
  BY <1>3, <1>4

LEMMA LevelsFollow ==
  ASSUME NEW t \in Seq(Token), NEW u, GoesOn(t, u)
  PROVE  \A room \in 0..MAX_NESTING_DEPTH + 1 : Follows(t, Levels(t)[room], Levels(u)[room])
<1> DEFINE good == {room \in 0..MAX_NESTING_DEPTH + 1 : Follows(t, Levels(t)[room], Levels(u)[room])}
<1>0. MAX_NESTING_DEPTH \in Nat
  BY ReaderAssumption
<1>1. \A i \in 1..Len(t) + 1 : i \in 1..Len(u) + 1
  BY LenInNat DEF GoesOn
<1>2. 0 \in good
  <2>1. 0 \in 0..MAX_NESTING_DEPTH + 1
    BY <1>0
  <2> QED
    BY <1>1, <2>1, LevelsAre DEF Follows
<1>3. ASSUME NEW room \in 0..MAX_NESTING_DEPTH + 1, room \in good, room < MAX_NESTING_DEPTH + 1
      PROVE  room + 1 \in good
  <2>1. room \in 0..MAX_NESTING_DEPTH /\ room + 1 \in 0..MAX_NESTING_DEPTH + 1
    BY <1>0, <1>3
  <2>2. Answers(t, Levels(t)[room])
    BY <2>1, LevelsWithin
  <2>3. \A i \in 1..Len(t) + 1 :
          /\ Levels(t)[room + 1][i] = valueAt(t, Levels(t)[room], i)
          /\ Levels(u)[room + 1][i] = valueAt(u, Levels(u)[room], i)
    BY <1>1, <2>1, LevelsAre
  <2>4. \A i \in 1..Len(t) + 1 : Settled(t, valueAt(t, Levels(t)[room], i)) =>
          valueAt(u, Levels(u)[room], i) = valueAt(t, Levels(t)[room], i)
    BY <1>3, <2>2, ValueFollows
  <2> QED
    BY <2>1, <2>3, <2>4 DEF Follows
<1> HIDE DEF good
<1>4. \A room \in 0..MAX_NESTING_DEPTH + 1 : room \in good
  <2>1. MAX_NESTING_DEPTH + 1 \in Nat
    BY <1>0
  <2> QED
    BY <2>1, <1>2, <1>3, Counting
<1> QED
  BY <1>4 DEF good

\* What the whole text is read as.
Whole(t) == Levels(t)[MAX_NESTING_DEPTH + 1][1]

LEMMA WholeIs ==
  ASSUME NEW t \in Seq(Token)
  PROVE  /\ Within(t, Whole(t), 1) /\ Whole(t).next \in 1..Len(t) + 1
         /\ parseJsonStrict(t) = IF IsSound(Whole(t)) /\ Whole(t).next <= Len(t)
                                 THEN fail(Whole(t).next) ELSE Whole(t)
<1>1. MAX_NESTING_DEPTH + 1 \in 0..MAX_NESTING_DEPTH + 1
  BY ReaderAssumption
<1>2. 1 \in 1..Len(t) + 1
  BY LenInNat
<1>3. Within(t, Whole(t), 1)
  BY <1>1, <1>2, LevelsWithin DEF Whole, Answers
<1>4. parseValue(t)[1] = Whole(t)
  BY LevelsAre DEF Whole
<1> QED
  BY <1>3, <1>4 DEF parseJsonStrict, IsSound, Within

LEMMA RefusalFollows ==
  ASSUME NEW t \in Seq(Token), NEW u, GoesOn(t, u),
         ~IsSound(parseJsonStrict(t)), parseJsonStrict(t).next <= Len(t)
  PROVE  parseJsonStrict(u).code = parseJsonStrict(t).code
<1> DEFINE v == Whole(t)
<1>1. v.next \in 1..Len(t) + 1 /\ Len(t) \in Nat /\ Len(u) = Len(t) + 1 /\ u \in Seq(Token)
  BY WholeIs, LenInNat DEF GoesOn
<1>2. /\ parseJsonStrict(t) = IF IsSound(v) /\ v.next <= Len(t) THEN fail(v.next) ELSE v
      /\ parseJsonStrict(u) = IF IsSound(Whole(u)) /\ Whole(u).next <= Len(u)
                              THEN fail(Whole(u).next) ELSE Whole(u)
  BY <1>1, WholeIs
<1>3. parseJsonStrict(t).next = v.next
  BY <1>2, Kinds
<1>4. v.next \in 1..Len(t) /\ v.next <= Len(u)
  <2> HIDE DEF v
  <2> QED
    BY <1>1, <1>3
<1>5. Whole(u) = v
  <2>1. 1 \in 1..Len(t) + 1 /\ MAX_NESTING_DEPTH + 1 \in 0..MAX_NESTING_DEPTH + 1
    BY <1>1, ReaderAssumption
  <2>2. Follows(t, Levels(t)[MAX_NESTING_DEPTH + 1], Levels(u)[MAX_NESTING_DEPTH + 1])
    BY <2>1, LevelsFollow
  <2> QED
    BY <1>4, <2>1, <2>2 DEF Follows, Settled, Whole
<1>6. v.next <= Len(t)
  <2> HIDE DEF v
  <2> QED
    BY <1>4
<1> HIDE DEF v
<1> QED
  BY <1>2, <1>4, <1>5, <1>6

\* A text is one of tokens.
TextOK == text \in Seq(Token)

LEMMA TextTyped == Spec => []TextOK
<1>1. Init => TextOK
  BY DEF Init, TextOK
<1>2. TextOK /\ [Next]_vars => TextOK'
  BY DEF Next, Arrive, Issue, Change, vars, TextOK
<1> QED
  BY <1>1, <1>2, PTL DEF Spec

\* The step is the arrival of a token, whatever came before it.
LEMMA TextGoesOn ==
  TextOK /\ [Next]_vars => text' = text \/ GoesOn(text, text')
<1> SUFFICES ASSUME text \in Seq(Token), [Next]_vars PROVE text' = text \/ GoesOn(text, text')
  BY DEF TextOK
<1>1. CASE Arrive
  <2>1. PICK token \in Token : text' = Append(text, token)
    BY <1>1 DEF Arrive
  <2> QED
    BY <2>1 DEF GoesOn
<1>2. text' = text \/ Arrive
  BY DEF Next, Issue, Change, vars
<1> QED
  BY <1>1, <1>2

\* A refusal that parseJsonStrict finds before the end of a text stays what it
\* is whatever comes after it, for texts of any length.
THEOREM RefusalStandsAlways == Spec => RefusalStands
<1>1. TextOK /\ [Next]_vars =>
        [LET before == parseJsonStrict(text) IN
         (before.code # "SOUND" /\ before.next <= Len(text) /\ text' # text) =>
           parseJsonStrict(text').code = before.code]_vars
  BY TextGoesOn, RefusalFollows DEF IsSound, TextOK
<1> QED
  BY <1>1, TextTyped, PTL DEF Spec, RefusalStands

-----------------------------------------------------------------------------
(***************************************************************************)
(* What has been read when a loop ends: its parts are those of a division  *)
(* of the tokens between the brackets, each of them read by inner.         *)
(***************************************************************************)

\* An object opens at p; there is a comma at k.
IsObject(t, p) == t[p] = "{"
IsCut(t, k) == t[k] = ","

\* A part of what opens at p is read from a to b, and what it adds.
PartAt(t, inner, p, a, b) ==
  IF IsObject(t, p) THEN /\ t[a] \in Spelling /\ t[a + 1] = ":"
                     /\ IsSound(inner[a + 2]) /\ inner[a + 2].next = b + 1
  ELSE IsSound(inner[a]) /\ inner[a].next = b + 1

Made(t, inner, p, a) ==
  IF IsObject(t, p) THEN [key |-> Meaning[t[a]], value |-> inner[a + 2].value] ELSE inner[a].value

InRange(list) == {list[i] : i \in DOMAIN list}

\* The parts that start at each of places.
Collected(t, inner, p, places, list) ==
  /\ list \in Seq({Made(t, inner, p, a) : a \in places})
  /\ InRange(list) = {Made(t, inner, p, a) : a \in places}
  /\ IsObject(t, p) => \A a, c \in places : Meaning[t[a]] = Meaning[t[c]] => a = c

\* A loop at n, the cuts before it behind it.
Divided(t, inner, p, cuts, n, list) ==
  /\ cuts \in SUBSET {k \in p + 1..n - 1 : IsCut(t, k)} /\ n \in Starts(cuts, p + 1)
  /\ \A a \in Starts(cuts, p + 1) \ {n} :
       \E b \in a..n - 2 : b + 1 \in cuts /\ (\A k \in a..b : k \notin cuts) /\ PartAt(t, inner, p, a, b)
  /\ Collected(t, inner, p, Starts(cuts, p + 1) \ {n}, list)

\* A whole that closes at e.
Closed(t, inner, p, cuts, e, list) ==
  /\ cuts \in Divisions(t, p + 1, e - 1)
  /\ \A a \in Starts(cuts, p + 1) : \E b \in a..e - 1 : IsPart(cuts, e - 1, a, b) /\ PartAt(t, inner, p, a, b)
  /\ Collected(t, inner, p, Starts(cuts, p + 1), list)

LEMMA AppendRange ==
  ASSUME NEW S, NEW list \in Seq(S), NEW x
  PROVE  Append(list, x) \in Seq(S \cup {x}) /\ InRange(Append(list, x)) = InRange(list) \cup {x}
<1>1. /\ Len(list) \in Nat /\ DOMAIN list = 1..Len(list)
      /\ DOMAIN Append(list, x) = 1..Len(list) + 1 /\ Append(list, x)[Len(list) + 1] = x
      /\ \A i \in 1..Len(list) : Append(list, x)[i] = list[i]
  OBVIOUS
<1>2. \A i \in 1..Len(list) + 1 : i \in 1..Len(list) \/ i = Len(list) + 1
  BY <1>1
<1>3. list \in Seq(S \cup {x})
  OBVIOUS
<1> QED
  BY <1>1, <1>2, <1>3 DEF InRange

LEMMA Collecting ==
  ASSUME NEW t, NEW inner, NEW p, NEW places, NEW list, Collected(t, inner, p, places, list), NEW n,
         IsObject(t, p) => \A i \in DOMAIN list : list[i].key # Meaning[t[n]]
  PROVE  Collected(t, inner, p, places \cup {n}, Append(list, Made(t, inner, p, n)))
<1> DEFINE S == {Made(t, inner, p, a) : a \in places}
           x == Made(t, inner, p, n)
<1>1. {Made(t, inner, p, a) : a \in places \cup {n}} = S \cup {x}
  OBVIOUS
<1>2. list \in Seq(S) /\ InRange(list) = S
  BY DEF Collected
<1>3. Append(list, x) \in Seq(S \cup {x}) /\ InRange(Append(list, x)) = S \cup {x}
  <2> HIDE DEF S, x
  <2> QED
    BY <1>2, AppendRange
<1>4. ASSUME IsObject(t, p), NEW a \in places
      PROVE  Meaning[t[a]] # Meaning[t[n]]
  <2>1. PICK i \in DOMAIN list : list[i] = Made(t, inner, p, a)
    BY <1>2 DEF InRange
  <2> QED
    BY <1>4, <2>1 DEF Made
<1>5. IsObject(t, p) => \A a, c \in places \cup {n} : Meaning[t[a]] = Meaning[t[c]] => a = c
  BY <1>4 DEF Collected
<1> QED
  BY <1>1, <1>3, <1>5 DEF Collected

\* A loop at n takes a part that ends at b, before a comma.
LEMMA DivideOn ==
  ASSUME NEW t, NEW inner, NEW p \in Nat, NEW cuts, NEW n \in Nat, NEW list,
         Divided(t, inner, p, cuts, n, list), NEW b \in Nat, b >= n, n > p,
         PartAt(t, inner, p, n, b), IsCut(t, b + 1),
         IsObject(t, p) => \A i \in DOMAIN list : list[i].key # Meaning[t[n]]
  PROVE  Divided(t, inner, p, cuts \cup {b + 1}, b + 2, Append(list, Made(t, inner, p, n)))
<1> DEFINE more == cuts \cup {b + 1}
           starts == Starts(cuts, p + 1)
<1>1. \A k \in cuts : k \in p + 1..n - 1 /\ IsCut(t, k)
  BY DEF Divided
<1>2. \A a \in starts : a \in Nat /\ a <= n
  <2>1. \A k \in cuts : k + 1 \in Nat /\ k + 1 <= n
    BY <1>1
  <2>2. p + 1 \in Nat /\ p + 1 <= n
    OBVIOUS
  <2> QED
    BY <2>1, <2>2 DEF Starts
<1>3. Starts(more, p + 1) = starts \cup {b + 2} /\ b + 2 \notin starts
  <2>1. (b + 1) + 1 = b + 2 /\ ~(b + 2 <= n)
    OBVIOUS
  <2> QED
    BY <1>2, <2>1 DEF Starts
<1>4. n \in starts
  BY DEF Divided
<1>5. more \in SUBSET {k \in p + 1..(b + 2) - 1 : IsCut(t, k)}
  <2>1. \A k \in cuts : k \in p + 1..(b + 2) - 1
    BY <1>1
  <2>2. b + 1 \in p + 1..(b + 2) - 1
    OBVIOUS
  <2> QED
    BY <1>1, <2>1, <2>2
<1>6. ASSUME NEW a \in Starts(more, p + 1) \ {b + 2}
      PROVE  \E c \in a..(b + 2) - 2 :
               c + 1 \in more /\ (\A k \in a..c : k \notin more) /\ PartAt(t, inner, p, a, c)
  <2>0. a \in starts /\ a \in Nat
    BY <1>2, <1>3
  <2>1. CASE a = n
    <3>1. b \in a..(b + 2) - 2
      BY <2>1
    <3>2. \A k \in a..b : k \notin cuts /\ k # b + 1
      BY <1>1, <2>1
    <3> QED
      BY <2>1, <3>1, <3>2
  <2>2. CASE a # n
    <3>1. PICK c \in a..n - 2 :
            c + 1 \in cuts /\ (\A k \in a..c : k \notin cuts) /\ PartAt(t, inner, p, a, c)
      BY <2>0, <2>2 DEF Divided
    <3>2. c \in a..(b + 2) - 2 /\ \A k \in a..c : k # b + 1
      BY <2>0
    <3> QED
      BY <3>1, <3>2
  <2> QED
    BY <2>1, <2>2
<1>7. Starts(more, p + 1) \ {b + 2} = (starts \ {n}) \cup {n}
  BY <1>3, <1>4
<1>8. Collected(t, inner, p, Starts(more, p + 1) \ {b + 2}, Append(list, Made(t, inner, p, n)))
  <2>1. Collected(t, inner, p, starts \ {n}, list)
    BY DEF Divided
  <2>2. Collected(t, inner, p, (starts \ {n}) \cup {n}, Append(list, Made(t, inner, p, n)))
    BY <2>1, Collecting
  <2> QED
    BY <1>7, <2>2
<1>9. b + 2 \in Starts(more, p + 1)
  BY <1>3
<1> HIDE DEF more
<1> QED
  BY <1>5, <1>6, <1>8, <1>9 DEF Divided, more

\* It takes a part that ends at b, before its bracket.
LEMMA DivideLast ==
  ASSUME NEW t, NEW inner, NEW p \in Nat, NEW cuts, NEW n \in Nat, NEW list,
         Divided(t, inner, p, cuts, n, list), NEW b \in Nat, b >= n, n > p,
         PartAt(t, inner, p, n, b),
         IsObject(t, p) => \A i \in DOMAIN list : list[i].key # Meaning[t[n]]
  PROVE  Closed(t, inner, p, cuts, b + 1, Append(list, Made(t, inner, p, n)))
<1> DEFINE starts == Starts(cuts, p + 1)
<1>1. \A k \in cuts : k \in p + 1..n - 1 /\ IsCut(t, k)
  BY DEF Divided
<1>2. \A a \in starts : a \in Nat /\ a <= n
  <2>1. \A k \in cuts : k + 1 \in Nat /\ k + 1 <= n
    BY <1>1
  <2>2. p + 1 \in Nat /\ p + 1 <= n
    OBVIOUS
  <2> QED
    BY <2>1, <2>2 DEF Starts
<1>3. n \in starts /\ (b + 1) - 1 = b
  BY DEF Divided
<1>4. cuts \in Divisions(t, p + 1, b)
  <2>1. \A k \in cuts : k \in p + 1..b
    BY <1>1
  <2> QED
    BY <1>1, <2>1 DEF Divisions, IsCut
<1>5. ASSUME NEW a \in starts
      PROVE  \E c \in a..b : IsPart(cuts, b, a, c) /\ PartAt(t, inner, p, a, c)
  <2>1. CASE a = n
    <3>1. b \in a..b
      BY <2>1
    <3>2. \A k \in a..b : k \notin cuts
      BY <1>1, <2>1
    <3> QED
      BY <2>1, <3>1, <3>2 DEF IsPart
  <2>2. CASE a # n
    <3>1. PICK c \in a..n - 2 :
            c + 1 \in cuts /\ (\A k \in a..c : k \notin cuts) /\ PartAt(t, inner, p, a, c)
      BY <1>5, <2>2 DEF Divided
    <3>2. c \in a..b
      BY <1>2
    <3> QED
      BY <3>1, <3>2 DEF IsPart
  <2> QED
    BY <2>1, <2>2
<1>6. starts = (starts \ {n}) \cup {n}
  BY <1>3
<1>7. Collected(t, inner, p, starts, Append(list, Made(t, inner, p, n)))
  <2>1. Collected(t, inner, p, starts \ {n}, list)
    BY DEF Divided
  <2>2. Collected(t, inner, p, (starts \ {n}) \cup {n}, Append(list, Made(t, inner, p, n)))
    BY <2>1, Collecting
  <2> QED
    BY <1>6, <2>2
<1> QED
  BY <1>3, <1>4, <1>5, <1>7 DEF Closed

BracketOf(t, p) == IF IsObject(t, p) THEN "}" ELSE "]"
WholeOf(t, p, list) == IF IsObject(t, p) THEN Object(list) ELSE Array(list)

\* A loop at s.next reads a part that ends at b.
Took(t, inner, p, s, b) ==
  /\ b \in s.next..Len(t) - 1 /\ PartAt(t, inner, p, s.next, b)
  /\ IsObject(t, p) => \A i \in DOMAIN s.value : s.value[i].key # Meaning[t[s.next]]

\* A part of value v, that starts at i or later, is followed by a comma or the end.
Went(t, v, i, r, taken) ==
  \E b \in i..Len(t) - 1 : /\ IsSound(v) /\ v.next = b + 1 /\ IsCut(t, b + 1)
                           /\ r.next = b + 2 /\ r.value = taken

Ended(t, v, i, r, whole, bracket) ==
  \E b \in i..Len(t) - 1 : /\ IsSound(v) /\ v.next = b + 1 /\ t[b + 1] = bracket
                           /\ r.next = b + 2 /\ r.value = whole

LEMMA ContinueComes ==
  ASSUME NEW t \in Seq(Token), NEW i \in Nat \ {0}, NEW v, Within(t, v, i),
         NEW taken, NEW whole, NEW bracket, IsBracket(bracket),
         NEW r, r = Continue(t, v, taken, whole, bracket)
  PROVE  (IsTaking(r) => Went(t, v, i, r, taken)) /\ (IsSound(r) => Ended(t, v, i, r, whole, bracket))
<1>1. Continued(t, v, taken, whole, bracket, r)
  BY ContinueIs
<1>2. v.next \in Nat /\ (IsSound(v) => v.next > i) /\ ~IsTaking(v)
  BY LenInNat DEF Within
<1> DEFINE b == v.next - 1
<1>3. IsSound(v) /\ v.next \in 1..Len(t) => b \in i..Len(t) - 1 /\ v.next = b + 1 /\ v.next + 1 = b + 2
  BY <1>2, LenInNat
<1> HIDE DEF b
<1>4. CASE ~IsSound(v) /\ r = v
  BY <1>2, <1>4
<1>5. CASE IsSound(v) /\ v.next \in 1..Len(t) /\ t[v.next] = "," /\ r = Taking(taken, v.next + 1)
  <2>1. IsCut(t, v.next)
    BY <1>5 DEF IsCut
  <2>2. IsSound(v) /\ v.next \in 1..Len(t) /\ r = Taking(taken, v.next + 1)
    BY <1>5
  <2>3. IsTaking(r) /\ ~IsSound(r) /\ r.next = b + 2 /\ r.value = taken
    BY <1>3, <2>2, Kinds
  <2>4. Went(t, v, i, r, taken)
    BY <1>3, <2>1, <2>2, <2>3 DEF Went
  <2> QED
    BY <2>3, <2>4
<1>6. CASE IsSound(v) /\ v.next \in 1..Len(t) /\ t[v.next] = bracket /\ r = Read(whole, v.next + 1)
  <2>1. ~IsTaking(r) /\ IsSound(r) /\ r.next = b + 2 /\ r.value = whole
    BY <1>3, <1>6, Kinds
  <2>2. Ended(t, v, i, r, whole, bracket)
    BY <1>3, <1>6, <2>1 DEF Ended
  <2> QED
    BY <2>1, <2>2
<1>7. CASE r = fail(v.next)
  BY <1>7, Kinds
<1> QED
  BY <1>1, <1>4, <1>5, <1>6, <1>7 DEF Continued

LEMMA NoKey ==
  ASSUME NEW list, NEW key
  PROVE  key \notin KeysOf(list) <=> \A i \in DOMAIN list : list[i].key # key
BY DEF KeysOf

\* The turn s comes to r: at the next part, or behind the bracket.
TakesOn(t, inner, p, s, r) ==
  \E b \in s.next..Len(t) - 1 :
    /\ Took(t, inner, p, s, b) /\ IsCut(t, b + 1)
    /\ r.next = b + 2 /\ r.value = Append(s.value, Made(t, inner, p, s.next))

Closes(t, inner, p, s, r) ==
  \E b \in s.next..Len(t) - 1 :
    /\ Took(t, inner, p, s, b) /\ t[b + 1] = BracketOf(t, p)
    /\ r.next = b + 2 /\ r.value = WholeOf(t, p, Append(s.value, Made(t, inner, p, s.next)))

LEMMA TurnComes ==
  ASSUME NEW t \in Seq(Token), NEW inner, Answers(t, inner), NEW p \in 1..Len(t),
         NEW s, IsTaking(s), s.next \in p + 1..Len(t) + 1, NEW r, r = NextTurn(t, inner, p, s)
  PROVE  (IsTaking(r) => TakesOn(t, inner, p, s, r)) /\ (IsSound(r) => Closes(t, inner, p, s, r))
<1>0. s.next \in Nat \ {0} /\ s.next \in 1..Len(t) + 1 /\ Len(t) \in Nat
  BY LenInNat
<1> DEFINE taken == Append(s.value, Made(t, inner, p, s.next))
<1>1. CASE IsObject(t, p)
  <2> DEFINE v == inner[s.next + 2]
             bracket == "}"
  <2>1. Membered(t, inner, s, r)
    BY <1>0, <1>1, MemberIs DEF NextTurn, IsTaking, IsObject
  <2>2. SUFFICES ASSUME IsTaking(r) \/ IsSound(r)
                 PROVE  \/ IsTaking(r) /\ TakesOn(t, inner, p, s, r)
                        \/ IsSound(r) /\ Closes(t, inner, p, s, r)
    BY DEF IsTaking, IsSound
  <2>3. /\ s.next \in 1..Len(t) - 1 /\ t[s.next] \in Spelling
        /\ Meaning[t[s.next]] \notin KeysOf(s.value) /\ t[s.next + 1] = ":"
        /\ r = Continue(t, v, taken, Object(taken), bracket)
    BY <1>1, <2>1, <2>2, Kinds DEF Membered, Made
  <2>4. s.next + 2 \in 1..Len(t) + 1 /\ s.next + 2 \in Nat \ {0}
    <3>1. s.next \in 1..Len(t) - 1
      BY <2>3
    <3> QED
      BY <1>0, <3>1
  <2>5. Within(t, v, s.next + 2)
    BY <2>4 DEF Answers
  <2>6. IsBracket(bracket) /\ r = Continue(t, v, taken, Object(taken), bracket)
    BY <2>3 DEF IsBracket
  <2>7. /\ IsTaking(r) => Went(t, v, s.next + 2, r, taken)
        /\ IsSound(r) => Ended(t, v, s.next + 2, r, Object(taken), bracket)
    <3> HIDE DEF v, taken, bracket
    <3> QED
      BY <2>4, <2>5, <2>6, ContinueComes
  <2>8. ASSUME NEW b \in s.next + 2..Len(t) - 1, IsSound(v), v.next = b + 1
        PROVE  b \in s.next..Len(t) - 1 /\ Took(t, inner, p, s, b)
    <3>1. b \in s.next..Len(t) - 1
      BY <1>0
    <3>2. PartAt(t, inner, p, s.next, b)
      BY <1>1, <2>3, <2>8 DEF PartAt
    <3> QED
      BY <2>3, <3>1, <3>2, NoKey DEF Took
  <2>9. bracket = BracketOf(t, p) /\ Object(taken) = WholeOf(t, p, taken)
    BY <1>1 DEF BracketOf, WholeOf
  <2>10. \A b : b \in s.next + 2..Len(t) - 1 => b \in s.next..Len(t) - 1
    BY <1>0
  <2>11. ASSUME IsTaking(r) PROVE TakesOn(t, inner, p, s, r)
    <3> HIDE DEF v, bracket
    <3>1. PICK b \in s.next + 2..Len(t) - 1 :
            IsSound(v) /\ v.next = b + 1 /\ IsCut(t, b + 1) /\ r.next = b + 2 /\ r.value = taken
      BY <2>7, <2>11 DEF Went
    <3> QED
      BY <2>8, <2>10, <3>1 DEF TakesOn
  <2>12. ASSUME IsSound(r) PROVE Closes(t, inner, p, s, r)
    <3> HIDE DEF v, bracket
    <3>1. PICK b \in s.next + 2..Len(t) - 1 :
            IsSound(v) /\ v.next = b + 1 /\ t[b + 1] = bracket /\ r.next = b + 2 /\ r.value = Object(taken)
      BY <2>7, <2>12 DEF Ended
    <3> QED
      BY <2>8, <2>9, <2>10, <3>1 DEF Closes
  <2> QED
    BY <2>2, <2>11, <2>12
<1>2. CASE ~IsObject(t, p)
  <2> DEFINE v == inner[s.next]
             bracket == "]"
  <2>1. IsBracket(bracket) /\ r = Continue(t, v, taken, Array(taken), bracket)
    BY <1>2, ItemIs DEF NextTurn, IsTaking, IsObject, Made, IsBracket
  <2>2. Within(t, v, s.next)
    BY <1>0 DEF Answers
  <2>3. /\ IsTaking(r) => Went(t, v, s.next, r, taken)
        /\ IsSound(r) => Ended(t, v, s.next, r, Array(taken), bracket)
    <3> HIDE DEF v, taken, bracket
    <3> QED
      BY <1>0, <2>1, <2>2, ContinueComes
  <2>4. ASSUME NEW b \in s.next..Len(t) - 1, IsSound(v), v.next = b + 1
        PROVE  Took(t, inner, p, s, b)
    BY <1>2, <2>4 DEF PartAt, Took
  <2>5. bracket = BracketOf(t, p) /\ Array(taken) = WholeOf(t, p, taken)
    BY <1>2 DEF BracketOf, WholeOf
  <2>6. ASSUME IsTaking(r) PROVE TakesOn(t, inner, p, s, r)
    <3> HIDE DEF v, bracket
    <3> QED
      BY <2>3, <2>4, <2>6 DEF Went, TakesOn
  <2>7. ASSUME IsSound(r) PROVE Closes(t, inner, p, s, r)
    <3> HIDE DEF v, bracket
    <3> QED
      BY <2>3, <2>4, <2>5, <2>7 DEF Ended, Closes
  <2> QED
    BY <2>6, <2>7
<1> QED
  BY <1>1, <1>2

\* The answer r is the whole that closes at e.
ClosesAt(t, inner, p, r, cuts, e, list) ==
  /\ Closed(t, inner, p, cuts, e, list) /\ e \in p + 2..Len(t) /\ t[e] = BracketOf(t, p)
  /\ r.next = e + 1 /\ r.value = WholeOf(t, p, list)

\* What a loop has divided after each turn.
LEMMA LoopDivides ==
  ASSUME NEW t \in Seq(Token), NEW inner, Answers(t, inner), NEW p \in 1..Len(t), NEW turn,
         Looping(t, inner, p, turn)
  PROVE  \A k \in 0..Len(t) :
           /\ IsTaking(turn[k]) => \E cuts : Divided(t, inner, p, cuts, turn[k].next, turn[k].value)
           /\ IsSound(turn[k]) => \E cuts, e, list : ClosesAt(t, inner, p, turn[k], cuts, e, list)
<1> DEFINE Going(r) == \E cuts : Divided(t, inner, p, cuts, r.next, r.value)
           Done(r) == \E cuts, e, list : ClosesAt(t, inner, p, r, cuts, e, list)
           good == {k \in 0..Len(t) : (IsTaking(turn[k]) => Going(turn[k])) /\ (IsSound(turn[k]) => Done(turn[k]))}
<1>0. Len(t) \in Nat
  BY LenInNat
<1>1. 0 \in good
  <2>1. turn[0] = Taking(<<>>, p + 1) /\ 0 \in 0..Len(t)
    BY <1>0 DEF Looping
  <2>2. Starts({}, p + 1) = {p + 1}
    BY DEF Starts
  <2>3. Collected(t, inner, p, {}, <<>>)
    <3>1. DOMAIN <<>> = {}
      OBVIOUS
    <3>2. <<>> \in Seq({Made(t, inner, p, a) : a \in {}})
      OBVIOUS
    <3> QED
      BY <3>1, <3>2 DEF Collected, InRange
  <2>4. Divided(t, inner, p, {}, p + 1, <<>>)
    BY <2>2, <2>3 DEF Divided
  <2>5. IsTaking(turn[0]) /\ ~IsSound(turn[0]) /\ turn[0].next = p + 1 /\ turn[0].value = <<>>
    BY <2>1, Kinds
  <2> QED
    BY <2>1, <2>4, <2>5
<1>2. ASSUME NEW k \in 0..Len(t), k \in good, k < Len(t)
      PROVE  k + 1 \in good
  <2>1. k + 1 \in 0..Len(t) /\ turn[k + 1] = NextTurn(t, inner, p, turn[k])
    BY <1>0, <1>2 DEF Looping
  <2>2. CASE IsTaking(turn[k])
    <3> DEFINE s == turn[k]
               r == turn[k + 1]
               n == s.next
               more == Append(s.value, Made(t, inner, p, n))
    <3>1. PICK cuts : Divided(t, inner, p, cuts, n, s.value)
      BY <1>2, <2>2
    <3>2. n \in p + 1 + k..Len(t) + 1
      BY <2>2, TurnsWithin
    <3>3. n \in p + 1..Len(t) + 1 /\ n \in Nat /\ n > p /\ p \in Nat
      <4> HIDE DEF n
      <4> QED
        BY <1>0, <3>2
    <3>4. (IsTaking(r) => TakesOn(t, inner, p, s, r)) /\ (IsSound(r) => Closes(t, inner, p, s, r))
      <4>1. r = NextTurn(t, inner, p, s) /\ IsTaking(s) /\ s.next \in p + 1..Len(t) + 1
        BY <2>1, <2>2, <3>3
      <4> HIDE DEF s, r
      <4> QED
        BY <4>1, TurnComes
    <3>5. ASSUME NEW b \in n..Len(t) - 1, Took(t, inner, p, s, b)
          PROVE  /\ b \in Nat /\ b >= n /\ b + 1 \in p + 2..Len(t) /\ (b + 1) + 1 = b + 2
                 /\ IsCut(t, b + 1) => Divided(t, inner, p, cuts \cup {b + 1}, b + 2, more)
                 /\ Closed(t, inner, p, cuts, b + 1, more)
      <4>1. b \in Nat /\ b >= n /\ b + 1 \in p + 2..Len(t) /\ (b + 1) + 1 = b + 2
        <5> HIDE DEF n
        <5> QED
          BY <1>0, <3>3
      <4>2. /\ PartAt(t, inner, p, n, b)
            /\ IsObject(t, p) => \A i \in DOMAIN s.value : s.value[i].key # Meaning[t[n]]
        BY <3>5 DEF Took
      <4> HIDE DEF n, s, r
      <4>3. IsCut(t, b + 1) => Divided(t, inner, p, cuts \cup {b + 1}, b + 2, more)
        BY <3>1, <3>3, <4>1, <4>2, DivideOn
      <4>4. Closed(t, inner, p, cuts, b + 1, more)
        BY <3>1, <3>3, <4>1, <4>2, DivideLast
      <4> QED
        BY <4>1, <4>3, <4>4
    <3>6. ASSUME IsTaking(r) PROVE Going(r)
      <4>1. PICK b \in n..Len(t) - 1 :
              Took(t, inner, p, s, b) /\ IsCut(t, b + 1) /\ r.next = b + 2 /\ r.value = more
        BY <3>4, <3>6 DEF TakesOn
      <4>2. Divided(t, inner, p, cuts \cup {b + 1}, r.next, r.value)
        BY <3>5, <4>1
      <4> QED
        BY <4>2
    <3>7. ASSUME IsSound(r) PROVE Done(r)
      <4>1. PICK b \in n..Len(t) - 1 :
              Took(t, inner, p, s, b) /\ t[b + 1] = BracketOf(t, p)
              /\ r.next = b + 2 /\ r.value = WholeOf(t, p, more)
        BY <3>4, <3>7 DEF Closes
      <4>2. /\ b + 1 \in p + 2..Len(t) /\ Closed(t, inner, p, cuts, b + 1, more)
            /\ r.next = (b + 1) + 1
        BY <3>5, <4>1
      <4>3. ClosesAt(t, inner, p, r, cuts, b + 1, more)
        BY <4>1, <4>2 DEF ClosesAt
      <4> QED
        BY <4>3
    <3> QED
      BY <2>1, <3>6, <3>7
  <2>3. CASE ~IsTaking(turn[k])
    <3>1. turn[k + 1] = turn[k]
      BY <2>1, <2>3 DEF NextTurn, IsTaking
    <3> QED
      BY <1>2, <2>1, <2>3, <3>1
  <2> QED
    BY <2>2, <2>3
<1> HIDE DEF good
<1>3. \A k \in 0..Len(t) : k \in good
  BY <1>0, <1>1, <1>2, Counting
<1> QED
  BY <1>3 DEF good

\* A whole that is read is closed by its bracket.
LEMMA PartsClose ==
  ASSUME NEW t \in Seq(Token), NEW inner, Answers(t, inner), NEW p \in 1..Len(t), IsSound(parts(t, inner, p))
  PROVE  \E cuts, e, list : ClosesAt(t, inner, p, parts(t, inner, p), cuts, e, list)
<1>1. PICK turn : Looping(t, inner, p, turn) /\ parts(t, inner, p) = turn[Len(t)]
  BY PartsAre
<1>2. Len(t) \in 0..Len(t)
  BY LenInNat
<1> QED
  BY <1>1, <1>2, LoopDivides

-----------------------------------------------------------------------------
(***************************************************************************)
(* The converse: a loop goes through the parts of a division.              *)
(***************************************************************************)

\* The tokens between p and e are divided at cuts into parts that inner reads.
Parted(t, inner, p, cuts, e) ==
  /\ cuts \in Divisions(t, p + 1, e - 1)
  /\ \A a \in Starts(cuts, p + 1) : \E b \in a..e - 1 : IsPart(cuts, e - 1, a, b) /\ PartAt(t, inner, p, a, b)
  /\ IsObject(t, p) => \A a, c \in Starts(cuts, p + 1) : Meaning[t[a]] = Meaning[t[c]] => a = c

LEMMA ContinueGoes ==
  ASSUME NEW t \in Seq(Token), NEW b \in 1..Len(t) - 1, NEW v, IsSound(v), v.next = b + 1,
         NEW taken, NEW whole, NEW bracket, IsBracket(bracket)
  PROVE  /\ IsCut(t, b + 1) => Continue(t, v, taken, whole, bracket) = Taking(taken, b + 2)
         /\ t[b + 1] = bracket => Continue(t, v, taken, whole, bracket) = Read(whole, b + 2)
<1>1. b + 1 \in Nat /\ b + 1 \in 1..Len(t) /\ (b + 1) + 1 = b + 2
  BY LenInNat
<1>2. At(t, b + 1) = t[b + 1] /\ v.next + 1 = b + 2
  BY <1>1, AtToken
<1>3. bracket # ","
  BY DEF IsBracket
<1> QED
  BY <1>2, <1>3 DEF Continue, IsSound, IsCut

LEMMA TurnGoes ==
  ASSUME NEW t \in Seq(Token), NEW inner, Answers(t, inner), NEW p \in 1..Len(t),
         NEW s, IsTaking(s), s.next \in p + 1..Len(t) + 1, NEW b, Took(t, inner, p, s, b)
  PROVE  LET taken == Append(s.value, Made(t, inner, p, s.next)) IN
         /\ IsCut(t, b + 1) => NextTurn(t, inner, p, s) = Taking(taken, b + 2)
         /\ t[b + 1] = BracketOf(t, p) => NextTurn(t, inner, p, s) = Read(WholeOf(t, p, taken), b + 2)
<1> DEFINE taken == Append(s.value, Made(t, inner, p, s.next))
<1>0. b \in s.next..Len(t) - 1 /\ PartAt(t, inner, p, s.next, b)
  BY DEF Took
<1>1. s.next \in Nat /\ s.next \in 1..Len(t) /\ s.next + 1 \in 1..Len(t) /\ b \in 1..Len(t) - 1
      /\ s.next + 1 \in Nat
  BY <1>0, LenInNat
<1>2. CASE IsObject(t, p)
  <2> DEFINE v == inner[s.next + 2]
             bracket == "}"
  <2>1. t[s.next] \in Spelling /\ t[s.next + 1] = ":" /\ IsSound(v) /\ v.next = b + 1
    BY <1>0, <1>2 DEF PartAt
  <2>2. Meaning[t[s.next]] \notin KeysOf(s.value)
    BY <1>2, NoKey DEF Took
  <2>3. At(t, s.next) = t[s.next] /\ At(t, s.next + 1) = t[s.next + 1]
    BY <1>1, AtToken
  <2>4. NextTurn(t, inner, p, s) = Continue(t, v, taken, Object(taken), bracket)
    BY <1>2, <2>1, <2>2, <2>3 DEF NextTurn, IsTaking, IsObject, member, Entered, Made
  <2>5. IsBracket(bracket) /\ bracket = BracketOf(t, p) /\ WholeOf(t, p, taken) = Object(taken)
    BY <1>2 DEF IsBracket, BracketOf, WholeOf
  <2>6. IsSound(v) /\ v.next = b + 1
    BY <2>1
  <2> HIDE DEF v, bracket, taken
  <2>7. /\ IsCut(t, b + 1) => NextTurn(t, inner, p, s) = Taking(taken, b + 2)
        /\ t[b + 1] = bracket => NextTurn(t, inner, p, s) = Read(Object(taken), b + 2)
    BY <1>1, <2>4, <2>5, <2>6, ContinueGoes
  <2> QED
    BY <2>5, <2>7 DEF taken
<1>3. CASE ~IsObject(t, p)
  <2> DEFINE v == inner[s.next]
             bracket == "]"
  <2>1. IsSound(v) /\ v.next = b + 1
    BY <1>0, <1>3 DEF PartAt
  <2>4. NextTurn(t, inner, p, s) = Continue(t, v, taken, Array(taken), bracket)
    BY <1>3, ItemIs DEF NextTurn, IsTaking, IsObject, Made
  <2>5. IsBracket(bracket) /\ bracket = BracketOf(t, p) /\ WholeOf(t, p, taken) = Array(taken)
    BY <1>3 DEF IsBracket, BracketOf, WholeOf
  <2> HIDE DEF v, bracket, taken
  <2>7. /\ IsCut(t, b + 1) => NextTurn(t, inner, p, s) = Taking(taken, b + 2)
        /\ t[b + 1] = bracket => NextTurn(t, inner, p, s) = Read(Array(taken), b + 2)
    BY <1>1, <2>1, <2>4, <2>5, ContinueGoes
  <2> QED
    BY <2>5, <2>7 DEF taken
<1> QED
  BY <1>2, <1>3

\* A turn is at the start of a part, with the names of those before it.
Started(t, p, cuts, s) ==
  /\ s.next \in Starts(cuts, p + 1) /\ s.value \in Seq(InRange(s.value))
  /\ IsObject(t, p) => \A i \in DOMAIN s.value :
       \E a \in Starts(cuts, p + 1) : a < s.next /\ s.value[i].key = Meaning[t[a]]

LEMMA StartsOn ==
  ASSUME NEW t, NEW inner, NEW p, NEW cuts, NEW s, Started(t, p, cuts, s), s.next \in Nat,
         NEW b \in Nat, b >= s.next, b + 1 \in cuts, \A a \in Starts(cuts, p + 1) : a \in Nat
  PROVE  Started(t, p, cuts, Taking(Append(s.value, Made(t, inner, p, s.next)), b + 2))
<1> DEFINE x == Made(t, inner, p, s.next)
           list == Append(s.value, x)
           S == InRange(s.value)
<1>1. b + 2 \in Starts(cuts, p + 1) /\ s.next < b + 2
  <2>1. (b + 1) + 1 = b + 2 /\ s.next < b + 2
    OBVIOUS
  <2> QED
    BY <2>1 DEF Starts
<1>2. s.value \in Seq(S)
  BY DEF Started
<1>3. list \in Seq(S \cup {x}) /\ InRange(list) = S \cup {x}
  <2> DEFINE before == s.value
  <2>1. before \in Seq(S) /\ InRange(before) = S /\ list = Append(before, x)
    BY <1>2
  <2> HIDE DEF S, x, before, list
  <2> QED
    BY <2>1, AppendRange
<1>4. \A i \in DOMAIN list : list[i] = x \/ \E j \in DOMAIN s.value : list[i] = s.value[j]
  <2>1. \A i \in DOMAIN list : list[i] \in S \cup {x}
    BY <1>3 DEF InRange
  <2> QED
    BY <2>1 DEF InRange
<1>5. ASSUME IsObject(t, p), NEW i \in DOMAIN list
      PROVE  \E a \in Starts(cuts, p + 1) : a < b + 2 /\ list[i].key = Meaning[t[a]]
  <2>1. CASE list[i] = x
    <3>1. x.key = Meaning[t[s.next]]
      BY <1>5 DEF Made
    <3> QED
      BY <1>1, <2>1, <3>1 DEF Started
  <2>2. ASSUME NEW j \in DOMAIN s.value, list[i] = s.value[j]
        PROVE  \E a \in Starts(cuts, p + 1) : a < b + 2 /\ list[i].key = Meaning[t[a]]
    <3>1. PICK a \in Starts(cuts, p + 1) : a < s.next /\ s.value[j].key = Meaning[t[a]]
      BY <1>5 DEF Started
    <3>2. a < b + 2
      BY <1>1, <3>1
    <3> QED
      BY <2>2, <3>1, <3>2
  <2> QED
    BY <1>4, <2>1, <2>2
<1> HIDE DEF list
<1>6. Taking(list, b + 2).next = b + 2 /\ Taking(list, b + 2).value = list
  BY Kinds
<1>7. list \in Seq(InRange(list))
  BY <1>3
<1>8. Started(t, p, cuts, Taking(list, b + 2))
  BY <1>1, <1>5, <1>6, <1>7 DEF Started
<1> QED
  BY <1>8 DEF list

LEMMA PartedPlaces ==
  ASSUME NEW t \in Seq(Token), NEW inner, NEW p \in 1..Len(t), NEW e \in p + 2..Len(t), NEW cuts,
         Parted(t, inner, p, cuts, e)
  PROVE  /\ \A k \in cuts : k \in p + 1..e - 1 /\ IsCut(t, k)
         /\ \A a \in Starts(cuts, p + 1) : a \in p + 1..e /\ a \in Nat /\ a \in p + 1..Len(t) + 1
         /\ e \in Nat /\ e - 1 + 1 = e
<1>1. p \in Nat /\ e \in Nat /\ e <= Len(t) /\ Len(t) \in Nat /\ e >= p + 2
  BY LenInNat
<1>2. \A k \in cuts : k \in p + 1..e - 1 /\ IsCut(t, k)
  BY DEF Parted, Divisions, IsCut
<1>3. ASSUME NEW a \in Starts(cuts, p + 1)
      PROVE  a \in p + 1..e /\ a \in Nat /\ a \in p + 1..Len(t) + 1
  <2>1. CASE a = p + 1
    BY <1>1, <2>1
  <2>2. CASE a # p + 1
    <3>1. PICK k \in cuts : a = k + 1
      BY <2>2 DEF Starts
    <3>2. k \in p + 1..e - 1
      BY <1>2
    <3> QED
      BY <1>1, <3>1, <3>2
  <2> QED
    BY <2>1, <2>2
<1> QED
  BY <1>1, <1>2, <1>3

\* The turn that starts a part takes it.
LEMMA TurnTakes ==
  ASSUME NEW t \in Seq(Token), NEW inner, Answers(t, inner), NEW p \in 1..Len(t), NEW e \in p + 2..Len(t),
         NEW cuts, Parted(t, inner, p, cuts, e), t[e] = BracketOf(t, p),
         NEW s, IsTaking(s), Started(t, p, cuts, s)
  PROVE  LET r == NextTurn(t, inner, p, s) IN
         (IsTaking(r) /\ Started(t, p, cuts, r)) \/ (IsSound(r) /\ r.next = e + 1)
<1> DEFINE n == s.next
           taken == Append(s.value, Made(t, inner, p, n))
           r == NextTurn(t, inner, p, s)
<1>1. n \in Starts(cuts, p + 1) /\ n \in p + 1..e /\ n \in Nat /\ n \in p + 1..Len(t) + 1
  BY PartedPlaces DEF Started
<1>2. PICK b \in n..e - 1 : IsPart(cuts, e - 1, n, b) /\ PartAt(t, inner, p, n, b)
  BY <1>1 DEF Parted
<1>3. b \in Nat /\ b >= n /\ b \in n..Len(t) - 1 /\ b + 2 = (b + 1) + 1 /\ e - 1 + 1 = e
  BY <1>1, LenInNat
<1>4. Took(t, inner, p, s, b)
  <2>1. ASSUME IsObject(t, p), NEW i \in DOMAIN s.value
        PROVE  s.value[i].key # Meaning[t[n]]
    <3>1. PICK a \in Starts(cuts, p + 1) : a < n /\ s.value[i].key = Meaning[t[a]]
      BY <2>1 DEF Started
    <3>2. a # n
      BY <1>1, <3>1, PartedPlaces
    <3> QED
      BY <1>1, <2>1, <3>1, <3>2 DEF Parted
  <2> QED
    BY <1>2, <1>3, <2>1 DEF Took
<1>5. /\ IsCut(t, b + 1) => r = Taking(taken, b + 2)
      /\ t[b + 1] = BracketOf(t, p) => r = Read(WholeOf(t, p, taken), b + 2)
  BY <1>1, <1>4, TurnGoes
<1> HIDE DEF r
<1>6. CASE b + 1 \in cuts
  <2>1. r = Taking(taken, b + 2)
    BY <1>5, <1>6, PartedPlaces
  <2>2. Started(t, p, cuts, Taking(taken, b + 2))
    BY <1>1, <1>3, <1>6, StartsOn, PartedPlaces
  <2> QED
    BY <2>1, <2>2, Kinds DEF r
<1>7. CASE b + 1 = e
  <2>1. r = Read(WholeOf(t, p, taken), b + 2) /\ b + 2 = e + 1
    BY <1>3, <1>5, <1>7
  <2> QED
    BY <2>1, Kinds DEF r
<1>8. b + 1 \in cuts \/ b + 1 = e
  BY <1>2, <1>3 DEF IsPart
<1> QED
  BY <1>6, <1>7, <1>8

LEMMA PartsRead ==
  ASSUME NEW t \in Seq(Token), NEW inner, Answers(t, inner), NEW p \in 1..Len(t), NEW e \in p + 2..Len(t),
         NEW cuts, Parted(t, inner, p, cuts, e), t[e] = BracketOf(t, p)
  PROVE  IsSound(parts(t, inner, p)) /\ parts(t, inner, p).next = e + 1
<1>1. PICK turn : Looping(t, inner, p, turn) /\ parts(t, inner, p) = turn[Len(t)]
  BY PartsAre
<1> DEFINE good == {k \in 0..Len(t) : \/ IsTaking(turn[k]) /\ Started(t, p, cuts, turn[k])
                                      \/ IsSound(turn[k]) /\ turn[k].next = e + 1}
<1>2. Len(t) \in Nat
  BY LenInNat
<1>3. 0 \in good
  <2>1. turn[0] = Taking(<<>>, p + 1) /\ 0 \in 0..Len(t)
    BY <1>1, <1>2 DEF Looping
  <2>2. IsTaking(turn[0]) /\ turn[0].next = p + 1 /\ turn[0].value = <<>>
    BY <2>1, Kinds
  <2>3. <<>> \in Seq(InRange(<<>>)) /\ DOMAIN <<>> = {}
    OBVIOUS
  <2>4. Started(t, p, cuts, turn[0])
    BY <2>2, <2>3 DEF Started, Starts
  <2> QED
    BY <2>1, <2>2, <2>4
<1>4. ASSUME NEW k \in 0..Len(t), k \in good, k < Len(t)
      PROVE  k + 1 \in good
  <2>1. k + 1 \in 0..Len(t) /\ turn[k + 1] = NextTurn(t, inner, p, turn[k])
    BY <1>1, <1>2, <1>4 DEF Looping
  <2>2. CASE IsTaking(turn[k]) /\ Started(t, p, cuts, turn[k])
    BY <2>1, <2>2, TurnTakes
  <2>3. CASE IsSound(turn[k]) /\ turn[k].next = e + 1
    <3>1. turn[k + 1] = turn[k]
      BY <2>1, <2>3 DEF NextTurn, IsSound
    <3> QED
      BY <2>1, <2>3, <3>1
  <2> QED
    BY <1>4, <2>2, <2>3
<1> HIDE DEF good
<1>5. \A k \in 0..Len(t) : k \in good
  BY <1>2, <1>3, <1>4, Counting
<1>6. ~IsTaking(turn[Len(t)])
  BY <1>1, LoopEnds
<1>7. Len(t) \in good
  BY <1>2, <1>5
<1> QED
  BY <1>1, <1>6, <1>7 DEF good

-----------------------------------------------------------------------------
(***************************************************************************)
(* The grammar, by the room for levels inside a value.                     *)
(***************************************************************************)

GrammarUpTo(t, n, values) ==
  values = [room \in 0..n |->
    IF room = 0 THEN {}
    ELSE {q \in (1..Len(t)) \X (1..Len(t)) : IsValueAt(t, q[1], q[2], values[room - 1])}]

LEMMA GrammarDefined ==
  ASSUME NEW t, NEW n \in Nat
  PROVE  \E values : GrammarUpTo(t, n, values)
<1> DEFINE Level(room, inner) ==
             IF room = 0 THEN {}
             ELSE {q \in (1..Len(t)) \X (1..Len(t)) : IsValueAt(t, q[1], q[2], inner)}
           defined == {m \in Nat : \E values : GrammarUpTo(t, m, values)}
<1>1. 0 \in defined
  <2>1. GrammarUpTo(t, 0, [room \in 0..0 |-> {}])
    BY DEF GrammarUpTo
  <2> QED
    BY <2>1
<1>2. ASSUME NEW m \in 0..n, m \in defined
      PROVE  m + 1 \in defined
  <2>1. PICK before : GrammarUpTo(t, m, before)
    BY <1>2
  <2>2. before = [room \in 0..m |-> Level(room, before[room - 1])]
    BY <2>1 DEF GrammarUpTo
  <2> DEFINE values == [room \in 0..m + 1 |-> IF room <= m THEN before[room] ELSE Level(room, before[m])]
  <2> HIDE DEF Level
  <2>3. \A room \in 0..m + 1 : values[room] = Level(room, values[room - 1])
    <3>1. ASSUME NEW room \in 0..m + 1, room <= m, room # 0
          PROVE  values[room] = Level(room, values[room - 1])
      <4>1. room \in 0..m /\ room - 1 \in 0..m + 1 /\ room - 1 <= m
        BY <3>1
      <4>2. values[room] = before[room] /\ values[room - 1] = before[room - 1]
        BY <4>1
      <4> HIDE DEF values
      <4> QED
        BY <4>1, <4>2, <2>2
    <3>2. values[0] = before[0] /\ values[m + 1] = Level(m + 1, before[m])
          /\ values[(m + 1) - 1] = before[m] /\ 0 \in 0..m
      OBVIOUS
    <3>3. before[0] = Level(0, values[0 - 1])
      BY <2>2, <3>2 DEF Level
    <3> HIDE DEF values
    <3>4. \A room \in 0..m + 1 : room <= m \/ room = m + 1
      OBVIOUS
    <3> QED
      BY <3>1, <3>2, <3>3, <3>4
  <2>4. values = [room \in 0..m + 1 |-> Level(room, values[room - 1])]
    BY <2>3
  <2>5. GrammarUpTo(t, m + 1, values)
    <3> HIDE DEF values
    <3> QED
      BY <2>4 DEF GrammarUpTo, Level
  <2> QED
    BY <2>5
<1> HIDE DEF defined
<1>3. n \in defined
  BY <1>1, <1>2, Counting
<1> QED
  BY <1>3 DEF defined

\* The pairs that are a value with so much room.
Grammar(t) == CHOOSE values : GrammarUpTo(t, MAX_NESTING_DEPTH + 1, values)

LEMMA GrammarIs ==
  ASSUME NEW t
  PROVE  /\ IsJson(t) <=> <<1, Len(t)>> \in Grammar(t)[MAX_NESTING_DEPTH + 1]
         /\ Grammar(t)[0] = {}
         /\ \A room \in 0..MAX_NESTING_DEPTH, i, j \in 1..Len(t) :
              <<i, j>> \in Grammar(t)[room + 1] <=> IsValueAt(t, i, j, Grammar(t)[room])
         /\ \A room \in 0..MAX_NESTING_DEPTH + 1 : Grammar(t)[room] \subseteq (1..Len(t)) \X (1..Len(t))
<1>0. MAX_NESTING_DEPTH \in Nat
  BY ReaderAssumption
<1>1. MAX_NESTING_DEPTH + 1 \in Nat
  BY <1>0
<1>2. GrammarUpTo(t, MAX_NESTING_DEPTH + 1, Grammar(t))
  BY <1>1, GrammarDefined DEF Grammar
<1>3. IsJson(t) <=> <<1, Len(t)>> \in Grammar(t)[MAX_NESTING_DEPTH + 1]
  BY DEF IsJson, Grammar, GrammarUpTo
<1>4. Grammar(t)[0] = {}
  BY <1>1, <1>2 DEF GrammarUpTo
<1>5. ASSUME NEW room \in 0..MAX_NESTING_DEPTH
      PROVE  Grammar(t)[room + 1] =
               {q \in (1..Len(t)) \X (1..Len(t)) : IsValueAt(t, q[1], q[2], Grammar(t)[room])}
  <2>1. room + 1 \in 0..MAX_NESTING_DEPTH + 1 /\ room + 1 # 0 /\ (room + 1) - 1 = room
    BY <1>0
  <2> QED
    BY <2>1, <1>2 DEF GrammarUpTo
<1>6. ASSUME NEW room \in 0..MAX_NESTING_DEPTH, NEW i \in 1..Len(t), NEW j \in 1..Len(t)
      PROVE  <<i, j>> \in Grammar(t)[room + 1] <=> IsValueAt(t, i, j, Grammar(t)[room])
  <2>1. <<i, j>> \in (1..Len(t)) \X (1..Len(t)) /\ <<i, j>>[1] = i /\ <<i, j>>[2] = j
    OBVIOUS
  <2> QED
    BY <2>1, <1>5
<1>7. ASSUME NEW room \in 0..MAX_NESTING_DEPTH + 1
      PROVE  Grammar(t)[room] \subseteq (1..Len(t)) \X (1..Len(t))
  <2>1. CASE room = 0
    BY <1>4, <2>1
  <2>2. CASE room # 0
    <3>1. room - 1 \in 0..MAX_NESTING_DEPTH /\ (room - 1) + 1 = room
      BY <1>0, <2>2
    <3> QED
      BY <3>1, <1>5
  <2> QED
    BY <2>1, <2>2
<1> QED
  BY <1>3, <1>4, <1>6, <1>7

\* pairs are what inner reads, and nothing that starts with a closing bracket.
Starting(t, i) == t[i] \in {"{", "["} \cup Spelling \cup Scalar

Matches(t, inner, pairs) ==
  /\ pairs \subseteq (1..Len(t)) \X (1..Len(t))
  /\ \A i, j \in 1..Len(t) : <<i, j>> \in pairs <=> IsSound(inner[i]) /\ inner[i].next = j + 1
  /\ \A i \in 1..Len(t) : IsSound(inner[i]) => Starting(t, i)

Divides(t, p, e, pairs) ==
  IF IsObject(t, p) THEN IsMembers(t, p + 1, e - 1, pairs) ELSE IsItems(t, p + 1, e - 1, pairs)

\* A part that inner reads is one of the grammar's.
LEMMA PartMatches ==
  ASSUME NEW t \in Seq(Token), NEW inner, Answers(t, inner), NEW pairs, Matches(t, inner, pairs),
         NEW p \in 1..Len(t), NEW a \in p + 1..Len(t), NEW b \in a..Len(t) - 1
  PROVE  /\ IsObject(t, p) =>
              (PartAt(t, inner, p, a, b) <=>
                 b \in a + 2..Len(t) /\ t[a] \in Spelling /\ t[a + 1] = ":" /\ <<a + 2, b>> \in pairs)
         /\ ~IsObject(t, p) => (PartAt(t, inner, p, a, b) <=> <<a, b>> \in pairs)
<1>1. a \in 1..Len(t) /\ b \in 1..Len(t) /\ a + 2 \in 1..Len(t) + 1 /\ Len(t) \in Nat /\ a \in Nat
  BY LenInNat
<1>2. <<a, b>> \in pairs <=> IsSound(inner[a]) /\ inner[a].next = b + 1
  BY <1>1 DEF Matches
<1>3. IsSound(inner[a + 2]) /\ inner[a + 2].next = b + 1 => b \in a + 2..Len(t) /\ a + 2 \in 1..Len(t)
  <2>1. IsSound(inner[a + 2]) => inner[a + 2].next > a + 2
    BY <1>1 DEF Answers, Within
  <2>2. b + 1 > a + 2 => b \in a + 2..Len(t) /\ a + 2 \in 1..Len(t)
    BY <1>1
  <2> QED
    BY <2>1, <2>2
<1>4. a + 2 \in 1..Len(t) => (<<a + 2, b>> \in pairs <=> IsSound(inner[a + 2]) /\ inner[a + 2].next = b + 1)
  BY <1>1 DEF Matches
<1>5. b \in a + 2..Len(t) => a + 2 \in 1..Len(t)
  BY <1>1
<1> QED
  BY <1>2, <1>3, <1>4, <1>5 DEF PartAt

LEMMA DivisionMatches ==
  ASSUME NEW t \in Seq(Token), NEW inner, Answers(t, inner), NEW pairs, Matches(t, inner, pairs),
         NEW p \in 1..Len(t), NEW e \in p + 2..Len(t)
  PROVE  Divides(t, p, e, pairs) <=> \E cuts : Parted(t, inner, p, cuts, e)
<1>1. \A a \in p + 1..e : \A b \in a..e - 1 : a \in p + 1..Len(t) /\ b \in a..Len(t) - 1
  BY LenInNat
<1>2. ASSUME NEW cuts \in Divisions(t, p + 1, e - 1), NEW a \in Starts(cuts, p + 1)
      PROVE  a \in p + 1..e /\ a \in Nat
  <2>1. CASE a = p + 1
    BY <2>1
  <2>2. CASE a # p + 1
    <3>1. PICK k \in p + 1..e - 1 : a = k + 1
      BY <2>2 DEF Starts, Divisions
    <3> QED
      BY <3>1
  <2> QED
    BY <2>1, <2>2
<1>3. CASE IsObject(t, p)
  <2>1. ASSUME NEW cuts \in Divisions(t, p + 1, e - 1), NEW a \in Starts(cuts, p + 1)
        PROVE  (\E b \in a..e - 1 : IsPart(cuts, e - 1, a, b) /\ PartAt(t, inner, p, a, b))
                 <=> \E b \in a + 2..e - 1 : /\ IsPart(cuts, e - 1, a, b)
                                             /\ t[a] \in Spelling /\ t[a + 1] = ":" /\ <<a + 2, b>> \in pairs
    <3>0. a \in p + 1..e /\ a \in Nat
      BY <1>2
    <3>1. \A b \in a + 2..e - 1 : b \in a..e - 1
      BY <3>0
    <3>2. \A b : b \in a..e - 1 /\ b \in a + 2..Len(t) => b \in a + 2..e - 1
      BY <3>0
    <3>3. \A b \in a..e - 1 : PartAt(t, inner, p, a, b) <=>
            b \in a + 2..Len(t) /\ t[a] \in Spelling /\ t[a + 1] = ":" /\ <<a + 2, b>> \in pairs
      BY <1>1, <1>3, <3>0, PartMatches
    <3>4. \A b \in a + 2..e - 1 : b \in a + 2..Len(t)
      BY <3>0, LenInNat
    <3> QED
      BY <3>1, <3>2, <3>3, <3>4
  <2> QED
    BY <1>3, <2>1 DEF Divides, IsMembers, Parted
<1>4. CASE ~IsObject(t, p)
  <2>1. ASSUME NEW cuts \in Divisions(t, p + 1, e - 1), NEW a \in Starts(cuts, p + 1)
        PROVE  (\E b \in a..e - 1 : IsPart(cuts, e - 1, a, b) /\ PartAt(t, inner, p, a, b))
                 <=> \E b \in a..e - 1 : IsPart(cuts, e - 1, a, b) /\ <<a, b>> \in pairs
    <3>0. a \in p + 1..e /\ a \in Nat
      BY <1>2
    <3>3. \A b \in a..e - 1 : PartAt(t, inner, p, a, b) <=> <<a, b>> \in pairs
      BY <1>1, <1>4, <3>0, PartMatches
    <3> QED
      BY <3>3
  <2> QED
    BY <1>4, <2>1 DEF Divides, IsItems, Parted
<1> QED
  BY <1>3, <1>4

\* The whole that opens at p is read to e.
LEMMA PartsMatch ==
  ASSUME NEW t \in Seq(Token), NEW inner, Answers(t, inner), NEW pairs, Matches(t, inner, pairs),
         NEW p \in 1..Len(t), NEW e \in 1..Len(t)
  PROVE  IsSound(parts(t, inner, p)) /\ parts(t, inner, p).next = e + 1
           <=> e \in p + 2..Len(t) /\ t[e] = BracketOf(t, p) /\ Divides(t, p, e, pairs)
<1>1. ASSUME IsSound(parts(t, inner, p)), parts(t, inner, p).next = e + 1
      PROVE  e \in p + 2..Len(t) /\ t[e] = BracketOf(t, p) /\ Divides(t, p, e, pairs)
  <2>1. PICK cuts, f, list : ClosesAt(t, inner, p, parts(t, inner, p), cuts, f, list)
    BY <1>1, PartsClose
  <2>2. f \in p + 2..Len(t) /\ f + 1 = e + 1
    BY <1>1, <2>1 DEF ClosesAt
  <2>3. f = e
    BY <2>2, LenInNat
  <2>4. Parted(t, inner, p, cuts, e)
    BY <2>1, <2>3 DEF ClosesAt, Closed, Collected, Parted
  <2> QED
    BY <2>1, <2>2, <2>3, <2>4, DivisionMatches DEF ClosesAt
<1>2. ASSUME e \in p + 2..Len(t), t[e] = BracketOf(t, p), Divides(t, p, e, pairs)
      PROVE  IsSound(parts(t, inner, p)) /\ parts(t, inner, p).next = e + 1
  <2>1. PICK cuts : Parted(t, inner, p, cuts, e)
    BY <1>2, DivisionMatches
  <2> QED
    BY <1>2, <2>1, PartsRead
<1> QED
  BY <1>1, <1>2

\* A division has a first part.
LEMMA FirstPart ==
  ASSUME NEW t \in Seq(Token), NEW inner, Answers(t, inner), NEW pairs, Matches(t, inner, pairs),
         NEW p \in 1..Len(t), NEW e \in p + 2..Len(t), Divides(t, p, e, pairs)
  PROVE  Starting(t, p + 1) /\ (IsObject(t, p) => t[p + 1] \in Spelling)
<1>1. PICK cuts : Parted(t, inner, p, cuts, e)
  BY DivisionMatches
<1>2. p + 1 \in Starts(cuts, p + 1)
  BY DEF Starts
<1>3. PICK b \in p + 1..e - 1 : PartAt(t, inner, p, p + 1, b)
  BY <1>1, <1>2 DEF Parted
<1>4. p + 1 \in 1..Len(t)
  BY LenInNat
<1>5. CASE IsObject(t, p)
  BY <1>3, <1>5 DEF PartAt, Starting
<1>6. CASE ~IsObject(t, p)
  BY <1>3, <1>4, <1>6 DEF PartAt, Matches
<1> QED
  BY <1>5, <1>6

\* An object or an array opens at i; a string or a scalar stands there.
IsWhole(t, i) == t[i] \in {"{", "["}
IsPlain(t, i) == t[i] \in Spelling \cup Scalar

\* The two ways a value can be, of the reader and of the grammar.
LEMMA WholeCases ==
  ASSUME NEW t \in Seq(Token), NEW inner, NEW pairs, NEW i \in 1..Len(t), IsWhole(t, i), NEW j
  PROVE  /\ At(t, i + 1) = BracketOf(t, i) => \E v : valueAt(t, inner, i) = Read(v, i + 2)
         /\ At(t, i + 1) # BracketOf(t, i) => valueAt(t, inner, i) = parts(t, inner, i)
         /\ IsValueAt(t, i, j, pairs) <=>
              t[j] = BracketOf(t, i) /\ i < j /\ (j = i + 1 \/ Divides(t, i, j, pairs))
         /\ Starting(t, i)
<1>1. At(t, i) = t[i]
  BY AtToken
<1>2. Cased(t, inner, i, valueAt(t, inner, i))
  BY ValueCases
<1>3. t[i] \notin Spelling \cup Scalar
  BY SpellingApart DEF IsWhole, Scalar
<1>4. CASE t[i] = "{"
  <2>1. IsObject(t, i) /\ BracketOf(t, i) = "}"
    BY <1>4 DEF IsObject, BracketOf
  <2>2. valueAt(t, inner, i) = IF At(t, i + 1) = "}" THEN Read(Object(<<>>), i + 2) ELSE parts(t, inner, i)
    BY <1>1, <1>2, <1>4 DEF Cased
  <2>3. IsValueAt(t, i, j, pairs) <=>
          t[j] = "}" /\ i < j /\ (j = i + 1 \/ IsMembers(t, i + 1, j - 1, pairs))
    BY <1>3, <1>4 DEF IsValueAt
  <2> QED
    BY <1>4, <2>1, <2>2, <2>3 DEF Divides, Starting
<1>5. CASE t[i] = "["
  <2>1. ~IsObject(t, i) /\ BracketOf(t, i) = "]"
    BY <1>5 DEF IsObject, BracketOf
  <2>2. valueAt(t, inner, i) = IF At(t, i + 1) = "]" THEN Read(Array(<<>>), i + 2) ELSE parts(t, inner, i)
    BY <1>1, <1>2, <1>5 DEF Cased
  <2>3. IsValueAt(t, i, j, pairs) <=>
          t[j] = "]" /\ i < j /\ (j = i + 1 \/ IsItems(t, i + 1, j - 1, pairs))
    BY <1>3, <1>5 DEF IsValueAt
  <2> QED
    BY <1>5, <2>1, <2>2, <2>3 DEF Divides, Starting
<1> QED
  BY <1>4, <1>5 DEF IsWhole

LEMMA PlainCases ==
  ASSUME NEW t \in Seq(Token), NEW inner, NEW pairs, NEW i \in 1..Len(t), ~IsWhole(t, i), NEW j
  PROVE  /\ IsPlain(t, i) => \E v : valueAt(t, inner, i) = Read(v, i + 1)
         /\ ~IsPlain(t, i) => valueAt(t, inner, i) = fail(i)
         /\ IsValueAt(t, i, j, pairs) <=> i = j /\ IsPlain(t, i)
         /\ IsPlain(t, i) => Starting(t, i)
<1>1. At(t, i) = t[i]
  BY AtToken
<1>2. Cased(t, inner, i, valueAt(t, inner, i))
  BY ValueCases
<1>3. t[i] # "{" /\ t[i] # "["
  BY DEF IsWhole
<1>4. IsPlain(t, i) => \E v : valueAt(t, inner, i) = Read(v, i + 1)
  BY <1>1, <1>2 DEF Cased, IsPlain
<1>5. ~IsPlain(t, i) => valueAt(t, inner, i) = fail(i)
  BY <1>1, <1>2, <1>3 DEF Cased, IsPlain
<1>6. IsValueAt(t, i, j, pairs) <=> i = j /\ IsPlain(t, i)
  BY <1>3 DEF IsValueAt, IsPlain
<1> QED
  BY <1>4, <1>5, <1>6 DEF IsPlain, Starting

LEMMA BracketCloses ==
  ASSUME NEW t, NEW p, NEW i, t[i] = BracketOf(t, p)
  PROVE  ~Starting(t, i)
BY SpellingApart DEF BracketOf, Starting, Scalar

LEMMA ValueMatches ==
  ASSUME NEW t \in Seq(Token), NEW inner, Answers(t, inner), NEW pairs, Matches(t, inner, pairs),
         NEW i \in 1..Len(t), NEW j \in 1..Len(t)
  PROVE  /\ IsSound(valueAt(t, inner, i)) /\ valueAt(t, inner, i).next = j + 1 <=> IsValueAt(t, i, j, pairs)
         /\ IsSound(valueAt(t, inner, i)) => Starting(t, i)
<1> DEFINE r == valueAt(t, inner, i)
<1>0. Len(t) \in Nat /\ i \in Nat /\ j \in Nat /\ i <= Len(t) /\ j <= Len(t)
  BY LenInNat
<1>1. CASE IsWhole(t, i)
  <2>1. IsValueAt(t, i, j, pairs) <=> t[j] = BracketOf(t, i) /\ i < j /\ (j = i + 1 \/ Divides(t, i, j, pairs))
    BY <1>1, WholeCases
  <2>2. Starting(t, i)
    BY <1>1, WholeCases
  <2>3. CASE At(t, i + 1) = BracketOf(t, i)
    <3>1. IsSound(r) /\ r.next = i + 2
      <4>1. \E v : r = Read(v, i + 2)
        BY <1>1, <2>3, WholeCases
      <4> HIDE DEF r
      <4> QED
        BY <4>1, Kinds
    <3>2. i + 1 \in 1..Len(t) /\ t[i + 1] = BracketOf(t, i)
      <4>1. BracketOf(t, i) # "end"
        BY DEF BracketOf
      <4>2. i + 1 \in Nat
        BY <1>0
      <4> QED
        BY <2>3, <4>1, <4>2, AtToken
    <3>3. j \in i + 2..Len(t) => ~Divides(t, i, j, pairs)
      BY <3>2, BracketCloses, FirstPart
    <3>4. i < j => j = i + 1 \/ j \in i + 2..Len(t)
      BY <1>0
    <3>5. j = i + 1 <=> i + 2 = j + 1
      BY <1>0
    <3>6. IsValueAt(t, i, j, pairs) <=> j = i + 1
      <4>1. j = i + 1 => i < j
        BY <1>0
      <4> QED
        BY <2>1, <3>2, <3>3, <3>4, <4>1
    <3> HIDE DEF r
    <3>7. IsSound(r) /\ r.next = j + 1 <=> IsValueAt(t, i, j, pairs)
      BY <3>1, <3>5, <3>6
    <3> QED
      BY <2>2, <3>7 DEF r
  <2>4. CASE At(t, i + 1) # BracketOf(t, i)
    <3>1. r = parts(t, inner, i)
      BY <1>1, <2>4, WholeCases
    <3>2. IsSound(r) /\ r.next = j + 1 <=>
            j \in i + 2..Len(t) /\ t[j] = BracketOf(t, i) /\ Divides(t, i, j, pairs)
      <4> HIDE DEF r
      <4> QED
        BY <3>1, PartsMatch
    <3>3. j = i + 1 => t[j] # BracketOf(t, i)
      BY <1>0, <2>4, AtToken
    <3>4. j \in i + 2..Len(t) <=> i < j /\ j # i + 1
      BY <1>0
    <3> HIDE DEF r
    <3>5. IsSound(r) /\ r.next = j + 1 <=> IsValueAt(t, i, j, pairs)
      BY <2>1, <3>2, <3>3, <3>4
    <3> QED
      BY <2>2, <3>5 DEF r
  <2> QED
    BY <2>3, <2>4
<1>2. CASE ~IsWhole(t, i)
  <2>1. IsValueAt(t, i, j, pairs) <=> i = j /\ IsPlain(t, i)
    BY <1>2, PlainCases
  <2>2. IsPlain(t, i) => Starting(t, i)
    BY <1>2, PlainCases
  <2>3. IsPlain(t, i) => \E v : r = Read(v, i + 1)
    BY <1>2, PlainCases
  <2>4. ~IsPlain(t, i) => r = fail(i)
    BY <1>2, PlainCases
  <2>5. i = j <=> i + 1 = j + 1
    BY <1>0
  <2> HIDE DEF r
  <2>6. IsPlain(t, i) => IsSound(r) /\ r.next = i + 1
    BY <2>3, Kinds
  <2>7. ~IsPlain(t, i) => ~IsSound(r)
    BY <2>4, Kinds
  <2>8. (IsSound(r) /\ r.next = j + 1 <=> IsValueAt(t, i, j, pairs)) /\ (IsSound(r) => Starting(t, i))
    BY <2>1, <2>2, <2>5, <2>6, <2>7
  <2> QED
    BY <2>8 DEF r
<1> QED
  BY <1>1, <1>2

LEMMA LevelsMatch ==
  ASSUME NEW t \in Seq(Token)
  PROVE  \A room \in 0..MAX_NESTING_DEPTH + 1 : Matches(t, Levels(t)[room], Grammar(t)[room])
<1> DEFINE good == {room \in 0..MAX_NESTING_DEPTH + 1 : Matches(t, Levels(t)[room], Grammar(t)[room])}
<1>0. MAX_NESTING_DEPTH \in Nat /\ MAX_NESTING_DEPTH + 1 \in Nat
  BY ReaderAssumption
<1>1. 0 \in good
  <2>1. 0 \in 0..MAX_NESTING_DEPTH + 1 /\ \A i \in 1..Len(t) : i \in 1..Len(t) + 1
    BY <1>0, LenInNat
  <2>2. \A i \in 1..Len(t) : ~IsSound(Levels(t)[0][i])
    BY <2>1, LevelsAre, Kinds
  <2> QED
    BY <2>1, <2>2, GrammarIs DEF Matches
<1>2. ASSUME NEW room \in 0..MAX_NESTING_DEPTH + 1, room \in good, room < MAX_NESTING_DEPTH + 1
      PROVE  room + 1 \in good
  <2>1. room \in 0..MAX_NESTING_DEPTH /\ room + 1 \in 0..MAX_NESTING_DEPTH + 1
    BY <1>0, <1>2
  <2> DEFINE inner == Levels(t)[room]
             pairs == Grammar(t)[room]
  <2>2. Answers(t, inner) /\ Matches(t, inner, pairs)
    BY <1>2, <2>1, LevelsWithin
  <2>3. \A i \in 1..Len(t) : i \in 1..Len(t) + 1
    BY LenInNat
  <2>4. \A i \in 1..Len(t) : Levels(t)[room + 1][i] = valueAt(t, inner, i)
    BY <2>1, <2>3, LevelsAre
  <2>5. \A i, j \in 1..Len(t) : <<i, j>> \in Grammar(t)[room + 1] <=> IsValueAt(t, i, j, pairs)
    BY <2>1, GrammarIs
  <2>6. Grammar(t)[room + 1] \subseteq (1..Len(t)) \X (1..Len(t))
    BY <2>1, GrammarIs
  <2> HIDE DEF inner, pairs
  <2>7. \A i, j \in 1..Len(t) :
          /\ IsSound(valueAt(t, inner, i)) /\ valueAt(t, inner, i).next = j + 1 <=> IsValueAt(t, i, j, pairs)
          /\ IsSound(valueAt(t, inner, i)) => Starting(t, i)
    BY <2>2, ValueMatches
  <2>8. Matches(t, Levels(t)[room + 1], Grammar(t)[room + 1])
    BY <2>4, <2>5, <2>6, <2>7 DEF Matches
  <2> QED
    BY <2>1, <2>8
<1> HIDE DEF good
<1>3. \A room \in 0..MAX_NESTING_DEPTH + 1 : room \in good
  BY <1>0, <1>1, <1>2, Counting
<1> QED
  BY <1>3 DEF good

\* The reader accepts the texts of the grammar and no other.
LEMMA ReaderIsGrammar ==
  ASSUME NEW t \in Seq(Token)
  PROVE  IsSound(parseJsonStrict(t)) <=> IsJson(t)
<1> DEFINE v == Whole(t)
<1>0. Len(t) \in Nat /\ MAX_NESTING_DEPTH + 1 \in 0..MAX_NESTING_DEPTH + 1
  BY LenInNat, ReaderAssumption
<1>1. Within(t, v, 1) /\ v.next \in 1..Len(t) + 1
  BY WholeIs
<1>2. parseJsonStrict(t) = IF IsSound(v) /\ v.next <= Len(t) THEN fail(v.next) ELSE v
  BY WholeIs
<1>3. Matches(t, Levels(t)[MAX_NESTING_DEPTH + 1], Grammar(t)[MAX_NESTING_DEPTH + 1])
  BY <1>0, LevelsMatch
<1>4. IsJson(t) <=> <<1, Len(t)>> \in Grammar(t)[MAX_NESTING_DEPTH + 1]
  BY GrammarIs
<1>5. CASE Len(t) = 0
  <2>1. ~IsJson(t)
    BY <1>3, <1>4, <1>5 DEF Matches
  <2>2. ~IsSound(v)
    <3> HIDE DEF v
    <3>1. ~(v.next > 1)
      BY <1>1, <1>5
    <3> QED
      BY <1>1, <3>1 DEF Within
  <2> HIDE DEF v
  <2> QED
    BY <1>2, <2>1, <2>2
<1>6. CASE Len(t) # 0
  <2>1. 1 \in 1..Len(t) /\ Len(t) \in 1..Len(t)
    BY <1>0, <1>6
  <2>2. IsJson(t) <=> IsSound(v) /\ v.next = Len(t) + 1
    BY <1>3, <1>4, <2>1 DEF Matches, Whole
  <2> HIDE DEF v
  <2>3. v.next <= Len(t) <=> v.next # Len(t) + 1
    BY <1>0, <1>1
  <2> QED
    BY <1>2, <2>2, <2>3, Kinds
<1> QED
  BY <1>5, <1>6

\* parseJsonStrict accepts exactly the texts of the grammar of RFC 8259 that
\* name no member of an object twice and nest no deeper than it allows,
\* whatever their length, the spellings and the depth.
THEOREM ReaderAgreesAlways == Spec => []ReaderAgrees
<1>1. TextOK => ReaderAgrees
  BY ReaderIsGrammar DEF TextOK, ReaderAgrees, IsSound
<1> QED
  BY <1>1, TextTyped, PTL

=============================================================================
