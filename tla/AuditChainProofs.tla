-------------------------- MODULE AuditChainProofs --------------------------
(***************************************************************************)
(* Theorems about the audit chain for any writers, any number of appends   *)
(* that may overlap, and any edits of any members.  A hash is a pair of    *)
(* the content and the hash before it, and no pair is the genesis hash.    *)
(***************************************************************************)
EXTENDS AuditChain, TLAPS, SequenceTheorems, WellFoundedInduction

\* The least place of a set of places, which First chooses.
LEMMA LeastPlace ==
  ASSUME NEW S, S \subseteq Nat, S # {}
  PROVE  First(S) \in S /\ \A j \in S : First(S) <= j
<1>1. \E i \in S : \A j \in S : ~(<<j, i>> \in OpToRel(<, Nat))
  BY NatLessThanWellFounded, WFMin
<1>2. \A i, j \in Nat : <<j, i>> \in OpToRel(<, Nat) <=> j < i
  BY DEF OpToRel
<1>3. PICK i \in S : \A j \in S : i <= j
  <2>1. PICK i \in S : \A j \in S : ~(<<j, i>> \in OpToRel(<, Nat))
    BY <1>1
  <2>2. \A j \in S : ~(j < i) /\ i \in Nat /\ j \in Nat
    BY <1>2, <2>1
  <2> QED
    BY <2>2
<1> QED
  BY <1>3 DEF First

\* Induction over the first naturals: a set that has zero, and with k the next.
LEMMA Counted ==
  ASSUME NEW n \in Nat, NEW S, 0 \in S, \A k \in 0..n : k \in S /\ k < n => k + 1 \in S
  PROVE  \A k \in 0..n : k \in S
<1> DEFINE others == {k \in 0..n : k \notin S}
<1>1. SUFFICES ASSUME others # {} PROVE FALSE
  OBVIOUS
<1>2. others \subseteq Nat
  OBVIOUS
<1> DEFINE m == First(others)
<1>3. m \in others /\ \A j \in others : m <= j
  <2> HIDE DEF others
  <2> QED
    BY <1>1, <1>2, LeastPlace
<1> HIDE DEF m
<1>4. m # 0 /\ m - 1 \in 0..n /\ m - 1 \notin others
  BY <1>3
<1>5. m - 1 \in S /\ (m - 1) + 1 = m /\ m - 1 < n
  BY <1>3, <1>4
<1> QED
  BY <1>3, <1>4, <1>5

-----------------------------------------------------------------------------
(***************************************************************************)
(* The digests there are after so many appends and edits.                  *)
(***************************************************************************)

DigestsUpTo(n, digests) ==
  digests = [k \in 0..n |-> IF k = 0 THEN {GENESIS_PREVIOUS_HASH}
                            ELSE {GENESIS_PREVIOUS_HASH} \cup (Event \X digests[k - 1])]

LEMMA DigestsDefined ==
  ASSUME NEW n \in Nat
  PROVE  \E digests : DigestsUpTo(n, digests)
<1> DEFINE Level(k, inner) == IF k = 0 THEN {GENESIS_PREVIOUS_HASH}
                              ELSE {GENESIS_PREVIOUS_HASH} \cup (Event \X inner)
           defined == {m \in Nat : \E digests : DigestsUpTo(m, digests)}
<1>1. 0 \in defined
  <2>1. DigestsUpTo(0, [k \in 0..0 |-> Level(0, {})])
    BY DEF DigestsUpTo
  <2> QED
    BY <2>1
<1>2. ASSUME NEW m \in 0..n, m \in defined
      PROVE  m + 1 \in defined
  <2>1. PICK before : DigestsUpTo(m, before)
    BY <1>2
  <2>2. before = [k \in 0..m |-> Level(k, before[k - 1])]
    BY <2>1 DEF DigestsUpTo
  <2> DEFINE digests == [k \in 0..m + 1 |-> IF k <= m THEN before[k] ELSE Level(k, before[m])]
  <2> HIDE DEF Level
  <2>3. \A k \in 0..m + 1 : digests[k] = Level(k, digests[k - 1])
    <3>1. ASSUME NEW k \in 0..m + 1, k <= m, k # 0
          PROVE  digests[k] = Level(k, digests[k - 1])
      <4>1. k \in 0..m /\ k - 1 \in 0..m + 1 /\ k - 1 <= m
        BY <3>1
      <4>2. digests[k] = before[k] /\ digests[k - 1] = before[k - 1]
        BY <4>1
      <4> HIDE DEF digests
      <4> QED
        BY <4>1, <4>2, <2>2
    <3>2. digests[0] = before[0] /\ digests[m + 1] = Level(m + 1, before[m])
          /\ digests[(m + 1) - 1] = before[m] /\ 0 \in 0..m
      OBVIOUS
    <3>3. before[0] = Level(0, digests[0 - 1])
      BY <2>2, <3>2 DEF Level
    <3> HIDE DEF digests
    <3>4. \A k \in 0..m + 1 : k <= m \/ k = m + 1
      OBVIOUS
    <3> QED
      BY <3>1, <3>2, <3>3, <3>4
  <2>4. digests = [k \in 0..m + 1 |-> Level(k, digests[k - 1])]
    BY <2>3
  <2>5. DigestsUpTo(m + 1, digests)
    <3> HIDE DEF digests
    <3> QED
      BY <2>4 DEF DigestsUpTo, Level
  <2> QED
    BY <2>5
<1> HIDE DEF defined
<1>3. n \in defined
  BY <1>1, <1>2, Counted
<1> QED
  BY <1>3 DEF defined

LEMMA DigestsAre ==
  /\ DigestTo[0] = {GENESIS_PREVIOUS_HASH}
  /\ \A k \in 0..MaxSteps : k < MaxSteps =>
       DigestTo[k + 1] = {GENESIS_PREVIOUS_HASH} \cup (Event \X DigestTo[k])
<1>0. MaxSteps \in Nat
  BY BoundAssumption
<1>1. DigestsUpTo(MaxSteps, DigestTo)
  <2>1. DigestTo = CHOOSE digests : DigestsUpTo(MaxSteps, digests)
    BY DEF DigestTo, DigestsUpTo
  <2> QED
    BY <1>0, <2>1, DigestsDefined
<1> DEFINE digests == DigestTo
<1> HIDE DEF digests
<1>2. digests = [k \in 0..MaxSteps |-> IF k = 0 THEN {GENESIS_PREVIOUS_HASH}
                   ELSE {GENESIS_PREVIOUS_HASH} \cup (Event \X digests[k - 1])]
  BY <1>1 DEF DigestsUpTo, digests
<1>3. digests[0] = {GENESIS_PREVIOUS_HASH}
  BY <1>0, <1>2
<1>4. ASSUME NEW k \in 0..MaxSteps, k < MaxSteps
      PROVE  digests[k + 1] = {GENESIS_PREVIOUS_HASH} \cup (Event \X digests[k])
  <2>1. k + 1 \in 0..MaxSteps /\ k + 1 # 0 /\ (k + 1) - 1 = k
    BY <1>0, <1>4
  <2> QED
    BY <1>2, <2>1
<1> QED
  BY <1>3, <1>4 DEF digests

\* One more step only adds digests.
LEMMA DigestsGrow ==
  ASSUME NEW k \in 0..MaxSteps, k < MaxSteps
  PROVE  DigestTo[k] \subseteq DigestTo[k + 1]
<1> DEFINE grows == {i \in Nat : i < MaxSteps => DigestTo[i] \subseteq DigestTo[i + 1]}
<1>1. MaxSteps \in Nat
  BY BoundAssumption
<1>2. 0 \in grows
  BY <1>1, DigestsAre
<1>3. ASSUME NEW i \in 0..MaxSteps, i \in grows, i < MaxSteps
      PROVE  i + 1 \in grows
  <2>1. i + 1 \in Nat
    BY <1>1
  <2>2. CASE i + 1 < MaxSteps
    <3>1. i + 1 \in 0..MaxSteps
      BY <1>1, <2>2
    <3>2. DigestTo[i + 1] = {GENESIS_PREVIOUS_HASH} \cup (Event \X DigestTo[i])
      BY <1>3, DigestsAre
    <3>3. DigestTo[(i + 1) + 1] = {GENESIS_PREVIOUS_HASH} \cup (Event \X DigestTo[i + 1])
      BY <2>2, <3>1, DigestsAre
    <3>4. DigestTo[i] \subseteq DigestTo[i + 1]
      BY <1>3
    <3>5. DigestTo[i + 1] \subseteq DigestTo[(i + 1) + 1]
      BY <3>2, <3>3, <3>4
    <3> QED
      BY <2>1, <3>5
  <2> QED
    BY <2>1, <2>2
<1>4. \A i \in 0..MaxSteps : i \in grows
  <2> HIDE DEF grows
  <2> QED
    BY <1>1, <1>2, <1>3, Counted
<1> QED
  BY <1>4

LEMMA DigestsWithin ==
  ASSUME NEW k \in 0..MaxSteps
  PROVE  DigestTo[k] \subseteq Digest
<1> DEFINE wider == {i \in Nat : i <= MaxSteps => DigestTo[MaxSteps - i] \subseteq DigestTo[MaxSteps]}
<1>1. MaxSteps \in Nat
  BY BoundAssumption
<1>2. 0 \in wider
  BY <1>1
<1>3. ASSUME NEW i \in 0..MaxSteps, i \in wider, i < MaxSteps
      PROVE  i + 1 \in wider
  <2>1. MaxSteps - (i + 1) \in 0..MaxSteps /\ MaxSteps - (i + 1) < MaxSteps
        /\ (MaxSteps - (i + 1)) + 1 = MaxSteps - i /\ i + 1 \in Nat /\ i <= MaxSteps
    BY <1>1, <1>3
  <2>2. DigestTo[MaxSteps - (i + 1)] \subseteq DigestTo[MaxSteps - i]
    BY <2>1, DigestsGrow
  <2>3. DigestTo[MaxSteps - i] \subseteq DigestTo[MaxSteps]
    BY <1>3, <2>1
  <2> QED
    BY <2>1, <2>2, <2>3
<1>4. \A i \in 0..MaxSteps : i \in wider
  <2> HIDE DEF wider
  <2> QED
    BY <1>1, <1>2, <1>3, Counted
<1>5. MaxSteps - k \in 0..MaxSteps /\ MaxSteps - (MaxSteps - k) = k
  BY <1>1
<1>6. MaxSteps - k \in wider
  BY <1>4, <1>5
<1> QED
  BY <1>5, <1>6 DEF Digest

-----------------------------------------------------------------------------
(***************************************************************************)
(* The inductive invariant: no hash nests deeper than there were steps,    *)
(* and an entry that is being hashed says what its hash is of.             *)
(***************************************************************************)

EntryTo(k) == [event: Event \cup {Unhashable}, previous_hash: DigestTo[k], entry_hash: DigestTo[k]]

Typed ==
  /\ steps \in 0..MaxSteps
  /\ chain \in Seq(EntryTo(steps))
  /\ sealed \in Seq(EntryTo(steps))
  /\ pending \in [Writer -> SUBSET EntryTo(steps)]

PendingGenuine ==
  \A w \in Writer :
    /\ \A e \in pending[w] : e.event # Unhashable /\ e.entry_hash = hashEntry(e)
    /\ \A d, e \in pending[w] : d = e

ChainInv == Typed /\ PendingGenuine

\* What a step that is counted leaves alone is well typed after it.
LEMMA StepTyped ==
  ASSUME NEW k \in 0..MaxSteps, k < MaxSteps
  PROVE  EntryTo(k) \subseteq EntryTo(k + 1)
BY DigestsGrow DEF EntryTo

LEMMA InvEdit ==
  ASSUME ChainInv, Edit
  PROVE  ChainInv'
<1> DEFINE S == EntryTo(steps + 1)
           n == Len(chain)
<1>1. steps < MaxSteps /\ steps' = steps + 1 /\ UNCHANGED <<pending, sealed>>
  BY DEF Edit, Alter, Relink, Rehash, Remove, Insert, Reset, Edited
<1>2. steps \in 0..MaxSteps /\ steps + 1 \in 0..MaxSteps
  BY <1>1, BoundAssumption DEF ChainInv, Typed
<1>3. chain \in Seq(S) /\ n \in Nat /\ \A i \in 1..n : chain[i] \in S /\ chain[i] \in EntryTo(steps)
  BY <1>1, <1>2, StepTyped, SeqMonotonic, ElementOfSeq, LenProperties DEF ChainInv, Typed
<1>4. Known \subseteq DigestTo[steps + 1]
  <2>1. DigestTo[steps + 1] = {GENESIS_PREVIOUS_HASH} \cup (Event \X DigestTo[steps])
    BY <1>1, <1>2, DigestsAre
  <2>2. \A i \in 1..n : /\ chain[i].event \in Event \cup {Unhashable}
                        /\ chain[i].previous_hash \in DigestTo[steps]
                        /\ chain[i].entry_hash \in DigestTo[steps]
    BY <1>3 DEF EntryTo
  <2>3. \A i \in 1..n : chain[i].event # Unhashable => hashEntry(chain[i]) \in DigestTo[steps + 1]
    BY <2>1, <2>2 DEF hashEntry
  <2>4. DigestTo[steps] \subseteq DigestTo[steps + 1]
    BY <1>1, <1>2, DigestsGrow
  <2> QED
    BY <2>1, <2>2, <2>3, <2>4 DEF Known
<1>5. ASSUME NEW i \in 1..n, NEW e \in S, chain' = [chain EXCEPT ![i] = e]
      PROVE  chain' \in Seq(S)
  <2> HIDE DEF S
  <2> QED
    BY <1>3, <1>5, ExceptSeq
<1>6. ASSUME NEW i \in 1..n, NEW e \in Event \cup {Unhashable}, Alter(i, e)
      PROVE  chain' \in Seq(S)
  <2>1. [chain[i] EXCEPT !.event = e] \in S
    BY <1>3 DEF EntryTo
  <2>2. chain' = [chain EXCEPT ![i] = [chain[i] EXCEPT !.event = e]]
    BY <1>6 DEF Alter, Edited
  <2> QED
    BY <1>5, <2>1, <2>2
<1>7. ASSUME NEW i \in 1..n, NEW d \in Known, Relink(i, d) \/ Rehash(i, d)
      PROVE  chain' \in Seq(S)
  <2>1. /\ [chain[i] EXCEPT !.previous_hash = d] \in S
        /\ [chain[i] EXCEPT !.entry_hash = d] \in S
    BY <1>3, <1>4 DEF EntryTo
  <2>2. \/ chain' = [chain EXCEPT ![i] = [chain[i] EXCEPT !.previous_hash = d]]
        \/ chain' = [chain EXCEPT ![i] = [chain[i] EXCEPT !.entry_hash = d]]
    BY <1>7 DEF Relink, Rehash, Edited
  <2> QED
    BY <1>5, <2>1, <2>2
<1> HIDE DEF S
<1>8. ASSUME NEW i \in 1..n, Remove(i) PROVE chain' \in Seq(S)
  <2>1. SubSeq(chain, 1, i - 1) \in Seq(S) /\ SubSeq(chain, i + 1, n) \in Seq(S)
    BY <1>3, SubSeqProperties
  <2> QED
    BY <1>8, <2>1, ConcatProperties DEF Remove, Edited
<1>9. ASSUME NEW i \in 1..n, NEW j \in 1..n + 1, Insert(i, j) PROVE chain' \in Seq(S)
  <2>1. SubSeq(chain, 1, j - 1) \in Seq(S) /\ SubSeq(chain, j, n) \in Seq(S)
    BY <1>3, SubSeqProperties
  <2>2. <<chain[i]>> \in Seq(S)
    BY <1>3
  <2>3. SubSeq(chain, 1, j - 1) \o <<chain[i]>> \in Seq(S)
    BY <2>1, <2>2, ConcatProperties
  <2> QED
    BY <1>9, <2>1, <2>3, ConcatProperties DEF Insert, Edited
<1>10. ASSUME Reset PROVE chain' \in Seq(S)
  BY <1>10, EmptySeq DEF Reset, Edited
<1>11. chain' \in Seq(EntryTo(steps'))
  BY <1>1, <1>6, <1>7, <1>8, <1>9, <1>10 DEF Edit, S
<1>12. Typed'
  <2>1. sealed' \in Seq(EntryTo(steps')) /\ pending' \in [Writer -> SUBSET EntryTo(steps')]
    BY <1>1, <1>2, StepTyped, SeqMonotonic DEF ChainInv, Typed
  <2> QED
    BY <1>1, <1>2, <1>11, <2>1 DEF Typed
<1>13. PendingGenuine'
  BY <1>1 DEF ChainInv, PendingGenuine
<1> QED
  BY <1>12, <1>13 DEF ChainInv

LEMMA InvCalled ==
  ASSUME ChainInv, NEW w \in Writer, NEW e \in Event, AppendCalled(w, e)
  PROVE  ChainInv'
<1> DEFINE unhashed == [event |-> e, previous_hash |-> headHash, entry_hash |-> GENESIS_PREVIOUS_HASH]
           entry == [unhashed EXCEPT !.entry_hash = hashEntry(unhashed)]
<1>1. /\ steps < MaxSteps /\ steps' = steps + 1
      /\ pending' = [pending EXCEPT ![w] = {entry}]
      /\ UNCHANGED <<chain, sealed>>
  BY DEF AppendCalled
<1>2. steps \in 0..MaxSteps /\ steps + 1 \in 0..MaxSteps
  BY <1>1, BoundAssumption DEF ChainInv, Typed
<1>3. DigestTo[steps + 1] = {GENESIS_PREVIOUS_HASH} \cup (Event \X DigestTo[steps])
  BY <1>1, <1>2, DigestsAre
<1>4. headHash \in DigestTo[steps]
  <2>1. CASE chain = <<>>
    <3>1. GENESIS_PREVIOUS_HASH \in DigestTo[steps]
      <4>1. steps = 0 \/ (steps - 1 \in 0..MaxSteps /\ steps - 1 < MaxSteps /\ (steps - 1) + 1 = steps)
        BY <1>2, BoundAssumption
      <4> QED
        BY <4>1, DigestsAre
    <3> QED
      BY <2>1, <3>1 DEF headHash
  <2>2. CASE chain # <<>>
    <3>1. Len(chain) \in 1..Len(chain)
      BY <2>2, EmptySeq, LenProperties DEF ChainInv, Typed
    <3>2. chain[Len(chain)] \in EntryTo(steps)
      BY <3>1, ElementOfSeq DEF ChainInv, Typed
    <3> QED
      BY <2>2, <3>2 DEF headHash, EntryTo
  <2> QED
    BY <2>1, <2>2
<1>5. /\ entry = [event |-> e, previous_hash |-> headHash, entry_hash |-> <<e, headHash>>]
      /\ entry.entry_hash = hashEntry(entry)
  BY DEF hashEntry
<1>6. entry \in EntryTo(steps + 1) /\ entry.event # Unhashable
  <2>1. headHash \in DigestTo[steps + 1] /\ <<e, headHash>> \in DigestTo[steps + 1]
    BY <1>1, <1>2, <1>3, <1>4, DigestsGrow
  <2> QED
    BY <1>5, <2>1, EventAssumption DEF EntryTo
<1> HIDE DEF entry
<1>7. Typed'
  BY <1>1, <1>2, <1>6, StepTyped, SeqMonotonic DEF ChainInv, Typed
<1>8. PendingGenuine'
  BY <1>1, <1>5, <1>6 DEF ChainInv, Typed, PendingGenuine
<1> QED
  BY <1>7, <1>8 DEF ChainInv

LEMMA InvHashed ==
  ASSUME ChainInv, NEW w \in Writer, AppendHashed(w)
  PROVE  ChainInv'
<1>1. PICK entry \in pending[w] :
        /\ chain' = Append(chain, entry)
        /\ pending' = [pending EXCEPT ![w] = {}]
        /\ sealed' = chain'
        /\ UNCHANGED steps
  BY DEF AppendHashed
<1>2. entry \in EntryTo(steps)
  BY DEF ChainInv, Typed
<1>3. chain' \in Seq(EntryTo(steps))
  BY <1>1, <1>2, AppendProperties DEF ChainInv, Typed
<1>4. Typed'
  BY <1>1, <1>3 DEF ChainInv, Typed
<1>5. PendingGenuine'
  BY <1>1 DEF ChainInv, Typed, PendingGenuine
<1> QED
  BY <1>4, <1>5 DEF ChainInv

LEMMA InvInit == Init => ChainInv
<1> SUFFICES ASSUME Init PROVE ChainInv
  OBVIOUS
<1>1. 0 \in 0..MaxSteps
  BY BoundAssumption
<1>2. Typed
  BY <1>1, EmptySeq DEF Init, Typed
<1>3. PendingGenuine
  BY DEF Init, PendingGenuine
<1> QED
  BY <1>2, <1>3 DEF ChainInv

LEMMA InvStep == ChainInv /\ [Next]_vars => ChainInv'
<1> SUFFICES ASSUME ChainInv, [Next]_vars PROVE ChainInv'
  OBVIOUS
<1>1. CASE UNCHANGED vars
  BY <1>1 DEF vars, ChainInv, Typed, PendingGenuine
<1>2. CASE Edit
  BY <1>2, InvEdit
<1>3. CASE \E w \in Writer : AppendHashed(w) \/ \E e \in Event : AppendCalled(w, e)
  BY <1>3, InvHashed, InvCalled
<1> QED
  BY <1>1, <1>2, <1>3 DEF Next

LEMMA InvAlways == Spec => []ChainInv
BY InvInit, InvStep, PTL DEF Spec

\* What the later proofs use of it.
LEMMA InvTyped ==
  ASSUME ChainInv
  PROVE  TypeOK
<1>1. steps \in 0..MaxSteps
  BY DEF ChainInv, Typed
<1>2. EntryTo(steps) \subseteq Entry
  BY <1>1, DigestsWithin DEF EntryTo, Entry
<1>3. chain \in Seq(Entry) /\ sealed \in Seq(Entry)
  BY <1>2, SeqMonotonic DEF ChainInv, Typed
<1>4. pending \in [Writer -> SUBSET Entry]
  BY <1>2 DEF ChainInv, Typed
<1> QED
  BY <1>1, <1>3, <1>4 DEF TypeOK

\* For any appends that overlap and any edits of any members: every hash of the
\* chain, of an entry being hashed (src/audit-chain.js:155-168) or of the sealed
\* chain is the genesis hash, or was computed from content and such a hash by
\* one of the steps so far.
THEOREM ChainTyped == Spec => []TypeOK
BY InvAlways, InvTyped, PTL

-----------------------------------------------------------------------------
(***************************************************************************)
(* What verify answers.                                                    *)
(***************************************************************************)

\* A chain verifies just when no entry of it breaks.
LEMMA ValidSound ==
  ASSUME NEW s
  PROVE  valid(s) <=> \A i \in 1..Len(s) : ~Breaks(s, i)
<1> DEFINE broken == {i \in 1..Len(s) : Breaks(s, i)}
<1>1. CASE broken = {}
  BY <1>1 DEF valid, brokenAt
<1>2. CASE broken # {}
  <2>1. broken \subseteq Nat
    OBVIOUS
  <2>2. First(broken) \in broken
    BY <1>2, <2>1, LeastPlace
  <2>3. First(broken) # 0
    BY <2>2
  <2> QED
    BY <1>2, <2>3 DEF valid, brokenAt
<1> QED
  BY <1>1, <1>2

\* A hash is of one content: entries with the same hash, each the hash of its
\* content, are the same entry.
LEMMA HashInjective ==
  ASSUME NEW d \in Entry, NEW e \in Entry, d.entry_hash = e.entry_hash,
         d.entry_hash = hashEntry(d), e.entry_hash = hashEntry(e)
  PROVE  d = e
<1>1. <<d.event, d.previous_hash>> = <<e.event, e.previous_hash>>
  BY DEF hashEntry
<1>2. d.event = e.event /\ d.previous_hash = e.previous_hash
  BY <1>1
<1>3. /\ d = [event |-> d.event, previous_hash |-> d.previous_hash, entry_hash |-> d.entry_hash]
      /\ e = [event |-> e.event, previous_hash |-> e.previous_hash, entry_hash |-> e.entry_hash]
  BY DEF Entry
<1> QED
  BY <1>2, <1>3

\* Two chains that do not break as far as two entries with the same hash: these
\* are at the same place, and the chains are the same up to there.  The entries
\* before the two have the same hash too, and so on down to the first, whose
\* link is the genesis hash, which is no hash of an entry.
LEMMA SameHash ==
  ASSUME NEW s \in Seq(Entry), NEW t \in Seq(Entry), NEW i \in 1..Len(s), NEW j \in 1..Len(t),
         \A k \in 1..i : ~Breaks(s, k), \A k \in 1..j : ~Breaks(t, k),
         s[i].entry_hash = t[j].entry_hash
  PROVE  i = j /\ \A k \in 1..i : s[k] = t[k]
<1> DEFINE alike(a, b) == a = b /\ \A k \in 1..a : s[k] = t[k]
           S == {m \in Nat : \A a \in 1..i, b \in 1..j :
                   a <= m /\ s[a].entry_hash = t[b].entry_hash => alike(a, b)}
<1>1. Len(s) \in Nat /\ Len(t) \in Nat /\ i \in Nat /\ j \in Nat
  BY LenProperties
<1>2. 0 \in S
  BY <1>1
<1>3. ASSUME NEW m \in 0..i, m \in S, m < i
      PROVE  m + 1 \in S
  <2> SUFFICES ASSUME NEW a \in 1..i, NEW b \in 1..j, a <= m + 1, s[a].entry_hash = t[b].entry_hash
               PROVE  alike(a, b)
    BY <1>1
  <2>1. /\ s[a] \in Entry /\ t[b] \in Entry
        /\ a - 1 \in 0..m /\ (a # 1 => a - 1 \in 1..i) /\ (b # 1 => b - 1 \in 1..j)
    BY <1>1, ElementOfSeq
  <2>2. /\ s[a].entry_hash = hashEntry(s[a]) /\ t[b].entry_hash = hashEntry(t[b])
        /\ s[a].previous_hash = IF a = 1 THEN GENESIS_PREVIOUS_HASH ELSE s[a - 1].entry_hash
        /\ t[b].previous_hash = IF b = 1 THEN GENESIS_PREVIOUS_HASH ELSE t[b - 1].entry_hash
    BY DEF Breaks
  <2>3. s[a] = t[b]
    BY <2>1, <2>2, HashInjective
  <2>4. /\ a # 1 => s[a - 1].entry_hash # GENESIS_PREVIOUS_HASH
        /\ b # 1 => t[b - 1].entry_hash # GENESIS_PREVIOUS_HASH
    <3>1. \A e : hashEntry(e) # GENESIS_PREVIOUS_HASH
      BY DEF hashEntry, GENESIS_PREVIOUS_HASH
    <3>2. /\ a # 1 => s[a - 1].entry_hash = hashEntry(s[a - 1])
          /\ b # 1 => t[b - 1].entry_hash = hashEntry(t[b - 1])
      BY <2>1 DEF Breaks
    <3> QED
      BY <3>1, <3>2
  <2>5. CASE a = 1
    BY <2>2, <2>3, <2>4, <2>5
  <2>6. CASE a # 1
    <3>1. b # 1 /\ s[a - 1].entry_hash = t[b - 1].entry_hash
      BY <2>2, <2>3, <2>4, <2>6
    <3>2. alike(a - 1, b - 1)
      BY <1>3, <2>1, <2>6, <3>1
    <3>3. a = b
      BY <1>1, <3>2
    <3>4. \A k \in 1..a : k = a \/ k \in 1..a - 1
      BY <1>1
    <3> QED
      BY <2>3, <3>2, <3>3, <3>4
  <2> QED
    BY <2>5, <2>6
<1>4. i \in S
  <2>1. i \in 0..i
    BY <1>1
  <2> HIDE DEF S
  <2> QED
    BY <1>1, <1>2, <1>3, <2>1, Counted
<1>5. i \in 1..i /\ j \in 1..j
  BY <1>1
<1> QED
  BY <1>4, <1>5

\* Section 19.7, for any writers, overlapping or not, and any edits of any
\* members, hashes and links among them: in a chain that verifies an entry with a
\* hash of the log stands at its place in the log, after the log's entries.
THEOREM CommittedAlways == Spec => []CommittedIsGenuine
<1>1. TypeOK => CommittedIsGenuine
  <2> SUFFICES ASSUME TypeOK, valid(chain), valid(sealed),
                      NEW i \in 1..Len(chain), NEW j \in 1..Len(sealed),
                      chain[i].entry_hash = sealed[j].entry_hash
               PROVE  i = j /\ SubSeq(chain, 1, i) = SubSeq(sealed, 1, j)
    BY DEF CommittedIsGenuine
  <2>1. /\ chain \in Seq(Entry) /\ sealed \in Seq(Entry)
        /\ Len(chain) \in Nat /\ Len(sealed) \in Nat
    BY LenProperties DEF TypeOK
  <2>2. (\A k \in 1..i : ~Breaks(chain, k)) /\ (\A k \in 1..j : ~Breaks(sealed, k))
    BY <2>1, ValidSound
  <2>3. i = j /\ \A k \in 1..i : chain[k] = sealed[k]
    BY <2>1, <2>2, SameHash
  <2>4. /\ SubSeq(chain, 1, i) \in Seq(Entry) /\ SubSeq(sealed, 1, i) \in Seq(Entry)
        /\ Len(SubSeq(chain, 1, i)) = i /\ Len(SubSeq(sealed, 1, i)) = i
        /\ \A k \in 1..i : SubSeq(chain, 1, i)[k] = chain[k] /\ SubSeq(sealed, 1, i)[k] = sealed[k]
    <3>1. /\ \A k \in 1..i : k \in 1..Len(chain) /\ k \in 1..Len(sealed) /\ 1 + k - 1 = k
          /\ 1 \in 1..Len(chain) + 1 /\ 1 \in 1..Len(sealed) + 1
          /\ i \in 0..Len(chain) /\ i \in 0..Len(sealed) /\ i - 1 + 1 = i
      BY <2>1, <2>3
    <3> QED
      BY <2>1, <3>1, SubSeqProperties
  <2>5. SubSeq(chain, 1, i) = SubSeq(sealed, 1, i)
    BY <2>3, <2>4, SeqEqual
  <2> QED
    BY <2>3, <2>5
<1> QED
  BY <1>1, ChainTyped, PTL

\* Section 19.7, for any writers, overlapping or not: an append that commits to
\* the head as it is when it pushes neither hides a break nor makes one.
THEOREM AppendKeepsBreakAlways == Spec => AppendKeepsBreak
<1>1. ChainInv /\ [Next]_vars =>
        \A w \in Writer : \A entry \in pending[w] :
          AppendHashed(w) /\ entry.previous_hash = headHash => brokenAt(chain') = brokenAt(chain)
  <2> SUFFICES ASSUME ChainInv, NEW w \in Writer, NEW entry \in pending[w], AppendHashed(w),
                      entry.previous_hash = headHash
               PROVE  brokenAt(chain') = brokenAt(chain)
    OBVIOUS
  <2> DEFINE n == Len(chain)
  <2>1. chain' = Append(chain, entry)
    BY DEF AppendHashed, ChainInv, PendingGenuine
  <2>2. /\ n \in Nat /\ Len(chain') = n + 1
        /\ \A i \in 1..n : chain'[i] = chain[i]
        /\ chain'[n + 1] = entry
        /\ 1..Len(chain') = 1..n \cup {n + 1}
    <3>1. chain \in Seq(EntryTo(steps)) /\ entry \in EntryTo(steps)
      BY DEF ChainInv, Typed
    <3> QED
      BY <2>1, <3>1, AppendProperties, LenProperties
  <2>3. ASSUME NEW i \in 1..n PROVE Breaks(chain', i) <=> Breaks(chain, i)
    <3>1. i = 1 \/ i - 1 \in 1..n
      BY <2>2
    <3> QED
      BY <2>2, <3>1 DEF Breaks
  <2>4. ~Breaks(chain', n + 1)
    <3>1. entry.event # Unhashable /\ entry.entry_hash = hashEntry(entry)
      BY DEF ChainInv, PendingGenuine
    <3>2. headHash = IF n + 1 = 1 THEN GENESIS_PREVIOUS_HASH ELSE chain'[n].entry_hash
      <4>1. chain = <<>> <=> n = 0
        BY EmptySeq DEF ChainInv, Typed
      <4>2. n = 0 \/ n \in 1..n
        BY <2>2
      <4> QED
        BY <2>2, <4>1, <4>2 DEF headHash
    <3>3. (n + 1) - 1 = n
      BY <2>2
    <3> QED
      BY <2>2, <3>1, <3>2, <3>3 DEF Breaks
  <2>5. {i \in 1..Len(chain') : Breaks(chain', i)} = {i \in 1..Len(chain) : Breaks(chain, i)}
    BY <2>2, <2>3, <2>4
  <2> QED
    BY <2>5 DEF brokenAt
<1> QED
  BY <1>1, InvAlways, PTL DEF Spec, AppendKeepsBreak

-----------------------------------------------------------------------------
\* The places at which the chain departs from what the last append left.
Departed == {i \in 1..Len(chain) : i > Len(sealed) \/ chain[i] # sealed[i]}

\* Up to the first departure the chain is what was appended, which verifies.
LEMMA UndepartedSound ==
  ASSUME valid(sealed), Len(sealed) \in Nat, NEW i \in 1..Len(chain), \A j \in 1..i : j \notin Departed
  PROVE  ~Breaks(chain, i)
<1>1. i \in 1..i /\ (i = 1 \/ i - 1 \in 1..i) /\ (i # 1 => i - 1 \in 1..Len(chain))
  OBVIOUS
<1>2. i \in 1..Len(sealed) /\ chain[i] = sealed[i]
  BY <1>1 DEF Departed
<1>3. i # 1 => chain[i - 1] = sealed[i - 1]
  BY <1>1 DEF Departed
<1>4. ~Breaks(sealed, i)
  BY <1>2, ValidSound
<1> QED
  BY <1>2, <1>3, <1>4 DEF Breaks

\* Before the first break an entry with a hash of the log is the log's.
LEMMA UnbrokenUndeparted ==
  ASSUME TypeOK, valid(sealed), NEW i \in 1..Len(chain), \A j \in 1..i : ~Breaks(chain, j),
         NEW k \in 1..Len(sealed), chain[i].entry_hash = sealed[k].entry_hash
  PROVE  i \notin Departed
<1>1. Len(chain) \in Nat /\ Len(sealed) \in Nat /\ i \in 1..i
  BY LenProperties DEF TypeOK
<1>2. \A j \in 1..k : ~Breaks(sealed, j)
  BY <1>1, ValidSound
<1>3. i = k /\ \A j \in 1..i : chain[j] = sealed[j]
  BY <1>2, SameHash DEF TypeOK
<1> QED
  BY <1>1, <1>3 DEF Departed

\* Section 19.7, for any edits that bring in no hash the log has not: verify
\* reports the first place at which the chain departs from what was appended,
\* and only if it does.
THEOREM TamperNamedAlways == Spec => []TamperNamed
<1>1. TypeOK => TamperNamed
  <2> SUFFICES ASSUME TypeOK, valid(sealed),
                      \A i \in 1..Len(chain) :
                        \E k \in 1..Len(sealed) : chain[i].entry_hash = sealed[k].entry_hash
               PROVE  brokenAt(chain) = Departure(chain, sealed)
    BY DEF TamperNamed
  <2> DEFINE broken == {i \in 1..Len(chain) : Breaks(chain, i)}
  <2>1. Len(chain) \in Nat /\ Len(sealed) \in Nat
    BY LenProperties DEF TypeOK
  <2>2. broken \subseteq Nat /\ Departed \subseteq Nat
    BY DEF Departed
  <2>3. ASSUME NEW i \in broken PROVE \E j \in Departed : j <= i
    <3>1. \E j \in 1..i : j \in Departed
      BY <2>1, UndepartedSound
    <3> QED
      BY <3>1
  <2>4. ASSUME NEW i \in Departed PROVE \E j \in broken : j <= i
    <3>1. i \in 1..Len(chain)
      BY DEF Departed
    <3>2. \E j \in 1..i : Breaks(chain, j)
      BY <2>1, <3>1, UnbrokenUndeparted
    <3> QED
      BY <2>1, <3>1, <3>2
  <2>5. CASE Departed = {}
    <3>1. broken = {}
      BY <2>3, <2>5
    <3> QED
      BY <2>5, <3>1 DEF brokenAt, Departure, Departed
  <2>6. CASE Departed # {}
    <3>1. broken # {}
      BY <2>4, <2>6
    <3>2. /\ First(Departed) \in Departed /\ \A j \in Departed : First(Departed) <= j
          /\ First(broken) \in broken /\ \A j \in broken : First(broken) <= j
      BY <2>2, <2>6, <3>1, LeastPlace
    <3> DEFINE d == First(Departed)
               b == First(broken)
    <3>3. PICK j \in Departed : j <= b
      BY <2>3, <3>2
    <3>4. PICK k \in broken : k <= d
      BY <2>4, <3>2
    <3>5. d <= j /\ b <= k /\ d \in Nat /\ b \in Nat /\ j \in Nat /\ k \in Nat
      BY <2>2, <3>2
    <3>6. d = b
      <4> HIDE DEF d, b
      <4> QED
        BY <3>3, <3>4, <3>5
    <3> QED
      BY <2>6, <3>1, <3>6 DEF brokenAt, Departure, Departed
  <2> QED
    BY <2>5, <2>6
<1> QED
  BY <1>1, ChainTyped, PTL

=============================================================================
