----------------------------- MODULE AuditChain -----------------------------
(***************************************************************************)
(* The hash chain of src/audit-chain.js: writers that append to one        *)
(* AuditChain object, the verifier, and the document between two calls, in *)
(* which the chain is text that its holder may edit.                       *)
(*                                                                         *)
(* append reads the head, awaits the hash and pushes, so it is two         *)
(* actions.  Every caller in the repository awaits it; nothing in append   *)
(* asks for that, so here two may overlap.                                 *)
(***************************************************************************)
EXTENDS Integers, Sequences

CONSTANTS
  Writer,      \* callers of append
  Event,       \* the members an entry records
  Unhashable,  \* members no canonical form exists for (a fraction)
  MaxSteps     \* calls of append and edits of the document (bounds the model)

ASSUME EventAssumption == Unhashable \notin Event
ASSUME BoundAssumption == MaxSteps \in Nat

VARIABLES
  chain,    \* the entries, oldest first
  pending,  \* writer -> the entries it is hashing (none or one)
  sealed,   \* history: the chain as the last append left it
  steps     \* calls of append and edits of the document

vars == <<chain, pending, sealed, steps>>

\* SHA-256 is taken as injective, so a digest is the pair it was computed from.
GENESIS_PREVIOUS_HASH == <<>>

hashEntryUnlinked(e) == <<e.event, GENESIS_PREVIOUS_HASH>>

hashEntry(e) == <<e.event, e.previous_hash>>

\* Each call of append and each edit hashes at most one digest anew.
DigestTo[n \in 0..MaxSteps] ==
  IF n = 0 THEN {GENESIS_PREVIOUS_HASH}
  ELSE {GENESIS_PREVIOUS_HASH} \cup (Event \X DigestTo[n - 1])

Digest == DigestTo[MaxSteps]

Entry == [event: Event \cup {Unhashable}, previous_hash: Digest, entry_hash: Digest]

TypeOK ==
  /\ chain \in Seq(Entry)
  /\ pending \in [Writer -> SUBSET Entry]
  /\ sealed \in Seq(Entry)
  /\ steps \in 0..MaxSteps

-----------------------------------------------------------------------------
headHashOfFirst == IF chain = <<>> THEN GENESIS_PREVIOUS_HASH ELSE chain[1].entry_hash
headHashOrNull == IF chain = <<>> THEN <<"null">> ELSE chain[Len(chain)].entry_hash

\* The getter headHash, with the default append gives it.
headHash == IF chain = <<>> THEN GENESIS_PREVIOUS_HASH ELSE chain[Len(chain)].entry_hash

BreaksUnlinked(s, i) == s[i].event = Unhashable \/ s[i].entry_hash # hashEntry(s[i])

\* What verify checks of entry i: its content, and its link to the one before.
Breaks(s, i) ==
  \/ s[i].event = Unhashable
  \/ s[i].entry_hash # hashEntry(s[i])
  \/ s[i].previous_hash # IF i = 1 THEN GENESIS_PREVIOUS_HASH ELSE s[i - 1].entry_hash

First(S) == CHOOSE i \in S : \A j \in S : i <= j

\* verify: the place of the first broken entry, 0 (null) for a valid chain.
brokenAt(s) ==
  LET broken == {i \in 1..Len(s) : Breaks(s, i)} IN
  IF broken = {} THEN 0 ELSE First(broken)

valid(s) == brokenAt(s) = 0

Hashing(w) == pending[w] # {}

Quiet == \A w \in Writer : ~Hashing(w)

Init ==
  /\ chain = <<>>
  /\ pending = [w \in Writer |-> {}]
  /\ sealed = <<>>
  /\ steps = 0

-----------------------------------------------------------------------------
(***************************************************************************)
(* The AuditChain object.                                                  *)
(***************************************************************************)

\* append, to its await: the entry is complete but for its place in the chain.
AppendCalled(w, e) ==
  LET unhashed == [event |-> e, previous_hash |-> headHash, entry_hash |-> GENESIS_PREVIOUS_HASH] IN
  /\ ~Hashing(w)
  /\ steps < MaxSteps
  /\ steps' = steps + 1
  /\ pending' = [pending EXCEPT ![w] = {[unhashed EXCEPT !.entry_hash = hashEntry(unhashed)]}]
  /\ UNCHANGED <<chain, sealed>>

\* append, after its await.
AppendHashed(w) ==
  \E entry \in pending[w] :
    /\ chain' = Append(chain, entry)
    /\ pending' = [pending EXCEPT ![w] = {}]
    /\ sealed' = chain'
    /\ UNCHANGED steps

-----------------------------------------------------------------------------
(***************************************************************************)
(* The document between two calls: fromJSON takes any array of entries, so *)
(* the next call finds the chain as its holder left it.  Every array of    *)
(* known members is some sequence of these edits.                          *)
(***************************************************************************)

\* What a holder can write for a hash: one the chain shows, or one computed
\* from an entry as it now stands.
Known ==
  {GENESIS_PREVIOUS_HASH}
    \cup {chain[i].entry_hash : i \in 1..Len(chain)}
    \cup {chain[i].previous_hash : i \in 1..Len(chain)}
    \cup {hashEntry(chain[i]) : i \in {k \in 1..Len(chain) : chain[k].event # Unhashable}}

Edited(s) ==
  /\ Quiet
  /\ steps < MaxSteps
  /\ steps' = steps + 1
  /\ chain' = s
  /\ UNCHANGED <<pending, sealed>>

\* A member of entry i other than its hashes is rewritten.
Alter(i, e) == Edited([chain EXCEPT ![i].event = e])

\* Entry i is given another predecessor.
Relink(i, d) == Edited([chain EXCEPT ![i].previous_hash = d])

\* The entry_hash of entry i is rewritten: recomputed, or copied from another.
Rehash(i, d) == Edited([chain EXCEPT ![i].entry_hash = d])

Remove(i) == Edited(SubSeq(chain, 1, i - 1) \o SubSeq(chain, i + 1, Len(chain)))

\* A copy of entry i is inserted at place j.
Insert(i, j) == Edited(SubSeq(chain, 1, j - 1) \o <<chain[i]>> \o SubSeq(chain, j, Len(chain)))

\* The chain is rebuilt: a new AuditChain, to be appended to.
Reset == Edited(<<>>)

Edit ==
  \/ \E i \in 1..Len(chain) :
       \/ \E e \in Event \cup {Unhashable} : Alter(i, e)
       \/ \E d \in Known : Relink(i, d) \/ Rehash(i, d)
       \/ Remove(i)
       \/ \E j \in 1..Len(chain) + 1 : Insert(i, j)
  \/ Reset

Next ==
  \/ \E w \in Writer : AppendHashed(w) \/ \E e \in Event : AppendCalled(w, e)
  \/ Edit

Spec == Init /\ [][Next]_vars

-----------------------------------------------------------------------------
(***************************************************************************)
(* Properties.                                                             *)
(***************************************************************************)

\* The first place at which s departs from t, 0 if s is a prefix of t.
Departure(s, t) ==
  LET differs == {i \in 1..Len(s) : i > Len(t) \/ s[i] # t[i]} IN
  IF differs = {} THEN 0 ELSE First(differs)

\* Section 19.7, "reports the break and names the entry": whatever members are
\* rewritten, entries removed, copied or moved, verify names the first place at
\* which the chain departs from what was appended, and only that of a chain cut
\* short at its end does it not see.  This is of chains that hold no hash but
\* those of the log; the next property is of those that do.
TamperNamed ==
  /\ valid(sealed)
  /\ \A i \in 1..Len(chain) : \E k \in 1..Len(sealed) : chain[i].entry_hash = sealed[k].entry_hash
  => brokenAt(chain) = Departure(chain, sealed)

\* Section 19.7, "each entry commits to the previous entry's hash": a holder can
\* alter an entry and recompute every hash from there on, and the chain verifies
\* (verify has nothing to compare it with).  What he cannot do is arrive at a
\* hash the log has: in a chain that verifies, an entry with the entry_hash of
\* one of the log stands at its place, and all before it is the log's, to the
\* letter.  Who kept one entry_hash of the log has kept what led to it.
CommittedIsGenuine ==
  valid(chain) /\ valid(sealed) =>
    \A i \in 1..Len(chain), j \in 1..Len(sealed) :
      chain[i].entry_hash = sealed[j].entry_hash =>
        i = j /\ SubSeq(chain, 1, i) = SubSeq(sealed, 1, j)

\* append neither mends a broken chain nor moves the break, and leaves a valid
\* chain valid, though the head it commits to is read before the hash is awaited:
\* what it takes is that no other append ended in between.
AppendKeepsBreak ==
  [][ \A w \in Writer : \A entry \in pending[w] :
        AppendHashed(w) /\ entry.previous_hash = headHash =>
          brokenAt(chain') = brokenAt(chain) ]_vars

=============================================================================
