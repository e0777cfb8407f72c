---------------------------- MODULE PlaylistProofs ----------------------------
(***************************************************************************)
(* What a playlist's runtime keeps, for any playlists over any finite set  *)
(* of wallpapers.  Of the draw of a shuffle only its range is used.        *)
(***************************************************************************)
EXTENDS PlaylistRuntime, FiniteSetTheorems, TLAPS

-----------------------------------------------------------------------------
(* The choice of an entry.                                                 *)

\* A finite set of numbers has a member of every rank below its size: the ranks
\* are distinct, so they are all there.
LEMMA NthMember ==
  ASSUME NEW S \in SUBSET Int, IsFiniteSet(S), NEW n \in 0 .. Cardinality(S) - 1
  PROVE  Nth(S, n) \in S
<1> DEFINE Below(i) == {j \in S : j < i}
           rank == [i \in S |-> Cardinality(Below(i))]
           Ranks == 0 .. Cardinality(S) - 1
<1>1. Cardinality(S) \in Nat
  BY FS_CardinalityType
<1>2. ASSUME NEW i \in S
      PROVE  /\ IsFiniteSet(Below(i))
             /\ Cardinality(Below(i)) \in Nat
             /\ Cardinality(Below(i)) < Cardinality(S)
  <2>1. Below(i) \in SUBSET S /\ i \notin Below(i)
    OBVIOUS
  <2>2. /\ IsFiniteSet(Below(i))
        /\ Cardinality(Below(i)) <= Cardinality(S)
        /\ Cardinality(S) = Cardinality(Below(i)) => S = Below(i)
    BY <2>1, FS_Subset
  <2>3. Cardinality(Below(i)) \in Nat
    BY <2>2, FS_CardinalityType
  <2>4. Cardinality(Below(i)) # Cardinality(S)
    BY <2>1, <2>2
  <2>5. QED
    BY <1>1, <2>2, <2>3, <2>4
<1>3. ASSUME NEW i \in S, NEW j \in S, i < j
      PROVE  Cardinality(Below(i)) < Cardinality(Below(j))
  <2> i \in Int /\ j \in Int
    OBVIOUS
  <2>1. Below(i) \in SUBSET Below(j) /\ i \in Below(j) /\ i \notin Below(i)
    <3>1. \A k \in S : k < i => k < j
      BY <1>3
    <3>2. ~(i < i)
      OBVIOUS
    <3>3. Below(i) \in SUBSET Below(j)
      BY <3>1
    <3>4. QED
      BY <1>3, <3>2, <3>3
  <2>2. /\ Cardinality(Below(i)) <= Cardinality(Below(j))
        /\ Cardinality(Below(j)) = Cardinality(Below(i)) => Below(j) = Below(i)
    BY <1>2, <2>1, FS_Subset
  <2>3. Cardinality(Below(j)) # Cardinality(Below(i))
    BY <2>1, <2>2
  <2>4. QED
    BY <1>2, <2>2, <2>3
<1> HIDE DEF Below
<1>4. rank \in [S -> Ranks]
  BY <1>1, <1>2
<1>5. \A i, j \in S : rank[i] = rank[j] => i = j
  BY <1>2, <1>3
<1>6. rank \in Injection(S, Ranks)
  BY <1>4, <1>5 DEF Injection, IsInjective
<1>7. IsFiniteSet(Ranks) /\ Cardinality(Ranks) = Cardinality(S)
  BY <1>1, FS_Interval
<1>8. rank \in Surjection(S, Ranks)
  BY <1>6, <1>7, FS_Injection
<1>9. PICK i \in S : rank[i] = n
  BY <1>8 DEF Surjection
<1>10. \E m \in S : Cardinality({j \in S : j < m}) = n
  BY <1>9 DEF Below
<1>11. QED
  BY <1>10 DEF Nth

\* A draw among n choices is one of them.
LEMMA DrawInRange ==
  ASSUME NEW seed \in 0 .. 1, NEW n \in Nat \ {0}
  PROVE  Mixed(seed, n) \in 0 .. n - 1
<1>1. CASE n = 2
  BY <1>1 DEF Mixed
<1>2. CASE n # 2
  BY <1>2 DEF Mixed
<1>3. QED
  BY <1>1, <1>2

\* A valid playlist is no longer than there are wallpapers.
LEMMA EntriesFit ==
  ASSUME NEW p \in Definitions
  PROVE  /\ p.entries \in Seq(Wallpapers) /\ p.repeat \in BOOLEAN /\ p.shuffle \in BOOLEAN
         /\ \A i \in DOMAIN p.entries : p.entries[i] \in Wallpapers
         /\ DOMAIN p.entries \in SUBSET (1 .. Cardinality(Wallpapers))
         /\ IsFiniteSet(DOMAIN p.entries)
<1>1. p \in Playlists /\ \A i, j \in DOMAIN p.entries : p.entries[i] = p.entries[j] => i = j
  BY DefinitionsAreValid
<1>2. p.entries \in Seq(Wallpapers) /\ p.repeat \in BOOLEAN /\ p.shuffle \in BOOLEAN
  BY <1>1 DEF Playlists
<1>3. /\ DOMAIN p.entries = 1 .. Len(p.entries) /\ Len(p.entries) \in Nat
      /\ p.entries \in [DOMAIN p.entries -> Wallpapers]
  BY <1>2
<1>4. p.entries \in Injection(DOMAIN p.entries, Wallpapers)
  BY <1>1, <1>3 DEF Injection, IsInjective
<1>5. IsFiniteSet(DOMAIN p.entries) /\ Cardinality(DOMAIN p.entries) <= Cardinality(Wallpapers)
  BY <1>4, FS_Injection, WallpapersAreFinite
<1>6. Cardinality(DOMAIN p.entries) = Len(p.entries)
  <2>1. \A n \in Nat : Cardinality(1 .. n) = n
    BY FS_Interval
  <2>2. QED
    BY <1>3, <2>1
<1>7. Cardinality(Wallpapers) \in Nat
  BY FS_CardinalityType, WallpapersAreFinite
<1>8. QED
  BY <1>2, <1>3, <1>5, <1>6, <1>7

\* What is chosen may be chosen; a shuffle stays only where there is no other
\* entry, and gives up only where it may not even stay.
LEMMA NextIsEligible ==
  ASSUME NEW p \in Definitions, NEW current, NEW seed \in 0 .. 1, NEW excluded,
         NEW index, index = NextEligible(p, current, seed, excluded)
  PROVE  /\ index = 0 \/ index \in Eligible(p, excluded)
         /\ 0 \notin DOMAIN p.entries
         /\ p.shuffle /\ index # 0 /\ index = current =>
              p.repeat /\ Eligible(p, excluded) \subseteq {current}
         /\ p.shuffle /\ index = 0 => Eligible(p, excluded) \subseteq {current}
<1> DEFINE eligible == Eligible(p, excluded)
           alternatives == eligible \ {current}
           later == {i \in eligible : i > current}
<1>1. 0 \notin DOMAIN p.entries /\ eligible \in SUBSET (DOMAIN p.entries)
  BY EntriesFit DEF Eligible
<1>2. ASSUME NEW S \in SUBSET eligible, S # {}
      PROVE  /\ Cardinality(S) \in Nat \ {0}
             /\ \A n \in 0 .. Cardinality(S) - 1 : Nth(S, n) \in S
  <2>1. S \in SUBSET (DOMAIN p.entries)
    BY <1>1
  <2>2. S \in SUBSET Int
    <3>1. Cardinality(Wallpapers) \in Nat
      BY FS_CardinalityType, WallpapersAreFinite
    <3>2. QED
      BY <2>1, <3>1, EntriesFit
  <2>3. IsFiniteSet(S)
    BY <2>1, EntriesFit, FS_Subset
  <2>4. Cardinality(S) \in Nat /\ Cardinality(S) # 0
    BY <1>2, <2>3, FS_CardinalityType, FS_EmptySet
  <2>5. QED
    BY <2>2, <2>3, <2>4, NthMember
<1> HIDE DEF eligible
<1>3. ASSUME NEW S \in SUBSET eligible, S # {}
      PROVE  Nth(S, 0) \in S /\ Nth(S, Mixed(seed, Cardinality(S))) \in S
  <2>1. 0 \in 0 .. Cardinality(S) - 1
    BY <1>2, <1>3
  <2>2. Mixed(seed, Cardinality(S)) \in 0 .. Cardinality(S) - 1
    BY <1>2, <1>3, DrawInRange
  <2>3. QED
    BY <1>2, <1>3, <2>1, <2>2
<1>4. CASE p.shuffle
  <2>1. index = IF alternatives # {}
                  THEN Nth(alternatives, Mixed(seed, Cardinality(alternatives)))
                  ELSE IF p.repeat /\ current \in eligible THEN current ELSE 0
    BY <1>4 DEF NextEligible, ShuffledNext, eligible
  <2>2. CASE alternatives # {}
    <3>1. index \in alternatives
      BY <1>3, <2>1, <2>2
    <3>2. index \in eligible /\ index # current /\ index # 0
      BY <1>1, <3>1
    <3>3. QED
      BY <1>1, <3>2 DEF eligible
  <2>3. CASE alternatives = {}
    <3>1. eligible \subseteq {current}
      BY <2>3
    <3>2. index = 0 \/ (index = current /\ p.repeat /\ current \in eligible)
      BY <2>1, <2>3
    <3>3. QED
      BY <1>1, <3>1, <3>2 DEF eligible
  <2>4. QED
    BY <2>2, <2>3
<1>5. CASE ~p.shuffle
  <2>1. index = IF later # {} THEN Nth(later, 0)
                ELSE IF p.repeat /\ eligible # {} THEN Nth(eligible, 0) ELSE 0
    BY <1>5 DEF NextEligible, OrderedNext, eligible
  <2>2. index = 0 \/ index \in eligible
    <3>1. later # {} => Nth(later, 0) \in later
      BY <1>3
    <3>2. eligible # {} => Nth(eligible, 0) \in eligible
      BY <1>3
    <3>3. QED
      BY <2>1, <3>1, <3>2
  <2>3. QED
    BY <1>1, <1>5, <2>2 DEF eligible
<1>6. QED
  BY <1>4, <1>5

-----------------------------------------------------------------------------
(* The operations of the runtime.                                          *)

\* A position is an identity with an index, its time is known, and what is on
\* screen is in the history.
Placed(r) ==
  /\ r \in TypeOfRuntime
  /\ (r.id = None) <=> (r.index = 0)
  /\ (r.id = None) <=> (r.left = None /\ r.pausedLeft = None)
  /\ r.id # None => r.id \in r.history

\* The stored definition is one of the playlists.
Stored == playlist \in Definitions /\ unavailable \in SUBSET Wallpapers

\* r is old after an edit: the same entry with the same times, at the index
\* where it is now, or none when it is gone.
Moved(r, old) ==
  /\ Placed(r)
  /\ r.history = old.history /\ r.seed = old.seed
  /\ r.id # None =>
       /\ r.id = old.id /\ r.left = old.left /\ r.pausedLeft = old.pausedLeft
       /\ r.index \in DOMAIN playlist.entries /\ playlist.entries[r.index] = r.id
  /\ old.id \in Ids(playlist) => r.id # None

LEMMA TypeOfFields ==
  ASSUME NEW r \in TypeOfRuntime
  PROVE  /\ r.index \in 0 .. Cardinality(Wallpapers)
         /\ r.id \in Wallpapers \cup {None}
         /\ r.left \in (0 .. Duration) \cup {None}
         /\ r.pausedLeft \in (0 .. Duration) \cup {None}
         /\ r.seed \in 0 .. 1 /\ r.history \in SUBSET Wallpapers
BY DEF TypeOfRuntime

LEMMA ClearedKinds ==
  ASSUME NEW r \in TypeOfRuntime
  PROVE  /\ Placed(Cleared(r))
         /\ Cleared(r).id = None /\ Cleared(r).index = 0
         /\ Cleared(r).history = r.history /\ Cleared(r).seed = r.seed
<1> DEFINE c == Cleared(r)
<1>1. 0 \in 0 .. Cardinality(Wallpapers)
  BY FS_CardinalityType, WallpapersAreFinite
<1>2. /\ c.index = 0 /\ c.id = None /\ c.left = None /\ c.pausedLeft = None
      /\ c.history = r.history /\ c.seed = r.seed
  BY DEF Cleared, TypeOfRuntime
<1>3. c \in TypeOfRuntime
  BY <1>1 DEF Cleared, TypeOfRuntime
<1> HIDE DEF c
<1>4. Placed(c)
  BY <1>2, <1>3 DEF Placed
<1>5. QED
  BY <1>2, <1>4 DEF c

LEMMA ReconciledKinds ==
  ASSUME Stored, NEW old, Placed(old)
  PROVE  Moved(Reconciled(old), old)
<1> DEFINE r == Reconciled(old)
           place == CHOOSE i \in DOMAIN playlist.entries : playlist.entries[i] = old.id
<1>1. old \in TypeOfRuntime
  BY DEF Placed
<1>2. None \notin Ids(playlist)
  BY EntriesFit, NoneIsApart DEF Ids, Stored
<1>3. CASE old.id = None
  <2>1. old.index = 0
    BY <1>3 DEF Placed
  <2>2. r = [old EXCEPT !.index = 0]
    BY <1>3 DEF Reconciled
  <2>3. r = old
    BY <1>1, <2>1, <2>2 DEF TypeOfRuntime
  <2>4. QED
    BY <1>2, <1>3, <2>3 DEF Moved
<1>4. CASE old.id # None /\ old.id \in Ids(playlist)
  <2>1. r = [old EXCEPT !.index = place]
    BY <1>4 DEF Reconciled
  <2>2. place \in DOMAIN playlist.entries /\ playlist.entries[place] = old.id
    BY <1>4 DEF Ids
  <2> HIDE DEF place
  <2>3. place \in 0 .. Cardinality(Wallpapers) /\ place # 0
    <3>1. Cardinality(Wallpapers) \in Nat
      BY FS_CardinalityType, WallpapersAreFinite
    <3>2. QED
      BY <2>2, <3>1, EntriesFit DEF Stored
  <2>4. /\ r.index = place /\ r.id = old.id /\ r.left = old.left
        /\ r.pausedLeft = old.pausedLeft /\ r.history = old.history /\ r.seed = old.seed
    BY <1>1, <2>1 DEF TypeOfRuntime
  <2>5. r \in TypeOfRuntime
    BY <1>1, <2>1, <2>3 DEF TypeOfRuntime
  <2> HIDE DEF r
  <2>6. Placed(r)
    BY <1>4, <2>3, <2>4, <2>5 DEF Placed
  <2>7. Moved(r, old)
    BY <1>4, <2>2, <2>4, <2>6 DEF Moved
  <2>8. QED
    BY <2>7 DEF r
<1>5. CASE old.id # None /\ old.id \notin Ids(playlist)
  <2>1. r = Cleared(old)
    BY <1>5 DEF Reconciled
  <2>2. QED
    BY <1>1, <1>5, <2>1, ClearedKinds DEF Moved
<1>6. QED
  BY <1>3, <1>4, <1>5

\* What a choice leaves: an entry that was not excluded, up for its whole time.
Chosen(result, r, state) ==
  LET next == result.runtime IN
  /\ result.chosen = TRUE
  /\ Placed(next)
  /\ next.id \in Ids(playlist) \ Excluded(r)
  /\ next.left = Duration /\ next.pausedLeft = None
  /\ next.history = r.history \cup {next.id}
  /\ next.seed # r.seed
  /\ next.index = NextEligible(playlist, r.index, r.seed, Excluded(r))
  /\ next.index \in DOMAIN playlist.entries /\ playlist.entries[next.index] = next.id
  /\ result.decision \in Decisions
  /\ result.decision.state = state /\ result.decision.id = next.id

\* What is left when nothing can be chosen.
Emptied(result, r) ==
  /\ result.chosen = FALSE
  /\ result.runtime = Cleared(r)
  /\ NextEligible(playlist, r.index, r.seed, Excluded(r)) = 0
  /\ result.decision \in Decisions
  /\ result.decision.state = EmptyState(r)

LEMMA SaysKinds ==
  ASSUME NEW r \in TypeOfRuntime, NEW state \in States
  PROVE  /\ Says(state, r) \in Decisions
         /\ Says(state, r).state = state /\ Says(state, r).id = r.id
BY DEF Says, Decisions, TypeOfRuntime

LEMMA SelectKinds ==
  ASSUME Stored, NEW r, Placed(r), NEW state \in {"started", "advanced"}
  PROVE  Chosen(Select(r, state), r, state) \/ Emptied(Select(r, state), r)
<1> DEFINE index == NextEligible(playlist, r.index, r.seed, Excluded(r))
           next == [index |-> index, id |-> playlist.entries[index], left |-> Duration,
                    pausedLeft |-> None, seed |-> (r.seed + 1) % 2,
                    history |-> r.history \cup {playlist.entries[index]}]
           result == Select(r, state)
<1>1. r \in TypeOfRuntime /\ r.seed \in 0 .. 1 /\ r.history \in SUBSET Wallpapers
  BY TypeOfFields DEF Placed
<1>2. /\ index = 0 \/ index \in Eligible(playlist, Excluded(r))
      /\ 0 \notin DOMAIN playlist.entries
  BY <1>1, NextIsEligible DEF Stored
<1>3. CASE index = 0
  <2>1. result = Result(Cleared(r), EmptyState(r), FALSE)
    BY <1>3 DEF Select
  <2>2. Cleared(r) \in TypeOfRuntime /\ EmptyState(r) \in States
    BY <1>1, ClearedKinds DEF Placed, EmptyState, States
  <2>3. /\ result.runtime = Cleared(r) /\ result.chosen = FALSE
        /\ result.decision = Says(EmptyState(r), Cleared(r))
    BY <2>1 DEF Result
  <2>4. QED
    BY <1>3, <2>2, <2>3, SaysKinds DEF Emptied
<1>4. CASE index # 0
  <2>1. result = Result(next, state, TRUE)
    BY <1>4 DEF Select
  <2>2. /\ result.runtime = next /\ result.chosen = TRUE
        /\ result.decision = Says(state, next)
    BY <2>1 DEF Result
  <2>3. /\ index \in DOMAIN playlist.entries
        /\ playlist.entries[index] \in Wallpapers
        /\ playlist.entries[index] \in Ids(playlist) \ Excluded(r)
    BY <1>2, <1>4, EntriesFit DEF Eligible, Ids, Stored
  <2>4. index \in 0 .. Cardinality(Wallpapers)
    <3>1. Cardinality(Wallpapers) \in Nat
      BY FS_CardinalityType, WallpapersAreFinite
    <3>2. QED
      BY <2>3, <3>1, EntriesFit DEF Stored
  <2>5. (r.seed + 1) % 2 \in 0 .. 1 /\ (r.seed + 1) % 2 # r.seed
    BY <1>1
  <2> HIDE DEF index, result
  <2>6. Duration \in 0 .. Duration /\ Duration # None
    BY DurationIsPositive, NoneIsApart
  <2>7. next \in TypeOfRuntime
    BY <1>1, <2>3, <2>4, <2>5, <2>6 DEF TypeOfRuntime
  <2>8. /\ next.index = index /\ next.id = playlist.entries[index] /\ next.left = Duration
        /\ next.pausedLeft = None /\ next.seed = (r.seed + 1) % 2
        /\ next.history = r.history \cup {playlist.entries[index]}
    OBVIOUS
  <2> HIDE DEF next
  <2>9. next.id # None
    BY <2>3, <2>8, NoneIsApart
  <2>10. Placed(next)
    BY <1>4, <2>6, <2>7, <2>8, <2>9 DEF Placed
  <2>11. Says(state, next) \in Decisions /\ Says(state, next).state = state
         /\ Says(state, next).id = next.id
    <3>1. state \in States
      BY DEF States
    <3>2. QED
      BY <2>7, <3>1, SaysKinds
  <2>12. next.seed # r.seed
    BY <2>5, <2>8
  <2>13. Chosen(result, r, state)
    BY <2>2, <2>3, <2>8, <2>10, <2>11, <2>12 DEF Chosen, index
  <2>14. QED
    BY <2>13 DEF result
<1>5. QED
  BY <1>3, <1>4

\* What a tick leaves when it chooses nothing because the time is not over.
Waits(result, r) ==
  /\ result.chosen = FALSE
  /\ result.runtime = r
  /\ result.decision \in Decisions
  /\ result.decision.state \in {"paused", "waiting"}

\* A tick waits, or it has a reason to choose: there is no position, the entry
\* is unavailable, or its time is over.
LEMMA TickedKinds ==
  ASSUME Stored, NEW old, Placed(old)
  PROVE  LET r == Reconciled(old)  result == Ticked(old) IN
         \/ Waits(result, r)
         \/ /\ Chosen(result, r, "advanced") \/ Emptied(result, r)
            /\ r.id # None /\ r.id \notin unavailable => Remaining(r) = 0
<1> DEFINE r == Reconciled(old)
           result == Ticked(old)
<1>1. Placed(r)
  BY ReconciledKinds DEF Moved
<1>2. r \in TypeOfRuntime
  BY <1>1 DEF Placed
<1>3. result = IF r.index # 0 /\ r.pausedLeft # None THEN Result(r, "paused", FALSE)
               ELSE IF r.index # 0 /\ r.left # None /\ r.left > 0 /\ r.id \notin unavailable
                 THEN Result(r, "waiting", FALSE)
                 ELSE Select(r, "advanced")
  BY DEF Ticked
<1> HIDE DEF r, result
<1>4. CASE result = Result(r, "paused", FALSE) \/ result = Result(r, "waiting", FALSE)
  <2>1. PICK state \in {"paused", "waiting"} : result = Result(r, state, FALSE)
    BY <1>4
  <2>2. /\ result.runtime = r /\ result.chosen = FALSE /\ result.decision = Says(state, r)
    BY <2>1 DEF Result
  <2>3. Says(state, r) \in Decisions /\ Says(state, r).state = state
    <3>1. state \in States
      BY DEF States
    <3>2. QED
      BY <1>2, <3>1, SaysKinds
  <2>4. Waits(result, r)
    BY <2>2, <2>3 DEF Waits
  <2>5. QED
    BY <2>4 DEF r, result
<1>5. CASE /\ ~(r.index # 0 /\ r.pausedLeft # None)
           /\ ~(r.index # 0 /\ r.left # None /\ r.left > 0 /\ r.id \notin unavailable)
           /\ result = Select(r, "advanced")
  <2>1. Chosen(result, r, "advanced") \/ Emptied(result, r)
    BY <1>1, <1>5, SelectKinds
  <2>2. r.id # None /\ r.id \notin unavailable => Remaining(r) = 0
    <3>1. SUFFICES ASSUME r.id # None, r.id \notin unavailable PROVE Remaining(r) = 0
      OBVIOUS
    <3>2. r.index # 0 /\ r.pausedLeft = None /\ r.left # None
      BY <1>1, <1>5, <3>1 DEF Placed
    <3>3. ~(r.left > 0)
      BY <1>5, <3>1, <3>2
    <3>4. r.left \in 0 .. Duration
      BY <1>2, <3>2, TypeOfFields
    <3>5. r.left = 0
      BY <3>3, <3>4, DurationIsPositive
    <3>6. QED
      BY <3>2, <3>5 DEF Remaining
  <2>3. QED
    BY <2>1, <2>2 DEF r, result
<1>6. QED
  BY <1>3, <1>4, <1>5

\* What is left of an entry is a time.
LEMMA RemainingType ==
  ASSUME NEW r, Placed(r), r.id # None
  PROVE  Remaining(r) \in 0 .. Duration
<1>1. r.left # None \/ r.pausedLeft # None
  BY DEF Placed
<1>2. QED
  BY <1>1, TypeOfFields DEF Placed, Remaining

\* A snapshot says the same of the position.
SamePosition(s, r) ==
  /\ Placed(s)
  /\ s.id = r.id /\ s.history = r.history
  /\ r.id # None => Remaining(s) = Remaining(r)

LEMMA SnapshotKinds ==
  ASSUME NEW r, Placed(r)
  PROVE  /\ SamePosition(Snapshot(r), r)
         /\ Snapshot(r).pausedLeft = r.pausedLeft
         /\ r.id # None /\ r.pausedLeft = None => Snapshot(r).left = r.left
<1> DEFINE s == Snapshot(r)
<1>1. r \in TypeOfRuntime
  BY DEF Placed
<1>2. CASE r.pausedLeft # None \/ r.index = 0
  <2>1. s = [r EXCEPT !.left = None]
    BY <1>2 DEF Snapshot
  <2>2. s \in TypeOfRuntime
    BY <1>1, <2>1 DEF TypeOfRuntime
  <2>3. /\ s.index = r.index /\ s.id = r.id /\ s.left = None /\ s.pausedLeft = r.pausedLeft
        /\ s.history = r.history
    BY <1>1, <2>1 DEF TypeOfRuntime
  <2> HIDE DEF s
  <2>4. Placed(s)
    BY <1>2, <2>2, <2>3 DEF Placed
  <2>5. r.id # None => r.pausedLeft # None
    BY <1>2 DEF Placed
  <2>6. QED
    BY <2>3, <2>4, <2>5 DEF SamePosition, Remaining, s
<1>3. CASE ~(r.pausedLeft # None \/ r.index = 0)
  <2>1. s = r
    BY <1>3 DEF Snapshot
  <2>2. QED
    BY <2>1 DEF SamePosition
<1>4. QED
  BY <1>2, <1>3

\* Pause and resume keep the position, or lose it to an edit.
LEMMA PausedKinds ==
  ASSUME Stored, NEW old, Placed(old)
  PROVE  /\ Placed(PausedAt(old))
         /\ PausedAt(old).history = old.history /\ PausedAt(old).seed = old.seed
         /\ PausedAt(old).id # None =>
              PausedAt(old).id = old.id /\ Remaining(PausedAt(old)) = Remaining(old)
<1> DEFINE r == Reconciled(old)
           s == PausedAt(old)
<1>1. Moved(r, old)
  BY ReconciledKinds
<1>2. r \in TypeOfRuntime
  BY <1>1 DEF Moved, Placed
<1>3. CASE r.index = 0 \/ r.pausedLeft # None
  <2>1. s = r
    BY <1>3 DEF PausedAt
  <2>2. QED
    BY <1>1, <2>1 DEF Moved, Remaining
<1>4. CASE ~(r.index = 0 \/ r.pausedLeft # None)
  <2>1. s = [r EXCEPT !.pausedLeft = TimeLeft(r)]
    BY <1>4 DEF PausedAt
  <2> HIDE DEF r
  <2>2. r.left # None /\ r.id # None /\ TimeLeft(r) = r.left
    BY <1>1, <1>4 DEF Moved, Placed, TimeLeft
  <2>3. r.left \in 0 .. Duration
    BY <1>2, <2>2, TypeOfFields
  <2>4. s \in TypeOfRuntime
    BY <1>2, <2>1, <2>2, <2>3 DEF TypeOfRuntime
  <2>5. /\ s.index = r.index /\ s.id = r.id /\ s.left = r.left /\ s.pausedLeft = r.left
        /\ s.history = r.history /\ s.seed = r.seed
    BY <1>2, <2>1, <2>2 DEF TypeOfRuntime
  <2> HIDE DEF s
  <2>6. Placed(s)
    BY <1>1, <2>2, <2>4, <2>5 DEF Moved, Placed
  <2>7. s.history = old.history /\ s.seed = old.seed /\ s.id = old.id
        /\ old.left = r.left /\ old.pausedLeft = None
    BY <1>1, <1>4, <2>2, <2>5 DEF Moved
  <2>8. Remaining(s) = Remaining(old)
    BY <2>2, <2>5, <2>7 DEF Remaining
  <2>9. QED
    BY <2>6, <2>7, <2>8 DEF s
<1>5. QED
  BY <1>3, <1>4

LEMMA ResumedKinds ==
  ASSUME Stored, NEW old, Placed(old)
  PROVE  /\ Placed(ResumedAt(old))
         /\ ResumedAt(old).history = old.history /\ ResumedAt(old).seed = old.seed
         /\ ResumedAt(old).id # None =>
              ResumedAt(old).id = old.id /\ Remaining(ResumedAt(old)) = Remaining(old)
<1> DEFINE r == Reconciled(old)
           s == ResumedAt(old)
<1>1. Moved(r, old)
  BY ReconciledKinds
<1>2. r \in TypeOfRuntime
  BY <1>1 DEF Moved, Placed
<1>3. CASE r.index = 0 \/ r.pausedLeft = None
  <2>1. s = r
    BY <1>3 DEF ResumedAt
  <2>2. QED
    BY <1>1, <2>1 DEF Moved, Remaining
<1>4. CASE ~(r.index = 0 \/ r.pausedLeft = None)
  <2>1. s = [r EXCEPT !.left = r.pausedLeft, !.pausedLeft = None]
    BY <1>4 DEF ResumedAt
  <2> HIDE DEF r
  <2>2. r.id # None
    BY <1>1, <1>4 DEF Moved, Placed
  <2>3. r.pausedLeft \in 0 .. Duration
    BY <1>2, <1>4, TypeOfFields
  <2>4. s \in TypeOfRuntime
    BY <1>2, <2>1, <2>3 DEF TypeOfRuntime
  <2>5. /\ s.index = r.index /\ s.id = r.id /\ s.left = r.pausedLeft /\ s.pausedLeft = None
        /\ s.history = r.history /\ s.seed = r.seed
    BY <1>2, <2>1 DEF TypeOfRuntime
  <2> HIDE DEF s
  <2>6. Placed(s)
    BY <1>1, <1>4, <2>2, <2>4, <2>5 DEF Moved, Placed
  <2>7. s.history = old.history /\ s.seed = old.seed /\ s.id = old.id
        /\ old.pausedLeft = r.pausedLeft
    BY <1>1, <2>2, <2>5 DEF Moved
  <2>8. Remaining(s) = Remaining(old)
    BY <1>4, <2>5, <2>7 DEF Remaining
  <2>9. QED
    BY <2>6, <2>7, <2>8 DEF s
<1>5. QED
  BY <1>3, <1>4

-----------------------------------------------------------------------------
(* The inductive invariant.                                                *)

\* What is left of r is no less than, or is, the duration less the time s.
AtLeast(r, s) == r.id # None => Remaining(r) >= Duration - s
Exactly(r, s) == r.id # None => Remaining(r) = Duration - s

\* While the playlist plays it has been saved, the runtime knows what was played
\* and the entry on screen has its time.
PlayingIsCounted ==
  active => /\ saved # None
            /\ runtime.history = played
            /\ AtLeast(runtime, shown)
            /\ restores <= 1 => Exactly(runtime, shown)

\* The snapshot is never behind: it has the history, and it only gives time back.
SavedIsCounted ==
  /\ saved = None => played = {}
  /\ saved # None => /\ restores >= 1
                     /\ Placed(saved)
                     /\ saved.history = played
                     /\ AtLeast(saved, shown)

\* A choice is saved with the decision that reports it: while the decision stands,
\* so does the snapshot of the choice, as it was made.
ChoiceIsSaved ==
  /\ decision # None => active
  /\ decision # None /\ decision.state \in {"started", "advanced"} =>
       saved.id = decision.id /\ saved.left = Duration /\ saved.pausedLeft = None

Inv ==
  /\ TypeOK /\ Placed(runtime)
  /\ PlayingIsCounted /\ SavedIsCounted /\ ChoiceIsSaved

LEMMA MovedKeepsTime ==
  ASSUME Stored, NEW old, Placed(old), NEW s
  PROVE  LET r == Reconciled(old) IN
         /\ Placed(r) /\ r.history = old.history /\ r.seed = old.seed
         /\ AtLeast(old, s) => AtLeast(r, s)
         /\ Exactly(old, s) => Exactly(r, s)
<1> DEFINE r == Reconciled(old)
<1>1. Moved(r, old)
  BY ReconciledKinds
<1>2. r.id # None => old.id # None /\ Remaining(r) = Remaining(old)
  BY <1>1 DEF Moved, Remaining
<1>3. QED
  BY <1>1, <1>2 DEF Moved, AtLeast, Exactly

\* Following the result of an operation on r.
LEMMA Followed ==
  ASSUME Stored, shown \in 0 .. Duration, played \in SUBSET Wallpapers,
         NEW r, Placed(r), r.history = played, AtLeast(r, shown),
         NEW state \in {"started", "advanced"},
         NEW result, Follow(result),
         Waits(result, r) \/ Chosen(result, r, state) \/ Emptied(result, r)
  PROVE  /\ Placed(runtime') /\ runtime'.history = played'
         /\ AtLeast(runtime', shown')
         /\ Exactly(r, shown) => Exactly(runtime', shown')
         /\ shown' \in 0 .. Duration /\ played' \in SUBSET Wallpapers
         /\ decision' \in Decisions /\ decision' # None
         /\ decision' = result.decision /\ runtime' = result.runtime
         /\ \/ /\ shown' = 0 /\ played' = played \cup {runtime'.id}
               /\ runtime'.id = decision'.id /\ runtime'.id # None
               /\ runtime'.left = Duration /\ runtime'.pausedLeft = None
            \/ /\ shown' = shown /\ played' = played
               /\ decision'.state \notin {"started", "advanced"}
<1>1. /\ runtime' = result.runtime /\ decision' = result.decision
      /\ shown' = IF result.chosen THEN 0 ELSE shown
      /\ played' = IF result.chosen THEN played \cup {result.runtime.id} ELSE played
  BY DEF Follow
<1>2. r \in TypeOfRuntime
  BY DEF Placed
<1>3. Duration \in Nat \ {0}
  BY DurationIsPositive
<1>4. CASE Waits(result, r)
  <2>1. /\ result.chosen = FALSE /\ runtime' = r /\ decision' \in Decisions
        /\ decision'.state \in {"paused", "waiting"}
    BY <1>1, <1>4 DEF Waits
  <2>2. shown' = shown /\ played' = played
    BY <1>1, <2>1
  <2>3. QED
    BY <1>1, <2>1, <2>2, NoneIsApart
<1>5. CASE Chosen(result, r, state)
  <2>1. /\ result.chosen = TRUE /\ Placed(runtime') /\ runtime'.left = Duration
        /\ runtime'.pausedLeft = None /\ runtime'.history = r.history \cup {runtime'.id}
        /\ decision' \in Decisions /\ decision'.id = runtime'.id
        /\ runtime'.id \in Ids(playlist)
    BY <1>1, <1>5 DEF Chosen
  <2>2. shown' = 0 /\ played' = played \cup {runtime'.id}
    BY <1>1, <2>1
  <2>3. runtime'.id \in Wallpapers /\ runtime'.id # None
    BY <2>1, EntriesFit, NoneIsApart DEF Ids, Stored
  <2>4. Remaining(runtime') = Duration - shown'
    BY <1>3, <2>1, <2>2 DEF Remaining
  <2>5. AtLeast(runtime', shown') /\ Exactly(runtime', shown')
    BY <1>3, <2>2, <2>4 DEF AtLeast, Exactly
  <2>6. shown' \in 0 .. Duration
    BY <1>3, <2>2
  <2>7. played' \in SUBSET Wallpapers /\ runtime'.history = played'
    BY <2>1, <2>2, <2>3
  <2>8. QED
    BY <1>1, <2>1, <2>2, <2>3, <2>5, <2>6, <2>7, NoneIsApart
<1>6. CASE Emptied(result, r)
  <2>1. /\ result.chosen = FALSE /\ runtime' = Cleared(r) /\ decision' \in Decisions
        /\ decision'.state = EmptyState(r)
    BY <1>1, <1>6 DEF Emptied
  <2>2. shown' = shown /\ played' = played
    BY <1>1, <2>1
  <2>3. Placed(runtime') /\ runtime'.id = None /\ runtime'.history = played'
    BY <1>2, <2>1, <2>2, ClearedKinds
  <2>4. decision'.state \notin {"started", "advanced"}
    BY <2>1 DEF EmptyState
  <2>5. QED
    BY <1>1, <2>1, <2>2, <2>3, <2>4, NoneIsApart DEF AtLeast, Exactly
<1>7. QED
  BY <1>4, <1>5, <1>6

-----------------------------------------------------------------------------
(* The invariant holds at first and every step keeps it.                   *)

LEMMA Kinds ==
  ASSUME Inv
  PROVE  /\ Stored /\ Placed(runtime) /\ active \in BOOLEAN
         /\ shown \in 0 .. Duration /\ played \in SUBSET Wallpapers
         /\ saved # None => Placed(saved)
         /\ events \in 0 .. MaxEvents /\ restores \in 0 .. MaxRestores
         /\ Duration \in Nat \ {0} /\ MaxEvents \in Nat /\ MaxRestores \in Nat
BY DurationIsPositive, BoundsAreNatural DEF Inv, TypeOK, SavedIsCounted, Stored

\* The types of the next state, from those of its parts.
LEMMA TypesOfNext ==
  ASSUME Stored', active' \in BOOLEAN, Placed(runtime'), decision' \in Decisions \cup {None},
         saved' = None \/ Placed(saved'), shown' \in 0 .. Duration,
         played' \in SUBSET Wallpapers, events' \in 0 .. MaxEvents,
         restores' \in 0 .. MaxRestores
  PROVE  TypeOK' /\ Placed(runtime)'
BY DEF TypeOK, Stored, Placed

LEMMA FreshKinds == Placed(Fresh) /\ Fresh.id = None /\ Fresh.history = {}
<1>1. Fresh \in TypeOfRuntime
  <2>1. 0 \in 0 .. Cardinality(Wallpapers)
    BY FS_CardinalityType, WallpapersAreFinite
  <2>2. QED
    BY <2>1 DEF Fresh, TypeOfRuntime
<1>2. QED
  BY <1>1 DEF Placed, Fresh

LEMMA InitInv == Init => Inv
<1> SUFFICES ASSUME Init PROVE Inv
  OBVIOUS
<1>1. Placed(runtime) /\ runtime.id = None
  BY FreshKinds DEF Init
<1>2. 0 \in 0 .. MaxEvents /\ 0 \in 0 .. MaxRestores /\ 0 \in 0 .. Duration
  BY BoundsAreNatural, DurationIsPositive
<1>3. TypeOK
  BY <1>1, <1>2 DEF Init, TypeOK, Placed
<1>4. PlayingIsCounted /\ SavedIsCounted /\ ChoiceIsSaved
  BY DEF Init, PlayingIsCounted, SavedIsCounted, ChoiceIsSaved
<1>5. QED
  BY <1>1, <1>3, <1>4 DEF Inv

LEMMA TickKeepsInv ==
  ASSUME Inv, Tick PROVE Inv'
<1> DEFINE r == Reconciled(runtime)
           result == Ticked(runtime)
<1>1. Stored /\ Placed(runtime) /\ shown \in 0 .. Duration /\ played \in SUBSET Wallpapers
  BY Kinds
<1>2. /\ active /\ saved # None /\ Follow(result)
      /\ UNCHANGED <<playlist, unavailable, active, events, restores>>
  BY DEF Tick, Inv, PlayingIsCounted
<1>3. PICK refresh \in BOOLEAN :
        saved' = IF Persists(result, refresh) THEN Snapshot(result.runtime) ELSE saved
  BY DEF Tick
<1>4. /\ runtime.history = played /\ AtLeast(runtime, shown)
      /\ restores <= 1 => Exactly(runtime, shown)
  BY <1>2 DEF Inv, PlayingIsCounted
<1>5. /\ Placed(r) /\ r.history = played /\ AtLeast(r, shown)
      /\ restores <= 1 => Exactly(r, shown)
  BY <1>1, <1>4, MovedKeepsTime
<1>6. Waits(result, r) \/ Chosen(result, r, "advanced") \/ Emptied(result, r)
  BY <1>1, TickedKinds
<1> HIDE DEF r, result
<1>7. /\ Placed(runtime') /\ runtime'.history = played' /\ AtLeast(runtime', shown')
      /\ Exactly(r, shown) => Exactly(runtime', shown')
      /\ shown' \in 0 .. Duration /\ played' \in SUBSET Wallpapers
      /\ decision' \in Decisions /\ decision' # None
      /\ decision' = result.decision /\ runtime' = result.runtime
      /\ \/ /\ shown' = 0 /\ played' = played \cup {runtime'.id}
            /\ runtime'.id = decision'.id /\ runtime'.id # None
            /\ runtime'.left = Duration /\ runtime'.pausedLeft = None
         \/ /\ shown' = shown /\ played' = played
            /\ decision'.state \notin {"started", "advanced"}
  BY <1>1, <1>2, <1>5, <1>6, Followed
<1>8. /\ restores >= 1 /\ Placed(saved) /\ saved.history = played /\ AtLeast(saved, shown)
  BY <1>2 DEF Inv, SavedIsCounted
<1> DEFINE SavedWell ==
             /\ Placed(saved') /\ saved'.history = played' /\ AtLeast(saved', shown')
             /\ decision'.state \in {"started", "advanced"} =>
                  saved'.id = decision'.id /\ saved'.left = Duration /\ saved'.pausedLeft = None
<1>9. ASSUME saved' = Snapshot(runtime') PROVE SavedWell
  <2>1. /\ SamePosition(saved', runtime') /\ saved'.pausedLeft = runtime'.pausedLeft
        /\ runtime'.id # None /\ runtime'.pausedLeft = None => saved'.left = runtime'.left
    BY <1>7, <1>9, SnapshotKinds
  <2>2. Placed(saved') /\ saved'.history = played' /\ AtLeast(saved', shown')
    BY <1>7, <2>1 DEF SamePosition, AtLeast
  <2>3. decision'.state \in {"started", "advanced"} =>
          saved'.id = decision'.id /\ saved'.left = Duration /\ saved'.pausedLeft = None
    BY <1>7, <2>1 DEF SamePosition
  <2>4. QED
    BY <2>2, <2>3
<1>10. ASSUME saved' = saved, decision = decision' PROVE SavedWell
  <2>1. decision'.state \in {"started", "advanced"} =>
          saved'.id = decision'.id /\ saved'.left = Duration /\ saved'.pausedLeft = None
    BY <1>7, <1>10 DEF Inv, ChoiceIsSaved
  <2>2. Placed(saved')
    BY <1>8, <1>10
  <2>3. saved'.history = played' /\ AtLeast(saved', shown')
    <3>1. CASE shown' = shown /\ played' = played
      BY <1>8, <1>10, <3>1
    <3>2. CASE ~(shown' = shown /\ played' = played)
      <4>1. /\ shown' = 0 /\ played' = played \cup {runtime'.id}
            /\ runtime'.id = decision'.id /\ runtime'.id # None
            /\ decision'.state \in {"started", "advanced"}
        <5>1. result.chosen = TRUE
          BY <1>2, <3>2, <1>6 DEF Follow, Waits, Emptied
        <5>2. Chosen(result, r, "advanced")
          BY <1>6, <5>1 DEF Waits, Emptied
        <5>3. decision'.state = "advanced"
          BY <1>7, <5>2 DEF Chosen
        <5>4. QED
          BY <1>7, <3>2, <5>3
      <4>2. saved'.id = runtime'.id /\ saved'.left = Duration /\ saved'.pausedLeft = None
        BY <2>1, <4>1
      <4>3. runtime'.id \in saved'.history
        BY <2>2, <4>1, <4>2 DEF Placed
      <4>4. saved'.history = played'
        BY <1>8, <1>10, <4>1, <4>3
      <4>5. Remaining(saved') = Duration
        BY <4>2 DEF Remaining
      <4>6. AtLeast(saved', shown')
        BY <4>1, <4>5, DurationIsPositive DEF AtLeast
      <4>7. QED
        BY <4>4, <4>6
    <3>3. QED
      BY <3>1, <3>2
  <2>4. QED
    BY <2>1, <2>2, <2>3
<1>11. saved' = Snapshot(runtime') \/ (saved' = saved /\ decision = decision')
  BY <1>3, <1>7 DEF Persists
<1>12. SavedWell
  BY <1>9, <1>10, <1>11
<1>13. saved' # None
  BY <1>12, NoneIsApart DEF Placed
<1>14. TypeOK' /\ Placed(runtime)'
  <2>1. /\ Stored' /\ active' \in BOOLEAN /\ events' \in 0 .. MaxEvents
        /\ restores' \in 0 .. MaxRestores
    BY <1>1, <1>2, Kinds DEF Stored
  <2>2. QED
    BY <1>7, <1>12, <2>1, TypesOfNext
<1>15. PlayingIsCounted'
  <2>1. restores' <= 1 => Exactly(runtime', shown')
    BY <1>2, <1>5, <1>7
  <2>2. QED
    BY <1>7, <1>13, <2>1 DEF PlayingIsCounted
<1>16. SavedIsCounted'
  BY <1>2, <1>8, <1>12, <1>13 DEF SavedIsCounted
<1>17. ChoiceIsSaved'
  BY <1>2, <1>12 DEF ChoiceIsSaved
<1>18. QED
  BY <1>14, <1>15, <1>16, <1>17 DEF Inv

LEMMA ActivateKeepsInv ==
  ASSUME Inv, Activate PROVE Inv'
<1> DEFINE result == IF saved # None THEN Ticked(Restored(saved)) ELSE Started(runtime)
<1>1. Stored /\ Placed(runtime) /\ shown \in 0 .. Duration /\ played \in SUBSET Wallpapers
  BY Kinds
<1>2. /\ Follow(result) /\ saved' = Snapshot(result.runtime)
      /\ active' = TRUE /\ restores' = restores + 1 /\ restores < MaxRestores
      /\ UNCHANGED <<playlist, unavailable, events>>
  BY DEF Activate
<1>3. \E r, state :
        /\ Placed(r) /\ r.history = played /\ AtLeast(r, shown)
        /\ state \in {"started", "advanced"}
        /\ Waits(result, r) \/ Chosen(result, r, state) \/ Emptied(result, r)
        /\ restores' <= 1 => Exactly(r, shown)
  <2>1. CASE saved # None
    <3> DEFINE old == Restored(saved)
               r == Reconciled(old)
    <3>1. /\ Placed(saved) /\ saved.history = played /\ AtLeast(saved, shown)
          /\ restores \in Nat /\ restores >= 1
      BY <2>1, Kinds DEF Inv, SavedIsCounted
    <3>2. Placed(old) /\ old.history = played /\ AtLeast(old, shown)
      BY <1>1, <3>1, MovedKeepsTime DEF Restored
    <3>3. Placed(r) /\ r.history = played /\ AtLeast(r, shown)
      BY <1>1, <3>2, MovedKeepsTime
    <3>4. Waits(result, r) \/ Chosen(result, r, "advanced") \/ Emptied(result, r)
      BY <1>1, <2>1, <3>2, TickedKinds
    <3>5. ~(restores' <= 1)
      BY <1>2, <3>1
    <3>6. QED
      BY <3>3, <3>4, <3>5
  <2>2. CASE saved = None
    <3> DEFINE r == [Cleared(runtime) EXCEPT !.history = {}]
    <3>1. played = {}
      BY <2>2 DEF Inv, SavedIsCounted
    <3>2. runtime \in TypeOfRuntime
      BY <1>1 DEF Placed
    <3>3. Placed(Cleared(runtime)) /\ Cleared(runtime).id = None
      BY <3>2, ClearedKinds
    <3>4. Cleared(runtime) \in TypeOfRuntime
      BY <3>3 DEF Placed
    <3>5. r \in TypeOfRuntime
      BY <3>4 DEF TypeOfRuntime
    <3>6. /\ r.index = Cleared(runtime).index /\ r.id = Cleared(runtime).id
          /\ r.left = Cleared(runtime).left /\ r.pausedLeft = Cleared(runtime).pausedLeft
          /\ r.history = {}
      BY <3>4 DEF TypeOfRuntime
    <3>7. result = Select(r, "started")
      BY <2>2 DEF Started
    <3> HIDE DEF r, result
    <3>8. Placed(r) /\ r.id = None /\ r.history = played
      BY <3>1, <3>3, <3>5, <3>6 DEF Placed
    <3>9. Chosen(result, r, "started") \/ Emptied(result, r)
      BY <1>1, <3>7, <3>8, SelectKinds
    <3>10. AtLeast(r, shown) /\ Exactly(r, shown)
      BY <3>8 DEF AtLeast, Exactly
    <3>11. QED
      BY <3>8, <3>9, <3>10
  <2>3. QED
    BY <2>1, <2>2
<1> HIDE DEF result
<1>4. PICK r, state :
        /\ Placed(r) /\ r.history = played /\ AtLeast(r, shown)
        /\ state \in {"started", "advanced"}
        /\ Waits(result, r) \/ Chosen(result, r, state) \/ Emptied(result, r)
        /\ restores' <= 1 => Exactly(r, shown)
  BY <1>3
<1>5. /\ Placed(runtime') /\ runtime'.history = played' /\ AtLeast(runtime', shown')
      /\ Exactly(r, shown) => Exactly(runtime', shown')
      /\ shown' \in 0 .. Duration /\ played' \in SUBSET Wallpapers
      /\ decision' \in Decisions /\ decision' # None /\ runtime' = result.runtime
      /\ decision'.state \in {"started", "advanced"} =>
           /\ runtime'.id = decision'.id /\ runtime'.id # None
           /\ runtime'.left = Duration /\ runtime'.pausedLeft = None
  BY <1>1, <1>2, <1>4, Followed
<1>6. /\ SamePosition(saved', runtime') /\ saved'.pausedLeft = runtime'.pausedLeft
      /\ runtime'.id # None /\ runtime'.pausedLeft = None => saved'.left = runtime'.left
  BY <1>2, <1>5, SnapshotKinds
<1>7. Placed(saved') /\ saved'.history = played' /\ AtLeast(saved', shown')
  BY <1>5, <1>6 DEF SamePosition, AtLeast
<1>8. decision'.state \in {"started", "advanced"} =>
        saved'.id = decision'.id /\ saved'.left = Duration /\ saved'.pausedLeft = None
  BY <1>5, <1>6 DEF SamePosition
<1>9. saved' # None
  BY <1>7, NoneIsApart DEF Placed
<1>10. restores' \in 0 .. MaxRestores /\ restores' >= 1
  BY <1>2, Kinds
<1>11. TypeOK' /\ Placed(runtime)'
  <2>1. Stored' /\ active' \in BOOLEAN /\ events' \in 0 .. MaxEvents
    BY <1>1, <1>2, Kinds DEF Stored
  <2>2. QED
    BY <1>5, <1>7, <1>10, <2>1, TypesOfNext
<1>12. PlayingIsCounted'
  BY <1>4, <1>5, <1>9 DEF PlayingIsCounted
<1>13. SavedIsCounted'
  BY <1>7, <1>9, <1>10 DEF SavedIsCounted
<1>14. ChoiceIsSaved'
  BY <1>2, <1>8 DEF ChoiceIsSaved
<1>15. QED
  BY <1>11, <1>12, <1>13, <1>14 DEF Inv

\* Edits, reports and a stop leave the position and the snapshot as they are.
LEMMA CommandsKeepInv ==
  ASSUME Inv,
         \/ Deactivate
         \/ \E p \in Definitions : PutPlaylist(p)
         \/ \E missing \in SUBSET Wallpapers : SetUnavailable(missing)
  PROVE  Inv'
<1>1. /\ Stored' /\ events' \in 0 .. MaxEvents /\ active' \in BOOLEAN
      /\ active' => active
      /\ decision' = None \/ (decision' = decision /\ active' = active)
      /\ UNCHANGED <<runtime, saved, shown, played, restores>>
  <2>1. Stored /\ events \in 0 .. MaxEvents /\ MaxEvents \in Nat /\ active \in BOOLEAN
    BY Kinds
  <2>2. CASE Deactivate
    BY <2>1, <2>2 DEF Deactivate, Stored
  <2>3. ASSUME NEW p \in Definitions, PutPlaylist(p)
        PROVE  /\ Stored' /\ events' = events + 1 /\ events < MaxEvents
               /\ UNCHANGED <<active, decision, runtime, saved, shown, played, restores>>
    BY <2>1, <2>3 DEF PutPlaylist, Stored
  <2>4. ASSUME NEW missing \in SUBSET Wallpapers, SetUnavailable(missing)
        PROVE  /\ Stored' /\ events' = events + 1 /\ events < MaxEvents
               /\ UNCHANGED <<active, decision, runtime, saved, shown, played, restores>>
    BY <2>1, <2>4 DEF SetUnavailable, Stored
  <2>5. events < MaxEvents => events + 1 \in 0 .. MaxEvents
    BY <2>1
  <2>6. QED
    BY <2>1, <2>2, <2>3, <2>4, <2>5
<1>2. TypeOK' /\ Placed(runtime)'
  <2>1. decision' \in Decisions \cup {None} /\ (saved' = None \/ Placed(saved'))
    BY <1>1, Kinds DEF Inv, TypeOK
  <2>2. QED
    BY <1>1, <2>1, Kinds, TypesOfNext
<1>3. PlayingIsCounted' /\ SavedIsCounted' /\ ChoiceIsSaved'
  BY <1>1 DEF Inv, PlayingIsCounted, SavedIsCounted, ChoiceIsSaved
<1>4. QED
  BY <1>2, <1>3 DEF Inv

LEMMA PauseResumeKeepsInv ==
  ASSUME Inv, Pause \/ Resume PROVE Inv'
<1>1. Stored /\ Placed(runtime)
  BY Kinds
<1>2. /\ Placed(runtime') /\ runtime'.history = runtime.history
      /\ runtime'.id # None => runtime.id # None /\ Remaining(runtime') = Remaining(runtime)
  <2>1. CASE Pause
    <3>1. runtime' = PausedAt(runtime)
      BY <2>1 DEF Pause
    <3>2. QED
      BY <1>1, <3>1, PausedKinds
  <2>2. CASE Resume
    <3>1. runtime' = ResumedAt(runtime)
      BY <2>2 DEF Resume
    <3>2. QED
      BY <1>1, <3>1, ResumedKinds
  <2>3. QED
    BY <2>1, <2>2
<1>3. /\ events' \in 0 .. MaxEvents
      /\ UNCHANGED <<playlist, unavailable, active, decision, saved, shown, played, restores>>
  BY Kinds DEF Pause, Resume
<1>4. TypeOK' /\ Placed(runtime)'
  <2>1. Stored' /\ decision' \in Decisions \cup {None} /\ (saved' = None \/ Placed(saved'))
    BY <1>1, <1>3, Kinds DEF Inv, TypeOK, Stored
  <2>2. QED
    BY <1>2, <1>3, <2>1, Kinds, TypesOfNext
<1>5. PlayingIsCounted'
  BY <1>2, <1>3 DEF Inv, PlayingIsCounted, AtLeast, Exactly
<1>6. SavedIsCounted' /\ ChoiceIsSaved'
  BY <1>3 DEF Inv, SavedIsCounted, ChoiceIsSaved
<1>7. QED
  BY <1>4, <1>5, <1>6 DEF Inv

LEMMA CrashShutdownKeepsInv ==
  ASSUME Inv, Crash \/ Shutdown PROVE Inv'
<1>1. Stored /\ Placed(runtime)
  BY Kinds
<1>2. /\ restores < MaxRestores /\ restores' = restores + 1 /\ decision' = None
      /\ runtime' = IF active /\ saved' # None THEN Restored(saved') ELSE Fresh
      /\ UNCHANGED <<playlist, unavailable, active, shown, played, events>>
  <2>1. CASE Crash
    BY <2>1 DEF Crash, Reload
  <2>2. CASE Shutdown
    BY <2>2 DEF Shutdown, Reload
  <2>3. QED
    BY <2>1, <2>2
<1>3. saved' = saved \/ (active /\ saved' = Snapshot(runtime))
  BY DEF Crash, Shutdown
<1>4. restores' \in 0 .. MaxRestores /\ restores' >= 1 /\ (saved # None => ~(restores' <= 1))
  BY <1>2, Kinds DEF Inv, SavedIsCounted
<1>5. saved' # None =>
        Placed(saved') /\ saved'.history = played /\ AtLeast(saved', shown)
  <2>1. CASE saved' = saved
    BY <2>1 DEF Inv, SavedIsCounted
  <2>2. CASE active /\ saved' = Snapshot(runtime)
    <3>1. runtime.history = played /\ AtLeast(runtime, shown)
      BY <2>2 DEF Inv, PlayingIsCounted
    <3>2. SamePosition(saved', runtime)
      BY <1>1, <2>2, SnapshotKinds
    <3>3. QED
      BY <3>1, <3>2 DEF SamePosition, AtLeast
  <2>3. QED
    BY <1>3, <2>1, <2>2
<1>6. active => saved # None /\ saved' # None
  <2>1. active => saved # None
    BY DEF Inv, PlayingIsCounted
  <2>2. Placed(Snapshot(runtime))
    BY <1>1, SnapshotKinds DEF SamePosition
  <2>3. QED
    BY <1>3, <2>1, <2>2, NoneIsApart DEF Placed
<1>7. /\ Placed(runtime')
      /\ active => runtime'.history = played /\ AtLeast(runtime', shown)
  <2>1. CASE active
    <3>1. runtime' = Reconciled(saved')
      BY <1>2, <1>6, <2>1 DEF Restored
    <3>2. QED
      BY <1>1, <1>5, <1>6, <2>1, <3>1, MovedKeepsTime
  <2>2. CASE ~active
    BY <1>2, <2>2, FreshKinds
  <2>3. QED
    BY <2>1, <2>2
<1>8. TypeOK' /\ Placed(runtime)'
  <2>1. Stored' /\ active' \in BOOLEAN /\ decision' \in Decisions \cup {None}
    BY <1>1, <1>2, Kinds DEF Stored
  <2>2. shown' \in 0 .. Duration /\ played' \in SUBSET Wallpapers /\ events' \in 0 .. MaxEvents
    BY <1>2, Kinds
  <2>3. QED
    BY <1>4, <1>5, <1>7, <2>1, <2>2, TypesOfNext
<1>9. PlayingIsCounted'
  BY <1>2, <1>4, <1>6, <1>7 DEF PlayingIsCounted
<1>10. SavedIsCounted'
  <2>1. saved' = None => played = {}
    BY <1>3, <1>6 DEF Inv, SavedIsCounted
  <2>2. QED
    BY <1>2, <1>4, <1>5, <2>1 DEF SavedIsCounted
<1>11. ChoiceIsSaved'
  BY <1>2 DEF ChoiceIsSaved
<1>12. QED
  BY <1>8, <1>9, <1>10, <1>11 DEF Inv

LEMMA PassKeepsInv ==
  ASSUME Inv, Pass PROVE Inv'
<1>1. /\ Stored /\ Placed(runtime) /\ runtime \in TypeOfRuntime /\ shown \in 0 .. Duration
      /\ Duration \in Nat \ {0}
  BY Kinds DEF Placed
<1>2. /\ runtime' = IF runtime.left \in {None, 0} THEN runtime
                    ELSE [runtime EXCEPT !.left = runtime.left - 1]
      /\ shown' = IF active /\ runtime.id # None /\ runtime.pausedLeft = None /\ shown < Duration
                    THEN shown + 1 ELSE shown
      /\ UNCHANGED <<playlist, unavailable, active, decision, saved, played, events, restores>>
  BY DEF Pass
<1>3. shown' \in 0 .. Duration /\ shown' >= shown
  BY <1>1, <1>2
<1>4. /\ runtime' \in TypeOfRuntime
      /\ runtime'.index = runtime.index /\ runtime'.id = runtime.id
      /\ runtime'.pausedLeft = runtime.pausedLeft /\ runtime'.history = runtime.history
      /\ runtime'.left = IF runtime.left \in {None, 0} THEN runtime.left ELSE runtime.left - 1
  <2>1. CASE runtime.left \in {None, 0}
    BY <1>1, <1>2, <2>1
  <2>2. CASE runtime.left \notin {None, 0}
    <3>1. runtime.left \in 0 .. Duration /\ runtime.left # 0
      BY <1>1, <2>2, TypeOfFields
    <3>2. runtime.left - 1 \in 0 .. Duration
      BY <1>1, <3>1
    <3>3. runtime' = [runtime EXCEPT !.left = runtime.left - 1]
      BY <1>2, <2>2
    <3>4. runtime' \in TypeOfRuntime
      BY <1>1, <3>2, <3>3 DEF TypeOfRuntime
    <3>5. /\ runtime'.index = runtime.index /\ runtime'.id = runtime.id
          /\ runtime'.pausedLeft = runtime.pausedLeft /\ runtime'.history = runtime.history
          /\ runtime'.left = runtime.left - 1
      BY <1>1, <3>3 DEF TypeOfRuntime
    <3>6. QED
      BY <2>2, <3>4, <3>5
  <2>3. QED
    BY <2>1, <2>2
<1>5. runtime'.left = None <=> runtime.left = None
  <2>1. CASE runtime.left \in {None, 0}
    BY <1>4, <2>1
  <2>2. CASE runtime.left \notin {None, 0}
    <3>1. runtime.left \in 0 .. Duration /\ runtime.left # 0
      BY <1>1, <2>2, TypeOfFields
    <3>2. runtime.left - 1 \in 0 .. Duration
      BY <1>1, <3>1
    <3>3. QED
      BY <1>4, <2>2, <3>2, NoneIsApart
  <2>3. QED
    BY <2>1, <2>2
<1>6. Placed(runtime')
  BY <1>1, <1>4, <1>5 DEF Placed
<1>7. ASSUME active
      PROVE  /\ AtLeast(runtime, shown) => AtLeast(runtime', shown')
             /\ Exactly(runtime, shown) => Exactly(runtime', shown')
  <2>1. CASE runtime.id = None
    BY <1>4, <2>1 DEF AtLeast, Exactly
  <2>2. CASE runtime.id # None /\ runtime.pausedLeft # None
    <3>1. shown' = shown /\ Remaining(runtime') = Remaining(runtime)
      BY <1>2, <1>4, <2>2 DEF Remaining
    <3>2. QED
      BY <1>4, <3>1 DEF AtLeast, Exactly
  <2>3. CASE runtime.id # None /\ runtime.pausedLeft = None
    <3>1. runtime.left \in 0 .. Duration
      BY <1>1, <2>3, TypeOfFields DEF Placed
    <3>2. Remaining(runtime) = runtime.left /\ Remaining(runtime') = runtime'.left
      BY <1>4, <2>3 DEF Remaining
    <3>3. runtime.left # None
      BY <3>1, NoneIsApart
    <3>4. runtime'.left = IF runtime.left = 0 THEN 0 ELSE runtime.left - 1
      BY <1>4, <3>3
    <3>5. shown' = IF shown < Duration THEN shown + 1 ELSE shown
      BY <1>2, <1>7, <2>3
    <3>6. /\ runtime.left >= Duration - shown => runtime'.left >= Duration - shown'
          /\ runtime.left = Duration - shown => runtime'.left = Duration - shown'
      BY <1>1, <3>1, <3>4, <3>5
    <3>7. QED
      BY <2>3, <3>2, <3>6 DEF AtLeast, Exactly
  <2>4. QED
    BY <2>1, <2>2, <2>3
<1>8. TypeOK' /\ Placed(runtime)'
  <2>1. /\ Stored' /\ active' \in BOOLEAN /\ decision' \in Decisions \cup {None}
        /\ saved' = None \/ Placed(saved')
    BY <1>1, <1>2, Kinds DEF Inv, TypeOK, Stored
  <2>2. played' \in SUBSET Wallpapers /\ events' \in 0 .. MaxEvents
        /\ restores' \in 0 .. MaxRestores
    BY <1>2, Kinds
  <2>3. QED
    BY <1>3, <1>6, <2>1, <2>2, TypesOfNext
<1>9. PlayingIsCounted'
  BY <1>2, <1>4, <1>7 DEF Inv, PlayingIsCounted
<1>10. SavedIsCounted'
  <2>1. ASSUME saved # None, AtLeast(saved, shown) PROVE AtLeast(saved, shown')
    <3>1. CASE saved.id # None
      <4>1. Remaining(saved) \in 0 .. Duration
        BY <2>1, <3>1, Kinds, RemainingType
      <4>2. Remaining(saved) >= Duration - shown
        BY <2>1, <3>1 DEF AtLeast
      <4>3. Remaining(saved) >= Duration - shown'
        BY <1>1, <1>3, <4>1, <4>2
      <4>4. QED
        BY <4>3 DEF AtLeast
    <3>2. CASE saved.id = None
      BY <3>2 DEF AtLeast
    <3>3. QED
      BY <3>1, <3>2
  <2>2. QED
    BY <1>2, <2>1 DEF Inv, SavedIsCounted
<1>11. ChoiceIsSaved'
  BY <1>2 DEF Inv, ChoiceIsSaved
<1>12. QED
  BY <1>8, <1>9, <1>10, <1>11 DEF Inv

LEMMA NextKeepsInv ==
  ASSUME Inv, [Next]_vars PROVE Inv'
<1>1. CASE Next
  BY <1>1, TickKeepsInv, ActivateKeepsInv, CommandsKeepInv, PauseResumeKeepsInv,
     CrashShutdownKeepsInv, PassKeepsInv DEF Next
<1>2. CASE UNCHANGED vars
  BY <1>2 DEF vars, Inv, TypeOK, Placed, PlayingIsCounted, SavedIsCounted, ChoiceIsSaved,
     AtLeast, Exactly
<1>3. QED
  BY <1>1, <1>2

LEMMA Invariance == Spec => []Inv
<1>1. Init => Inv
  BY InitInv
<1>2. Inv /\ [Next]_vars => Inv'
  BY NextKeepsInv
<1>3. QED
  BY <1>1, <1>2, PTL DEF Spec

-----------------------------------------------------------------------------
(* The theorems.                                                           *)

\* However a playlist is paused, resumed and edited, the entry on screen has what
\* its duration leaves it, and a restart or a reactivation only gives time back.
THEOREM TimesAreKept == Spec => []TimeIsKept
<1>1. Inv => TimeIsKept
  BY DEF Inv, PlayingIsCounted, AtLeast, Exactly, TimeIsKept
<1>2. QED
  BY <1>1, Invariance, PTL

\* Only a tick chooses an entry while nothing is restored.
LEMMA ChoosesByTick ==
  ASSUME Inv, [Next]_vars, Chooses
  PROVE  LET r == Reconciled(runtime) IN
         /\ Moved(r, runtime)
         /\ runtime.history = played /\ AtLeast(runtime, shown)
         /\ Chosen(Ticked(runtime), r, "advanced")
         /\ runtime' = Ticked(runtime).runtime
         /\ r.id # None /\ r.id \notin unavailable => Remaining(r) = 0
<1> DEFINE r == Reconciled(runtime)
           result == Ticked(runtime)
<1>1. Stored /\ Placed(runtime) /\ restores \in Nat
  BY Kinds
<1>2. Moved(r, runtime)
  BY <1>1, ReconciledKinds
<1>3. restores' = restores /\ runtime'.seed # runtime.seed
  BY DEF Chooses
<1>4. ASSUME runtime' = runtime PROVE FALSE
  BY <1>3, <1>4
<1>5. ~UNCHANGED vars
  BY <1>4 DEF vars
<1>6. ~Activate /\ ~Crash /\ ~Shutdown
  BY <1>1, <1>3 DEF Activate, Crash, Shutdown, Reload
<1>7. /\ ~Deactivate /\ ~(\E p \in Definitions : PutPlaylist(p))
      /\ ~(\E missing \in SUBSET Wallpapers : SetUnavailable(missing))
  BY <1>4 DEF Deactivate, PutPlaylist, SetUnavailable
<1>8. ~Pause /\ ~Resume
  BY <1>1, <1>3, PausedKinds, ResumedKinds DEF Pause, Resume
<1>9. ~Pass
  <2>1. runtime \in TypeOfRuntime
    BY <1>1 DEF Placed
  <2>2. [runtime EXCEPT !.left = runtime.left - 1].seed = runtime.seed
    BY <2>1 DEF TypeOfRuntime
  <2>3. QED
    BY <1>3, <2>2 DEF Pass
<1>10. Tick
  BY <1>5, <1>6, <1>7, <1>8, <1>9 DEF Next
<1>11. active /\ runtime' = result.runtime
  BY <1>10 DEF Tick, Follow
<1>12. runtime.history = played /\ AtLeast(runtime, shown)
  BY <1>11 DEF Inv, PlayingIsCounted
<1>13. r \in TypeOfRuntime /\ r.seed = runtime.seed
  BY <1>2 DEF Moved, Placed
<1>14. ~Waits(result, r)
  BY <1>3, <1>11, <1>13 DEF Waits
<1>15. ~Emptied(result, r)
  BY <1>3, <1>11, <1>13, ClearedKinds DEF Emptied
<1>16. /\ Chosen(result, r, "advanced")
       /\ r.id # None /\ r.id \notin unavailable => Remaining(r) = 0
  BY <1>1, <1>14, <1>15, TickedKinds
<1>17. QED
  BY <1>2, <1>11, <1>12, <1>16

\* The entry on screen leaves it early only when it is gone or unavailable.
THEOREM EntriesAreNotCutShort == Spec => NeverCutShort
<1> DEFINE Early == Chooses /\ runtime.id \in Ids(playlist) \ unavailable => shown = Duration
<1>1. ASSUME Inv, [Next]_vars PROVE Early
  <2>1. SUFFICES ASSUME Chooses, runtime.id \in Ids(playlist) \ unavailable
                 PROVE  shown = Duration
    OBVIOUS
  <2> DEFINE r == Reconciled(runtime)
  <2>2. /\ Moved(r, runtime) /\ AtLeast(runtime, shown)
        /\ r.id # None /\ r.id \notin unavailable => Remaining(r) = 0
    BY <1>1, <2>1, ChoosesByTick
  <2> HIDE DEF r
  <2>3. r.id = runtime.id /\ r.id # None /\ Remaining(r) = Remaining(runtime)
    BY <2>1, <2>2 DEF Moved, Remaining
  <2>4. 0 >= Duration - shown
    BY <2>1, <2>2, <2>3 DEF AtLeast
  <2>5. QED
    BY <1>1, <2>4, Kinds
<1>2. Inv /\ [Next]_vars => [Early]_vars
  BY <1>1
<1>3. QED
  BY <1>2, Invariance, PTL DEF Spec, NeverCutShort

\* With repeat off no entry is played twice, whatever crashed in between.
THEOREM EntriesAreNotReplayed == Spec => NothingReplayed
<1> DEFINE New == Chooses /\ ~playlist.repeat => runtime'.id \notin played
<1>1. ASSUME Inv, [Next]_vars PROVE New
  <2>1. SUFFICES ASSUME Chooses, ~playlist.repeat PROVE runtime'.id \notin played
    OBVIOUS
  <2> DEFINE r == Reconciled(runtime)
  <2>2. /\ Moved(r, runtime) /\ runtime.history = played
        /\ Chosen(Ticked(runtime), r, "advanced") /\ runtime' = Ticked(runtime).runtime
    BY <1>1, <2>1, ChoosesByTick
  <2>3. r.history = played /\ runtime'.id \notin Excluded(r)
    BY <2>2 DEF Moved, Chosen
  <2>4. QED
    BY <2>1, <2>3 DEF Excluded
<1>2. Inv /\ [Next]_vars => [New]_vars
  BY <1>1
<1>3. QED
  BY <1>2, Invariance, PTL DEF Spec, NothingReplayed

\* A shuffle plays the same entry again only when there is no other.
THEOREM EntriesAreNotRepeated == Spec => NoImmediateRepeat
<1> DEFINE Alone == Chooses /\ playlist.shuffle /\ runtime'.id = runtime.id
                      => Ids(playlist) \ unavailable = {runtime.id}
<1>1. ASSUME Inv, [Next]_vars PROVE Alone
  <2>1. SUFFICES ASSUME Chooses, playlist.shuffle, runtime'.id = runtime.id
                 PROVE  Ids(playlist) \ unavailable = {runtime.id}
    OBVIOUS
  <2> DEFINE r == Reconciled(runtime)
             eligible == Eligible(playlist, Excluded(r))
  <2>2. /\ Moved(r, runtime) /\ Chosen(Ticked(runtime), r, "advanced")
        /\ runtime' = Ticked(runtime).runtime
    BY <1>1, <2>1, ChoosesByTick
  <2>3. Stored /\ r.seed \in 0 .. 1
    BY <1>1, <2>2, Kinds, TypeOfFields DEF Moved, Placed
  <2> HIDE DEF r
  <2>4. /\ runtime'.index = NextEligible(playlist, r.index, r.seed, Excluded(r))
        /\ runtime'.index \in DOMAIN playlist.entries
        /\ playlist.entries[runtime'.index] = runtime'.id
        /\ runtime'.id \in Ids(playlist) \ Excluded(r)
    BY <2>2 DEF Chosen
  <2>5. r.id # None /\ r.id = runtime.id
    BY <2>1, <2>2, <2>4 DEF Moved
  <2>6. r.index \in DOMAIN playlist.entries /\ playlist.entries[r.index] = runtime.id
    BY <2>2, <2>5 DEF Moved
  <2>7. runtime'.index = r.index
    BY <2>1, <2>3, <2>4, <2>6, DefinitionsAreValid DEF Stored
  <2>8. 0 \notin DOMAIN playlist.entries
        /\ (playlist.shuffle /\ runtime'.index # 0 /\ runtime'.index = r.index =>
              playlist.repeat /\ eligible \subseteq {r.index})
    BY <2>3, <2>4, NextIsEligible DEF Stored
  <2>9. playlist.repeat /\ eligible \subseteq {r.index}
    BY <2>1, <2>4, <2>7, <2>8
  <2>10. Excluded(r) = unavailable
    BY <2>9 DEF Excluded
  <2>11. ASSUME NEW w \in Ids(playlist) \ unavailable PROVE w = runtime.id
    <3>1. PICK i \in DOMAIN playlist.entries : playlist.entries[i] = w
      BY DEF Ids
    <3>2. i \in eligible
      BY <2>10, <3>1 DEF Eligible
    <3>3. QED
      BY <2>6, <2>9, <3>1, <3>2
  <2>12. runtime.id \in Ids(playlist) \ unavailable
    BY <2>1, <2>4, <2>10
  <2>13. QED
    BY <2>11, <2>12
<1>2. Inv /\ [Next]_vars => [Alone]_vars
  BY <1>1
<1>3. QED
  BY <1>2, Invariance, PTL DEF Spec, NoImmediateRepeat

\* A shuffle gives up with "exhausted" only when its history has every entry that
\* could be played.
LEMMA EmptiedIsExhausted ==
  ASSUME Stored, NEW r, Placed(r), NEW result, Emptied(result, r),
         result.decision.state = "exhausted", playlist.shuffle,
         r.id # None => playlist.entries[r.index] = r.id
  PROVE  Ids(playlist) \ unavailable \subseteq r.history
<1> DEFINE eligible == Eligible(playlist, Excluded(r))
<1>1. EmptyState(r) = "exhausted"
  BY DEF Emptied
<1>2. ~playlist.repeat
  BY <1>1 DEF EmptyState
<1>3. Excluded(r) = unavailable \cup r.history
  BY <1>2 DEF Excluded
<1>4. r.seed \in 0 .. 1
  BY TypeOfFields DEF Placed
<1>5. 0 \notin DOMAIN playlist.entries /\ eligible \subseteq {r.index}
  <2>1. 0 = NextEligible(playlist, r.index, r.seed, Excluded(r))
    BY DEF Emptied
  <2>2. QED
    BY <1>4, <2>1, NextIsEligible DEF Stored
<1>6. SUFFICES ASSUME NEW w \in Ids(playlist) \ unavailable PROVE w \in r.history
  OBVIOUS
<1>7. PICK i \in DOMAIN playlist.entries : playlist.entries[i] = w
  BY DEF Ids
<1>8. CASE w \notin r.history
  <2>1. i \in eligible
    BY <1>3, <1>7, <1>8 DEF Eligible
  <2>2. r.index = i /\ i # 0
    BY <1>5, <1>7, <2>1
  <2>3. r.id # None /\ r.id = w
    BY <1>7, <2>2 DEF Placed
  <2>4. QED
    BY <2>3 DEF Placed
<1>9. QED
  BY <1>8

\* A shuffle with repeat off reports that it is exhausted only when every entry
\* that can be played has been.
THEOREM ExhaustionIsTrue == Spec => ExhaustedIsTrue
<1> DEFINE Honest ==
             decision' # decision /\ decision' # None /\ decision'.state = "exhausted"
               /\ playlist.shuffle => Ids(playlist) \ unavailable \subseteq played
<1>1. ASSUME Inv, [Next]_vars PROVE Honest
  <2>1. SUFFICES ASSUME decision' # decision, decision' # None,
                        decision'.state = "exhausted", playlist.shuffle
                 PROVE  Ids(playlist) \ unavailable \subseteq played
    OBVIOUS
  <2>2. Stored /\ Placed(runtime) /\ (saved # None => Placed(saved))
    BY <1>1, Kinds
  <2>3. ASSUME NEW old, Placed(old), old.history = played, decision' = Ticked(old).decision
        PROVE  Ids(playlist) \ unavailable \subseteq played
    <3> DEFINE r == Reconciled(old)
               result == Ticked(old)
    <3>1. Moved(r, old)
      BY <2>2, <2>3, ReconciledKinds
    <3>2. Waits(result, r) \/ Chosen(result, r, "advanced") \/ Emptied(result, r)
      BY <2>2, <2>3, TickedKinds
    <3>3. result.decision.state = "exhausted"
      BY <2>1, <2>3
    <3> HIDE DEF r, result
    <3>4. Emptied(result, r)
      BY <3>2, <3>3 DEF Waits, Chosen
    <3>5. Ids(playlist) \ unavailable \subseteq r.history
      BY <2>1, <2>2, <3>1, <3>3, <3>4, EmptiedIsExhausted DEF Moved
    <3>6. QED
      BY <2>3, <3>1, <3>5 DEF Moved
  <2>4. CASE Tick
    <3>1. runtime.history = played
      BY <1>1, <2>4 DEF Inv, PlayingIsCounted, Tick
    <3>2. decision' = Ticked(runtime).decision
      BY <2>4 DEF Tick, Follow
    <3>3. QED
      BY <2>2, <2>3, <3>1, <3>2
  <2>5. CASE Activate
    <3>1. CASE saved # None
      <4>1. Placed(Restored(saved)) /\ Restored(saved).history = played
        BY <1>1, <2>2, <3>1, ReconciledKinds DEF Restored, Moved, Inv, SavedIsCounted
      <4>2. decision' = Ticked(Restored(saved)).decision
        BY <2>5, <3>1 DEF Activate, Follow
      <4>3. QED
        BY <2>3, <4>1, <4>2
    <3>2. CASE saved = None
      <4> DEFINE r == [Cleared(runtime) EXCEPT !.history = {}]
                 result == Select(r, "started")
      <4>1. decision' = result.decision
        BY <2>5, <3>2 DEF Activate, Follow, Started
      <4>2. Cleared(runtime) \in TypeOfRuntime /\ Placed(Cleared(runtime))
            /\ Cleared(runtime).id = None
        BY <2>2, ClearedKinds DEF Placed
      <4>3. r \in TypeOfRuntime
        BY <4>2 DEF TypeOfRuntime
      <4>4. /\ r.index = Cleared(runtime).index /\ r.id = Cleared(runtime).id
            /\ r.left = Cleared(runtime).left /\ r.pausedLeft = Cleared(runtime).pausedLeft
            /\ r.history = {}
        BY <4>2 DEF TypeOfRuntime
      <4> HIDE DEF r
      <4>5. Placed(r)
        BY <4>2, <4>3, <4>4 DEF Placed
      <4>6. Chosen(result, r, "started") \/ Emptied(result, r)
        BY <2>2, <4>5, SelectKinds
      <4>7. result.decision.state # "exhausted"
        BY <4>4, <4>6 DEF Chosen, Emptied, EmptyState
      <4>8. QED
        BY <2>1, <4>1, <4>7
    <3>3. QED
      BY <3>1, <3>2
  <2>6. CASE ~Tick /\ ~Activate
    <3>1. decision' = decision \/ decision' = None
      BY <1>1, <2>6 DEF Next, vars, Deactivate, PutPlaylist, SetUnavailable, Pause, Resume,
                        Crash, Shutdown, Reload, Pass
    <3>2. QED
      BY <2>1, <3>1
  <2>7. QED
    BY <2>4, <2>5, <2>6
<1>2. Inv /\ [Next]_vars => [Honest]_vars
  BY <1>1
<1>3. QED
  BY <1>2, Invariance, PTL DEF Spec, ExhaustedIsTrue

=============================================================================
