--------------------------- MODULE PlaybackQueueProofs ---------------------------
(***************************************************************************)
(* Proofs about PlaybackQueue, for any clients, sessions and bounds.       *)
(*                                                                         *)
(* What the queue's own state has to be (QueueIsConsistent) is inductive   *)
(* but for three facts: identifiers rise along a queue and behind the item *)
(* that was handed out (InOrder), an item to be stopped is an old one      *)
(* (StopsAreOld), and a session has one tombstone (TombstonesAreUnique).   *)
(***************************************************************************)
EXTENDS PlaybackQueue, SequenceLemmas

(***************************************************************************)
(* The inductive invariant                                                 *)
(***************************************************************************)
InOrder ==
    \A c \in Clients :
       /\ \A i, j \in DOMAIN queued[c] : i < j => queued[c][i] < queued[c][j]
       /\ active[c] # NoItem => \A i \in DOMAIN queued[c] : active[c] < queued[c][i]

StopsAreOld ==
    \A c \in Clients : \A i \in DOMAIN commands[c] : commands[c][i] <= playback_ids

TombstonesAreUnique ==
    \A i, j \in DOMAIN cancelled_through :
       cancelled_through[i].session = cancelled_through[j].session => i = j

QueueInv ==
    /\ QueueIsConsistent
    /\ IsFiniteSet(issued)
    /\ InOrder
    /\ StopsAreOld
    /\ TombstonesAreUnique

(***************************************************************************)
(* The operators                                                           *)
(***************************************************************************)

(* popleft until the bound is met keeps an end of the sequence.            *)
LEMMA NewestIsTail ==
    ASSUME NEW S, NEW seq \in Seq(S), NEW limit \in Nat
    PROVE  /\ Newest(seq, limit) \in Seq(S)
           /\ Len(Newest(seq, limit)) <= limit
           /\ \E k \in Nat :
                 /\ Len(Newest(seq, limit)) + k = Len(seq)
                 /\ \A i \in DOMAIN Newest(seq, limit) :
                       i + k \in DOMAIN seq /\ Newest(seq, limit)[i] = seq[i + k]
<1>1. Len(seq) \in Nat /\ DOMAIN seq = 1 .. Len(seq)
  BY LenProperties
<1>2. CASE Len(seq) <= limit
  <2>1. Newest(seq, limit) = seq
    BY <1>2 DEF Newest
  <2>2. \A i \in DOMAIN seq : i + 0 \in DOMAIN seq /\ seq[i] = seq[i + 0]
    BY <1>1
  <2>3. 0 \in Nat /\ Len(seq) + 0 = Len(seq)
    BY <1>1
  <2> QED  BY ONLY seq \in Seq(S), <1>2, <2>1, <2>2, <2>3
<1>3. CASE ~(Len(seq) <= limit)
  <2> DEFINE k == Len(seq) - limit
             new == SubSeq(seq, k + 1, Len(seq))
  <2>1. k \in Nat /\ k + 1 \in Int /\ Len(seq) \in Int /\ Newest(seq, limit) = new
    BY <1>1, <1>3 DEF Newest
  <2>2. \A i \in k + 1 .. Len(seq) : seq[i] \in S
    BY <1>1, <2>1, ElementOfSeq
  <2>3. /\ new \in Seq(S)
        /\ Len(new) = IF k + 1 <= Len(seq) THEN Len(seq) - (k + 1) + 1 ELSE 0
        /\ \A i \in 1 .. Len(seq) - (k + 1) + 1 : new[i] = seq[k + 1 + i - 1]
    <3> HIDE DEF k
    <3> QED  BY <2>1, <2>2, SubSeqProperties
  <2> HIDE DEF new
  <2>4. DOMAIN new = 1 .. Len(new)
    BY <2>3, LenProperties
  <2>5. Len(new) = limit
    BY <1>1, <1>3, <2>3
  <2>6. Len(seq) - (k + 1) + 1 = limit /\ Len(new) + k = Len(seq) /\ Len(new) <= limit
    BY <1>1, <1>3, <2>3, <2>5
  <2>7. \A i \in 1 .. limit : i + k \in 1 .. Len(seq) /\ k + 1 + i - 1 = i + k
    BY <1>1, <1>3
  <2>8. \A i \in DOMAIN new : i + k \in DOMAIN seq /\ new[i] = seq[i + k]
    BY <1>1, <2>3, <2>4, <2>5, <2>6, <2>7
  <2> HIDE DEF k
  <2> QED  BY <2>1, <2>3, <2>6, <2>8
<1> QED  BY <1>2, <1>3

LEMMA ElementsOfConcat ==
    ASSUME NEW S, NEW s \in Seq(S), NEW t \in Seq(S)
    PROVE  /\ s \o t \in Seq(S)
           /\ ElementsOf(s \o t) = ElementsOf(s) \cup ElementsOf(t)
<1>1. /\ s \o t \in Seq(S) /\ Len(s \o t) = Len(s) + Len(t)
      /\ \A i \in 1 .. Len(s) + Len(t) :
            (s \o t)[i] = IF i <= Len(s) THEN s[i] ELSE t[i - Len(s)]
  BY ConcatProperties
<1> DEFINE st == s \o t
<1>2. /\ Len(s) \in Nat /\ DOMAIN s = 1 .. Len(s)
      /\ Len(t) \in Nat /\ DOMAIN t = 1 .. Len(t)
      /\ DOMAIN st = 1 .. Len(s) + Len(t)
  <2> HIDE DEF st
  <2>1. DOMAIN st = 1 .. Len(st)
    BY <1>1, LenProperties DEF st
  <2> QED  BY <1>1, <2>1, LenProperties DEF st
<1> HIDE DEF st
<1>3. \A i \in DOMAIN s : i \in DOMAIN st /\ st[i] = s[i]
  BY <1>1, <1>2 DEF st
<1>4. \A i \in DOMAIN t : i + Len(s) \in DOMAIN st /\ st[i + Len(s)] = t[i]
  BY <1>1, <1>2 DEF st
<1>5. \A i \in DOMAIN st : (i \in DOMAIN s /\ st[i] = s[i])
                           \/ (i - Len(s) \in DOMAIN t /\ st[i] = t[i - Len(s)])
  BY <1>1, <1>2 DEF st
<1>6. ElementsOf(st) = ElementsOf(s) \cup ElementsOf(t)
  BY <1>3, <1>4, <1>5 DEF ElementsOf
<1> QED  BY <1>1, <1>6 DEF st

LEMMA LiveItemsAreItems ==
    LiveItems \subseteq DOMAIN items
BY DEF LiveItems

(* What ending the items gone does to the state, whatever their order.     *)
Ended(gone, state) ==
    /\ DOMAIN items' \subseteq DOMAIN items
    /\ \A p \in DOMAIN items' :
          items'[p] = IF p \in gone THEN [items[p] EXCEPT !.state = state] ELSE items[p]
    /\ LiveItems' = LiveItems \ gone
    /\ terminal_ids' \in Seq(Nat)
    /\ FinishedItemsAreBounded'

LEMMA SetTerminalEnds ==
    ASSUME TypeOK, FinishedItemsAreBounded,
           NEW ids \in Seq(Nat), ElementsOf(ids) \subseteq LiveItems,
           \A i, j \in DOMAIN ids : ids[i] = ids[j] => i = j,
           NEW state \in TerminalStates, SetTerminal(ids, state)
    PROVE  Ended(ElementsOf(ids), state)
<1> DEFINE finished == terminal_ids \o ids
           kept == Newest(finished, MaxTerminal)
           expired == ElementsOf(finished) \ ElementsOf(kept)
           gone == ElementsOf(ids)
<1>1. /\ terminal_ids' = kept
      /\ items' = [p \in DOMAIN items \ expired |->
                      IF p \in gone THEN [items[p] EXCEPT !.state = state] ELSE items[p]]
  BY DEF SetTerminal
<1>2. terminal_ids \in Seq(Nat) /\ MaxTerminal \in Nat
  BY QueueBoundsArePositive DEF TypeOK
<1>3. finished \in Seq(Nat) /\ ElementsOf(finished) = ElementsOf(terminal_ids) \cup gone
  BY <1>2, ElementsOfConcat
<1>4. \A i, j \in DOMAIN finished : finished[i] = finished[j] => i = j
  <2>1. /\ DOMAIN terminal_ids = 1 .. Len(terminal_ids) /\ Len(terminal_ids) \in Nat
        /\ DOMAIN ids = 1 .. Len(ids) /\ Len(ids) \in Nat
        /\ Len(finished) = Len(terminal_ids) + Len(ids)
        /\ DOMAIN finished = 1 .. Len(finished)
        /\ \A i \in 1 .. Len(terminal_ids) + Len(ids) :
              finished[i] = IF i <= Len(terminal_ids) THEN terminal_ids[i]
                            ELSE ids[i - Len(terminal_ids)]
    <3>1. DOMAIN finished = 1 .. Len(finished)
      BY <1>3, LenProperties
    <3> QED  BY <1>2, <3>1, LenProperties, ConcatProperties
  <2>2. \A i \in DOMAIN terminal_ids, j \in DOMAIN ids : terminal_ids[i] # ids[j]
    BY DEF FinishedItemsAreBounded, ElementsOf
  <2> SUFFICES ASSUME NEW i \in DOMAIN finished, NEW j \in DOMAIN finished,
                      finished[i] = finished[j]
               PROVE  i = j
    OBVIOUS
  <2> HIDE DEF finished
  <2>3. CASE i <= Len(terminal_ids) /\ j <= Len(terminal_ids)
    <3>1. i \in DOMAIN terminal_ids /\ j \in DOMAIN terminal_ids
      BY <2>1, <2>3
    <3>2. finished[i] = terminal_ids[i] /\ finished[j] = terminal_ids[j]
      BY <2>1, <2>3
    <3> QED  BY <3>1, <3>2 DEF FinishedItemsAreBounded
  <2>4. CASE ~(i <= Len(terminal_ids)) /\ ~(j <= Len(terminal_ids))
    <3>1. i - Len(terminal_ids) \in DOMAIN ids /\ j - Len(terminal_ids) \in DOMAIN ids
      BY <2>1, <2>4
    <3>2. finished[i] = ids[i - Len(terminal_ids)] /\ finished[j] = ids[j - Len(terminal_ids)]
      BY <2>1, <2>4
    <3>3. i - Len(terminal_ids) = j - Len(terminal_ids)
      BY <3>1, <3>2
    <3> QED  BY <2>1, <3>3
  <2>5. CASE i <= Len(terminal_ids) /\ ~(j <= Len(terminal_ids))
    <3>1. i \in DOMAIN terminal_ids /\ j - Len(terminal_ids) \in DOMAIN ids
      BY <2>1, <2>5
    <3>2. finished[i] = terminal_ids[i] /\ finished[j] = ids[j - Len(terminal_ids)]
      BY <2>1, <2>5
    <3> QED  BY <2>2, <3>1, <3>2
  <2>6. CASE ~(i <= Len(terminal_ids)) /\ j <= Len(terminal_ids)
    <3>1. j \in DOMAIN terminal_ids /\ i - Len(terminal_ids) \in DOMAIN ids
      BY <2>1, <2>6
    <3>2. finished[j] = terminal_ids[j] /\ finished[i] = ids[i - Len(terminal_ids)]
      BY <2>1, <2>6
    <3> QED  BY <2>2, <3>1, <3>2
  <2> QED  BY <2>3, <2>4, <2>5, <2>6
<1>5. /\ kept \in Seq(Nat) /\ Len(kept) <= MaxTerminal
      /\ ElementsOf(kept) \subseteq ElementsOf(finished)
      /\ \A i, j \in DOMAIN kept : kept[i] = kept[j] => i = j
  <2>1. PICK k \in Nat :
                /\ Len(kept) + k = Len(finished)
                /\ \A i \in DOMAIN kept :
                      i + k \in DOMAIN finished /\ kept[i] = finished[i + k]
    <3> HIDE DEF finished
    <3>1. finished \in Seq(Nat) /\ MaxTerminal \in Nat
      BY <1>2, <1>3
    <3> QED  BY ONLY <3>1, NewestIsTail
  <2>2. kept \in Seq(Nat) /\ Len(kept) <= MaxTerminal
    <3> HIDE DEF finished
    <3> QED  BY <1>2, <1>3, NewestIsTail
  <2>3. DOMAIN kept = 1 .. Len(kept) /\ Len(kept) \in Nat
    <3> HIDE DEF kept
    <3> QED  BY <2>2, LenProperties
  <2> HIDE DEF kept, finished
  <2>4. ElementsOf(kept) \subseteq ElementsOf(finished)
    BY <2>1 DEF ElementsOf
  <2>5. ASSUME NEW i \in DOMAIN kept, NEW j \in DOMAIN kept, kept[i] = kept[j]
        PROVE  i = j
    <3>1. finished[i + k] = finished[j + k] /\ i + k \in DOMAIN finished /\ j + k \in DOMAIN finished
      BY <2>1, <2>5
    <3>2. i + k = j + k
      BY <1>4, <3>1
    <3> QED  BY <2>3, <3>2
  <2> QED  BY <2>2, <2>4, <2>5
<1>6. ElementsOf(terminal_ids) = DOMAIN items \ LiveItems
  BY DEF FinishedItemsAreBounded
<1> HIDE DEF kept, finished
<1>7. DOMAIN items' = DOMAIN items \ expired
  BY <1>1
<1>8. \A p \in DOMAIN items' :
         items'[p] = IF p \in gone THEN [items[p] EXCEPT !.state = state] ELSE items[p]
  BY <1>1
<1>9. LiveItems' = LiveItems \ gone
  <2>1. \A p \in DOMAIN items : items[p] \in PlaybackItem
    BY DEF TypeOK
  <2>2. \A p \in DOMAIN items' :
           items'[p].state = IF p \in gone THEN state ELSE items[p].state
    BY <1>7, <1>8, <2>1 DEF PlaybackItem
  <2>3. LiveItems' = {p \in DOMAIN items' : items'[p].state \notin TerminalStates}
    BY DEF LiveItems
  <2>4. \A p \in LiveItems \ gone : p \in DOMAIN items'
    BY <1>3, <1>6, <1>7 DEF LiveItems
  <2> HIDE DEF gone
  <2>5. \A p \in LiveItems' : p \in LiveItems \ gone
    BY <1>7, <2>2, <2>3 DEF LiveItems
  <2>6. \A p \in LiveItems \ gone : p \in LiveItems'
    BY <2>2, <2>3, <2>4 DEF LiveItems
  <2> QED  BY <2>5, <2>6
<1>10. ElementsOf(kept) = DOMAIN items' \ LiveItems'
  BY <1>3, <1>5, <1>6, <1>7, <1>9, LiveItemsAreItems
<1>11. FinishedItemsAreBounded'
  BY <1>1, <1>5, <1>10 DEF FinishedItemsAreBounded, ElementsOf
<1> QED  BY <1>1, <1>5, <1>7, <1>8, <1>9, <1>11 DEF Ended

(* The first n items of a queue, all of them waiting, end cancelled.       *)
LEMMA DiscardEnds ==
    ASSUME TypeOK, EveryLiveItemHasOnePlace, FinishedItemsAreBounded,
           NEW c \in Clients, NEW n \in 0 .. Len(queued[c]), Discard(c, n)
    PROVE  Ended({queued[c][i] : i \in 1 .. n}, "cancelled")
<1> DEFINE waiting == queued[c]
           first == SubSeq(waiting, 1, n)
           keep == InState("queued")
           ids == Only(first, keep)
<1>1. /\ waiting \in Seq(Nat) /\ Len(waiting) \in Nat
      /\ DOMAIN waiting = 1 .. Len(waiting)
  <2>1. queued[c] \in Seq(Nat)
    BY DEF TypeOK
  <2> QED  BY <2>1, LenProperties
<1>2. /\ \A i \in DOMAIN waiting :
            /\ waiting[i] \in LiveItems /\ waiting[i] \in InState("queued")
            /\ \A j \in DOMAIN waiting : waiting[i] = waiting[j] => i = j
  BY LiveItemsAreItems DEF EveryLiveItemHasOnePlace, InState
<1>3. SetTerminal(ids, "cancelled")
  BY DEF Discard
<1> HIDE DEF waiting
<1>4. /\ first \in Seq(Nat) /\ DOMAIN first = 1 .. n
      /\ \A i \in 1 .. n : first[i] = waiting[i] /\ i \in DOMAIN waiting
  <2>1. n \in Int /\ \A i \in 1 .. n : i \in DOMAIN waiting /\ waiting[i] \in Nat
    BY <1>1, ElementOfSeq DEF waiting
  <2>2. /\ first \in Seq(Nat)
        /\ Len(first) = IF 1 <= n THEN n - 1 + 1 ELSE 0
        /\ \A i \in 1 .. n - 1 + 1 : first[i] = waiting[1 + i - 1]
    BY <2>1, SubSeqProperties
  <2>3. DOMAIN first = 1 .. Len(first)
    <3> HIDE DEF first
    <3> QED  BY <2>2, LenProperties
  <2> HIDE DEF first
  <2>4. Len(first) = n /\ n - 1 + 1 = n /\ \A i \in 1 .. n : 1 + i - 1 = i
    BY <1>1, <2>2 DEF waiting
  <2> QED  BY <2>1, <2>2, <2>3, <2>4
<1> HIDE DEF first
<1>5. /\ ids \in Seq(Nat)
      /\ \A i \in DOMAIN ids : \E k \in DOMAIN first : first[k] = ids[i]
      /\ \A k \in DOMAIN first :
            first[k] \in keep => \E i \in DOMAIN ids : ids[i] = first[k]
      /\ (\A i, j \in DOMAIN first : first[i] = first[j] => i = j)
            => \A i, j \in DOMAIN ids : ids[i] = ids[j] => i = j
  <2> HIDE DEF keep
  <2>1. first \in Seq(Nat)
    BY <1>4
  <2>2. /\ ids \in Seq(Nat)
        /\ DOMAIN ids = 1 .. Len(ids)
        /\ \A i \in DOMAIN ids : ids[i] \in keep /\ \E k \in DOMAIN first : first[k] = ids[i]
        /\ \A k \in DOMAIN first :
              first[k] \in keep => \E i \in DOMAIN ids : ids[i] = first[k]
        /\ (\A i, j \in DOMAIN first : first[i] = first[j] => i = j)
              => \A i, j \in DOMAIN ids : ids[i] = ids[j] => i = j
    BY ONLY <2>1, OnlyKeeps
  <2> QED  BY <2>2
<1> HIDE DEF ids
<1>6. ElementsOf(ids) = {waiting[i] : i \in 1 .. n}
  <2>1. \A i \in 1 .. n : \E k \in DOMAIN ids : ids[k] = waiting[i]
    BY <1>2, <1>4, <1>5
  <2>2. \A i \in DOMAIN ids : \E k \in 1 .. n : ids[i] = waiting[k]
    BY <1>4, <1>5
  <2> QED  BY <2>1, <2>2 DEF ElementsOf
<1>7. ElementsOf(ids) \subseteq LiveItems
  BY <1>2, <1>4, <1>6
<1>8. \A i, j \in DOMAIN ids : ids[i] = ids[j] => i = j
  BY <1>2, <1>4, <1>5
<1>9. Ended(ElementsOf(ids), "cancelled")
  BY <1>3, <1>5, <1>7, <1>8, SetTerminalEnds DEF TerminalStates
<1> QED  BY <1>6, <1>9 DEF waiting

LEMMA ItemsAreFinite ==
    ASSUME TypeOK
    PROVE  IsFiniteSet(DOMAIN items)
<1>1. DOMAIN items \in SUBSET Nat /\ playback_ids \in Nat
      /\ \A p \in DOMAIN items : p <= playback_ids
  BY DEF TypeOK
<1> QED  BY <1>1, FS_BoundedSetOfNaturals

LEMMA InferredFloorIsInt ==
    ASSUME TypeOK, NEW s \in Sessions
    PROVE  InferredFloor(s) \in Int
<1> DEFINE mine == {p \in DOMAIN items : items[p].token.session = s}
           known == {items[p].token.generation : p \in mine}
<1>1. CASE known = {}
  BY <1>1 DEF InferredFloor
<1>2. CASE known # {}
  <2>1. known \subseteq Nat
    BY DEF TypeOK, PlaybackItem, TurnToken
  <2>2. IsFiniteSet(known)
    <3>1. IsFiniteSet(mine)
      BY ItemsAreFinite, FS_Subset
    <3> DEFINE gen == [p \in mine |-> items[p].token.generation]
    <3>2. IsFiniteSet({gen[p] : p \in mine})
      <4> HIDE DEF gen, mine
      <4> QED  BY ONLY <3>1, FiniteImage
    <3>3. {gen[p] : p \in mine} = known
      OBVIOUS
    <3> QED  BY <3>2, <3>3
  <2>3. InferredFloor(s) = CHOOSE g \in known : \A h \in known : h <= g
    BY <1>2 DEF InferredFloor
  <2> HIDE DEF known
  <2>4. \E g \in known : \A h \in known : h <= g
    BY ONLY <1>2, <2>1, <2>2, GreatestNatural
  <2>5. InferredFloor(s) \in known
    BY <2>3, <2>4
  <2>6. InferredFloor(s) \in Nat
    BY <2>1, <2>5
  <2> QED  BY <2>6
<1> QED  BY <1>1, <1>2

(* Tombstone, of any sequence of tombstones. *)
TombstoneIn(seq, s) ==
    LET known == {i \in DOMAIN seq : seq[i].session = s}
    IN  IF known = {} THEN -1 ELSE seq[CHOOSE i \in known : TRUE].generation

TombstoneRecord == [session: Sessions, generation: Int]

LEMMA TombstoneIsUnique ==
    ASSUME NEW seq, NEW s,
           \A i, j \in DOMAIN seq : seq[i].session = seq[j].session => i = j
    PROVE  /\ \A i \in DOMAIN seq :
                 seq[i].session = s => TombstoneIn(seq, s) = seq[i].generation
           /\ (\A i \in DOMAIN seq : seq[i].session # s) => TombstoneIn(seq, s) = -1
BY DEF TombstoneIn

(* A tombstone may be forgotten, and that of one session rises.            *)
LEMMA RememberKeeps ==
    ASSUME TypeOK, TombstonesAreUnique, NEW s \in Sessions, NEW floor \in Int,
           Remember(s, floor)
    PROVE  /\ cancelled_through' \in Seq(TombstoneRecord)
           /\ TombstonesAreUnique'
           /\ \A r \in Sessions \ {s} : Tombstone(r)' = Tombstone(r) \/ Tombstone(r)' = -1
<1> DEFINE old == cancelled_through
           keep == {t \in ElementsOf(old) : t.session # s}
           others == Only(old, keep)
           higher == IF floor > Tombstone(s) THEN floor ELSE Tombstone(s)
           record == [session |-> s, generation |-> higher]
           all == Append(others, record)
           new == cancelled_through'
<1>1. new = Newest(all, MaxTombstones) /\ MaxTombstones \in Nat
  BY QueueBoundsArePositive DEF Remember
<1>2. old \in Seq(TombstoneRecord)
  BY DEF TypeOK, TombstoneRecord
<1>2a. DOMAIN old = 1 .. Len(old) /\ \A i \in DOMAIN old : old[i] \in TombstoneRecord
  BY <1>2, LenProperties, ElementOfSeq
<1>2b. \A r : Tombstone(r) = TombstoneIn(old, r) /\ Tombstone(r)' = TombstoneIn(new, r)
  BY DEF Tombstone, TombstoneIn
<1>3. higher \in Int
  <2>1. Tombstone(s) \in Int
    BY <1>2a, <1>2b DEF TombstoneIn, TombstoneRecord
  <2> QED  BY <2>1
<1>4. record \in TombstoneRecord /\ record.session = s
  BY <1>3 DEF TombstoneRecord
<1> HIDE DEF record
<1>5. /\ others \in Seq(TombstoneRecord)
      /\ DOMAIN others = 1 .. Len(others)
      /\ \A i \in DOMAIN others : others[i].session # s /\ \E k \in DOMAIN old : old[k] = others[i]
      /\ \A i, j \in DOMAIN others : others[i] = others[j] => i = j
  <2>1. \A i, j \in DOMAIN old : old[i] = old[j] => i = j
    BY DEF TombstonesAreUnique
  <2>2. /\ others \in Seq(TombstoneRecord)
        /\ DOMAIN others = 1 .. Len(others)
        /\ \A i \in DOMAIN others : others[i] \in keep /\ \E k \in DOMAIN old : old[k] = others[i]
        /\ \A i, j \in DOMAIN others : others[i] = others[j] => i = j
    <3> HIDE DEF keep, old
    <3> QED  BY <1>2, <2>1, OnlyKeeps
  <2> QED  BY <2>2
<1>6. \A i, j \in DOMAIN others : others[i].session = others[j].session => i = j
  BY <1>5 DEF TombstonesAreUnique
<1> HIDE DEF others, old, higher
<1>7. /\ all \in Seq(TombstoneRecord)
      /\ Len(all) = Len(others) + 1 /\ Len(others) \in Nat
      /\ \A i \in 1 .. Len(others) : all[i] = others[i]
      /\ all[Len(others) + 1] = record
  BY <1>4, <1>5, AppendProperties, LenProperties
<1>8. DOMAIN all = 1 .. Len(others) + 1
  <2>1. DOMAIN all = 1 .. Len(all)
    <3> HIDE DEF all
    <3> QED  BY <1>7, LenProperties
  <2> QED  BY <1>7, <2>1
<1> HIDE DEF all
<1>9. \A i \in DOMAIN all : \/ i \in DOMAIN others /\ all[i] = others[i]
                            \/ i = Len(others) + 1 /\ all[i] = record
  BY <1>5, <1>7, <1>8
<1>10. \A i, j \in DOMAIN all : all[i].session = all[j].session => i = j
  BY <1>4, <1>5, <1>6, <1>9
<1> HIDE DEF new
<1>11. PICK k \in Nat :
          /\ Len(new) + k = Len(all)
          /\ \A i \in DOMAIN new : i + k \in DOMAIN all /\ new[i] = all[i + k]
  <2> DEFINE tail == Newest(all, MaxTombstones)
  <2>1. all \in Seq(TombstoneRecord) /\ MaxTombstones \in Nat
    BY <1>1, <1>7
  <2>2. \E k \in Nat :
          /\ Len(tail) + k = Len(all)
          /\ \A i \in DOMAIN tail : i + k \in DOMAIN all /\ tail[i] = all[i + k]
    BY ONLY <2>1, NewestIsTail
  <2> QED  BY <1>1, <2>2
<1>12. new \in Seq(TombstoneRecord)
  BY ONLY <1>1, <1>7, NewestIsTail
<1>13. DOMAIN new = 1 .. Len(new) /\ Len(new) \in Nat
  BY <1>12, LenProperties
<1>14. \A i, j \in DOMAIN new : new[i].session = new[j].session => i = j
  <2> SUFFICES ASSUME NEW i \in DOMAIN new, NEW j \in DOMAIN new,
                      new[i].session = new[j].session
               PROVE  i = j
    OBVIOUS
  <2>1. i + k = j + k
    BY <1>10, <1>11
  <2> QED  BY <1>13, <2>1
<1>15. ASSUME NEW r \in Sessions \ {s}
       PROVE  TombstoneIn(new, r) = TombstoneIn(old, r) \/ TombstoneIn(new, r) = -1
  <2>1. CASE \A i \in DOMAIN new : new[i].session # r
    BY <1>14, <2>1, TombstoneIsUnique
  <2>2. CASE \E i \in DOMAIN new : new[i].session = r
    <3>1. PICK i \in DOMAIN new : new[i].session = r
      BY <2>2
    <3>2. PICK j \in DOMAIN others : new[i] = others[j]
      BY <1>4, <1>9, <1>11, <3>1
    <3>3. PICK m \in DOMAIN old : old[m] = new[i]
      BY <1>5, <3>2
    <3>4. TombstoneIn(new, r) = new[i].generation
      BY <1>14, <3>1, TombstoneIsUnique
    <3>5. TombstoneIn(old, r) = old[m].generation
      BY <3>1, <3>3, TombstoneIsUnique DEF TombstonesAreUnique, old
    <3> QED  BY <3>3, <3>4, <3>5
  <2> QED  BY <2>1, <2>2
<1> USE DEF new
<1>16. TombstonesAreUnique'
  BY <1>14 DEF TombstonesAreUnique
<1> QED  BY <1>2b, <1>12, <1>15, <1>16

(***************************************************************************)
(* The steps                                                               *)
(***************************************************************************)

(* What a step does to one client when it ends the items gone and none is  *)
(* created: its queue loses members, and it may be handed one of them.     *)
Thinned(c, gone) ==
    /\ \A i \in DOMAIN queued'[c] :
          queued'[c][i] \notin gone /\ \E k \in DOMAIN queued[c] : queued[c][k] = queued'[c][i]
    /\ \A i, j \in DOMAIN queued'[c] : i < j => queued'[c][i] < queued'[c][j]
    /\ active'[c] # NoItem =>
          /\ active'[c] \notin gone
          /\ active'[c] # active[c] => \E k \in DOMAIN queued[c] : queued[c][k] = active'[c]
          /\ \A i \in DOMAIN queued'[c] : active'[c] < queued'[c][i]
    /\ \A p \in LiveItems \ gone :
          items[p].client = c =>
             /\ p = active[c] => p = active'[c]
             /\ p \in ElementsOf(queued[c]) => p = active'[c] \/ p \in ElementsOf(queued'[c])

LEMMA EndedItems ==
    ASSUME QueueInv, NEW gone, gone \subseteq LiveItems,
           NEW state \in TerminalStates, Ended(gone, state)
    PROVE  /\ \A p \in DOMAIN items' :
                 /\ p \in DOMAIN items /\ items'[p] \in PlaybackItem
                 /\ items'[p].client = items[p].client
                 /\ items'[p].token = items[p].token
                 /\ p \notin gone => items'[p] = items[p]
           /\ LiveItems' = LiveItems \ gone
           /\ LiveItems' \subseteq DOMAIN items'
<1>1. ASSUME NEW p \in DOMAIN items'
      PROVE  /\ p \in DOMAIN items /\ items'[p] \in PlaybackItem
             /\ items'[p].client = items[p].client
             /\ items'[p].token = items[p].token
             /\ p \notin gone => items'[p] = items[p]
  <2>1. p \in DOMAIN items /\ items[p] \in PlaybackItem
    BY <1>1 DEF Ended, QueueInv, QueueIsConsistent, TypeOK
  <2>2. items'[p] = IF p \in gone THEN [items[p] EXCEPT !.state = state] ELSE items[p]
    BY <1>1 DEF Ended
  <2> QED  BY <2>1, <2>2 DEF PlaybackItem, PlaybackState
<1>2. LiveItems' \subseteq DOMAIN items'
  BY DEF LiveItems
<1> QED  BY <1>1, <1>2 DEF Ended

LEMMA Thinning ==
    ASSUME QueueInv, NEW gone, gone \subseteq LiveItems,
           NEW state \in TerminalStates, Ended(gone, state),
           queued' \in [Clients -> Seq(Nat)], active' \in [Clients -> Nat],
           \A c \in Clients : Thinned(c, gone)
    PROVE  EveryLiveItemHasOnePlace' /\ InOrder'
<1>1. /\ \A p \in DOMAIN items' : items'[p].client = items[p].client
      /\ \A p \in LiveItems' : p \in LiveItems \ gone /\ p \in DOMAIN items' /\ items'[p] = items[p]
      /\ \A p \in LiveItems \ gone : p \in LiveItems'
  BY EndedItems
<1>2. ASSUME NEW c \in Clients
      PROVE  /\ \A i \in DOMAIN queued'[c] :
                   /\ queued'[c][i] \in LiveItems'
                   /\ items'[queued'[c][i]].client = c
                   /\ items'[queued'[c][i]].state = "queued"
                   /\ queued'[c][i] # active'[c]
                   /\ \A j \in DOMAIN queued'[c] : queued'[c][i] = queued'[c][j] => i = j
             /\ active'[c] # NoItem => active'[c] \in LiveItems' /\ items'[active'[c]].client = c
  <2>1. /\ queued'[c] \in Seq(Nat) /\ active'[c] \in Nat
        /\ DOMAIN queued'[c] = 1 .. Len(queued'[c])
    <3>1. queued'[c] \in Seq(Nat) /\ active'[c] \in Nat
      BY <1>2
    <3> QED  BY <3>1, LenProperties
  <2>2. \A k \in DOMAIN queued[c] :
           /\ queued[c][k] \in LiveItems
           /\ items[queued[c][k]].client = c
           /\ items[queued[c][k]].state = "queued"
    BY DEF QueueInv, QueueIsConsistent, EveryLiveItemHasOnePlace
  <2>3. ASSUME NEW i \in DOMAIN queued'[c]
        PROVE  /\ queued'[c][i] \in LiveItems'
               /\ items'[queued'[c][i]].client = c
               /\ items'[queued'[c][i]].state = "queued"
               /\ queued'[c][i] # active'[c]
    <3>1. queued'[c][i] \notin gone
      BY DEF Thinned
    <3>2. PICK k \in DOMAIN queued[c] : queued[c][k] = queued'[c][i]
      BY DEF Thinned
    <3>3. queued'[c][i] \in LiveItems'
      BY <1>1, <2>2, <3>1, <3>2
    <3>4. queued'[c][i] \in Nat
      BY <2>1, ElementOfSeq
    <3>5. queued'[c][i] # active'[c]
      <4>1. CASE active'[c] = NoItem
        <5>1. queued'[c][i] \in 1 .. playback_ids
          BY <2>2, <3>2, LiveItemsAreItems DEF QueueInv, QueueIsConsistent, TypeOK
        <5> QED  BY <4>1, <5>1 DEF NoItem
      <4>2. CASE active'[c] # NoItem
        <5>1. active'[c] < queued'[c][i]
          BY <4>2 DEF Thinned
        <5> QED  BY <2>1, <5>1
      <4> QED  BY <4>1, <4>2
    <3> QED  BY <1>1, <2>2, <3>2, <3>3, <3>5
  <2>4. ASSUME NEW i \in DOMAIN queued'[c], NEW j \in DOMAIN queued'[c],
               queued'[c][i] = queued'[c][j]
        PROVE  i = j
    <3>1. queued'[c][i] \in Nat /\ queued'[c][j] \in Nat
      BY <2>1, ElementOfSeq
    <3>2. ~(i < j) /\ ~(j < i)
      BY <2>4, <3>1 DEF Thinned
    <3> QED  BY <2>1, <3>2
  <2>5. ASSUME active'[c] # NoItem
        PROVE  active'[c] \in LiveItems' /\ items'[active'[c]].client = c
    <3>1. active'[c] \in LiveItems /\ items[active'[c]].client = c
      <4>1. CASE active'[c] = active[c]
        BY <2>5, <4>1 DEF QueueInv, QueueIsConsistent, EveryLiveItemHasOnePlace
      <4>2. CASE active'[c] # active[c]
        BY <2>2, <2>5, <4>2 DEF Thinned
      <4> QED  BY <4>1, <4>2
    <3>2. active'[c] \notin gone
      BY <2>5 DEF Thinned
    <3> QED  BY <1>1, <3>1, <3>2
  <2> QED  BY <2>3, <2>4, <2>5
<1>3. ASSUME NEW p \in LiveItems'
      PROVE  p = active'[items'[p].client] \/ p \in ElementsOf(queued'[items'[p].client])
  <2> DEFINE c == items[p].client
  <2>1. p \in LiveItems \ gone /\ items'[p].client = c
    BY <1>1
  <2>2. c \in Clients
    BY <2>1, LiveItemsAreItems DEF QueueInv, QueueIsConsistent, TypeOK, PlaybackItem
  <2>3. p = active[c] \/ p \in ElementsOf(queued[c])
    BY <2>1 DEF QueueInv, QueueIsConsistent, EveryLiveItemHasOnePlace
  <2>4. p = active'[c] \/ p \in ElementsOf(queued'[c])
    BY <2>1, <2>2, <2>3 DEF Thinned
  <2> QED  BY <2>1, <2>4
<1>4. EveryLiveItemHasOnePlace'
  BY <1>2, <1>3 DEF EveryLiveItemHasOnePlace, ElementsOf
<1>5. InOrder'
  BY DEF Thinned, InOrder
<1> QED  BY <1>4, <1>5

(* A new item has the highest identifier of all.                           *)
LEMMA EnqueueStep ==
    ASSUME QueueInv, NEW c \in Clients, NEW tok \in current, Enqueue(c, tok),
           UNCHANGED <<current, issued>>
    PROVE  QueueInv'
<1> DEFINE new == playback_ids + 1
           item == [client |-> c, token |-> tok, state |-> "queued"]
<1>1. /\ TypeOK /\ EveryLiveItemHasOnePlace /\ StopComesFirst /\ NoLiveItemUnderTombstone
      /\ FinishedItemsAreBounded /\ IsFiniteSet(issued) /\ InOrder /\ StopsAreOld
      /\ TombstonesAreUnique
  BY DEF QueueInv, QueueIsConsistent
<1>2. /\ playback_ids' = new
      /\ items' = [p \in DOMAIN items \cup {new} |-> IF p = new THEN item ELSE items[p]]
      /\ queued' = [queued EXCEPT ![c] = Append(@, new)]
      /\ UNCHANGED <<active, commands, cancelled_through, terminal_ids>>
  BY DEF Enqueue
<1>3. /\ playback_ids \in Nat /\ new \in Nat
      /\ \A p \in DOMAIN items : p \in Nat /\ p < new /\ items[p] \in PlaybackItem
  BY <1>1 DEF TypeOK
<1>4. item \in PlaybackItem
  BY <1>1 DEF TypeOK, PlaybackItem, PlaybackState
<1>5. /\ DOMAIN items' = DOMAIN items \cup {new}
      /\ items'[new] = item
      /\ \A p \in DOMAIN items : items'[p] = items[p]
  BY <1>2, <1>3
<1>6. LiveItems' = LiveItems \cup {new}
  BY <1>5 DEF LiveItems, TerminalStates
<1>7. /\ queued[c] \in Seq(Nat) /\ Len(queued[c]) \in Nat
      /\ DOMAIN queued[c] = 1 .. Len(queued[c])
  <2>1. queued[c] \in Seq(Nat)
    BY <1>1 DEF TypeOK
  <2> QED  BY <2>1, LenProperties
<1>8. /\ queued'[c] \in Seq(Nat)
      /\ DOMAIN queued'[c] = 1 .. Len(queued[c]) + 1
      /\ \A i \in DOMAIN queued[c] : queued'[c][i] = queued[c][i]
      /\ queued'[c][Len(queued[c]) + 1] = new
      /\ \A d \in Clients \ {c} : queued'[d] = queued[d]
  <2> DEFINE q == queued[c]
             r == Append(q, new)
  <2>1. /\ r \in Seq(Nat) /\ Len(r) = Len(q) + 1
        /\ \A i \in 1 .. Len(q) : r[i] = q[i]
        /\ r[Len(q) + 1] = new
    <3> HIDE DEF q, new
    <3> QED  BY <1>3, <1>7, AppendProperties DEF q
  <2>2. DOMAIN r = 1 .. Len(r)
    <3> HIDE DEF r
    <3> QED  BY <2>1, LenProperties
  <2>3. queued'[c] = r /\ \A d \in Clients \ {c} : queued'[d] = queued[d]
    BY <1>1, <1>2 DEF TypeOK
  <2> HIDE DEF new
  <2> QED  BY <1>7, <2>1, <2>2, <2>3
<1>9. \A i \in DOMAIN queued'[c] :
         \/ i \in DOMAIN queued[c] /\ queued'[c][i] = queued[c][i] /\ queued[c][i] \in LiveItems
                                   /\ queued[c][i] < new
         \/ i = Len(queued[c]) + 1 /\ queued'[c][i] = new
  <2>1. \A i \in DOMAIN queued[c] : queued[c][i] \in LiveItems /\ queued[c][i] < new
    BY <1>1, <1>3, LiveItemsAreItems DEF EveryLiveItemHasOnePlace
  <2>2. \A i \in DOMAIN queued'[c] : i \in DOMAIN queued[c] \/ i = Len(queued[c]) + 1
    BY <1>7, <1>8
  <2> QED  BY <1>8, <2>1, <2>2
<1> HIDE DEF new, item
<1>10. \A p \in LiveItems : p \in DOMAIN items /\ p < new /\ p # new /\ items'[p] = items[p]
  BY <1>3, <1>5, LiveItemsAreItems
<1>11. \A d \in Clients : active[d] # new
  BY <1>1, <1>3, <1>10 DEF EveryLiveItemHasOnePlace, NoItem, new
<1>12. TypeOK'
  <2>1. queued' \in [Clients -> Seq(Nat)]
    BY <1>1, <1>2, <1>8 DEF TypeOK
  <2>2. DOMAIN items' \subseteq 1 .. playback_ids'
    BY <1>1, <1>2, <1>3, <1>5 DEF TypeOK, new
  <2>3. \A p \in DOMAIN items' : items'[p] \in PlaybackItem
    BY <1>3, <1>4, <1>5
  <2> QED  BY <1>1, <1>2, <1>3, <2>1, <2>2, <2>3 DEF TypeOK
<1>13. EveryLiveItemHasOnePlace'
  <2>1. ASSUME NEW d \in Clients
        PROVE  /\ \A i \in DOMAIN queued'[d] :
                     /\ queued'[d][i] \in LiveItems'
                     /\ items'[queued'[d][i]].client = d
                     /\ items'[queued'[d][i]].state = "queued"
                     /\ queued'[d][i] # active'[d]
                     /\ \A j \in DOMAIN queued'[d] : queued'[d][i] = queued'[d][j] => i = j
               /\ active'[d] # NoItem => active'[d] \in LiveItems' /\ items'[active'[d]].client = d
    <3>1. active'[d] # NoItem => active'[d] \in LiveItems' /\ items'[active'[d]].client = d
      BY <1>1, <1>2, <1>6, <1>10 DEF EveryLiveItemHasOnePlace
    <3>0. \A i \in DOMAIN queued[d] :
             /\ queued[d][i] \in LiveItems'
             /\ items'[queued[d][i]].client = d
             /\ items'[queued[d][i]].state = "queued"
             /\ queued[d][i] # active'[d]
             /\ \A j \in DOMAIN queued[d] : queued[d][i] = queued[d][j] => i = j
      <4>1. \A i \in DOMAIN queued[d] :
               /\ queued[d][i] \in LiveItems
               /\ items[queued[d][i]].client = d
               /\ items[queued[d][i]].state = "queued"
               /\ queued[d][i] # active[d]
               /\ \A j \in DOMAIN queued[d] : queued[d][i] = queued[d][j] => i = j
        BY <1>1 DEF EveryLiveItemHasOnePlace
      <4> QED  BY <1>2, <1>6, <1>10, <4>1
    <3>2. CASE d # c
      <4>1. queued'[d] = queued[d]
        BY <1>8, <3>2
      <4> QED  BY <3>0, <3>1, <4>1
    <3>3. CASE d = c
      <4>1. ASSUME NEW i \in DOMAIN queued'[c]
            PROVE  /\ queued'[c][i] \in LiveItems'
                   /\ items'[queued'[c][i]].client = c
                   /\ items'[queued'[c][i]].state = "queued"
                   /\ queued'[c][i] # active'[c]
                   /\ \A j \in DOMAIN queued'[c] : queued'[c][i] = queued'[c][j] => i = j
        <5>1. CASE queued'[c][i] = new
          <6>1. item.client = c /\ item.state = "queued"
            BY DEF item
          <6>2. \A j \in DOMAIN queued[c] : queued[c][j] # new
            BY <1>1, <1>10 DEF EveryLiveItemHasOnePlace
          <6>3. \A j \in DOMAIN queued'[c] : queued'[c][j] = new => j = Len(queued[c]) + 1
            BY <1>9, <6>2
          <6> QED  BY <1>2, <1>5, <1>6, <1>11, <5>1, <6>1, <6>3
        <5>2. CASE queued'[c][i] # new
          <6>1. i \in DOMAIN queued[c] /\ queued'[c][i] = queued[c][i]
            BY <1>9, <5>2
          <6>2. \A j \in DOMAIN queued'[c] :
                   queued'[c][i] = queued'[c][j] =>
                      j \in DOMAIN queued[c] /\ queued[c][i] = queued[c][j]
            BY <1>9, <5>2, <6>1
          <6> QED  BY <3>0, <3>3, <6>1, <6>2
        <5> QED  BY <5>1, <5>2
      <4> QED  BY <3>1, <3>3, <4>1
    <3> QED  BY <3>2, <3>3
  <2>2. ASSUME NEW p \in LiveItems'
        PROVE  p = active'[items'[p].client] \/ p \in ElementsOf(queued'[items'[p].client])
    <3>1. CASE p = new
      <4>1. items'[p].client = c
        BY <1>5, <3>1 DEF item
      <4>2. Len(queued[c]) + 1 \in DOMAIN queued'[c]
        BY <1>7, <1>8
      <4> QED  BY <1>8, <3>1, <4>1, <4>2 DEF ElementsOf
    <3>2. CASE p # new
      <4>1. p \in LiveItems /\ items'[p] = items[p]
        BY <1>6, <1>10, <3>2
      <4>2. items[p].client \in Clients
        BY <1>3, <1>10, <4>1 DEF PlaybackItem
      <4>3. p = active[items[p].client] \/ p \in ElementsOf(queued[items[p].client])
        BY <1>1, <4>1 DEF EveryLiveItemHasOnePlace
      <4>4. ElementsOf(queued[c]) \subseteq ElementsOf(queued'[c])
        <5>1. \A i \in DOMAIN queued[c] : i \in DOMAIN queued'[c]
          BY <1>7, <1>8
        <5> QED  BY <1>8, <5>1 DEF ElementsOf
      <4> QED  BY <1>2, <1>8, <4>1, <4>2, <4>3, <4>4
    <3> QED  BY <3>1, <3>2
  <2> QED  BY <2>1, <2>2 DEF EveryLiveItemHasOnePlace
<1>14. StopComesFirst'
  <2>1. ASSUME NEW d \in Clients, commands[d] # <<>>
        PROVE  Head(commands[d]) # new
    <3>1. commands[d] \in Seq(Nat) /\ Len(commands[d]) = 1
      BY <1>1, <2>1 DEF TypeOK, StopComesFirst
    <3>2. Head(commands[d]) = commands[d][1] /\ 1 \in DOMAIN commands[d]
      BY <3>1
    <3> QED  BY <1>1, <1>3, <3>1, <3>2 DEF StopsAreOld, TypeOK, new
  <2> QED  BY <1>1, <1>2, <1>6, <2>1 DEF StopComesFirst
<1>15. NoLiveItemUnderTombstone'
  <2>1. \A s : Tombstone(s)' = Tombstone(s)
    BY <1>2 DEF Tombstone
  <2>2. item.token = tok /\ tok.generation > Tombstone(tok.session)
    BY DEF item, Enqueue
  <2> QED  BY <1>1, <1>5, <1>6, <1>10, <2>1, <2>2 DEF NoLiveItemUnderTombstone
<1>16. FinishedItemsAreBounded'
  <2>1. DOMAIN items' \ LiveItems' = DOMAIN items \ LiveItems
    BY <1>3, <1>5, <1>6, <1>10
  <2> QED  BY <1>1, <1>2, <2>1 DEF FinishedItemsAreBounded
<1>17. InOrder'
  <2>1. ASSUME NEW d \in Clients
        PROVE  /\ \A i, j \in DOMAIN queued'[d] : i < j => queued'[d][i] < queued'[d][j]
               /\ active'[d] # NoItem => \A i \in DOMAIN queued'[d] : active'[d] < queued'[d][i]
    <3>1. CASE d # c
      BY <1>1, <1>2, <1>8, <3>1 DEF InOrder
    <3>2. CASE d = c
      <4>1. ASSUME NEW i \in DOMAIN queued'[c], NEW j \in DOMAIN queued'[c], i < j
            PROVE  queued'[c][i] < queued'[c][j]
        <5>1. i \in DOMAIN queued[c] /\ queued'[c][i] = queued[c][i] /\ queued[c][i] < new
          BY <1>7, <1>8, <1>9, <4>1
        <5>2. CASE j \in DOMAIN queued[c]
          BY <1>1, <1>8, <4>1, <5>1, <5>2 DEF InOrder
        <5>3. CASE j \notin DOMAIN queued[c]
          BY <1>9, <5>1, <5>3
        <5> QED  BY <5>2, <5>3
      <4>2. ASSUME active'[c] # NoItem, NEW i \in DOMAIN queued'[c]
            PROVE  active'[c] < queued'[c][i]
        <5>1. active[c] < new
          BY <1>1, <1>2, <1>10, <4>2 DEF EveryLiveItemHasOnePlace
        <5>2. CASE i \in DOMAIN queued[c]
          BY <1>1, <1>2, <1>8, <4>2, <5>2 DEF InOrder
        <5>3. CASE i \notin DOMAIN queued[c]
          BY <1>2, <1>9, <5>1, <5>3
        <5> QED  BY <5>2, <5>3
      <4> QED  BY <3>2, <4>1, <4>2
    <3> QED  BY <3>1, <3>2
  <2> QED  BY <2>1 DEF InOrder
<1>18. StopsAreOld'
  <2> SUFFICES ASSUME NEW d \in Clients, NEW i \in DOMAIN commands[d]
               PROVE  commands[d][i] <= new
    BY <1>2 DEF StopsAreOld
  <2>1. commands[d] \in Seq(Nat) /\ commands[d][i] <= playback_ids
    BY <1>1 DEF TypeOK, StopsAreOld
  <2>2. commands[d][i] \in Nat
    BY <2>1, LenProperties, ElementOfSeq
  <2> QED  BY <1>3, <2>1, <2>2 DEF new
<1>19. TombstonesAreUnique' /\ IsFiniteSet(issued)'
  BY <1>1, <1>2 DEF TombstonesAreUnique
<1> QED  BY <1>12, <1>13, <1>14, <1>15, <1>16, <1>17, <1>18, <1>19 DEF QueueInv, QueueIsConsistent

(* A STOP that goes out leaves the queues alone.                           *)
LEMMA StopCommandStep ==
    ASSUME QueueInv, NEW c \in Clients, StopCommand(c), UNCHANGED <<current, issued>>
    PROVE  QueueInv'
<1>1. /\ TypeOK /\ StopComesFirst /\ StopsAreOld
      /\ commands[c] # <<>>
      /\ commands' = [commands EXCEPT ![c] = Tail(@)]
      /\ UNCHANGED <<items, queued, active, cancelled_through, terminal_ids, playback_ids>>
  BY DEF QueueInv, QueueIsConsistent, StopCommand
<1>2. commands[c] \in Seq(Nat) /\ Len(commands[c]) = 1
  BY <1>1 DEF TypeOK, StopComesFirst
<1>3. /\ commands' \in [Clients -> Seq(Nat)]
      /\ commands'[c] = <<>>
      /\ \A d \in Clients \ {c} : commands'[d] = commands[d]
  <2> DEFINE t == Tail(commands[c])
  <2>1. t \in Seq(Nat) /\ t = <<>>
    <3>1. t \in Seq(Nat) /\ Len(t) = 0
      BY <1>1, <1>2, HeadTailProperties
    <3> HIDE DEF t
    <3> QED  BY <3>1, EmptySeq
  <2> HIDE DEF t
  <2>2. /\ commands' = [commands EXCEPT ![c] = t] /\ commands \in [Clients -> Seq(Nat)]
    BY <1>1 DEF t, TypeOK
  <2> QED  BY <2>1, <2>2
<1>4. TypeOK'
  BY <1>1, <1>3 DEF TypeOK
<1>5. LiveItems' = LiveItems
  BY <1>1 DEF LiveItems
<1>6. EveryLiveItemHasOnePlace'
  BY <1>1, <1>5 DEF QueueInv, QueueIsConsistent, EveryLiveItemHasOnePlace
<1>7. StopComesFirst'
  BY <1>1, <1>3, <1>5 DEF StopComesFirst
<1>8. NoLiveItemUnderTombstone'
  BY <1>1, <1>5 DEF QueueInv, QueueIsConsistent, NoLiveItemUnderTombstone, Tombstone
<1>9. FinishedItemsAreBounded'
  BY <1>1, <1>5 DEF QueueInv, QueueIsConsistent, FinishedItemsAreBounded
<1>10. InOrder' /\ TombstonesAreUnique' /\ IsFiniteSet(issued)'
  BY <1>1 DEF QueueInv, InOrder, TombstonesAreUnique
<1>11. StopsAreOld'
  BY <1>1, <1>3 DEF StopsAreOld
<1> QED  BY <1>4, <1>6, <1>7, <1>8, <1>9, <1>10, <1>11 DEF QueueInv, QueueIsConsistent

(* Whatever ends items and hands out at most one of those that waited      *)
(* keeps the invariant, when no STOP is waiting for the client served.     *)
LEMMA ThinningStep ==
    ASSUME QueueInv, NEW gone, gone \subseteq LiveItems,
           NEW state \in TerminalStates, Ended(gone, state),
           queued' \in [Clients -> Seq(Nat)], active' \in [Clients -> Nat],
           \A c \in Clients : Thinned(c, gone),
           \A c \in Clients : commands[c] # <<>> => active'[c] = NoItem,
           UNCHANGED <<commands, cancelled_through, playback_ids, current, issued>>
    PROVE  QueueInv'
<1>1. /\ \A p \in DOMAIN items' :
            /\ p \in DOMAIN items /\ items'[p] \in PlaybackItem
            /\ p \notin gone => items'[p] = items[p]
      /\ LiveItems' = LiveItems \ gone
      /\ LiveItems' \subseteq DOMAIN items'
  BY EndedItems
<1>2. TypeOK'
  BY <1>1 DEF QueueInv, QueueIsConsistent, TypeOK, Ended
<1>3. EveryLiveItemHasOnePlace' /\ InOrder'
  BY Thinning
<1>4. StopComesFirst'
  BY <1>1 DEF QueueInv, QueueIsConsistent, StopComesFirst
<1>5. NoLiveItemUnderTombstone'
  <2>1. \A s : Tombstone(s)' = Tombstone(s)
    BY DEF Tombstone
  <2>2. \A p \in LiveItems' : p \in LiveItems /\ items'[p] = items[p]
    BY <1>1
  <2> QED  BY <2>1, <2>2 DEF QueueInv, QueueIsConsistent, NoLiveItemUnderTombstone
<1>6. FinishedItemsAreBounded'
  BY DEF Ended
<1>7. StopsAreOld' /\ TombstonesAreUnique' /\ IsFiniteSet(issued)'
  BY DEF QueueInv, StopsAreOld, TombstonesAreUnique
<1> QED  BY <1>2, <1>3, <1>4, <1>5, <1>6, <1>7 DEF QueueInv, QueueIsConsistent

(* Nothing changes for a client none of whose items ends.                  *)
LEMMA OthersAreThinned ==
    ASSUME QueueInv, NEW d \in Clients, NEW gone,
           \A p \in gone : p \in LiveItems /\ items[p].client # d,
           queued'[d] = queued[d], active'[d] = active[d]
    PROVE  Thinned(d, gone)
<1>1. \A i \in DOMAIN queued[d] : items[queued[d][i]].client = d
  BY DEF QueueInv, QueueIsConsistent, EveryLiveItemHasOnePlace
<1>2. active[d] # NoItem => items[active[d]].client = d
  BY DEF QueueInv, QueueIsConsistent, EveryLiveItemHasOnePlace
<1>3. /\ \A i, j \in DOMAIN queued[d] : i < j => queued[d][i] < queued[d][j]
      /\ active[d] # NoItem => \A i \in DOMAIN queued[d] : active[d] < queued[d][i]
  BY DEF QueueInv, InOrder
<1> QED  BY <1>1, <1>2, <1>3 DEF Thinned

(* The items handed over or discarded are the first of the queue, and what *)
(* stays behind them is the rest.                                          *)
LEMMA RestOfQueue ==
    ASSUME QueueInv, NEW c \in Clients, NEW n \in 0 .. Len(queued[c])
    PROVE  LET q == queued[c]
               rest == SubSeq(q, n + 1, Len(q))
           IN  /\ rest \in Seq(Nat)
               /\ DOMAIN rest = 1 .. Len(q) - n
               /\ \A i \in DOMAIN rest : i + n \in DOMAIN q /\ rest[i] = q[i + n]
               /\ DOMAIN q = 1 .. Len(q) /\ Len(q) \in Nat
<1> DEFINE q == queued[c]
           rest == SubSeq(q, n + 1, Len(q))
<1>1. q \in Seq(Nat)
  BY DEF QueueInv, QueueIsConsistent, TypeOK
<1>2. /\ Len(q) \in Nat /\ DOMAIN q = 1 .. Len(q)
      /\ n \in Nat /\ n <= Len(q)
  BY <1>1, LenProperties
<1> HIDE DEF q
<1>3. /\ rest \in Seq(Nat)
      /\ Len(rest) = IF n + 1 <= Len(q) THEN Len(q) - (n + 1) + 1 ELSE 0
      /\ \A i \in 1 .. Len(q) - (n + 1) + 1 : rest[i] = q[n + 1 + i - 1]
  <2>1. \A i \in n + 1 .. Len(q) : q[i] \in Nat
    BY <1>1, <1>2, ElementOfSeq
  <2>2. n + 1 \in Int /\ Len(q) \in Int
    BY <1>2
  <2> QED  BY ONLY <2>1, <2>2, SubSeqProperties
<1> HIDE DEF rest
<1>4. DOMAIN rest = 1 .. Len(rest)
  BY <1>3, LenProperties
<1>5. Len(rest) = Len(q) - n /\ Len(q) - (n + 1) + 1 = Len(q) - n
  <2> DEFINE l == Len(q)
             r == Len(rest)
  <2>1. l \in Nat /\ n \in Nat /\ n <= l /\ r = IF n + 1 <= l THEN l - (n + 1) + 1 ELSE 0
    BY <1>2, <1>3
  <2> HIDE DEF l, r
  <2>2. r = l - n /\ l - (n + 1) + 1 = l - n
    BY <2>1
  <2> QED  BY <2>2 DEF l, r
<1>6. \A i \in 1 .. Len(q) - n : i + n \in 1 .. Len(q) /\ n + 1 + i - 1 = i + n
  BY <1>2
<1>7. \A i \in DOMAIN rest : i + n \in DOMAIN q /\ rest[i] = q[i + n]
  BY <1>2, <1>3, <1>4, <1>5, <1>6
<1> QED  BY <1>2, <1>3, <1>4, <1>5, <1>7 DEF rest, q

(* The first playable item is handed out, those before it are discarded.   *)
LEMMA PlayCommandStep ==
    ASSUME QueueInv, NEW c \in Clients, PlayCommand(c), UNCHANGED <<current, issued>>
    PROVE  /\ QueueInv'
           /\ active'[c] # NoItem
           /\ \A d \in Clients \ {c} : active'[d] = active[d]
           /\ \A p \in LiveItems' : items'[p].client = c => active'[c] <= p
           /\ DOMAIN items' \subseteq DOMAIN items
           /\ \A p \in DOMAIN items' \ LiveItems : items'[p] = items[p]
<1> DEFINE q == queued[c]
<1>1. PICK n \in DOMAIN q :
         /\ Playable(q[n])
         /\ Discard(c, n - 1)
         /\ active' = [active EXCEPT ![c] = q[n]]
         /\ queued' = [queued EXCEPT ![c] = SubSeq(q, n + 1, Len(q))]
  BY DEF PlayCommand
<1>2. /\ commands[c] = <<>> /\ active[c] = NoItem
      /\ UNCHANGED <<commands, cancelled_through, playback_ids>>
  BY DEF PlayCommand
<1>3. /\ TypeOK /\ EveryLiveItemHasOnePlace /\ StopComesFirst /\ FinishedItemsAreBounded /\ InOrder
  BY DEF QueueInv, QueueIsConsistent
<1>4. q \in Seq(Nat) /\ Len(q) \in Nat /\ DOMAIN q = 1 .. Len(q)
  <2>1. q \in Seq(Nat)
    BY <1>3 DEF TypeOK
  <2> QED  BY <2>1, LenProperties
<1>5. /\ n \in 1 .. Len(q) /\ n \in 0 .. Len(q) /\ n - 1 \in 0 .. Len(q)
      /\ \A k \in 1 .. n - 1 : k \in DOMAIN q /\ k < n
  <2> HIDE DEF q
  <2> QED  BY <1>4
<1> DEFINE gone == {q[i] : i \in 1 .. n - 1}
           rest == SubSeq(q, n + 1, Len(q))
<1>6. Ended(gone, "cancelled")
  BY <1>1, <1>3, <1>5, DiscardEnds
<1>7. \A i \in DOMAIN q : /\ q[i] \in LiveItems /\ items[q[i]].client = c /\ q[i] \in Nat \ {NoItem}
                          /\ \A j \in DOMAIN q : q[i] = q[j] => i = j
  <2>1. \A i \in DOMAIN q : /\ q[i] \in LiveItems /\ items[q[i]].client = c
                            /\ \A j \in DOMAIN q : q[i] = q[j] => i = j
    BY <1>3 DEF EveryLiveItemHasOnePlace
  <2>2. \A p \in LiveItems : p \in Nat \ {NoItem}
    BY <1>3, LiveItemsAreItems DEF TypeOK, NoItem
  <2> QED  BY <2>1, <2>2
<1>8. \A i, j \in DOMAIN q : i < j => q[i] < q[j]
  BY <1>3 DEF InOrder
<1>9. /\ rest \in Seq(Nat)
      /\ DOMAIN rest = 1 .. Len(q) - n
      /\ \A i \in DOMAIN rest : i + n \in DOMAIN q /\ rest[i] = q[i + n]
  BY <1>5, RestOfQueue
<1>10. /\ queued' \in [Clients -> Seq(Nat)]
       /\ active' \in [Clients -> Nat]
       /\ queued'[c] = rest /\ active'[c] = q[n]
       /\ \A d \in Clients \ {c} : queued'[d] = queued[d] /\ active'[d] = active[d]
  <2> HIDE DEF rest
  <2>1. queued' = [queued EXCEPT ![c] = rest] /\ queued \in [Clients -> Seq(Nat)]
    BY <1>1, <1>3 DEF rest, TypeOK
  <2>2. active' = [active EXCEPT ![c] = q[n]] /\ active \in [Clients -> Nat]
    BY <1>1, <1>3 DEF TypeOK
  <2> HIDE DEF q
  <2>3. q[n] \in Nat /\ rest \in Seq(Nat)
    BY <1>7, <1>9
  <2> QED  BY <2>1, <2>2, <2>3
<1> HIDE DEF rest, q
<1>11. gone \subseteq LiveItems /\ \A p \in gone : items[p].client = c
  BY <1>4, <1>5, <1>7
<1>12. Thinned(c, gone)
  <2>1. ASSUME NEW i \in DOMAIN rest
        PROVE  rest[i] \notin gone /\ q[n] < rest[i] /\ \E k \in DOMAIN q : q[k] = rest[i]
    <3>1. i + n \in DOMAIN q /\ rest[i] = q[i + n] /\ i \in Nat \ {0}
      BY <1>9
    <3>3. n < i + n /\ \A k \in 1 .. n - 1 : k \in DOMAIN q /\ k # i + n
      BY <1>5, <3>1
    <3>2. rest[i] \notin gone
      BY <1>7, <3>1, <3>3
    <3> QED  BY <1>8, <3>1, <3>2, <3>3
  <2>2. ASSUME NEW i \in DOMAIN rest, NEW k \in DOMAIN rest, i < k
        PROVE  rest[i] < rest[k]
    <3>1. i + n < k + n
      BY <1>5, <1>9, <2>2
    <3> QED  BY <1>8, <1>9, <3>1
  <2>3. q[n] \notin gone
    <3>1. \A k \in 1 .. n - 1 : k \in DOMAIN q /\ k # n
      BY <1>4, <1>5
    <3> QED  BY <1>4, <1>5, <1>7, <3>1
  <2>4. ASSUME NEW p \in LiveItems \ gone, p \in ElementsOf(q)
        PROVE  p = q[n] \/ p \in ElementsOf(rest)
    <3>1. PICK k \in DOMAIN q : p = q[k]
      BY <2>4 DEF ElementsOf
    <3>2. k \notin 1 .. n - 1
      BY <2>4, <3>1
    <3>3. CASE k = n
      BY <3>1, <3>3
    <3>4. CASE k # n
      <4> DEFINE l == Len(q)
      <4>1. l \in Nat /\ n \in 1 .. l /\ k \in 1 .. l /\ k \notin 1 .. n - 1 /\ k # n
        BY <1>4, <1>5, <3>1, <3>2, <3>4
      <4> HIDE DEF l
      <4>2. k - n \in 1 .. l - n /\ k - n + n = k
        BY <4>1
      <4>3. k - n \in DOMAIN rest /\ k - n + n = k
        BY <1>9, <4>2 DEF l
      <4>4. rest[k - n] = q[k]
        BY <1>9, <4>3
      <4> QED  BY <3>1, <4>3, <4>4 DEF ElementsOf
    <3> QED  BY <3>3, <3>4
  <2>5. ASSUME NEW p \in LiveItems
        PROVE  p # active[c]
    BY <1>2, <1>3, LiveItemsAreItems DEF TypeOK, NoItem
  <2> HIDE DEF gone
  <2> QED  BY <1>5, <1>10, <2>1, <2>2, <2>3, <2>4, <2>5 DEF Thinned, q
<1>13. \A d \in Clients : Thinned(d, gone)
  <2> SUFFICES ASSUME NEW d \in Clients \ {c} PROVE Thinned(d, gone)
    BY <1>12
  <2> HIDE DEF gone
  <2> QED  BY <1>10, <1>11, OthersAreThinned
<1>14. \A d \in Clients : commands[d] # <<>> => active'[d] = NoItem
  BY <1>2, <1>3, <1>10 DEF StopComesFirst
<1>15. "cancelled" \in TerminalStates
  BY DEF TerminalStates
<1>16. QueueInv'
  <2> HIDE DEF gone
  <2> QED  BY <1>2, <1>6, <1>10, <1>11, <1>13, <1>14, <1>15, ThinningStep
<1>17. active'[c] # NoItem
  BY <1>4, <1>5, <1>7, <1>10
<1>18. ASSUME NEW p \in LiveItems', items'[p].client = c
       PROVE  active'[c] <= p
  <2>1. InOrder' /\ EveryLiveItemHasOnePlace' /\ TypeOK'
    BY <1>16 DEF QueueInv, QueueIsConsistent
  <2>2. p = active'[c] \/ p \in ElementsOf(queued'[c])
    BY <1>18, <2>1 DEF EveryLiveItemHasOnePlace
  <2>3. active'[c] \in Nat
    BY <1>10
  <2>4. CASE p = active'[c]
    BY <2>3, <2>4
  <2>5. CASE p \in ElementsOf(queued'[c])
    <3>1. PICK i \in DOMAIN queued'[c] : p = queued'[c][i]
      BY <2>5 DEF ElementsOf
    <3>2. active'[c] < p
      BY <1>17, <2>1, <3>1 DEF InOrder
    <3>3. p \in Nat
      BY <2>1 DEF LiveItems, TypeOK
    <3> QED  BY <2>3, <3>2, <3>3
  <2> QED  BY <2>2, <2>4, <2>5
<1>19. /\ DOMAIN items' \subseteq DOMAIN items
       /\ \A p \in DOMAIN items' \ LiveItems : items'[p] = items[p]
  <2> HIDE DEF gone
  <2> QED  BY <1>6, <1>11 DEF Ended
<1> QED  BY <1>10, <1>16, <1>17, <1>18, <1>19

(* The whole queue is discarded.                                           *)
LEMMA NoCommandStep ==
    ASSUME QueueInv, NEW c \in Clients, NoCommand(c), UNCHANGED <<current, issued>>
    PROVE  /\ QueueInv'
           /\ DOMAIN items' \subseteq DOMAIN items
           /\ \A p \in DOMAIN items' \ LiveItems : items'[p] = items[p]
<1> DEFINE q == queued[c]
           gone == {q[i] : i \in 1 .. Len(q)}
<1>1. /\ active[c] = NoItem
      /\ Discard(c, Len(q))
      /\ queued' = [queued EXCEPT ![c] = <<>>]
      /\ UNCHANGED <<active, commands, cancelled_through, playback_ids>>
  BY DEF NoCommand
<1>2. TypeOK /\ EveryLiveItemHasOnePlace /\ StopComesFirst /\ FinishedItemsAreBounded
  BY DEF QueueInv, QueueIsConsistent
<1>3. Len(q) \in Nat /\ DOMAIN q = 1 .. Len(q)
  <2>1. q \in Seq(Nat)
    BY <1>2 DEF TypeOK
  <2> QED  BY <2>1, LenProperties
<1>4. Ended(gone, "cancelled")
  <2>1. Len(q) \in 0 .. Len(q)
    BY <1>3
  <2> QED  BY <1>1, <1>2, <2>1, DiscardEnds
<1>5. gone = ElementsOf(q)
  BY <1>3 DEF ElementsOf
<1>6. gone \subseteq LiveItems /\ \A p \in gone : items[p].client = c
  BY <1>2, <1>3 DEF EveryLiveItemHasOnePlace
<1>7. /\ queued' \in [Clients -> Seq(Nat)] /\ queued'[c] = <<>>
      /\ active' \in [Clients -> Nat] /\ active' = active
      /\ \A d \in Clients \ {c} : queued'[d] = queued[d]
  BY <1>1, <1>2 DEF TypeOK
<1>8. Thinned(c, gone)
  <2>1. \A p \in LiveItems \ gone : p \notin ElementsOf(queued[c])
    BY <1>5
  <2>2. DOMAIN queued'[c] = {}
    BY <1>7
  <2> HIDE DEF gone
  <2> QED  BY <1>1, <1>7, <2>1, <2>2 DEF Thinned
<1> HIDE DEF gone
<1>9. \A d \in Clients : Thinned(d, gone)
  BY <1>6, <1>7, <1>8, OthersAreThinned
<1>10. \A d \in Clients : commands[d] # <<>> => active'[d] = NoItem
  BY <1>1, <1>2 DEF StopComesFirst
<1>11. "cancelled" \in TerminalStates
  BY DEF TerminalStates
<1>12. QueueInv'
  BY <1>1, <1>4, <1>6, <1>7, <1>9, <1>10, <1>11, ThinningStep
<1> QED  BY <1>4, <1>6, <1>12 DEF Ended

(* The item handed out is playing.                                         *)
LEMMA AckStartedStep ==
    ASSUME QueueInv, NEW c \in Clients, NEW p \in DOMAIN items, AckStarted(c, p),
           UNCHANGED <<current, issued>>
    PROVE  /\ QueueInv'
           /\ DOMAIN items' \subseteq DOMAIN items
           /\ \A r \in DOMAIN items' \ LiveItems : items'[r] = items[r]
<1>1. /\ items[p].client = c /\ active[c] = p /\ items[p].state = "queued"
      /\ items' = [items EXCEPT ![p].state = "started"]
      /\ UNCHANGED <<queued, active, commands, cancelled_through, terminal_ids, playback_ids>>
  BY DEF AckStarted, CanStart, Playable
<1>2. /\ TypeOK /\ EveryLiveItemHasOnePlace /\ StopComesFirst /\ NoLiveItemUnderTombstone
      /\ FinishedItemsAreBounded
  BY DEF QueueInv, QueueIsConsistent
<1>3. /\ DOMAIN items' = DOMAIN items
      /\ items'[p] = [items[p] EXCEPT !.state = "started"]
      /\ \A r \in DOMAIN items \ {p} : items'[r] = items[r]
  BY <1>1
<1>4. \A r \in DOMAIN items : items[r] \in PlaybackItem
  BY <1>2 DEF TypeOK
<1>5. \A r \in DOMAIN items : /\ items'[r] \in PlaybackItem
                             /\ items'[r].client = items[r].client
                             /\ items'[r].token = items[r].token
                             /\ items'[r].state = IF r = p THEN "started" ELSE items[r].state
  BY <1>3, <1>4 DEF PlaybackItem, PlaybackState
<1>6. LiveItems' = LiveItems /\ p \in LiveItems
  BY <1>1, <1>3, <1>5 DEF LiveItems, TerminalStates
<1>7. TypeOK'
  BY <1>1, <1>2, <1>3, <1>5 DEF TypeOK
<1>8. EveryLiveItemHasOnePlace'
  <2>1. \A d \in Clients : \A i \in DOMAIN queued[d] : queued[d][i] # p
    BY <1>1, <1>2 DEF EveryLiveItemHasOnePlace
  <2>2. \A r \in LiveItems : r \in DOMAIN items
    BY LiveItemsAreItems
  <2>3. \A d \in Clients :
           /\ \A i \in DOMAIN queued[d] :
                 /\ queued[d][i] \in LiveItems
                 /\ items'[queued[d][i]].client = d
                 /\ items'[queued[d][i]].state = "queued"
                 /\ queued[d][i] # active[d]
                 /\ \A j \in DOMAIN queued[d] : queued[d][i] = queued[d][j] => i = j
           /\ active[d] # NoItem => active[d] \in LiveItems /\ items'[active[d]].client = d
    BY <1>2, <1>5, <2>1, <2>2 DEF EveryLiveItemHasOnePlace
  <2>4. \A r \in LiveItems :
           r = active[items'[r].client] \/ r \in ElementsOf(queued[items'[r].client])
    BY <1>2, <1>5, <2>2 DEF EveryLiveItemHasOnePlace
  <2> QED  BY <1>1, <1>6, <2>3, <2>4 DEF EveryLiveItemHasOnePlace
<1>9. StopComesFirst'
  BY <1>1, <1>2, <1>6 DEF StopComesFirst
<1>10. NoLiveItemUnderTombstone'
  <2>1. \A s : Tombstone(s)' = Tombstone(s)
    BY <1>1 DEF Tombstone
  <2> QED  BY <1>2, <1>5, <1>6, <2>1, LiveItemsAreItems DEF NoLiveItemUnderTombstone
<1>11. FinishedItemsAreBounded'
  BY <1>1, <1>2, <1>3, <1>6 DEF FinishedItemsAreBounded
<1>12. InOrder' /\ StopsAreOld' /\ TombstonesAreUnique' /\ IsFiniteSet(issued)'
  BY <1>1 DEF QueueInv, InOrder, StopsAreOld, TombstonesAreUnique
<1>13. QueueInv'
  BY <1>7, <1>8, <1>9, <1>10, <1>11, <1>12 DEF QueueInv, QueueIsConsistent
<1> QED  BY <1>3, <1>6, <1>13

(* The item handed out is over.                                            *)
LEMMA AckFinishedStep ==
    ASSUME QueueInv, NEW c \in Clients, NEW p \in DOMAIN items, NEW state \in TerminalStates,
           AckFinished(c, p, state), UNCHANGED <<current, issued>>
    PROVE  /\ QueueInv'
           /\ DOMAIN items' \subseteq DOMAIN items
           /\ \A r \in DOMAIN items' \ LiveItems : items'[r] = items[r]
           /\ \A d \in Clients : active'[d] = active[d] \/ active'[d] = NoItem
<1>1. /\ p \in LiveItems /\ items[p].client = c /\ active[c] = p
      /\ SetTerminal(<<p>>, state)
      /\ active' = [active EXCEPT ![c] = NoItem]
      /\ UNCHANGED <<queued, commands, cancelled_through, playback_ids>>
  BY DEF AckFinished, CanFinish
<1>2. TypeOK /\ EveryLiveItemHasOnePlace /\ StopComesFirst /\ FinishedItemsAreBounded /\ InOrder
  BY DEF QueueInv, QueueIsConsistent
<1>3. Ended({p}, state)
  <2> DEFINE ids == <<p>>
  <2>1. p \in Nat
    BY <1>2 DEF TypeOK
  <2>2. /\ ids \in Seq(Nat) /\ ElementsOf(ids) = {p}
        /\ \A i, j \in DOMAIN ids : ids[i] = ids[j] => i = j
    BY <2>1 DEF ElementsOf
  <2>3. SetTerminal(ids, state)
    BY <1>1
  <2> HIDE DEF ids
  <2>4. Ended(ElementsOf(ids), state)
    BY <1>1, <1>2, <2>2, <2>3, SetTerminalEnds
  <2> QED  BY <2>2, <2>4
<1>4. /\ queued' \in [Clients -> Seq(Nat)] /\ queued' = queued
      /\ active' \in [Clients -> Nat] /\ active'[c] = NoItem
      /\ \A d \in Clients \ {c} : active'[d] = active[d]
  BY <1>1, <1>2 DEF TypeOK, NoItem
<1>5. Thinned(c, {p})
  <2>1. \A i \in DOMAIN queued[c] : queued[c][i] # p
    BY <1>1, <1>2 DEF EveryLiveItemHasOnePlace
  <2>2. \A i, j \in DOMAIN queued[c] : i < j => queued[c][i] < queued[c][j]
    BY <1>2 DEF InOrder
  <2> QED  BY <1>1, <1>4, <2>1, <2>2 DEF Thinned
<1>6. \A d \in Clients : Thinned(d, {p})
  <2> DEFINE gone == {p}
  <2>1. \A r \in gone : r \in LiveItems /\ items[r].client = c
    BY <1>1
  <2>2. Thinned(c, gone)
    BY <1>5
  <2> HIDE DEF gone
  <2>3. \A d \in Clients : Thinned(d, gone)
    BY <1>4, <2>1, <2>2, OthersAreThinned
  <2> QED  BY <2>3 DEF gone
<1>7. \A d \in Clients : commands[d] # <<>> => active'[d] = NoItem
  BY <1>2, <1>4 DEF StopComesFirst
<1>8. QueueInv'
  <2> DEFINE gone == {p}
  <2>1. gone \subseteq LiveItems /\ Ended(gone, state) /\ \A d \in Clients : Thinned(d, gone)
    BY <1>1, <1>3, <1>6
  <2> HIDE DEF gone
  <2> QED  BY <1>1, <1>4, <1>7, <2>1, ThinningStep
<1>9. \A r \in DOMAIN items' \ LiveItems : items'[r] = items[r]
  BY <1>1, <1>3 DEF Ended
<1> QED  BY <1>3, <1>4, <1>8, <1>9 DEF Ended

(* A cancelled session has no unfinished item left: the items end in the  *)
(* order of their creation, and that order leaves none out.                *)
LEMMA CancelSessionEnds ==
    ASSUME QueueInv, NEW s \in Sessions, NEW floor, CancelSession(s, floor)
    PROVE  Ended({p \in LiveItems : items[p].token.session = s}, "cancelled")
<1> DEFINE hit == {p \in LiveItems : items[p].token.session = s}
<1>1. \E ids \in InCreationOrder(hit) : SetTerminal(ids, "cancelled")
  BY DEF CancelSession
<1>2. TypeOK /\ FinishedItemsAreBounded
  BY DEF QueueInv, QueueIsConsistent
<1>3. hit \subseteq LiveItems /\ hit \subseteq DOMAIN items /\ hit \subseteq Nat
  BY <1>2, LiveItemsAreItems DEF TypeOK
<1>4. "cancelled" \in TerminalStates
  BY DEF TerminalStates
<1>5. Ended(hit, "cancelled")
  <2>1. IsFiniteSet(hit)
    BY <1>2, <1>3, ItemsAreFinite, FS_Subset
  <2>2. PICK ids \in InCreationOrder(hit) : SetTerminal(ids, "cancelled")
    BY <1>1
  <2> HIDE DEF hit
  <2>3. /\ ids \in [1 .. Cardinality(hit) -> hit]
        /\ \A i, j \in 1 .. Cardinality(hit) : i < j => ids[i] < ids[j]
    BY <2>2 DEF InCreationOrder
  <2>4. /\ ids \in Seq(hit)
        /\ DOMAIN ids = 1 .. Cardinality(hit)
        /\ \A x \in hit : \E i \in DOMAIN ids : ids[i] = x
        /\ \A i, j \in DOMAIN ids : ids[i] = ids[j] => i = j
    BY ONLY <1>3, <2>1, <2>3, EnumerationIsComplete
  <2>5. ElementsOf(ids) = hit
    BY <2>3, <2>4 DEF ElementsOf
  <2>6. ids \in Seq(Nat)
    BY <1>3, <2>4, SeqMonotonic
  <2>7. Ended(ElementsOf(ids), "cancelled")
    BY <1>2, <1>3, <1>4, <2>2, <2>4, <2>5, <2>6, SetTerminalEnds
  <2> QED  BY <2>5, <2>7
<1> QED  BY <1>5 DEF hit

(* Every unfinished item of the session ends, wherever it is.              *)
LEMMA CancelSessionStep ==
    ASSUME QueueInv, NEW s \in Sessions, NEW floor \in Int, CancelSession(s, floor),
           UNCHANGED <<current, issued>>
    PROVE  /\ QueueInv'
           /\ DOMAIN items' \subseteq DOMAIN items
           /\ \A p \in DOMAIN items' \ LiveItems : items'[p] = items[p]
           /\ \A c \in Clients : active'[c] = active[c] \/ active'[c] = NoItem
<1> DEFINE hit == {p \in LiveItems : items[p].token.session = s}
           keep == InState("queued")'
           Hit(c) == \E p \in hit : items[p].client = c
           Stopped(c) == \E p \in hit : items[p].client = c /\ active[c] = p
<1>1. /\ Remember(s, floor)
      /\ \E ids \in InCreationOrder(hit) : SetTerminal(ids, "cancelled")
      /\ queued' = [c \in Clients |-> IF Hit(c) THEN Only(queued[c], keep) ELSE queued[c]]
      /\ active' = [c \in Clients |-> IF Stopped(c) THEN NoItem ELSE active[c]]
      /\ commands' = [c \in Clients |->
                         IF Stopped(c) THEN WithStop(commands[c], active[c]) ELSE commands[c]]
      /\ playback_ids' = playback_ids
  BY DEF CancelSession
<1>2. /\ TypeOK /\ EveryLiveItemHasOnePlace /\ StopComesFirst /\ FinishedItemsAreBounded
      /\ NoLiveItemUnderTombstone /\ TombstonesAreUnique /\ InOrder /\ StopsAreOld
  BY DEF QueueInv, QueueIsConsistent
<1>3. hit \subseteq LiveItems /\ hit \subseteq DOMAIN items /\ hit \subseteq Nat
  BY <1>2, LiveItemsAreItems DEF TypeOK
<1>4. "cancelled" \in TerminalStates
  BY DEF TerminalStates
<1>5. Ended(hit, "cancelled")
  BY CancelSessionEnds
<1>6. \A p \in keep : p \in DOMAIN items' /\ p \notin hit /\ items[p].state = "queued"
  <2> SUFFICES ASSUME NEW p \in keep
               PROVE  p \in DOMAIN items' /\ p \notin hit /\ items[p].state = "queued"
    OBVIOUS
  <2>1. p \in DOMAIN items' /\ items'[p].state = "queued" /\ p \in DOMAIN items
    BY <1>5 DEF InState, Ended
  <2>2. p \notin hit
    <3> HIDE DEF hit
    <3> SUFFICES ASSUME p \in hit PROVE FALSE
      OBVIOUS
    <3>1. items'[p] = [items[p] EXCEPT !.state = "cancelled"]
      BY <1>5, <2>1 DEF Ended
    <3>2. items[p] \in PlaybackItem
      BY <1>2, <2>1 DEF TypeOK
    <3> QED  BY <2>1, <3>1, <3>2 DEF PlaybackItem
  <2>3. items'[p] = items[p]
    <3> HIDE DEF hit
    <3> QED  BY <1>5, <2>1, <2>2 DEF Ended
  <2> QED  BY <2>1, <2>2, <2>3
<1>7. \A p \in LiveItems \ hit : items[p].state = "queued" => p \in keep
  <2> HIDE DEF hit
  <2>1. \A p \in LiveItems \ hit : p \in DOMAIN items' /\ items'[p] = items[p]
    BY <1>3, <1>4, <1>5, EndedItems
  <2> QED  BY <2>1 DEF InState
<1>8. ASSUME NEW c \in Clients
      PROVE  /\ queued[c] \in Seq(Nat) /\ queued'[c] \in Seq(Nat)
             /\ active'[c] \in Nat
             /\ Thinned(c, hit)
  <2> DEFINE q == queued[c]
             r == Only(q, keep)
  <2>1. q \in Seq(Nat) /\ active[c] \in Nat
    BY <1>2 DEF TypeOK
  <2>2. \A i \in DOMAIN q : q[i] \in LiveItems /\ items[q[i]].client = c /\ items[q[i]].state = "queued"
    BY <1>2 DEF EveryLiveItemHasOnePlace
  <2>3. /\ \A i, j \in DOMAIN q : i < j => q[i] < q[j]
        /\ active[c] # NoItem => \A i \in DOMAIN q : active[c] < q[i]
    BY <1>2 DEF InOrder
  <2>4. /\ r \in Seq(Nat)
        /\ DOMAIN r = 1 .. Len(r)
        /\ \A i \in DOMAIN r : r[i] \in keep /\ \E k \in DOMAIN q : q[k] = r[i]
        /\ \A k \in DOMAIN q : q[k] \in keep => \E i \in DOMAIN r : r[i] = q[k]
        /\ (\A i, j \in DOMAIN q : i < j => q[i] < q[j])
              => \A i, j \in DOMAIN r : i < j => r[i] < r[j]
    <3> HIDE DEF q, keep
    <3> QED  BY ONLY <2>1, OnlyKeeps
  <2>5. queued'[c] = IF Hit(c) THEN r ELSE q
    BY <1>1
  <2>6. active'[c] = IF Stopped(c) THEN NoItem ELSE active[c]
    BY <1>1
  <2> HIDE DEF r, q, keep
  <2>7. /\ queued'[c] \in Seq(Nat)
        /\ \A i \in DOMAIN queued'[c] : queued'[c][i] \notin hit /\ \E k \in DOMAIN q : q[k] = queued'[c][i]
        /\ \A i, j \in DOMAIN queued'[c] : i < j => queued'[c][i] < queued'[c][j]
        /\ \A k \in DOMAIN q : q[k] \notin hit => \E i \in DOMAIN queued'[c] : queued'[c][i] = q[k]
    <3>1. CASE Hit(c)
      <4>1. queued'[c] = r
        BY <2>5, <3>1
      <4> HIDE DEF hit, Hit
      <4> QED  BY <1>6, <1>7, <2>2, <2>3, <2>4, <4>1
    <3>2. CASE ~Hit(c)
      <4>1. queued'[c] = q
        BY <2>5, <3>2
      <4>2. \A k \in DOMAIN q : q[k] \notin hit
        BY <2>2, <3>2
      <4> HIDE DEF hit, Hit
      <4> QED  BY <2>1, <2>3, <4>1, <4>2
    <3> QED  BY <3>1, <3>2
  <2>8. ASSUME active'[c] # NoItem
        PROVE  /\ active'[c] \notin hit
               /\ active'[c] = active[c]
               /\ \A i \in DOMAIN queued'[c] : active'[c] < queued'[c][i]
    <3>1. active'[c] = active[c] /\ ~Stopped(c)
      BY <2>6, <2>8
    <3>2. active[c] \notin hit
      BY <1>2, <2>8, <3>1 DEF EveryLiveItemHasOnePlace
    <3> HIDE DEF hit, Stopped
    <3> QED  BY <2>3, <2>7, <2>8, <3>1, <3>2
  <2>9. ASSUME NEW p \in LiveItems \ hit, p = active[c]
        PROVE  p = active'[c]
    BY <2>6, <2>9
  <2>10. ASSUME NEW p \in LiveItems \ hit, p \in ElementsOf(q)
         PROVE  p \in ElementsOf(queued'[c])
    <3> HIDE DEF hit
    <3> QED  BY <2>7, <2>10 DEF ElementsOf
  <2>11. active'[c] \in Nat
    BY <2>1, <2>6 DEF NoItem
  <2> HIDE DEF hit
  <2>12. Thinned(c, hit)
    BY <2>7, <2>8, <2>9, <2>10 DEF Thinned, q
  <2> QED  BY <2>1, <2>7, <2>11, <2>12 DEF q
<1>9. /\ queued' \in [Clients -> Seq(Nat)]
      /\ active' \in [Clients -> Nat]
      /\ \A c \in Clients : Thinned(c, hit)
  <2>1. queued' = [c \in Clients |-> queued'[c]] /\ active' = [c \in Clients |-> active'[c]]
    BY <1>1
  <2> HIDE DEF hit
  <2> QED  BY <1>8, <2>1
<1>10. EveryLiveItemHasOnePlace' /\ InOrder'
  <2> HIDE DEF hit
  <2> QED  BY <1>3, <1>4, <1>5, <1>9, Thinning
<1>11. /\ \A p \in DOMAIN items' :
             /\ p \in DOMAIN items /\ items'[p] \in PlaybackItem
             /\ p \notin hit => items'[p] = items[p]
       /\ LiveItems' = LiveItems \ hit
       /\ LiveItems' \subseteq DOMAIN items'
  <2> HIDE DEF hit
  <2> QED  BY <1>3, <1>4, <1>5, EndedItems
<1>12. ASSUME NEW c \in Clients
       PROVE  /\ commands'[c] \in Seq(Nat)
              /\ commands'[c] # <<>> =>
                    /\ Len(commands'[c]) = 1
                    /\ active'[c] = NoItem
                    /\ Head(commands'[c]) \notin LiveItems'
              /\ \A i \in DOMAIN commands'[c] : commands'[c][i] <= playback_ids
  <2>1. commands[c] \in Seq(Nat)
    BY <1>2 DEF TypeOK
  <2>2. CASE Stopped(c)
    <3> DEFINE a == active[c]
    <3>1. a \in hit /\ a \in Nat \ {0} /\ a <= playback_ids
      BY <1>2, <1>3, <2>2 DEF TypeOK
    <3>2. commands[c] = <<>>
      BY <1>2, <3>1 DEF StopComesFirst, NoItem
    <3>3. commands'[c] = <<a>>
      <4>1. commands'[c] = WithStop(<<>>, a)
        BY <1>1, <2>2, <3>2
      <4> HIDE DEF a
      <4>2. Append(<<>>, a) = <<a>> /\ Len(<<a>>) = 1 /\ 1 <= MaxCommands
        BY QueueBoundsArePositive
      <4>3. a \notin ElementsOf(<<>>)
        BY DEF ElementsOf
      <4> QED  BY <4>1, <4>2, <4>3 DEF WithStop, Newest
    <3>4. active'[c] = NoItem
      BY <1>1, <2>2
    <3> HIDE DEF a, hit, Stopped
    <3> QED  BY <1>11, <3>1, <3>3, <3>4
  <2>3. CASE ~Stopped(c)
    <3>1. commands'[c] = commands[c] /\ active'[c] = active[c]
      BY <1>1, <2>3
    <3> HIDE DEF hit, Stopped
    <3> QED  BY <1>2, <1>11, <2>1, <3>1 DEF StopComesFirst, StopsAreOld
  <2> QED  BY <2>2, <2>3
<1>13. commands' \in [Clients -> Seq(Nat)]
  <2>1. commands' = [c \in Clients |-> commands'[c]]
    BY <1>1
  <2> HIDE DEF hit
  <2> QED  BY <1>12, <2>1
<1>14. StopComesFirst' /\ StopsAreOld'
  BY <1>1, <1>12 DEF StopComesFirst, StopsAreOld
<1>15. /\ cancelled_through' \in Seq(TombstoneRecord)
       /\ TombstonesAreUnique'
       /\ \A r \in Sessions \ {s} : Tombstone(r)' = Tombstone(r) \/ Tombstone(r)' = -1
  BY <1>1, <1>2, RememberKeeps
<1>16. NoLiveItemUnderTombstone'
  <2> SUFFICES ASSUME NEW p \in LiveItems'
               PROVE  (items[p].token.generation > Tombstone(items[p].token.session))'
    BY DEF NoLiveItemUnderTombstone
  <2>1. p \in LiveItems /\ p \in DOMAIN items /\ p \notin hit /\ items'[p] = items[p]
    BY <1>11, LiveItemsAreItems
  <2>2. items[p].token \in TurnToken
    BY <1>2, <2>1 DEF TypeOK, PlaybackItem
  <2>3. PICK r \in Sessions \ {s}, g \in Nat :
           items[p].token.session = r /\ items[p].token.generation = g
    BY <2>1, <2>2 DEF TurnToken
  <2>4. g > Tombstone(r)
    <3>1. NoLiveItemUnderTombstone
      BY <1>2
    <3> QED  BY <2>1, <2>3, <3>1 DEF NoLiveItemUnderTombstone
  <2>5. items'[p].token.session = r /\ items'[p].token.generation = g
    BY <2>1, <2>3
  <2>6. Tombstone(r)' = Tombstone(r) \/ Tombstone(r)' = -1
    BY <1>15
  <2>7. g > Tombstone(r)'
    BY <2>4, <2>6
  <2> QED  BY <2>5, <2>7
<1>17. FinishedItemsAreBounded'
  BY <1>5 DEF Ended
<1>18. TypeOK'
  BY <1>1, <1>2, <1>5, <1>9, <1>11, <1>13, <1>15 DEF TypeOK, Ended, TombstoneRecord
<1>19. QueueInv'
  BY <1>10, <1>14, <1>15, <1>16, <1>17, <1>18 DEF QueueInv, QueueIsConsistent
<1>20. \A p \in DOMAIN items' \ LiveItems : items'[p] = items[p]
  BY <1>3, <1>11
<1>21. \A c \in Clients : active'[c] = active[c] \/ active'[c] = NoItem
  BY <1>1
<1> QED  BY <1>11, <1>19, <1>20, <1>21

(* What the session store does leaves the queue alone.                     *)
LEMMA QueueIsUntouched ==
    ASSUME QueueInv, UNCHANGED queue_vars,
           issued' \subseteq TurnToken, current' \subseteq issued', IsFiniteSet(issued')
    PROVE  QueueInv'
<1>1. UNCHANGED <<items, queued, active, commands, cancelled_through, terminal_ids, playback_ids>>
  BY DEF queue_vars
<1>2. LiveItems' = LiveItems
  BY <1>1 DEF LiveItems
<1>3. TypeOK'
  BY <1>1 DEF QueueInv, QueueIsConsistent, TypeOK
<1>4. EveryLiveItemHasOnePlace'
  BY <1>1, <1>2 DEF QueueInv, QueueIsConsistent, EveryLiveItemHasOnePlace
<1>5. StopComesFirst' /\ FinishedItemsAreBounded'
  BY <1>1, <1>2 DEF QueueInv, QueueIsConsistent, StopComesFirst, FinishedItemsAreBounded
<1>6. NoLiveItemUnderTombstone'
  BY <1>1, <1>2 DEF QueueInv, QueueIsConsistent, NoLiveItemUnderTombstone, Tombstone
<1>7. InOrder' /\ StopsAreOld' /\ TombstonesAreUnique' /\ IsFiniteSet(issued)'
  BY <1>1 DEF QueueInv, InOrder, StopsAreOld, TombstonesAreUnique
<1> QED  BY <1>3, <1>4, <1>5, <1>6, <1>7 DEF QueueInv, QueueIsConsistent

LEMMA StoreStep ==
    ASSUME QueueInv, Store
    PROVE  QueueInv' /\ UNCHANGED queue_vars
<1>1. TypeOK /\ IsFiniteSet(issued)
  BY DEF QueueInv, QueueIsConsistent
<1>2. ASSUME NEW s \in Sessions, NEW g \in 0 .. GenerationLimit, HandOut(s, g)
      PROVE  QueueInv' /\ UNCHANGED queue_vars
  <2> DEFINE tok == [session |-> s, turn |-> Cardinality(issued) + 1, generation |-> g]
  <2>1. issued' = issued \cup {tok} /\ current' = current \cup {tok} /\ UNCHANGED queue_vars
    BY <1>2 DEF HandOut
  <2>2. tok \in TurnToken
    <3>1. Cardinality(issued) \in Nat
      BY <1>1, FS_CardinalityType
    <3> QED  BY <3>1, QueueBoundsArePositive DEF TurnToken
  <2> HIDE DEF tok
  <2>3. IsFiniteSet(issued')
    BY <1>1, <2>1, FS_AddElement
  <2> QED  BY <1>1, <2>1, <2>2, <2>3, QueueIsUntouched DEF TypeOK
<1>3. ASSUME NEW tok \in current, GoStale(tok)
      PROVE  QueueInv' /\ UNCHANGED queue_vars
  BY <1>1, <1>3, QueueIsUntouched DEF GoStale, TypeOK
<1> QED  BY <1>2, <1>3 DEF Store

LEMMA QueueInit ==
    Init => QueueInv
<1> SUFFICES ASSUME Init PROVE QueueInv
  OBVIOUS
<1>1. /\ items = [p \in {} |-> NoItem] /\ DOMAIN items = {}
      /\ queued = [c \in Clients |-> <<>>] /\ active = [c \in Clients |-> NoItem]
      /\ commands = [c \in Clients |-> <<>>]
      /\ cancelled_through = <<>> /\ terminal_ids = <<>> /\ playback_ids = 0
      /\ current = {} /\ issued = {}
  BY DEF Init
<1>2. LiveItems = {}
  BY <1>1 DEF LiveItems
<1>3. TypeOK
  BY <1>1 DEF TypeOK, NoItem
<1>4. EveryLiveItemHasOnePlace /\ StopComesFirst
  BY <1>1, <1>2 DEF EveryLiveItemHasOnePlace, StopComesFirst
<1>5. NoLiveItemUnderTombstone
  BY <1>2 DEF NoLiveItemUnderTombstone
<1>6. FinishedItemsAreBounded
  BY <1>1, <1>2, QueueBoundsArePositive DEF FinishedItemsAreBounded, ElementsOf
<1>7. InOrder /\ StopsAreOld /\ TombstonesAreUnique
  BY <1>1 DEF InOrder, StopsAreOld, TombstonesAreUnique
<1>8. IsFiniteSet(issued)
  BY <1>1, FS_EmptySet
<1> QED  BY <1>3, <1>4, <1>5, <1>6, <1>7, <1>8 DEF QueueInv, QueueIsConsistent

(* One step of the queue: it keeps the invariant, a client is served in    *)
(* order, and what has ended stays as it ended.                            *)
LEMMA QueueCallStep ==
    ASSUME QueueInv, QueueCall, UNCHANGED <<current, issued>>
    PROVE  /\ QueueInv'
           /\ \A c \in Clients :
                 active'[c] # active[c] /\ active'[c] # NoItem =>
                    \A p \in LiveItems' : items'[p].client = c => active'[c] <= p
           /\ \A p \in DOMAIN items' :
                 /\ p \in DOMAIN items \/ p > playback_ids
                 /\ p \in DOMAIN items \ LiveItems => items'[p].state = items[p].state
<1> DEFINE Goal ==
           /\ QueueInv'
           /\ \A c \in Clients :
                 active'[c] # active[c] /\ active'[c] # NoItem =>
                    \A p \in LiveItems' : items'[p].client = c => active'[c] <= p
           /\ \A p \in DOMAIN items' :
                 /\ p \in DOMAIN items \/ p > playback_ids
                 /\ p \in DOMAIN items \ LiveItems => items'[p].state = items[p].state
<1>1. TypeOK
  BY DEF QueueInv, QueueIsConsistent
<1>2. ASSUME NEW c \in Clients, NEW tok \in current, Enqueue(c, tok)
      PROVE  Goal
  <2>1. QueueInv'
    BY <1>2, EnqueueStep
  <2>2. /\ active' = active
        /\ DOMAIN items' = DOMAIN items \cup {playback_ids + 1}
        /\ \A p \in DOMAIN items : p # playback_ids + 1 => items'[p] = items[p]
    BY <1>2 DEF Enqueue
  <2>3. /\ \A p \in DOMAIN items : p # playback_ids + 1
        /\ playback_ids \in Nat /\ playback_ids + 1 > playback_ids
    BY <1>1 DEF TypeOK
  <2> QED  BY <2>1, <2>2, <2>3
<1>3. ASSUME NEW c \in Clients, StopCommand(c)
      PROVE  Goal
  <2>1. QueueInv'
    BY <1>3, StopCommandStep
  <2> QED  BY <1>3, <2>1 DEF StopCommand
<1>4. ASSUME NEW c \in Clients, PlayCommand(c)
      PROVE  Goal
  BY <1>4, PlayCommandStep
<1>5. ASSUME NEW c \in Clients, NoCommand(c)
      PROVE  Goal
  BY <1>5, NoCommandStep DEF NoCommand
<1>6. ASSUME NEW c \in Clients, NEW p \in DOMAIN items, AckStarted(c, p)
      PROVE  Goal
  BY <1>6, AckStartedStep DEF AckStarted
<1>7. ASSUME NEW c \in Clients, NEW p \in DOMAIN items, NEW state \in TerminalStates,
             AckFinished(c, p, state)
      PROVE  Goal
  BY <1>7, AckFinishedStep
<1>8. ASSUME NEW s \in Sessions, NEW floor \in {InferredFloor(s)} \cup 0 .. GenerationLimit,
             CancelSession(s, floor)
      PROVE  Goal
  <2>1. floor \in Int
    BY <1>1, InferredFloorIsInt, QueueBoundsArePositive
  <2> QED  BY <1>8, <2>1, CancelSessionStep
<1> HIDE DEF Goal
<1>9. Goal
  BY <1>2, <1>3, <1>4, <1>5, <1>6, <1>7, <1>8 DEF QueueCall, NextCommand
<1> QED  BY <1>9 DEF Goal

(* What others may rely on when they keep an item they were once handed:   *)
(* only new items come alive, an item keeps its token, and the client of   *)
(* an item changes to another one only after it has ended.                 *)
QueueMovesOn ==
    /\ playback_ids' \in Nat /\ playback_ids' >= playback_ids
    /\ \A p \in LiveItems' :
          \/ p \in LiveItems /\ items'[p].token = items[p].token
          \/ p > playback_ids /\ items'[p].token \in current
    /\ \A c \in Clients : active'[c] = active[c] \/ active[c] \notin LiveItems'

LEMMA SetTerminalKeepsTokens ==
    ASSUME TypeOK, NEW ids, NEW state, SetTerminal(ids, state)
    PROVE  \A p \in DOMAIN items' : p \in DOMAIN items /\ items'[p].token = items[p].token
<1>1. \A p \in DOMAIN items : items[p] \in PlaybackItem
  BY DEF TypeOK
<1> QED  BY <1>1 DEF SetTerminal, PlaybackItem

LEMMA FewerAreAlive ==
    ASSUME TypeOK, UNCHANGED playback_ids,
           \A p \in DOMAIN items' : p \in DOMAIN items /\ items'[p].token = items[p].token,
           \A p \in DOMAIN items' \ LiveItems : items'[p] = items[p],
           \A c \in Clients : active'[c] = active[c] \/ active[c] \notin LiveItems'
    PROVE  QueueMovesOn
<1>1. playback_ids' \in Nat /\ playback_ids' >= playback_ids
  BY DEF TypeOK
<1>2. \A p \in LiveItems' : p \in LiveItems /\ items'[p].token = items[p].token
  BY DEF LiveItems
<1> QED  BY <1>1, <1>2 DEF QueueMovesOn

LEMMA CancelSessionMovesOn ==
    ASSUME QueueInv, NEW s \in Sessions, NEW floor \in Int, CancelSession(s, floor),
           UNCHANGED <<current, issued>>
    PROVE  /\ QueueMovesOn
           /\ \A p \in LiveItems' : p \in LiveItems /\ items[p].token.session # s
           /\ \A c \in Clients :
                 \/ active'[c] = active[c] /\ commands'[c] = commands[c]
                 \/ active[c] # NoItem /\ commands'[c] = <<active[c]>>
<1> DEFINE hit == {p \in LiveItems : items[p].token.session = s}
           Stopped(c) == \E p \in hit : items[p].client = c /\ active[c] = p
<1>1. TypeOK /\ StopComesFirst
  BY DEF QueueInv, QueueIsConsistent
<1>2. /\ \A p \in DOMAIN items' : p \in DOMAIN items /\ items'[p].token = items[p].token
      /\ LiveItems' = LiveItems \ hit
  <2>1. Ended(hit, "cancelled")
    BY CancelSessionEnds
  <2>2. hit \subseteq LiveItems /\ "cancelled" \in TerminalStates
    BY DEF TerminalStates
  <2> HIDE DEF hit
  <2> QED  BY <2>1, <2>2, EndedItems
<1>3. /\ \A p \in DOMAIN items' \ LiveItems : items'[p] = items[p]
  BY CancelSessionStep
<1>4. /\ active' = [c \in Clients |-> IF Stopped(c) THEN NoItem ELSE active[c]]
      /\ commands' = [c \in Clients |->
                         IF Stopped(c) THEN WithStop(commands[c], active[c]) ELSE commands[c]]
      /\ playback_ids' = playback_ids
  BY DEF CancelSession
<1>5. ASSUME NEW c \in Clients, Stopped(c)
      PROVE  /\ active[c] \notin LiveItems'
             /\ active[c] # NoItem /\ commands'[c] = <<active[c]>>
  <2>1. active[c] \in hit
    BY <1>5
  <2>2. active[c] # NoItem
    BY <1>1, <2>1 DEF TypeOK, LiveItems, NoItem
  <2>3. commands[c] = <<>>
    BY <1>1, <2>2 DEF StopComesFirst
  <2>4. commands'[c] = WithStop(<<>>, active[c])
    BY <1>4, <1>5, <2>3
  <2>5. Append(<<>>, active[c]) = <<active[c]>> /\ Len(<<active[c]>>) = 1 /\ 1 <= MaxCommands
    BY QueueBoundsArePositive
  <2>6. active[c] \notin ElementsOf(<<>>)
    BY DEF ElementsOf
  <2>7. commands'[c] = <<active[c]>>
    BY <2>4, <2>5, <2>6 DEF WithStop, Newest
  <2> QED  BY <1>2, <2>1, <2>2, <2>7
<1>6. ASSUME NEW c \in Clients, ~Stopped(c)
      PROVE  active'[c] = active[c] /\ commands'[c] = commands[c]
  BY <1>4, <1>6
<1>7. \A p \in LiveItems' : p \in LiveItems /\ items[p].token.session # s
  BY <1>2
<1>8. QueueMovesOn
  <2> HIDE DEF hit, Stopped
  <2> QED  BY <1>1, <1>2, <1>3, <1>4, <1>5, <1>6, FewerAreAlive
<1> HIDE DEF hit, Stopped
<1> QED  BY <1>5, <1>6, <1>7, <1>8

LEMMA QueueCallMovesOn ==
    ASSUME QueueInv, QueueCall, UNCHANGED <<current, issued>>
    PROVE  QueueMovesOn
<1>1. /\ TypeOK
      /\ \A p \in DOMAIN items : p \in 1 .. playback_ids
      /\ playback_ids \in Nat
  BY DEF QueueInv, QueueIsConsistent, TypeOK
<1>2. ASSUME NEW c \in Clients, NEW tok \in current, Enqueue(c, tok)
      PROVE  QueueMovesOn
  <2> DEFINE new == playback_ids + 1
             item == [client |-> c, token |-> tok, state |-> "queued"]
  <2>1. /\ DOMAIN items' = DOMAIN items \cup {new}
        /\ \A p \in DOMAIN items' : items'[p] = IF p = new THEN item ELSE items[p]
        /\ playback_ids' = new /\ active' = active
    BY <1>2 DEF Enqueue
  <2>2. new \in Nat /\ new > playback_ids /\ new \notin DOMAIN items
    BY <1>1
  <2>3. item.token = tok
    OBVIOUS
  <2> HIDE DEF new, item
  <2>4. \A p \in LiveItems' : p = new \/ (p \in LiveItems /\ items'[p] = items[p])
    BY <2>1 DEF LiveItems
  <2>5. items'[new].token = tok
    BY <2>1, <2>3
  <2> QED  BY <1>1, <2>1, <2>2, <2>4, <2>5 DEF QueueMovesOn
<1>3. ASSUME NEW c \in Clients, StopCommand(c)
      PROVE  QueueMovesOn
  BY <1>1, <1>3, FewerAreAlive DEF StopCommand
<1>4. ASSUME NEW c \in Clients, PlayCommand(c)
      PROVE  QueueMovesOn
  <2>1. \E n : Discard(c, n)
    BY <1>4 DEF PlayCommand
  <2>2. \A p \in DOMAIN items' : p \in DOMAIN items /\ items'[p].token = items[p].token
    BY <1>1, <2>1, SetTerminalKeepsTokens DEF Discard
  <2>3. /\ \A p \in DOMAIN items' \ LiveItems : items'[p] = items[p]
        /\ \A d \in Clients \ {c} : active'[d] = active[d]
    BY <1>4, PlayCommandStep
  <2>4. active[c] = NoItem /\ playback_ids' = playback_ids
    BY <1>4 DEF PlayCommand
  <2>5. NoItem \notin LiveItems'
    BY <1>1, <2>2 DEF LiveItems, NoItem
  <2> QED  BY <1>1, <2>2, <2>3, <2>4, <2>5, FewerAreAlive
<1>5. ASSUME NEW c \in Clients, NoCommand(c)
      PROVE  QueueMovesOn
  <2>1. \A p \in DOMAIN items' : p \in DOMAIN items /\ items'[p].token = items[p].token
    BY <1>1, <1>5, SetTerminalKeepsTokens DEF NoCommand, Discard
  <2>2. \A p \in DOMAIN items' \ LiveItems : items'[p] = items[p]
    BY <1>5, NoCommandStep
  <2>3. active' = active /\ playback_ids' = playback_ids
    BY <1>5 DEF NoCommand
  <2> QED  BY <1>1, <2>1, <2>2, <2>3, FewerAreAlive
<1>6. ASSUME NEW c \in Clients, NEW p \in DOMAIN items, AckStarted(c, p)
      PROVE  QueueMovesOn
  <2>1. /\ items' = [items EXCEPT ![p].state = "started"]
        /\ active' = active /\ playback_ids' = playback_ids
    BY <1>6 DEF AckStarted
  <2>2. \A r \in DOMAIN items : items[r] \in PlaybackItem
    BY <1>1 DEF TypeOK
  <2>3. \A r \in DOMAIN items' : r \in DOMAIN items /\ items'[r].token = items[r].token
    BY <2>1, <2>2 DEF PlaybackItem
  <2>4. \A r \in DOMAIN items' \ LiveItems : items'[r] = items[r]
    BY <1>6, AckStartedStep
  <2> QED  BY <1>1, <2>1, <2>3, <2>4, FewerAreAlive
<1>7. ASSUME NEW c \in Clients, NEW p \in DOMAIN items, NEW state \in TerminalStates,
             AckFinished(c, p, state)
      PROVE  QueueMovesOn
  <2>1. /\ SetTerminal(<<p>>, state) /\ active[c] = p
        /\ active' = [active EXCEPT ![c] = NoItem] /\ playback_ids' = playback_ids
    BY <1>7 DEF AckFinished, CanFinish
  <2>2. \A r \in DOMAIN items' : r \in DOMAIN items /\ items'[r].token = items[r].token
    BY <1>1, <2>1, SetTerminalKeepsTokens
  <2>3. \A r \in DOMAIN items' \ LiveItems : items'[r] = items[r]
    BY <1>7, AckFinishedStep
  <2>4. p \in ElementsOf(<<p>>)
    BY DEF ElementsOf
  <2>5. items[p] \in PlaybackItem
    BY <1>1 DEF TypeOK
  <2>6. p \in DOMAIN items' => items'[p].state = state
    BY <2>1, <2>4, <2>5 DEF SetTerminal, PlaybackItem
  <2>7. p \notin LiveItems'
    BY <2>6 DEF LiveItems
  <2>8. \A d \in Clients : active'[d] = active[d] \/ active[d] = p
    BY <1>1, <2>1 DEF TypeOK
  <2> QED  BY <1>1, <2>1, <2>2, <2>3, <2>7, <2>8, FewerAreAlive
<1>8. ASSUME NEW s \in Sessions, NEW floor \in {InferredFloor(s)} \cup 0 .. GenerationLimit,
             CancelSession(s, floor)
      PROVE  QueueMovesOn
  <2>1. floor \in Int
    BY <1>1, InferredFloorIsInt, QueueBoundsArePositive
  <2> QED  BY <1>8, <2>1, CancelSessionMovesOn
<1> QED  BY <1>2, <1>3, <1>4, <1>5, <1>6, <1>7, <1>8 DEF QueueCall, NextCommand

LEMMA QueueNext ==
    ASSUME QueueInv, [Next]_vars
    PROVE  /\ QueueInv'
           /\ \A c \in Clients :
                 active'[c] # active[c] /\ active'[c] # NoItem =>
                    \A p \in LiveItems' : items'[p].client = c => active'[c] <= p
           /\ \A p \in DOMAIN items' :
                 /\ p \in DOMAIN items \/ p > playback_ids
                 /\ p \in DOMAIN items \ LiveItems => items'[p].state = items[p].state
<1>1. CASE QueueCall /\ UNCHANGED <<current, issued>>
  BY <1>1, QueueCallStep
<1>2. CASE Store
  BY <1>2, StoreStep DEF queue_vars
<1>3. CASE UNCHANGED vars
  <2>1. UNCHANGED queue_vars /\ issued' = issued /\ current' = current
    BY <1>3 DEF vars
  <2>2. QueueInv'
    BY <2>1, QueueIsUntouched DEF QueueInv, QueueIsConsistent, TypeOK
  <2> QED  BY <2>1, <2>2 DEF queue_vars
<1> QED  BY <1>1, <1>2, <1>3 DEF Next

LEMMA QueueInvHolds ==
    Spec => []QueueInv
<1>1. QueueInv /\ [Next]_vars => QueueInv'
  BY QueueNext
<1> QED  BY <1>1, QueueInit, PTL DEF Spec

(* QueueIsConsistent: whatever is enqueued, polled, acknowledged and       *)
(* cancelled, in any order (playback.py), an unfinished item waits exactly *)
(* once or is the one its client was handed; at most one STOP waits, ahead *)
(* of any audio; nothing a remembered cancellation covers is alive; and    *)
(* exactly the items in _terminal_ids are finished, within the bound.      *)
THEOREM QueueIsConsistentHolds ==
    Spec => []QueueIsConsistent
<1>1. QueueInv => QueueIsConsistent
  BY DEF QueueInv
<1> QED  BY <1>1, QueueInvHolds, PTL

(* QueueIsOrderly: next_command hands a client the oldest item it has, and *)
(* acknowledge and cancel_session never change how an item has ended nor   *)
(* bring a forgotten one back.                                             *)
THEOREM QueueIsOrderlyHolds ==
    Spec => QueueIsOrderly
<1>1. QueueInv /\ [Next]_vars =>
         [\A c \in Clients :
             active'[c] # active[c] /\ active'[c] # NoItem =>
                \A p \in LiveItems' : items'[p].client = c => active'[c] <= p]_vars
  BY QueueNext
<1>2. QueueInv /\ [Next]_vars =>
         [\A p \in DOMAIN items' :
             /\ p \in DOMAIN items \/ p > playback_ids
             /\ p \in DOMAIN items \ LiveItems => items'[p].state = items[p].state]_vars
  BY QueueNext
<1>3. Spec => PlaysInOrder
  BY <1>1, QueueInvHolds, PTL DEF Spec, PlaysInOrder
<1>4. Spec => PlaybackOutcomeIsFinal
  BY <1>2, QueueInvHolds, PTL DEF Spec, PlaybackOutcomeIsFinal
<1> QED  BY <1>3, <1>4 DEF QueueIsOrderly
=============================================================================
