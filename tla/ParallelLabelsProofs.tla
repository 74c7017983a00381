------------------------ MODULE ParallelLabelsProofs ------------------------
(***************************************************************************)
(* Proofs about ParallelLabels: the loop's unlocked read of the slice does  *)
(* no harm while a removal moves its elements, if there are two labels at   *)
(* most, or if at most one other pipeline can be running.                   *)
(***************************************************************************)
EXTENDS ParallelLabels, FiniteSetTheorems, SequenceTheorems, TLAPS

\* The read misses nothing if one of these holds: see Overwritten below.
AtMostTwoLabels == \A x, y, z \in Label : x = y \/ y = z \/ x = z
AtMostTwo == AtMostTwoLabels \/ MaxParallel <= 2

ReaderState ==
    [at : {"blocked", "read", "retry"}, len : Nat, next : Nat, seen : SUBSET Label]
RemoverState == [p : SUBSET Pipeline, len : Nat, next : Nat, j : Nat]

TypeInv ==
    /\ array \in Seq(Label) /\ length \in 0 .. Len(array)
    /\ running \in SUBSET Pipeline
    /\ permits \in Nat
    /\ reader \in ReaderState
    /\ remover \in RemoverState
    /\ reader.len <= Len(array) /\ reader.next >= 1
    /\ remover.p = {} => remover = NoRemover

\* A removal has elements up to j in place, and those from next on to look at.
Places == (1 .. remover.j) \cup (remover.next .. length)
Moving ==
    remover.p # {} =>
        /\ remover.len = length
        /\ remover.next \in 1 .. length + 1 /\ remover.j \in 0 .. remover.next - 1

\* A pipeline that runs, or whose labels are removed, has a permit; so has the loop
\* except while it waits for one.
LoopHas == IF reader.at = "blocked" THEN 0 ELSE 1
PermitsAccounted ==
    /\ IsFiniteSet(running)
    /\ \/ remover.p = {} /\ permits + Cardinality(running) + LoopHas = MaxParallel
       \/ /\ \E p \in Pipeline : remover.p = {p}
          /\ permits + Cardinality(running) + 1 + LoopHas = MaxParallel

\* While p's labels are removed, what is in its places are p's labels and those held.
RemovalIsSound ==
    \A p \in Pipeline : remover.p = {p} =>
        /\ {array[i] : i \in Places} \ LabelsOf(p) = Held
        /\ \A i, k \in Places : i # k => array[i] # array[k]
        /\ \A i \in 1 .. remover.j : array[i] \notin LabelsOf(p)

\* A label that is held was seen by the loop, or is still ahead of it.
NothingMissed ==
    reader.at = "read" =>
        \A l \in Held : l \in reader.seen \/ \E i \in reader.next .. reader.len : array[i] = l

LengthBound == AtMostTwoLabels => length <= 2

LabelInv ==
    /\ TypeInv /\ Moving /\ PermitsAccounted
    /\ SliceIsHeld /\ RemovalIsSound /\ LengthBound
    /\ NothingMissed /\ SharedLabelsExclude

-----------------------------------------------------------------------------
(* Types.                                                                   *)

LEMMA LabelsOfType ==
    ASSUME NEW p \in Pipeline
    PROVE  /\ LabelSeq[p] \in Seq(Label) /\ Len(LabelSeq[p]) \in Nat
           /\ \A i \in 1 .. Len(LabelSeq[p]) : LabelSeq[p][i] \in Label
           /\ \A i, k \in 1 .. Len(LabelSeq[p]) : i # k => LabelSeq[p][i] # LabelSeq[p][k]
           /\ LabelsOf(p) = {LabelSeq[p][i] : i \in 1 .. Len(LabelSeq[p])}
           /\ LabelsOf(p) \subseteq Label
<1>1. LabelSeq[p] \in Seq(Label)
  BY LabelSeqAssumption
<1>2. /\ Len(LabelSeq[p]) \in Nat /\ DOMAIN LabelSeq[p] = 1 .. Len(LabelSeq[p])
      /\ LabelSeq[p] \in [1 .. Len(LabelSeq[p]) -> Label]
  BY <1>1, LenProperties
<1>3. \A i, k \in 1 .. Len(LabelSeq[p]) : i # k => LabelSeq[p][i] # LabelSeq[p][k]
  BY <1>2, LabelSeqAssumption
<1>4. \A i \in 1 .. Len(LabelSeq[p]) : LabelSeq[p][i] \in Label
  BY <1>2
<1> QED
  BY <1>1, <1>2, <1>3, <1>4 DEF LabelsOf

LEMMA HeldType ==
    ASSUME running \in SUBSET Pipeline
    PROVE  Held \subseteq Label
  BY LabelsOfType DEF Held

\* The slice after the labels of p were appended to it.
LEMMA Appended ==
    ASSUME array \in Seq(Label), length \in 0 .. Len(array), NEW p \in Pipeline
    PROVE  LET new == SubSeq(array, 1, length) \o LabelSeq[p]
               n == Len(LabelSeq[p]) IN
           /\ new \in Seq(Label) /\ Len(new) = length + n
           /\ \A i \in 1 .. length : new[i] = array[i]
           /\ \A i \in length + 1 .. length + n : new[i] = LabelSeq[p][i - length]
<1> DEFINE n == Len(LabelSeq[p])
           old == SubSeq(array, 1, length)
           new == old \o LabelSeq[p]
<1>1. LabelSeq[p] \in Seq(Label) /\ n \in Nat
  BY LabelsOfType
<1>2. Len(array) \in Nat /\ array \in [1 .. Len(array) -> Label]
  BY LenProperties
<1>3. length \in Nat /\ \A i \in 1 .. length : array[i] \in Label
  BY <1>2
<1>4. /\ old \in Seq(Label) /\ Len(old) = IF 1 <= length THEN length - 1 + 1 ELSE 0
      /\ \A i \in 1 .. length - 1 + 1 : old[i] = array[1 + i - 1]
  BY <1>3, SubSeqProperties
<1>5. Len(old) = length /\ \A i \in 1 .. length : old[i] = array[i]
  BY <1>3, <1>4
<1> HIDE DEF old, n
<1>6. /\ old \o LabelSeq[p] \in Seq(Label)
      /\ Len(old \o LabelSeq[p]) = length + n
      /\ \A i \in 1 .. length + n : (old \o LabelSeq[p])[i] =
            IF i <= length THEN old[i] ELSE LabelSeq[p][i - length]
  BY <1>1, <1>4, <1>5, ConcatProperties DEF n
<1> HIDE DEF new
<1>7. \A i \in 1 .. length + n : new[i] = IF i <= length THEN old[i] ELSE LabelSeq[p][i - length]
  BY <1>6 DEF new
<1>8. \A i \in 1 .. length : i \in 1 .. length + n /\ i <= length
  BY <1>1, <1>3
<1>9. \A i \in 1 .. length : new[i] = array[i]
  BY <1>5, <1>7, <1>8
<1>10. \A i \in length + 1 .. length + n : i \in 1 .. length + n /\ ~(i <= length)
  BY <1>1, <1>3
<1>11. \A i \in length + 1 .. length + n : new[i] = LabelSeq[p][i - length]
  BY <1>7, <1>10
<1> QED
  BY <1>6, <1>9, <1>11 DEF old, n, new

\* An element is moved.
LEMMA Moved ==
    ASSUME array \in Seq(Label), NEW k \in 1 .. Len(array), NEW v \in Label
    PROVE  LET new == [array EXCEPT ![k] = v] IN
           /\ new \in Seq(Label) /\ Len(new) = Len(array)
           /\ \A i \in 1 .. Len(array) : new[i] = IF i = k THEN v ELSE array[i]
  BY ExceptSeq

LEMMA InitInv == Init => LabelInv
<1> SUFFICES ASSUME Init PROVE LabelInv
  OBVIOUS
<1>1. /\ <<>> \in Seq(Label) /\ Len(<<>>) = 0
  BY EmptySeq
<1>2. Held = {}
  BY DEF Init, Held
<1>3. TypeInv
  BY <1>1, MaxParallelAssumption DEF Init, TypeInv, NoReader, NoRemover, ReaderState, RemoverState
<1>4. Moving /\ RemovalIsSound /\ NothingMissed
  BY DEF Init, Moving, RemovalIsSound, NothingMissed, NoReader, NoRemover
<1>5. PermitsAccounted
  BY FS_EmptySet, MaxParallelAssumption
     DEF Init, PermitsAccounted, NoRemover, NoReader, LoopHas
<1>6. SliceIsHeld /\ LengthBound /\ SharedLabelsExclude
  BY <1>2 DEF Init, SliceIsHeld, LengthBound, SharedLabelsExclude
<1> QED
  BY <1>3, <1>4, <1>5, <1>6 DEF LabelInv

-----------------------------------------------------------------------------
(* The loop.                                                                *)

\* What does not depend on the loop.
LEMMA LoopMoves ==
    ASSUME LabelInv, UNCHANGED <<array, length, running, remover>>
    PROVE  /\ Moving' /\ SliceIsHeld' /\ RemovalIsSound' /\ LengthBound' /\ SharedLabelsExclude'
           /\ Held' = Held
<1>1. Held' = Held /\ Places' = Places /\ Unlocked' = Unlocked
  BY DEF Held, Places, Unlocked
<1>2. \A p \in Pipeline : remover.p = {p} => {array'[i] : i \in Places} = {array[i] : i \in Places}
  OBVIOUS
<1> QED
  BY <1>1, <1>2 DEF LabelInv, Moving, SliceIsHeld, RemovalIsSound, LengthBound, SharedLabelsExclude

\* Whatever is held is in the slice, whether or not elements are being moved.
LEMMA HeldInSlice ==
    ASSUME LabelInv, NEW l \in Held
    PROVE  \E i \in 1 .. length : array[i] = l
<1>1. CASE remover.p = {}
  <2>1. {array[i] : i \in 1 .. length} = Held
    BY <1>1 DEF LabelInv, TypeInv, SliceIsHeld, Unlocked
  <2> QED
    BY <2>1
<1>2. CASE remover.p # {}
  <2>1. PICK p \in Pipeline : remover.p = {p}
    BY <1>2 DEF LabelInv, PermitsAccounted
  <2>2. PICK i \in Places : array[i] = l
    BY <2>1 DEF LabelInv, RemovalIsSound
  <2>3. i \in 1 .. length
    BY <1>2 DEF LabelInv, TypeInv, Moving, Places, RemoverState
  <2> QED
    BY <2>2, <2>3
<1> QED
  BY <1>1, <1>2

LEMMA ReadHeaderStep ==
    ASSUME LabelInv, ReadHeader
    PROVE  LabelInv'
<1> DEFINE r == [at |-> "read", len |-> length, next |-> 1, seen |-> {}]
<1>1. reader' = r /\ UNCHANGED <<array, length, running, remover>>
  BY DEF ReadHeader
<1>2. /\ Moving' /\ SliceIsHeld' /\ RemovalIsSound' /\ LengthBound' /\ SharedLabelsExclude'
      /\ Held' = Held
  BY <1>1, LoopMoves
<1>3. /\ r \in ReaderState /\ r.len = length /\ r.next = 1 /\ r.at = "read" /\ r.seen = {}
      /\ length <= Len(array) /\ length \in Nat
  <2>1. Len(array) \in Nat
    BY LenProperties DEF LabelInv, TypeInv
  <2>2. length \in Nat /\ length <= Len(array)
    BY <2>1 DEF LabelInv, TypeInv
  <2> QED
    BY <2>2 DEF ReaderState
<1>4. permits' \in Nat /\ permits' + LoopHas' = permits + LoopHas
  <2>1. LoopHas' = 1 /\ permits \in Nat
    BY <1>1, <1>3 DEF LoopHas, LabelInv, TypeInv
  <2>2. CASE reader.at = "blocked" /\ permits > 0 /\ permits' = permits - 1
    BY <2>1, <2>2 DEF LoopHas
  <2>3. CASE reader.at = "retry" /\ UNCHANGED permits
    BY <2>1, <2>3 DEF LoopHas
  <2> QED
    BY <2>2, <2>3 DEF ReadHeader
<1>5. PermitsAccounted'
  <2>1. LoopHas \in Nat /\ LoopHas' \in Nat /\ permits \in Nat
    BY DEF LoopHas, LabelInv, TypeInv
  <2>2. Cardinality(running) \in Nat /\ IsFiniteSet(running)
    BY FS_CardinalityType DEF LabelInv, PermitsAccounted
  <2>3. PermitsAccounted
    BY DEF LabelInv
  <2>4. /\ permits' + Cardinality(running) + LoopHas' = permits + Cardinality(running) + LoopHas
        /\ permits' + Cardinality(running) + 1 + LoopHas' = permits + Cardinality(running) + 1 + LoopHas
    <3> DEFINE a == permits'
               c == LoopHas'
               d == LoopHas
               n == Cardinality(running)
    <3>1. a \in Nat /\ permits \in Nat /\ c \in Nat /\ d \in Nat /\ n \in Nat /\ a + c = permits + d
      BY <1>4, <2>1, <2>2
    <3> HIDE DEF a, c, d, n
    <3>2. a + n + c = permits + n + d /\ a + n + 1 + c = permits + n + 1 + d
      BY <3>1
    <3> QED
      BY <3>2 DEF a, c, d, n
  <2> QED
    BY <1>1, <2>2, <2>3, <2>4 DEF PermitsAccounted
<1>6. NothingMissed'
  BY <1>1, <1>2, <1>3, HeldInSlice DEF NothingMissed
<1>7. TypeInv'
  BY <1>1, <1>3, <1>4 DEF LabelInv, TypeInv
<1> QED
  BY <1>2, <1>5, <1>6, <1>7 DEF LabelInv

LEMMA ReadElementStep ==
    ASSUME LabelInv, ReadElement
    PROVE  LabelInv'
<1> DEFINE k == reader.next
           s == reader.seen \cup {array[k]}
<1>1. /\ UNCHANGED <<array, length, running, remover, permits>>
      /\ reader.at = "read" /\ k <= reader.len
  BY DEF ReadElement
<1>2. /\ reader \in ReaderState /\ k \in Nat /\ k >= 1 /\ reader.len \in Nat
      /\ reader.len <= Len(array) /\ Len(array) \in Nat /\ reader.seen \subseteq Label
      /\ \A i \in 1 .. Len(array) : array[i] \in Label
  BY LenProperties, ElementOfSeq DEF LabelInv, TypeInv, ReaderState
<1>3. k \in 1 .. Len(array) /\ s \subseteq Label
  BY <1>1, <1>2
<1>4. /\ reader' \in ReaderState /\ reader'.at = "read" /\ reader'.next = k + 1
      /\ reader'.len = reader.len /\ reader'.seen = s
  <2> HIDE DEF s
  <2>1. reader' = [reader EXCEPT !.next = k + 1, !.seen = s]
    BY DEF ReadElement, s
  <2>2. k + 1 \in Nat
    BY <1>2
  <2> QED
    BY <1>1, <1>2, <1>3, <2>1, <2>2 DEF ReaderState
<1>5. /\ Moving' /\ SliceIsHeld' /\ RemovalIsSound' /\ LengthBound' /\ SharedLabelsExclude'
      /\ Held' = Held
  BY <1>1, LoopMoves
<1>6. PermitsAccounted'
  BY <1>1, <1>4 DEF LabelInv, PermitsAccounted, LoopHas
<1>7. NothingMissed'
  <2> SUFFICES ASSUME NEW l \in Held, l \notin s
               PROVE  \E i \in k + 1 .. reader.len : array[i] = l
    BY <1>1, <1>4, <1>5 DEF NothingMissed
  <2>1. PICK i \in k .. reader.len : array[i] = l
    BY <1>1 DEF LabelInv, NothingMissed
  <2>2. i # k
    BY <2>1
  <2>3. i \in k + 1 .. reader.len
    BY <1>2, <2>2
  <2> QED
    BY <2>1, <2>3
<1>8. TypeInv'
  BY <1>1, <1>2, <1>4 DEF LabelInv, TypeInv
<1> QED
  BY <1>5, <1>6, <1>7, <1>8 DEF LabelInv

LEMMA AdmitNoneStep ==
    ASSUME LabelInv, AdmitNone
    PROVE  LabelInv'
<1>1. /\ UNCHANGED <<array, length, running, remover, permits>>
      /\ reader.at = "read"
      /\ reader' = [at |-> "retry", len |-> 0, next |-> 1, seen |-> {}]
  BY DEF AdmitNone, NoReader
<1>2. /\ Moving' /\ SliceIsHeld' /\ RemovalIsSound' /\ LengthBound' /\ SharedLabelsExclude'
  BY <1>1, LoopMoves
<1>3. PermitsAccounted' /\ NothingMissed'
  BY <1>1 DEF LabelInv, PermitsAccounted, LoopHas, NothingMissed
<1>4. TypeInv'
  <2>1. Len(array) \in Nat
    BY LenProperties DEF LabelInv, TypeInv
  <2> QED
    BY <1>1, <2>1 DEF LabelInv, TypeInv, ReaderState
<1> QED
  BY <1>2, <1>3, <1>4 DEF LabelInv

\* The pipeline is admitted: the loop has seen all that is held, and nothing of it
\* is a label of p.
LEMMA AdmitStep ==
    ASSUME LabelInv, NEW p \in Pipeline, Admit(p)
    PROVE  LabelInv'
<1> DEFINE n == Len(LabelSeq[p])
           new == SubSeq(array, 1, length) \o LabelSeq[p]
<1>1. /\ array' = new /\ length' = length + n
      /\ running' = running \cup {p} /\ p \notin running
      /\ reader' = NoReader /\ UNCHANGED <<permits, remover>>
      /\ remover = NoRemover /\ reader.at = "read" /\ reader.next > reader.len
      /\ Unseen(p)
  BY DEF Admit, Waiting, Unlocked
<1>2. /\ n \in Nat /\ LabelsOf(p) = {LabelSeq[p][i] : i \in 1 .. n} /\ LabelsOf(p) \subseteq Label
      /\ \A i, k \in 1 .. n : i # k => LabelSeq[p][i] # LabelSeq[p][k]
  BY LabelsOfType
<1>3. /\ new \in Seq(Label) /\ Len(new) = length + n
      /\ \A i \in 1 .. length : new[i] = array[i]
      /\ \A i \in length + 1 .. length + n : new[i] = LabelSeq[p][i - length]
  BY Appended DEF LabelInv, TypeInv
<1>4. length \in Nat
  BY LenProperties DEF LabelInv, TypeInv
<1> HIDE DEF n, new
<1>5. LabelsOf(p) \cap Held = {}
  <2>1. \A i : i \notin reader.next .. reader.len
    BY <1>1 DEF LabelInv, TypeInv, ReaderState
  <2>2. Held \subseteq reader.seen
    BY <1>1, <2>1 DEF LabelInv, NothingMissed
  <2> QED
    BY <1>1, <2>2 DEF Unseen
<1>6. Held' = Held \cup LabelsOf(p)
  BY <1>1 DEF Held
<1>7. SharedLabelsExclude'
  <2>1. \A q \in running : LabelsOf(p) \cap LabelsOf(q) = {}
    BY <1>5 DEF Held
  <2> QED
    BY <1>1, <2>1 DEF LabelInv, SharedLabelsExclude
<1>8. /\ {array[i] : i \in 1 .. length} = Held
      /\ \A i, k \in 1 .. length : i # k => array[i] # array[k]
  BY <1>1 DEF LabelInv, SliceIsHeld, Unlocked
<1>9. \A i \in 1 .. length + n :
         \/ i \in 1 .. length /\ new[i] = array[i] /\ new[i] \in Held
         \/ /\ i \notin 1 .. length /\ i - length \in 1 .. n
            /\ new[i] = LabelSeq[p][i - length] /\ new[i] \in LabelsOf(p)
  <2> SUFFICES ASSUME NEW i \in 1 .. length + n
               PROVE  \/ i \in 1 .. length /\ new[i] = array[i] /\ new[i] \in Held
                      \/ /\ i \notin 1 .. length /\ i - length \in 1 .. n
                         /\ new[i] = LabelSeq[p][i - length] /\ new[i] \in LabelsOf(p)
    OBVIOUS
  <2>1. CASE i <= length
    <3>1. i \in 1 .. length
      BY <2>1, <1>2, <1>4
    <3> QED
      BY <3>1, <1>3, <1>8
  <2>2. CASE ~(i <= length)
    <3>1. i \in length + 1 .. length + n /\ i - length \in 1 .. n /\ i \notin 1 .. length
      BY <2>2, <1>2, <1>4
    <3>2. new[i] = LabelSeq[p][i - length]
      BY <3>1, <1>3
    <3> QED
      BY <3>1, <3>2, <1>2
  <2> QED
    BY <2>1, <2>2
<1>10. \A i, k \in 1 .. length + n : i # k => new[i] # new[k]
  <2> SUFFICES ASSUME NEW i \in 1 .. length + n, NEW k \in 1 .. length + n, i # k, new[i] = new[k]
               PROVE  FALSE
    OBVIOUS
  <2>1. CASE i \in 1 .. length /\ k \in 1 .. length
    BY <2>1, <1>8, <1>9
  <2>2. CASE i \notin 1 .. length /\ k \notin 1 .. length
    <3>1. i - length \in 1 .. n /\ k - length \in 1 .. n /\ i - length # k - length
      BY <2>2, <1>2, <1>4, <1>9
    <3> QED
      BY <2>2, <3>1, <1>2, <1>9
  <2> QED
    BY <2>1, <2>2, <1>5, <1>9
<1>11. {new[i] : i \in 1 .. length + n} = Held \cup LabelsOf(p)
  <2>1. \A l \in Held : \E i \in 1 .. length + n : new[i] = l
    <3> TAKE l \in Held
    <3>1. PICK i \in 1 .. length : array[i] = l
      BY <1>8
    <3>2. i \in 1 .. length + n
      BY <1>2, <1>4
    <3> QED
      BY <3>1, <3>2, <1>3
  <2>2. \A l \in LabelsOf(p) : \E i \in 1 .. length + n : new[i] = l
    <3> TAKE l \in LabelsOf(p)
    <3>1. PICK k \in 1 .. n : LabelSeq[p][k] = l
      BY <1>2
    <3> DEFINE m == length + k
    <3>2. m \in length + 1 .. length + n /\ m \in 1 .. length + n /\ m - length = k
      BY <1>2, <1>4
    <3> HIDE DEF m
    <3>3. new[m] = LabelSeq[p][m - length]
      BY <1>3, <3>2
    <3> QED
      BY <3>1, <3>2, <3>3
  <2> QED
    BY <1>9, <2>1, <2>2
<1>12. SliceIsHeld'
  BY <1>1, <1>6, <1>10, <1>11 DEF SliceIsHeld
<1>13. LengthBound'
  <2> SUFFICES ASSUME AtMostTwoLabels, ~(length + n <= 2) PROVE FALSE
    BY <1>1 DEF LengthBound
  <2>1. /\ 1 \in 1 .. length + n /\ 2 \in 1 .. length + n /\ 3 \in 1 .. length + n
        /\ 1 # 2 /\ 1 # 3 /\ 2 # 3
    BY <1>2, <1>4
  <2>2. new[1] \in Label /\ new[2] \in Label /\ new[3] \in Label
    BY <2>1, <1>3, ElementOfSeq
  <2>3. new[1] # new[2] /\ new[1] # new[3] /\ new[2] # new[3]
    BY <2>1, <1>10
  <2> QED
    BY <2>2, <2>3 DEF AtMostTwoLabels
<1>14. PermitsAccounted'
  <2>1. /\ IsFiniteSet(running) /\ Cardinality(running) \in Nat
        /\ permits + Cardinality(running) + 1 = MaxParallel /\ permits \in Nat
    BY <1>1, FS_CardinalityType DEF LabelInv, TypeInv, PermitsAccounted, LoopHas, NoRemover
  <2>2. IsFiniteSet(running') /\ Cardinality(running') = Cardinality(running) + 1
    BY <1>1, <2>1, FS_AddElement
  <2>3. LoopHas' = 0
    BY <1>1 DEF LoopHas, NoReader
  <2>4. remover'.p = {}
    BY <1>1 DEF NoRemover
  <2>5. permits' + Cardinality(running') + LoopHas' = MaxParallel
    BY <1>1, <2>1, <2>2, <2>3
  <2> QED
    BY <2>2, <2>4, <2>5 DEF PermitsAccounted
<1>15. Moving' /\ RemovalIsSound' /\ NothingMissed'
  BY <1>1 DEF Moving, RemovalIsSound, NothingMissed, NoReader, NoRemover
<1>16. TypeInv'
  <2>1. reader' \in ReaderState /\ reader'.len = 0 /\ reader'.next = 1
    BY <1>1 DEF NoReader, ReaderState
  <2>2. Len(array') \in Nat /\ length' \in 0 .. Len(array')
    BY <1>1, <1>2, <1>3, <1>4
  <2>3. reader'.len <= Len(array') /\ reader'.next >= 1
    BY <2>1, <2>2
  <2> QED
    BY <1>1, <1>3, <2>1, <2>2, <2>3 DEF LabelInv, TypeInv
<1> QED
  BY <1>7, <1>12, <1>13, <1>14, <1>15, <1>16 DEF LabelInv

-----------------------------------------------------------------------------
(* The removal.                                                             *)

LEMMA RemoveBeginStep ==
    ASSUME LabelInv, NEW p \in Pipeline, RemoveBegin(p)
    PROVE  LabelInv'
<1>1. /\ p \in running /\ remover = NoRemover /\ remover.p = {}
      /\ running' = running \ {p}
      /\ remover' = [p |-> {p}, len |-> length, next |-> 1, j |-> 0]
      /\ UNCHANGED <<array, length, permits, reader>>
  BY DEF RemoveBegin, Unlocked, NoRemover
<1>2. length \in Nat
  BY LenProperties DEF LabelInv, TypeInv
<1>3. Held' = Held \ LabelsOf(p)
  <2>1. \A q \in running \ {p} : LabelsOf(q) \cap LabelsOf(p) = {}
    BY <1>1 DEF LabelInv, SharedLabelsExclude
  <2> QED
    BY <1>1, <2>1 DEF Held
<1>4. /\ remover'.p = {p} /\ remover'.len = length /\ remover'.next = 1 /\ remover'.j = 0
      /\ remover' \in RemoverState
  BY <1>1, <1>2 DEF RemoverState
<1>5. Places' = 1 .. length
  BY <1>1, <1>2, <1>4 DEF Places
<1>6. /\ {array[i] : i \in 1 .. length} = Held
      /\ \A i, k \in 1 .. length : i # k => array[i] # array[k]
  BY <1>1 DEF LabelInv, SliceIsHeld, Unlocked
<1>7. RemovalIsSound'
  <2>1. \A i \in 1 .. remover'.j : FALSE
    BY <1>4
  <2>2. {array'[i] : i \in Places'} = Held
    BY <1>1, <1>5, <1>6
  <2>3. \A i, k \in Places' : i # k => array'[i] # array'[k]
    BY <1>1, <1>5, <1>6
  <2> QED
    BY <1>3, <1>4, <2>1, <2>2, <2>3 DEF RemovalIsSound
<1>8. Moving'
  BY <1>1, <1>2, <1>4 DEF Moving
<1>9. SliceIsHeld'
  BY <1>4 DEF SliceIsHeld, Unlocked, NoRemover
<1>10. LengthBound' /\ SharedLabelsExclude'
  BY <1>1 DEF LabelInv, LengthBound, SharedLabelsExclude
<1>11. NothingMissed'
  BY <1>1, <1>3 DEF LabelInv, NothingMissed
<1>12. PermitsAccounted'
  <2>1. /\ IsFiniteSet(running) /\ Cardinality(running) \in Nat
        /\ permits + Cardinality(running) + LoopHas = MaxParallel /\ permits \in Nat
    BY <1>1, FS_CardinalityType DEF LabelInv, TypeInv, PermitsAccounted
  <2>2. IsFiniteSet(running') /\ Cardinality(running') = Cardinality(running) - 1
    BY <1>1, <2>1, FS_RemoveElement
  <2>3. LoopHas' = LoopHas /\ LoopHas \in Nat
    BY <1>1 DEF LoopHas
  <2>4. permits' + Cardinality(running') + 1 + LoopHas' = MaxParallel
    BY <1>1, <2>1, <2>2, <2>3
  <2> QED
    BY <1>4, <2>2, <2>4 DEF PermitsAccounted
<1>13. TypeInv'
  BY <1>1, <1>4 DEF LabelInv, TypeInv
<1> QED
  BY <1>7, <1>8, <1>9, <1>10, <1>11, <1>12, <1>13 DEF LabelInv

\* The loop cannot read while a removal goes on and a third pipeline runs, where
\* there are two permits.
LEMMA NobodyElseRuns ==
    ASSUME LabelInv, MaxParallel <= 2, reader.at = "read", remover.p # {}
    PROVE  Held = {}
<1>1. /\ IsFiniteSet(running) /\ Cardinality(running) \in Nat
      /\ permits + Cardinality(running) + 1 + LoopHas = MaxParallel /\ permits \in Nat
      /\ LoopHas = 1
  BY FS_CardinalityType DEF LabelInv, TypeInv, PermitsAccounted, LoopHas
<1>2. Cardinality(running) = 0
  BY <1>1, MaxParallelAssumption
<1>3. running = {}
  BY <1>1, <1>2, FS_EmptySet
<1> QED
  BY <1>3 DEF Held

\* What a removal overwrites is not held any more, where there are two labels: the
\* first element was removed and the second is the one that is kept.
LEMMA Overwritten ==
    ASSUME LabelInv, AtMostTwoLabels, remover.p # {}, remover.next <= length,
           remover.j + 1 # remover.next, array[remover.j + 1] \in Held
    PROVE  array[remover.j + 1] = array[remover.next]
<1>1. /\ length \in Nat /\ length <= 2
      /\ remover.next \in 1 .. length + 1 /\ remover.j \in 0 .. remover.next - 1
  BY LenProperties DEF LabelInv, TypeInv, LengthBound, Moving
<1>2. remover.j = 0 /\ remover.next = 2 /\ length = 2
  BY <1>1
<1>3. Places = {2}
  BY <1>2 DEF Places
<1>4. PICK p \in Pipeline : remover.p = {p}
  BY DEF LabelInv, PermitsAccounted
<1>5. Held \subseteq {array[2]}
  BY <1>3, <1>4 DEF LabelInv, RemovalIsSound
<1> QED
  BY <1>2, <1>5

\* One turn of the removal: where the element is kept, the place after j gets it.
LEMMA RemoveStepStep ==
    ASSUME LabelInv, RemoveStep, AtMostTwo
    PROVE  LabelInv'
<1> DEFINE j == remover.j
           x == remover.next
           v == array[x]
<1>1. PICK p \in Pipeline : remover.p = {p}
  BY DEF RemoveStep, LabelInv, PermitsAccounted
<1>2. /\ remover.p # {} /\ x <= length /\ UNCHANGED <<length, running, permits, reader>>
      /\ IF v \in LabelsOf(p)
         THEN remover' = [remover EXCEPT !.next = x + 1] /\ UNCHANGED array
         ELSE /\ remover' = [remover EXCEPT !.next = x + 1, !.j = j + 1]
              /\ array' = [array EXCEPT ![j + 1] = v]
  BY <1>1 DEF RemoveStep, LabelInv, Moving
<1>3. /\ length \in Nat /\ Len(array) \in Nat /\ length <= Len(array)
      /\ x \in 1 .. length /\ j \in 0 .. x - 1 /\ x \in Nat /\ j \in Nat
      /\ remover.len = length /\ remover \in RemoverState
  BY <1>2, LenProperties DEF LabelInv, TypeInv, Moving, RemoverState
<1>4. v \in Label /\ j + 1 \in 1 .. Len(array) /\ j + 1 <= x
  <2>1. x \in 1 .. Len(array) /\ j + 1 \in 1 .. Len(array) /\ j + 1 <= x
    BY <1>3
  <2> QED
    BY <2>1, ElementOfSeq DEF LabelInv, TypeInv
<1>5. /\ remover' \in RemoverState /\ remover'.p = {p} /\ remover'.len = length
      /\ remover'.next = x + 1
      /\ remover'.j = IF v \in LabelsOf(p) THEN j ELSE j + 1
  <2>1. x + 1 \in Nat /\ j + 1 \in Nat /\ j = remover.j
    BY <1>3
  <2> HIDE DEF x, j, v
  <2>2. CASE v \in LabelsOf(p)
    BY <2>2, <1>1, <1>2, <1>3, <2>1 DEF RemoverState
  <2>3. CASE v \notin LabelsOf(p)
    BY <2>3, <1>1, <1>2, <1>3, <2>1 DEF RemoverState
  <2> QED
    BY <2>2, <2>3
<1>6. /\ array' \in Seq(Label) /\ Len(array') = Len(array)
      /\ \A i \in 1 .. Len(array) :
            array'[i] = IF i = j + 1 /\ v \notin LabelsOf(p) THEN v ELSE array[i]
  BY <1>2, <1>4, Moved DEF LabelInv, TypeInv
<1>7. /\ {array[i] : i \in Places} \ LabelsOf(p) = Held
      /\ \A i, k \in Places : i # k => array[i] # array[k]
      /\ \A i \in 1 .. j : array[i] \notin LabelsOf(p)
  BY <1>1 DEF LabelInv, RemovalIsSound
<1>8. Held' = Held
  BY <1>2 DEF Held
<1>9. Places = (1 .. j) \cup {x} \cup (x + 1 .. length)
  BY <1>3 DEF Places
<1>10. Places' = (IF v \in LabelsOf(p) THEN 1 .. j ELSE 1 .. j + 1) \cup (x + 1 .. length)
  BY <1>2, <1>5 DEF Places
<1> HIDE DEF x, j, v
<1>11. RemovalIsSound'
  <2>1. CASE v \in LabelsOf(p)
    <3>1. Places' = (1 .. j) \cup (x + 1 .. length)
      BY <2>1, <1>10
    <3>2. \A i \in Places' : i \in Places /\ array'[i] = array[i]
      BY <2>1, <3>1, <1>2, <1>9
    <3>3. \A i \in Places : array[i] \notin LabelsOf(p) => i \in Places'
      BY <2>1, <3>1, <1>9 DEF v
    <3>4. {array'[i] : i \in Places'} \ LabelsOf(p) = Held
      BY <3>2, <3>3, <1>7
    <3>5. \A i \in 1 .. remover'.j : array'[i] \notin LabelsOf(p)
      BY <2>1, <1>2, <1>5, <1>7
    <3>6. \A i, k \in Places' : i # k => array'[i] # array'[k]
      BY <3>2, <1>7
    <3> QED
      BY <3>4, <3>5, <3>6, <1>5, <1>8 DEF RemovalIsSound
  <2>2. CASE v \notin LabelsOf(p)
    <3>1. Places' = (1 .. j) \cup {j + 1} \cup (x + 1 .. length)
      BY <2>2, <1>3, <1>10
    <3>2. \A i \in (1 .. j) \cup (x + 1 .. length) :
             i # j + 1 /\ i # x /\ i \in Places /\ i \in 1 .. Len(array)
      BY <1>3, <1>4, <1>9
    <3>3. \A i \in (1 .. j) \cup (x + 1 .. length) : array'[i] = array[i]
      BY <3>2, <1>6
    <3>4. array'[j + 1] = array[x] /\ x \in Places
      BY <2>2, <1>4, <1>6, <1>9 DEF v
    <3> DEFINE Old == (1 .. j) \cup (x + 1 .. length)
    <3> HIDE DEF Old
    <3>5. /\ Places' = Old \cup {j + 1} /\ Places = Old \cup {x}
          /\ \A i \in Old : i # j + 1 /\ i # x /\ array'[i] = array[i]
      BY <3>1, <3>2, <3>3, <1>9 DEF Old
    <3>6. {array'[i] : i \in Places'} = {array[i] : i \in Places}
      BY <3>4, <3>5
    <3>7. \A i, k \in Places' : i # k => array'[i] # array'[k]
      BY <3>4, <3>5, <1>7
    <3>8. \A i \in 1 .. j : i \in Old
      BY DEF Old
    <3>9. \A i \in 1 .. j + 1 : i \in 1 .. j \/ i = j + 1
      BY <1>3
    <3>10. \A i \in 1 .. remover'.j : array'[i] \notin LabelsOf(p)
      BY <2>2, <3>4, <3>5, <3>8, <3>9, <1>5, <1>7 DEF v
    <3> QED
      BY <3>6, <3>7, <3>10, <1>5, <1>7, <1>8 DEF RemovalIsSound
  <2> QED
    BY <2>1, <2>2
<1>12. Moving'
  BY <1>2, <1>3, <1>5 DEF Moving
<1>13. SliceIsHeld' /\ LengthBound' /\ SharedLabelsExclude'
  BY <1>2, <1>5 DEF LabelInv, SliceIsHeld, Unlocked, NoRemover, LengthBound, SharedLabelsExclude
<1>14. PermitsAccounted'
  BY <1>1, <1>2, <1>5 DEF LabelInv, PermitsAccounted, LoopHas
<1>15. NothingMissed'
  <2> SUFFICES ASSUME reader.at = "read", NEW l \in Held, l \notin reader.seen
               PROVE  \E i \in reader.next .. reader.len : array'[i] = l
    BY <1>2, <1>8 DEF NothingMissed
  <2>1. AtMostTwoLabels
    BY <1>2, NobodyElseRuns DEF AtMostTwo
  <2>2. PICK i \in reader.next .. reader.len : array[i] = l
    BY DEF LabelInv, NothingMissed
  <2>3. i \in 1 .. Len(array)
    BY <1>3 DEF LabelInv, TypeInv, ReaderState
  <2>4. CASE i = j + 1 /\ v \notin LabelsOf(p)
    <3>1. array'[i] = v
      BY <2>3, <2>4, <1>6
    <3>2. CASE j + 1 = x
      BY <2>2, <2>4, <3>1, <3>2 DEF v
    <3>3. CASE j + 1 # x
      <4>1. array[j + 1] = array[x]
        BY <2>1, <2>2, <2>4, <3>3, <1>2, Overwritten DEF j, x
      <4> QED
        BY <2>2, <2>4, <3>1, <4>1 DEF v
    <3> QED
      BY <3>2, <3>3
  <2>5. CASE ~(i = j + 1 /\ v \notin LabelsOf(p))
    BY <2>2, <2>3, <2>5, <1>6
  <2> QED
    BY <2>4, <2>5
<1>16. TypeInv'
  <2>1. remover'.p # {}
    BY <1>5
  <2> QED
    BY <2>1, <1>2, <1>3, <1>5, <1>6 DEF LabelInv, TypeInv
<1> QED
  BY <1>11, <1>12, <1>13, <1>14, <1>15, <1>16 DEF LabelInv

LEMMA RemoveEndStep ==
    ASSUME LabelInv, RemoveEnd
    PROVE  LabelInv'
<1> DEFINE j == remover.j
<1>1. PICK p \in Pipeline : remover.p = {p}
  BY DEF RemoveEnd, LabelInv, PermitsAccounted
<1>2. /\ remover.p # {} /\ remover.next > remover.len
      /\ length' = j /\ remover' = NoRemover /\ permits' = permits + 1
      /\ UNCHANGED <<array, running, reader>>
  BY DEF RemoveEnd
<1>3. /\ length \in Nat /\ Len(array) \in Nat /\ length <= Len(array)
      /\ remover.next = length + 1 /\ j \in 0 .. length /\ j \in Nat
  BY <1>2, LenProperties DEF LabelInv, TypeInv, Moving, RemoverState
<1>4. Places = 1 .. j
  BY <1>3 DEF Places
<1> HIDE DEF j
<1>5. /\ {array[i] : i \in 1 .. j} \ LabelsOf(p) = Held
      /\ \A i, k \in 1 .. j : i # k => array[i] # array[k]
      /\ \A i \in 1 .. j : array[i] \notin LabelsOf(p)
  BY <1>1, <1>4 DEF LabelInv, RemovalIsSound, j
<1>6. {array[i] : i \in 1 .. j} = Held
  BY <1>5
<1>7. Held' = Held
  BY <1>2 DEF Held
<1>8. SliceIsHeld'
  BY <1>2, <1>5, <1>6, <1>7 DEF SliceIsHeld
<1>9. SharedLabelsExclude' /\ NothingMissed'
  BY <1>2, <1>7 DEF LabelInv, SharedLabelsExclude, NothingMissed
<1>10. LengthBound'
  BY <1>2, <1>3 DEF LabelInv, LengthBound
<1>11. Moving' /\ RemovalIsSound'
  BY <1>2 DEF Moving, RemovalIsSound, NoRemover
<1>12. PermitsAccounted'
  <2>1. /\ IsFiniteSet(running) /\ Cardinality(running) \in Nat
        /\ permits + Cardinality(running) + 1 + LoopHas = MaxParallel /\ permits \in Nat
    BY <1>2, FS_CardinalityType DEF LabelInv, TypeInv, PermitsAccounted
  <2>2. LoopHas' = LoopHas /\ LoopHas \in Nat
    BY <1>2 DEF LoopHas
  <2>3. permits' + Cardinality(running) + LoopHas' = MaxParallel
    BY <1>2, <2>1, <2>2
  <2> QED
    BY <1>2, <2>1, <2>3 DEF PermitsAccounted, NoRemover
<1>13. TypeInv'
  <2>1. NoRemover \in RemoverState /\ permits + 1 \in Nat /\ j \in 0 .. Len(array)
    BY <1>3 DEF NoRemover, RemoverState, LabelInv, TypeInv
  <2> QED
    BY <1>2, <2>1 DEF LabelInv, TypeInv
<1> QED
  BY <1>8, <1>9, <1>10, <1>11, <1>12, <1>13 DEF LabelInv

LEMMA StepInv == ASSUME LabelInv, [Next]_vars, AtMostTwo PROVE LabelInv'
<1>1. CASE UNCHANGED vars
  <2>1. UNCHANGED <<array, length, running, permits, reader, remover>>
    BY <1>1 DEF vars
  <2>2. /\ Moving' /\ SliceIsHeld' /\ RemovalIsSound' /\ LengthBound' /\ SharedLabelsExclude'
        /\ Held' = Held
    BY <2>1, LoopMoves
  <2> QED
    BY <2>1, <2>2 DEF LabelInv, TypeInv, PermitsAccounted, LoopHas, NothingMissed
<1>2. CASE ReadHeader
  BY <1>2, ReadHeaderStep
<1>3. CASE ReadElement
  BY <1>3, ReadElementStep
<1>4. CASE AdmitNone
  BY <1>4, AdmitNoneStep
<1>5. CASE RemoveStep
  BY <1>5, RemoveStepStep
<1>6. CASE RemoveEnd
  BY <1>6, RemoveEndStep
<1>7. ASSUME NEW p \in Pipeline, Admit(p) \/ RemoveBegin(p)
      PROVE  LabelInv'
  BY <1>7, AdmitStep, RemoveBeginStep
<1> QED
  BY <1>1, <1>2, <1>3, <1>4, <1>5, <1>6, <1>7 DEF Next

LEMMA LabelsInvariant ==
    ASSUME AtMostTwo
    PROVE  Spec => []LabelInv
<1>1. Init => LabelInv
  BY InitInv
<1>2. LabelInv /\ [Next]_vars => LabelInv'
  BY StepInv
<1> QED
  BY <1>1, <1>2, PTL DEF Spec

-----------------------------------------------------------------------------
\* Between removals the slice runningParallelLabels has the labels of the running
\* pipelines, each of them once.
THEOREM SliceMatches ==
    ASSUME AtMostTwo
    PROVE  Spec => []SliceIsHeld
<1>1. LabelInv => SliceIsHeld
  BY DEF LabelInv
<1> QED
  BY <1>1, LabelsInvariant, PTL

\* No two pipelines that share a label run at the same time, although
\* RunPipelineInQueue reads the slice without the lock of its removals. (With three
\* labels and three permits it can miss one: see the README.)
THEOREM LabelsStillExclude ==
    ASSUME AtMostTwo
    PROVE  Spec => []SharedLabelsExclude
<1>1. LabelInv => SharedLabelsExclude
  BY DEF LabelInv
<1> QED
  BY <1>1, LabelsInvariant, PTL
=============================================================================
