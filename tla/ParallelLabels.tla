--------------------------- MODULE ParallelLabels ---------------------------
(***************************************************************************)
(* runningParallelLabels, the slice that RunPipelineInQueue shares with the *)
(* goroutines of the pipelines.  They remove their labels from it in place  *)
(* and under runningParallelLabelLock; the dequeuing loop reads it for its  *)
(* query under another lock, cronLocker, so one element at a time may be    *)
(* read while the elements are moved.  PipelineService takes that read to   *)
(* be exact in the cases in which this module shows it to be.               *)
(***************************************************************************)
EXTENDS Naturals, Sequences

CONSTANTS
    Pipeline,     \* pipelines; one that has ended stands for the next like it
    Label,
    LabelSeq,     \* LabelSeq[p]: the parallel labels of p as read from the database
    MaxParallel

\* The names of a pipeline's labels are a key of their table.
ASSUME LabelSeqAssumption ==
    /\ LabelSeq \in [Pipeline -> Seq(Label)]
    /\ \A p \in Pipeline : \A i, k \in DOMAIN LabelSeq[p] :
          LabelSeq[p][i] = LabelSeq[p][k] => i = k
ASSUME MaxParallelAssumption == MaxParallel \in Nat

VARIABLES
    array,    \* the array under the slice; a removal leaves its tail behind
    length,   \* the length of the slice
    running,  \* pipelines whose runPipeline has not returned
    permits,  \* permits left in the semaphore
    reader,   \* the loop: header of the slice it got, next index, labels seen
    remover   \* the goroutine inside SliceRemove: its source slice, v's index, j

vars == <<array, length, running, permits, reader, remover>>

LabelsOf(p) == {LabelSeq[p][i] : i \in DOMAIN LabelSeq[p]}

NoReader == [at |-> "blocked", len |-> 0, next |-> 1, seen |-> {}]
NoRemover == [p |-> {}, len |-> 0, next |-> 1, j |-> 0]

Init ==
    /\ array = <<>>
    /\ length = 0
    /\ running = {}
    /\ permits = MaxParallel
    /\ reader = NoReader
    /\ remover = NoRemover

Unlocked == remover = NoRemover       \* runningParallelLabelLock is free

\* sema.Acquire, then the query is given the slice, that is, its header.
ReadHeader ==
    /\ \/ reader.at = "blocked" /\ permits > 0 /\ permits' = permits - 1
       \/ reader.at = "retry" /\ UNCHANGED permits
    /\ reader' = [at |-> "read", len |-> length, next |-> 1, seen |-> {}]
    /\ UNCHANGED <<array, length, running, remover>>

\* The query is built: one element after the other.
ReadElement ==
    /\ reader.at = "read"
    /\ reader.next <= reader.len
    /\ reader' = [reader EXCEPT !.next = @ + 1, !.seen = @ \cup {array[reader.next]}]
    /\ UNCHANGED <<array, length, running, permits, remover>>

Waiting(p) == p \notin running /\ p \notin remover.p

\* A fault: only the first label of a pipeline is compared.
FirstUnseen(p) == LabelSeq[p][1] \notin reader.seen

Unseen(p) == LabelsOf(p) \cap reader.seen = {}

\* The query finds a pipeline none of whose labels was seen, or finds nothing.
Admit(p) ==
    /\ reader.at = "read"
    /\ reader.next > reader.len
    /\ Waiting(p)
    /\ Unseen(p)
    /\ Unlocked
    /\ array' = SubSeq(array, 1, length) \o LabelSeq[p]
    /\ length' = length + Len(LabelSeq[p])
    /\ running' = running \cup {p}
    /\ reader' = NoReader
    /\ UNCHANGED <<permits, remover>>

AdmitNone ==
    /\ reader.at = "read"
    /\ reader.next > reader.len
    /\ \A p \in Pipeline : Waiting(p) => ~Unseen(p)
    /\ reader' = [NoReader EXCEPT !.at = "retry"]
    /\ UNCHANGED <<array, length, running, permits, remover>>

\* The deferred function of p takes the lock and calls SliceRemove.
RemoveBegin(p) ==
    /\ p \in running
    /\ Unlocked
    /\ running' = running \ {p}
    /\ remover' = [p |-> {p}, len |-> length, next |-> 1, j |-> 0]
    /\ UNCHANGED <<array, length, permits, reader>>

\* One turn of the loop: keep the element by moving it to index j.
RemoveStep ==
    /\ remover.p # {}
    /\ remover.next <= remover.len
    /\ LET v == array[remover.next]
           removed == \E p \in remover.p : v \in LabelsOf(p)
       IN IF removed
          THEN /\ remover' = [remover EXCEPT !.next = @ + 1]
               /\ UNCHANGED array
          ELSE /\ remover' = [remover EXCEPT !.next = @ + 1, !.j = @ + 1]
               /\ array' = [array EXCEPT ![remover.j + 1] = v]
    /\ UNCHANGED <<length, running, permits, reader>>

\* A fault: the whole source is stored.
RemoveNothing ==
    /\ remover.p # {}
    /\ remover.next > remover.len
    /\ length' = remover.len
    /\ remover' = NoRemover
    /\ permits' = permits + 1
    /\ UNCHANGED <<array, running, reader>>

\* source[:j] is stored and the lock released, then the permit.
RemoveEnd ==
    /\ remover.p # {}
    /\ remover.next > remover.len
    /\ length' = remover.j
    /\ remover' = NoRemover
    /\ permits' = permits + 1
    /\ UNCHANGED <<array, running, reader>>

Next ==
    \/ ReadHeader \/ ReadElement \/ AdmitNone \/ RemoveStep \/ RemoveEnd
    \/ \E p \in Pipeline : Admit(p) \/ RemoveBegin(p)

Spec == Init /\ [][Next]_vars

-----------------------------------------------------------------------------
Held == UNION {LabelsOf(p) : p \in running}

\* The slice has the labels of the pipelines that run, each once, whenever no
\* removal is under way.
SliceIsHeld ==
    Unlocked => /\ {array[i] : i \in 1 .. length} = Held
                /\ \A i, k \in 1 .. length : i # k => array[i] # array[k]

\* No two pipelines that run share a label, although the loop reads the slice
\* while labels move in it.
SharedLabelsExclude ==
    \A p, q \in running : p # q => LabelsOf(p) \cap LabelsOf(q) = {}
=============================================================================
