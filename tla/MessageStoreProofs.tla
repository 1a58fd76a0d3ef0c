------------------------- MODULE MessageStoreProofs -------------------------
(***************************************************************************)
(* Theorems about MessageStore, for any messages, limits and numbers of    *)
(* calls, and for any number of failed filesystem calls and power          *)
(* failures.  Only the calls that would put the index's own .bak back, and *)
(* reading it, are taken to work: IndexIsKept is what happens otherwise.   *)
(*                                                                         *)
(* The first invariant, StoreInv, follows the one transaction on the       *)
(* index: until it commits, the disk still holds the index the call will   *)
(* go back to; from then on it holds the one in memory.  The index is      *)
(* without a live file between the two renames only, when its .bak is the  *)
(* old generation.                                                         *)
(*                                                                         *)
(* The second, PayloadInv, is about the payloads of what is listed, on     *)
(* disk and in memory, and the third, MeantInv, about the states these     *)
(* payloads hold.  Both need names that tell messages apart.               *)
(*                                                                         *)
(* The types, at the end, need no such assumption.                         *)
(***************************************************************************)
EXTENDS MessageStore, SequenceTheorems, FiniteSetTheorems, WellFoundedInduction, TLAPS

USE StoreAssumption

(* The filesystem restores and reads the index when it is asked to.        *)
IndexCallsWork == {"restoreIndex", "loadIndex", "readIndex"} \cap Faults = {}

(* Indexes: a message is listed in its own conversation.                   *)
Listing ==
    {x \in [Peer -> Seq(Msg) \cup {Unused}] :
         \A p \in Peer : x[p] # Unused =>
             \A i \in 1..Len(x[p]) : PeerOf[x[p][i]] = p}

Step == {"idle", "write", "preserve", "commit", "clean", "index", "rollback",
         "restore", "settle", "tidy", "cull", "demote"}

(* The index is being replaced and not yet committed.                      *)
Replacing == pc \in {"write", "preserve", "commit"} /\ tx.at = Index

Between == pc = "commit" /\ tx.at = Index

IndexFile == files[Index]

FilesShape == files = [l \in Location |-> files[l]]

Settled == IndexFile.live # NoFile \/ IndexFile.bak = NoFile

IndexShape ==
    /\ FilesShape
    /\ IndexFile \in [live : Listing \cup {NoFile}, bak : Listing \cup {NoFile}]
    /\ mem \in Listing

JobShape ==
    /\ up \in {"up", "down"}
    /\ up = "down" => pc = "idle"
    /\ pc \in Step
    /\ tx = [at |-> tx.at, new |-> tx.new, had |-> tx.had]
    /\ tx.had \in BOOLEAN
    /\ job = [op |-> job.op, msgs |-> job.msgs, undo |-> job.undo,
              todo |-> job.todo, rest |-> job.rest]
    /\ job.undo \in Listing
    /\ Index \notin job.todo
    /\ pc # "idle" => job.op \in {"rewrite", "state", "delete", "save"}
    /\ job.op = "save" => \E m \in Msg : job.msgs = {m}
    /\ pc = "index" => job.op = "save"

IndexInv ==
    /\ Replacing => Durable = job.undo /\ tx.new = mem
    /\ up = "up" /\ ~Replacing => Durable = mem
    /\ up = "up" /\ ~Between => Settled
    /\ Between => IndexFile.live = NoFile /\ (tx.had <=> IndexFile.bak # NoFile)

StoreInv == IndexShape /\ JobShape /\ IndexInv

-----------------------------------------------------------------------------
(* Places and listings.                                                    *)

(* No payload is where the index is.                                       *)
LEMMA PayloadsElsewhere ==
    /\ \A m : Hot(m) # Index /\ Archive(m) # Index
    /\ \A S : Index \notin PayloadFiles(S)
    /\ Index \in Location
    /\ Index[1] \notin {"hot", "archive"}
  BY DEF Hot, Archive, Index, PayloadFiles, Location

(* No listing is the absent file, and the empty one is a listing.          *)
LEMMA ListingsAreFiles ==
    /\ NoFile \notin Listing
    /\ EmptyIndex \in Listing
  BY DEF Listing, EmptyIndex

(* A listing with one conversation dropped.                                *)
LEMMA DroppingKeepsListing ==
    ASSUME NEW x \in Listing, NEW p \in Peer
    PROVE  [x EXCEPT ![p] = Unused] \in Listing
  BY DEF Listing

(* A set of natural numbers has a least element.                           *)
LEMMA LeastNatural ==
    ASSUME NEW S \in SUBSET Nat, S # {}
    PROVE  \E x \in S : \A y \in S : x <= y
<1> DEFINE R == OpToRel(<, Nat)
<1>1. \E x \in S : \A y \in S : <<y, x>> \notin R
  BY NatLessThanWellFounded, WFMin
<1>2. \A x, y \in Nat : <<y, x>> \notin R => x <= y
  BY DEF OpToRel
<1> QED
  BY <1>1, <1>2

(* Removing a hash leaves hashes of the same conversation.                 *)
LEMMA RemovingKeepsListing ==
    ASSUME NEW x \in Listing, NEW m \in Msg, m \in Indexed(x)
    PROVE  [x EXCEPT ![PeerOf[m]] = RemoveFirst(@, m)] \in Listing
<1> DEFINE p == PeerOf[m]
           q == x[p]
<1>1. p \in Peer
  OBVIOUS
<1>2. q \in Seq(Msg) /\ \A i \in 1..Len(q) : PeerOf[q[i]] = p
  <2>1. PICK r \in Peer : x[r] # Unused /\ m \in ToSet(x[r])
    BY DEF Indexed
  <2>2. x[r] \in Seq(Msg)
    BY <2>1 DEF Listing
  <2>3. PICK i \in 1..Len(x[r]) : x[r][i] = m
    BY <2>1, <2>2 DEF ToSet
  <2>4. r = p
    BY <2>1, <2>3 DEF Listing
  <2> QED
    BY <2>1, <2>2, <2>4 DEF Listing
<1>3. /\ RemoveFirst(q, m) \in Seq(Msg)
      /\ \A i \in 1..Len(RemoveFirst(q, m)) : PeerOf[RemoveFirst(q, m)[i]] = p
  <2>1. CASE ~\E i \in 1..Len(q) : q[i] = m
    BY <1>2, <2>1 DEF RemoveFirst
  <2>2. CASE \E i \in 1..Len(q) : q[i] = m
    <3> DEFINE k == SelectInSeq(q, LAMBDA v : v = m)
    <3>1. RemoveFirst(q, m) = SubSeq(q, 1, k - 1) \o SubSeq(q, k + 1, Len(q))
      BY <2>2 DEF RemoveFirst, RemoveAt
    <3>2. k \in 1..Len(q)
      <4> DEFINE I == {i \in 1..Len(q) : q[i] = m}
      <4>1. k = IF I # {} THEN Min(I) ELSE 0
        BY DEF SelectInSeq
      <4>2. I # {} /\ I \subseteq Nat
        BY <1>2, <2>2
      <4>3. \E i \in I : \A j \in I : i <= j
        BY <4>2, LeastNatural
      <4>4. Min(I) \in I
        BY <4>3 DEF Min
      <4> QED
        BY <4>1, <4>2, <4>4
    <3> HIDE DEF k
    <3> DEFINE s == SubSeq(q, 1, k - 1)
               t == SubSeq(q, k + 1, Len(q))
               T == {h \in Msg : PeerOf[h] = p}
    <3>3. \A i \in 1..Len(q) : q[i] \in T
      BY <1>2
    <3>4. s \in Seq(T) /\ t \in Seq(T)
      <4>1. /\ k - 1 \in Int /\ k + 1 \in Int /\ Len(q) \in Int
            /\ \A i \in 1..(k - 1) : q[i] \in T
            /\ \A i \in (k + 1)..Len(q) : q[i] \in T
        BY <1>2, <3>2, <3>3
      <4> HIDE DEF T, q
      <4>2. SubSeq(q, 1, k - 1) \in Seq(T)
        BY <4>1, SubSeqProperties
      <4>3. SubSeq(q, k + 1, Len(q)) \in Seq(T)
        BY <4>1, SubSeqProperties
      <4> QED
        BY <4>2, <4>3
    <3>5. s \o t \in Seq(T)
      BY <3>4, ConcatProperties
    <3> HIDE DEF s, t
    <3>6. RemoveFirst(q, m) \in Seq(T)
      BY <3>1, <3>5 DEF s, t, k
    <3> QED
      BY <3>6
  <2> QED
    BY <2>1, <2>2
<1> QED
  BY <1>1, <1>2, <1>3 DEF Listing

-----------------------------------------------------------------------------
(* What a step may do.                                                     *)

(* The change of the durable index that a step may make.                   *)
Commits == pc = "commit" /\ tx.at = Index /\ Durable' = tx.new

Kept == StoreInv' /\ (Durable' = Durable \/ Commits)

(* Writing elsewhere leaves the index file, writing it replaces it.        *)
LEMMA Elsewhere ==
    ASSUME FilesShape, NEW k, k # Index, NEW f,
           files' = [files EXCEPT ![k] = f]
    PROVE  FilesShape' /\ IndexFile' = IndexFile
  BY PayloadsElsewhere DEF FilesShape, IndexFile

(* Writing the index file gives it its new generations.                    *)
LEMMA IndexReplaced ==
    ASSUME FilesShape, NEW f, files' = [files EXCEPT ![Index] = f]
    PROVE  FilesShape' /\ IndexFile' = f
  BY PayloadsElsewhere DEF FilesShape, IndexFile

(* What is durable depends on the index file only.                         *)
LEMMA DurableOf ==
    /\ Durable = IF IndexFile.live # NoFile THEN IndexFile.live
                 ELSE IF IndexFile.bak # NoFile THEN IndexFile.bak ELSE EmptyIndex
    /\ IndexFile' = IndexFile => Durable' = Durable
  BY DEF Durable, IndexFile

(* A step away from the index.                                             *)
LEMMA QuietStep ==
    ASSUME StoreInv, up = "up", ~Replacing,
           FilesShape', IndexFile' = IndexFile, mem' = mem,
           JobShape', up' = "up", ~Replacing'
    PROVE  Kept
<1>1. Durable' = Durable
  BY DurableOf
<1>2. IndexShape'
  BY DEF StoreInv, IndexShape
<1>3. IndexInv'
  BY <1>1 DEF StoreInv, IndexInv, Replacing, Between, Settled
<1> QED
  BY <1>1, <1>2, <1>3 DEF Kept, StoreInv

(* A call that begins with a transaction.                                  *)
LEMMA StartShape ==
    ASSUME StoreInv, up = "up", up' = up,
           NEW op \in {"rewrite", "state", "delete", "save"},
           NEW S, NEW at, NEW new, Start(op, S, at, new),
           op = "save" => \E m \in Msg : S = {m}
    PROVE  /\ JobShape'
           /\ pc' = "write" /\ tx'.at = at /\ tx'.new = new
           /\ job'.undo = mem
<1>1. /\ job' = [op |-> op, msgs |-> S, undo |-> mem, todo |-> {}, rest |-> <<>>]
      /\ tx' = [at |-> at, new |-> new, had |-> FALSE]
      /\ pc' = "write"
  BY DEF Start, NoJob, NoTx
<1>2. mem \in Listing
  BY DEF StoreInv, IndexShape
<1> QED
  BY <1>1, <1>2 DEF JobShape, Step

(* A call that begins to replace the index, by an index in memory.         *)
LEMMA StartIndex ==
    ASSUME StoreInv, pc = "idle", up = "up", up' = up, UNCHANGED files,
           NEW op \in {"rewrite", "delete"}, NEW S,
           mem' \in Listing, Start(op, S, Index, mem')
    PROVE  Kept
<1>1. /\ JobShape'
      /\ pc' = "write" /\ tx'.at = Index /\ tx'.new = mem'
      /\ job'.undo = mem
  BY StartShape
<1>2. Durable = mem /\ Settled
  BY DEF StoreInv, IndexInv, Replacing, Between
<1>3. IndexFile' = IndexFile /\ FilesShape'
  BY DEF IndexFile, FilesShape, StoreInv, IndexShape
<1>4. Durable' = Durable
  BY <1>3, DurableOf
<1>5. IndexShape'
  BY <1>3 DEF StoreInv, IndexShape
<1>6. IndexInv'
  BY <1>1, <1>2, <1>3, <1>4 DEF IndexInv, Replacing, Between, Settled
<1> QED
  BY <1>1, <1>4, <1>5, <1>6 DEF Kept, StoreInv

(* A call that returns leaves the job in shape.                            *)
LEMMA ReturnShape ==
    ASSUME StoreInv, Return, up' = up
    PROVE  JobShape' /\ pc' = "idle"
<1>1. EmptyIndex \in Listing
  BY ListingsAreFiles
<1> QED
  BY <1>1 DEF Return, StoreInv, JobShape, NoJob, NoTx, Step

(* A transaction that fails: the index on disk is the one the call goes    *)
(* back to.                                                                *)
LEMMA AbortKeeps ==
    ASSUME StoreInv, pc \in {"write", "preserve", "commit"}, up' = up, Abort,
           FilesShape', Settled', Durable' = Durable,
           IndexFile' \in [live : Listing \cup {NoFile},
                           bak : Listing \cup {NoFile}]
    PROVE  Kept
<1> USE DEF StoreInv
<1>1. up = "up" /\ job.op \in {"rewrite", "state", "delete", "save"}
  BY DEF JobShape
<1>2. mem \in Listing /\ job.undo \in Listing
  BY DEF IndexShape, JobShape
<1>3. /\ JobShape'
      /\ pc' \in {"idle", "cull", "rollback"}
      /\ mem' = IF tx.at = Index THEN job.undo ELSE mem
  <2>1. CASE job.op = "save" /\ tx.at[1] = "archive"
    <3>1. tx.at # Index
      BY <2>1, PayloadsElsewhere
    <3>2. /\ pc' = "cull"
          /\ job' = [job EXCEPT !.rest = Tail(@)]
          /\ mem' = mem /\ tx' = tx
      BY <2>1 DEF Abort
    <3>3. JobShape'
      BY <1>1, <3>2 DEF JobShape, Step
    <3> QED
      BY <3>1, <3>2, <3>3
  <2>2. CASE job.op = "save" /\ tx.at = Index
    <3>1. tx.at[1] # "archive"
      BY <2>2, PayloadsElsewhere
    <3>2. pc' = "rollback" /\ mem' = job.undo /\ job' = job /\ tx' = tx
      BY <2>2, <3>1 DEF Abort
    <3>3. JobShape'
      BY <1>1, <3>2 DEF JobShape, Step
    <3> QED
      BY <2>2, <3>2, <3>3
  <2>3. CASE job.op # "save" \/ (tx.at[1] # "archive" /\ tx.at # Index)
    <3>1. Return /\ mem' = IF tx.at = Index THEN job.undo ELSE mem
      BY <2>3 DEF Abort
    <3> QED
      BY <3>1, ReturnShape
  <2> QED
    BY <2>1, <2>2, <2>3
<1>4. Durable' = mem'
  BY <1>1, <1>3 DEF IndexInv, Replacing
<1>5. IndexInv'
  BY <1>3, <1>4 DEF IndexInv, Replacing, Between
<1>6. IndexShape'
  BY <1>2, <1>3 DEF IndexShape
<1> QED
  BY <1>3, <1>5, <1>6 DEF Kept

-----------------------------------------------------------------------------
(* The calls.                                                              *)

(* What a call that changes neither memory nor transaction does.           *)
LEMMA OnlyFiles ==
    ASSUME StoreInv, up = "up", ~Replacing,
           FilesShape', IndexFile' = IndexFile,
           UNCHANGED <<mem, up, pc, job, tx>>
    PROVE  Kept
<1>1. JobShape'
  BY DEF StoreInv, JobShape
<1>2. ~Replacing'
  BY DEF Replacing
<1> QED
  BY <1>1, <1>2, QuietStep

(* Recovering the payloads of a message is no work on the index.           *)
LEMMA PayloadsRecovered ==
    ASSUME StoreInv, NEW m, NEW h, NEW a,
           files' = [files EXCEPT ![Hot(m)] = h, ![Archive(m)] = a]
    PROVE  FilesShape' /\ IndexFile' = IndexFile
  BY PayloadsElsewhere DEF StoreInv, IndexShape, FilesShape, IndexFile

(* A call that begins to replace a payload.                                *)
LEMMA StartPayload ==
    ASSUME StoreInv, pc = "idle", up = "up", up' = up, mem' = mem,
           FilesShape', IndexFile' = IndexFile,
           NEW op \in {"state", "save"}, NEW m \in Msg, NEW at, NEW new,
           at # Index, Start(op, {m}, at, new)
    PROVE  Kept
<1>1. JobShape' /\ tx'.at # Index
  BY StartShape
<1>2. ~Replacing /\ ~Replacing'
  BY <1>1 DEF Replacing
<1> QED
  BY <1>1, <1>2, QuietStep

(* A call is only admitted to a store that is up and idle.                 *)
LEMMA ReadyIsUp ==
    ASSUME StoreInv, Ready
    PROVE  up = "up" /\ pc = "idle" /\ ~Replacing
  BY DEF StoreInv, JobShape, Ready, Replacing

(* save_message(): the payload is looked after before it is replaced.      *)
LEMMA SaveKeeps ==
    ASSUME StoreInv, NEW m \in Msg, NEW s, SaveMessage(m, s)
    PROVE  Kept
<1>1. Ready /\ up' = up /\ mem' = mem
  BY DEF SaveMessage
<1>2. PICK h : \/ Refuse /\ files' = [files EXCEPT ![Hot(m)] = h]
               \/ \E a : /\ files' = [files EXCEPT ![Hot(m)] = h,
                                                    ![Archive(m)] = a]
                         /\ \/ Start("save", {m}, Hot(m), [msg |-> m, state |-> s])
                            \/ Refuse
  BY DEF SaveMessage
<1>3. FilesShape' /\ IndexFile' = IndexFile
  BY <1>2, PayloadsRecovered, PayloadsElsewhere, Elsewhere
     DEF StoreInv, IndexShape
<1>4. CASE Refuse
  BY <1>1, <1>3, <1>4, ReadyIsUp, OnlyFiles DEF Refuse
<1>5. CASE Start("save", {m}, Hot(m), [msg |-> m, state |-> s])
  BY <1>1, <1>3, <1>5, ReadyIsUp, StartPayload, PayloadsElsewhere
<1> QED
  BY <1>2, <1>4, <1>5

(* update_message_state(): one payload is replaced, wherever it is.        *)
LEMMA UpdateKeeps ==
    ASSUME StoreInv, NEW m \in Msg, NEW s, UpdateMessageState(m, s)
    PROVE  Kept
<1>1. Ready /\ up' = up /\ mem' = mem
  BY DEF UpdateMessageState
<1>2. PICK h, a, at :
          /\ files' = [files EXCEPT ![Hot(m)] = h, ![Archive(m)] = a]
          /\ at \in {Hot(m), Archive(m)}
          /\ \/ Start("state", {m}, at, [msg |-> m, state |-> s])
             \/ Refuse
  <2>1. PICK h \in Recovered(files[Hot(m)], m), a \in Recovered(files[Archive(m)], m) :
            /\ files' = [files EXCEPT ![Hot(m)] = h.file,
                             ![Archive(m)] = IF h.ok THEN @ ELSE a.file]
            /\ \/ Start("state", {m}, IF h.ok THEN Hot(m) ELSE Archive(m),
                        [msg |-> m, state |-> s])
               \/ Refuse
    BY DEF UpdateMessageState
  <2>2. PICK b : files' = [files EXCEPT ![Hot(m)] = h.file, ![Archive(m)] = b]
    BY <2>1
  <2> QED
    BY <2>1, <2>2
<1>3. FilesShape' /\ IndexFile' = IndexFile
  BY <1>2, PayloadsRecovered
<1>4. CASE Refuse
  BY <1>1, <1>3, <1>4, ReadyIsUp, OnlyFiles DEF Refuse
<1>5. CASE Start("state", {m}, at, [msg |-> m, state |-> s])
  BY <1>1, <1>2, <1>3, <1>5, ReadyIsUp, StartPayload, PayloadsElsewhere
<1> QED
  BY <1>2, <1>4, <1>5

(* The functions that read a payload recover it and do nothing else.       *)
LEMMA LoadsKeep ==
    ASSUME StoreInv, NEW m \in Msg, LoadMessage(m) \/ LoadMetadata(m)
    PROVE  Kept
<1>1. Ready /\ UNCHANGED <<mem, up, pc, job, tx>>
  BY DEF LoadMessage, LoadMetadata
<1>2. \/ \E h : files' = [files EXCEPT ![Hot(m)] = h]
      \/ \E h, a : files' = [files EXCEPT ![Hot(m)] = h, ![Archive(m)] = a]
  BY DEF LoadMessage, LoadMetadata
<1>3. FilesShape' /\ IndexFile' = IndexFile
  BY <1>2, PayloadsRecovered, PayloadsElsewhere, Elsewhere
     DEF StoreInv, IndexShape
<1> QED
  BY <1>1, <1>3, ReadyIsUp, OnlyFiles

(* delete_message(): the index is replaced by one without the hash.        *)
LEMMA DeleteMessageKeeps ==
    ASSUME StoreInv, NEW m \in Msg, DeleteMessage(m)
    PROVE  Kept
<1>1. Ready /\ up' = up /\ files' = files
  BY DEF DeleteMessage
<1>2. CASE m \in Indexed(mem)
  <2>1. mem' = [mem EXCEPT ![PeerOf[m]] = RemoveFirst(@, m)]
        /\ Start("delete", {m}, Index, mem')
    BY <1>2 DEF DeleteMessage
  <2>2. mem' \in Listing
    BY <1>2, <2>1, RemovingKeepsListing DEF StoreInv, IndexShape
  <2> QED
    BY <1>1, <2>1, <2>2, ReadyIsUp, StartIndex
<1>3. CASE m \notin Indexed(mem)
  <2>1. /\ pc' = "tidy"
        /\ job' = [op |-> "delete", msgs |-> {}, undo |-> EmptyIndex,
                   todo |-> PayloadFiles({m}), rest |-> <<>>]
        /\ mem' = mem /\ tx' = tx
    BY <1>3 DEF DeleteMessage, NoJob
  <2>2. JobShape'
    BY <1>1, <2>1, ListingsAreFiles, PayloadsElsewhere, ReadyIsUp
       DEF StoreInv, JobShape, Step
  <2>3. ~Replacing'
    BY <2>1 DEF Replacing
  <2>4. FilesShape' /\ IndexFile' = IndexFile
    BY <1>1 DEF StoreInv, IndexShape, FilesShape, IndexFile
  <2> QED
    BY <1>1, <2>1, <2>2, <2>3, <2>4, ReadyIsUp, QuietStep
<1> QED
  BY <1>2, <1>3

(* The calls that replace the index and need no hash to be removed.        *)
LEMMA ClearingKeeps ==
    ASSUME StoreInv,
           \/ \E p \in Peer : DeleteConversation(p)
           \/ ClearAll
           \/ CommitIndex
    PROVE  Kept
<1>1. Ready /\ up' = up /\ files' = files
  BY DEF DeleteConversation, ClearAll, CommitIndex
<1>2. \E op \in {"rewrite", "delete"} : \E S :
          mem' \in Listing /\ Start(op, S, Index, mem')
  <2>1. CASE \E p \in Peer : DeleteConversation(p)
    <3>1. PICK p \in Peer : DeleteConversation(p)
      BY <2>1
    <3>2. /\ Start("delete", ToSet(mem[p]), Index, mem')
          /\ mem' = [mem EXCEPT ![p] = Unused]
      BY <3>1 DEF DeleteConversation
    <3> QED
      BY <3>2, DroppingKeepsListing DEF StoreInv, IndexShape
  <2>2. CASE ClearAll
    <3>1. Start("delete", Indexed(mem), Index, mem') /\ mem' = EmptyIndex
      BY <2>2, Zenon DEF ClearAll
    <3> QED
      BY <3>1, ListingsAreFiles
  <2>3. CASE CommitIndex
    <3>1. Start("rewrite", {}, Index, mem') /\ mem' = mem
      BY <2>3, Zenon DEF CommitIndex
    <3> QED
      BY <3>1 DEF StoreInv, IndexShape
  <2> QED
    BY <2>1, <2>2, <2>3
<1> QED
  BY <1>1, <1>2, ReadyIsUp, StartIndex

-----------------------------------------------------------------------------
(* The transaction.                                                        *)

(* The index file once its .bak was removed, in a state in which it is not *)
(* all that is left.                                                       *)
LEMMA BakRemoved ==
    ASSUME StoreInv, Settled, IndexFile' \in WithoutBak(IndexFile) \cup {IndexFile}
    PROVE  /\ Settled' /\ Durable' = Durable
           /\ IndexFile' \in [live : Listing \cup {NoFile},
                              bak : Listing \cup {NoFile}]
<1> DEFINE f == IndexFile'
<1>1. f = [IndexFile EXCEPT !.bak = NoFile] \/ f = IndexFile
  BY DEF WithoutBak
<1>2. IndexFile \in [live : Listing \cup {NoFile}, bak : Listing \cup {NoFile}]
  BY DEF StoreInv, IndexShape
<1>3. /\ f.live = IndexFile.live
      /\ f.bak \in {NoFile, IndexFile.bak}
      /\ f \in [live : Listing \cup {NoFile}, bak : Listing \cup {NoFile}]
  BY <1>1, <1>2
<1>4. Durable' = IF f.live # NoFile THEN f.live
                 ELSE IF f.bak # NoFile THEN f.bak ELSE EmptyIndex
  BY DEF Durable, IndexFile
<1> QED
  BY <1>3, <1>4, DurableOf DEF Settled

(* The temporary file is written, or the transaction fails early.          *)
LEMMA WriteKeeps ==
    ASSUME StoreInv, WriteTemporary
    PROVE  Kept
<1> USE DEF StoreInv
<1>1. /\ pc = "write" /\ up' = up /\ up = "up" /\ ~Between /\ Settled
      /\ FilesShape
  BY DEF WriteTemporary, JobShape, IndexInv, Between, IndexShape
<1>2. CASE UNCHANGED files /\ Abort
  <2>1. FilesShape' /\ IndexFile' = IndexFile
    BY <1>1, <1>2 DEF FilesShape, IndexFile
  <2>2. Settled' /\ Durable' = Durable
    BY <1>1, <2>1, DurableOf DEF Settled
  <2> QED
    BY <1>1, <1>2, <2>1, <2>2, AbortKeeps DEF IndexShape
<1>3. CASE ~(UNCHANGED files /\ Abort)
  <2>1. PICK f \in IF job.op = "save" /\ tx.at[1] = "hot"
                   THEN {files[tx.at]} ELSE WithoutBak(files[tx.at]) :
            files' = [files EXCEPT ![tx.at] = f]
    BY <1>3 DEF WriteTemporary
  <2>2. pc' = "preserve" /\ UNCHANGED <<mem, job, tx>>
    BY <1>3 DEF WriteTemporary
  <2>3. JobShape'
    BY <1>1, <2>2 DEF JobShape, Step
  <2>4. CASE tx.at # Index
    <3>1. FilesShape' /\ IndexFile' = IndexFile
      BY <1>1, <2>1, <2>4, Elsewhere
    <3>2. ~Replacing /\ ~Replacing'
      BY <2>2, <2>4 DEF Replacing
    <3> QED
      BY <1>1, <2>2, <2>3, <3>1, <3>2, QuietStep
  <2>5. CASE tx.at = Index
    <3>1. f \in WithoutBak(IndexFile)
      BY <2>1, <2>5, PayloadsElsewhere DEF IndexFile
    <3>2. FilesShape' /\ IndexFile' = f
      BY <1>1, <2>1, <2>5, IndexReplaced
    <3>3. /\ Settled' /\ Durable' = Durable
          /\ IndexFile' \in [live : Listing \cup {NoFile},
                             bak : Listing \cup {NoFile}]
      BY <1>1, <3>1, <3>2, BakRemoved
    <3>4. IndexShape'
      BY <2>2, <3>2, <3>3 DEF IndexShape
    <3>5. IndexInv'
      BY <1>1, <2>2, <2>5, <3>3 DEF IndexInv, Replacing, Between
    <3> QED
      BY <2>3, <3>3, <3>4, <3>5 DEF Kept
  <2> QED
    BY <2>4, <2>5
<1> QED
  BY <1>2, <1>3

(* The live file becomes the .bak, which is the only step that leaves the  *)
(* index without a live file.                                              *)
LEMMA PreserveKeeps ==
    ASSUME StoreInv, PreserveLive
    PROVE  Kept
<1> USE DEF StoreInv
<1>1. /\ pc = "preserve" /\ up' = up /\ up = "up" /\ ~Between /\ Settled
      /\ FilesShape
  BY DEF PreserveLive, JobShape, IndexInv, Between, IndexShape
<1>2. CASE UNCHANGED files /\ Abort
  <2>1. FilesShape' /\ IndexFile' = IndexFile
    BY <1>1, <1>2 DEF FilesShape, IndexFile
  <2>2. Settled' /\ Durable' = Durable
    BY <1>1, <2>1, DurableOf DEF Settled
  <2> QED
    BY <1>1, <1>2, <2>1, <2>2, AbortKeeps DEF IndexShape
<1>3. CASE ~(UNCHANGED files /\ Abort)
  <2> DEFINE live == files[tx.at].live
  <2>1. /\ files' = IF live = NoFile THEN files
                    ELSE [files EXCEPT ![tx.at] = [live |-> NoFile, bak |-> live]]
        /\ tx' = [tx EXCEPT !.had = live # NoFile]
        /\ pc' = "commit"
        /\ UNCHANGED <<mem, job>>
    BY <1>3 DEF PreserveLive
  <2>2. /\ tx'.at = tx.at /\ tx'.new = tx.new
        /\ tx'.had = (live # NoFile)
        /\ JobShape'
    BY <1>1, <2>1 DEF JobShape, Step
  <2>3. CASE tx.at # Index
    <3>1. FilesShape' /\ IndexFile' = IndexFile
      BY <1>1, <2>1, <2>3, Elsewhere DEF FilesShape, IndexFile
    <3>2. ~Replacing /\ ~Replacing'
      BY <2>2, <2>3 DEF Replacing
    <3> QED
      BY <1>1, <2>1, <2>2, <3>1, <3>2, QuietStep
  <2>4. CASE tx.at = Index
    <3>1. live = IndexFile.live /\ live \in Listing \cup {NoFile}
      BY <2>4 DEF IndexShape, IndexFile
    <3>2. /\ FilesShape'
          /\ IndexFile' = [live |-> NoFile, bak |-> live]
      <4>1. CASE live = NoFile
        <5>1. IndexFile = [live |-> NoFile, bak |-> NoFile]
          BY <1>1, <3>1, <4>1 DEF Settled, IndexShape
        <5> QED
          BY <1>1, <2>1, <4>1, <5>1 DEF FilesShape, IndexFile
      <4>2. CASE live # NoFile
        BY <1>1, <2>1, <2>4, <4>2, IndexReplaced
      <4> QED
        BY <4>1, <4>2
    <3>3. Durable' = Durable
      <4>1. Durable' = IF live # NoFile THEN live ELSE EmptyIndex
        BY <3>2 DEF Durable, IndexFile
      <4> QED
        BY <1>1, <3>1, <4>1, DurableOf DEF Settled
    <3>4. IndexShape'
      BY <2>1, <3>1, <3>2 DEF IndexShape
    <3>5. IndexInv'
      <4>1. Replacing /\ Between' /\ Replacing'
        BY <1>1, <2>1, <2>2, <2>4 DEF Replacing, Between
      <4>2. Durable' = job'.undo /\ tx'.new = mem'
        BY <2>1, <2>2, <3>3, <4>1 DEF IndexInv
      <4>3. IndexFile'.live = NoFile /\ (tx'.had <=> IndexFile'.bak # NoFile)
        BY <2>2, <3>2
      <4> QED
        BY <4>1, <4>2, <4>3 DEF IndexInv
    <3> QED
      BY <2>2, <3>3, <3>4, <3>5 DEF Kept
  <2> QED
    BY <2>3, <2>4
<1> QED
  BY <1>2, <1>3

(* The temporary file becomes the live one, or the .bak is put back; that  *)
(* the latter works is where IndexCallsWork is needed.                     *)
LEMMA CommitKeeps ==
    ASSUME StoreInv, IndexCallsWork, CommitTemporary
    PROVE  Kept
<1> USE DEF StoreInv
<1>1. pc = "commit" /\ up' = up /\ up = "up" /\ FilesShape
  BY DEF CommitTemporary, JobShape, IndexShape
<1>2. CASE Committed
  <2>1. /\ files' = [files EXCEPT ![tx.at] = [files[tx.at] EXCEPT !.live = tx.new]]
        /\ pc' = "clean" \/ (pc' = "index" /\ job.op = "save")
        /\ UNCHANGED <<mem, job, tx>>
    BY <1>2 DEF Committed
  <2>2. JobShape' /\ ~Replacing' /\ ~Between'
    BY <1>1, <2>1 DEF JobShape, Step, Replacing, Between
  <2>3. CASE tx.at # Index
    <3>1. FilesShape' /\ IndexFile' = IndexFile
      BY <1>1, <2>1, <2>3, Elsewhere
    <3> QED
      BY <1>1, <2>1, <2>2, <2>3, <3>1, QuietStep DEF Replacing
  <2>4. CASE tx.at = Index
    <3>1. tx.new = mem /\ mem \in Listing
      BY <1>1, <2>4 DEF IndexInv, Replacing, IndexShape
    <3>2. FilesShape' /\ IndexFile' = [IndexFile EXCEPT !.live = mem]
      BY <1>1, <2>1, <2>4, <3>1, IndexReplaced DEF IndexFile
    <3>3. IndexFile'.live = mem
      BY <3>2 DEF IndexShape
    <3>4. Durable' = mem /\ Settled'
      BY <3>1, <3>3, ListingsAreFiles DEF Durable, IndexFile, Settled
    <3>5. IndexShape'
      BY <2>1, <3>1, <3>2 DEF IndexShape
    <3>6. IndexInv'
      BY <1>1, <2>1, <2>2, <3>4 DEF IndexInv
    <3> QED
      BY <1>1, <2>2, <2>4, <3>1, <3>4, <3>5, <3>6 DEF Kept, Commits
  <2> QED
    BY <2>3, <2>4
<1>3. CASE ~Committed
  <2>1. PICK f \in RenamedBack(files[tx.at]) : files' = [files EXCEPT ![tx.at] = f]
    BY <1>3 DEF CommitTemporary
  <2>2. Abort
    BY <1>3 DEF CommitTemporary
  <2>3. CASE tx.at # Index
    <3>1. FilesShape' /\ IndexFile' = IndexFile
      BY <1>1, <2>1, <2>3, Elsewhere
    <3>2. Settled' /\ Durable' = Durable
      BY <1>1, <2>3, <3>1, DurableOf DEF IndexInv, Between, Settled
    <3> QED
      BY <1>1, <2>2, <3>1, <3>2, AbortKeeps DEF IndexShape
  <2>4. CASE tx.at = Index
    <3>1. FilesShape' /\ IndexFile' = f
      BY <1>1, <2>1, <2>4, IndexReplaced
    <3>2. /\ IndexFile.live = NoFile /\ (tx.had <=> IndexFile.bak # NoFile)
          /\ IndexFile \in [live : Listing \cup {NoFile},
                            bak : Listing \cup {NoFile}]
      BY <1>1, <2>4 DEF IndexInv, Between, IndexShape
    <3>3. f = IF tx.had THEN [live |-> IndexFile.bak, bak |-> NoFile] ELSE IndexFile
      BY <2>1, <2>4 DEF RenamedBack, IndexCallsWork, IndexFile
    <3>4. /\ f.live = IndexFile.bak /\ f.bak = NoFile
          /\ f \in [live : Listing \cup {NoFile}, bak : Listing \cup {NoFile}]
      BY <3>2, <3>3
    <3>5. Durable' = IF f.live # NoFile THEN f.live ELSE EmptyIndex
      BY <3>1, <3>4 DEF Durable, IndexFile
    <3>6. Durable' = Durable /\ Settled'
      BY <3>1, <3>2, <3>4, <3>5, DurableOf DEF Settled
    <3> QED
      BY <1>1, <2>2, <3>1, <3>4, <3>6, AbortKeeps
  <2> QED
    BY <2>3, <2>4
<1> QED
  BY <1>2, <1>3

(* What the steps after a commit make of the job.                          *)
LEMMA CleanUpShape ==
    ASSUME StoreInv, CleanUp
    PROVE  JobShape' /\ ~Replacing'
<1> USE DEF StoreInv
<1>1. /\ pc = "clean" /\ up' = up /\ up = "up"
      /\ job.op \in {"rewrite", "state", "delete", "save"}
  BY DEF CleanUp, JobShape
<1>2. CASE job.op \in {"rewrite", "state"}
  <2>1. Return
    BY <1>2 DEF CleanUp
  <2> QED
    BY <1>1, <2>1, ReturnShape DEF Replacing
<1>3. CASE job.op = "delete"
  <2>1. /\ pc' = "tidy" /\ tx' = tx
        /\ job' = [job EXCEPT !.todo = PayloadFiles(job.msgs)]
    BY <1>3 DEF CleanUp
  <2> QED
    BY <1>1, <1>3, <2>1, PayloadsElsewhere DEF JobShape, Step, Replacing
<1>4. CASE job.op = "save"
  <2>1. pc' \in {"settle", "demote"} /\ tx' = tx /\ job' = job
    BY <1>4 DEF CleanUp
  <2> QED
    BY <1>1, <1>4, <2>1 DEF JobShape, Step, Replacing
<1> QED
  BY <1>1, <1>2, <1>3, <1>4

(* After the commit the old generation is removed, and the call goes on.   *)
LEMMA CleanUpKeeps ==
    ASSUME StoreInv, CleanUp
    PROVE  Kept
<1> USE DEF StoreInv
<1>1. /\ pc = "clean" /\ up' = up /\ up = "up" /\ mem' = mem /\ FilesShape
      /\ ~Replacing /\ ~Between /\ Settled
  BY DEF CleanUp, JobShape, IndexShape, IndexInv, Replacing, Between
<1>2. JobShape' /\ ~Replacing' /\ ~Between'
  BY CleanUpShape DEF Replacing, Between
<1>3. PICK f \in IF tx.had THEN WithoutBak(files[tx.at]) ELSE {files[tx.at]} :
          files' = [files EXCEPT ![tx.at] = f]
  BY DEF CleanUp
<1>4. CASE tx.at # Index
  <2>1. FilesShape' /\ IndexFile' = IndexFile
    BY <1>1, <1>3, <1>4, Elsewhere
  <2> QED
    BY <1>1, <1>2, <2>1, QuietStep
<1>5. CASE tx.at = Index
  <2>1. f \in WithoutBak(IndexFile) \cup {IndexFile}
    BY <1>3, <1>5 DEF IndexFile
  <2>2. FilesShape' /\ IndexFile' = f
    BY <1>1, <1>3, <1>5, IndexReplaced
  <2>3. /\ Settled' /\ Durable' = Durable
        /\ IndexFile' \in [live : Listing \cup {NoFile},
                           bak : Listing \cup {NoFile}]
    BY <1>1, <2>1, <2>2, BakRemoved
  <2>4. IndexShape'
    BY <1>1, <2>2, <2>3 DEF IndexShape
  <2>5. IndexInv'
    BY <1>1, <1>2, <2>3 DEF IndexInv
  <2> QED
    BY <1>2, <2>3, <2>4, <2>5 DEF Kept
<1> QED
  BY <1>4, <1>5

-----------------------------------------------------------------------------
(* The rest of save_message().                                             *)

(* The message that is saved.                                              *)
LEMMA SavedMessage ==
    ASSUME StoreInv, job.op = "save"
    PROVE  TheMsg \in Msg /\ job.msgs = {TheMsg}
<1>1. PICK m \in Msg : job.msgs = {m}
  BY DEF StoreInv, JobShape
<1> QED
  BY <1>1 DEF TheMsg

(* The listing with the hash of the saved message, and perhaps without the *)
(* oldest one of its conversation.                                         *)
LEMMA NewHashesKeepListing ==
    ASSUME mem \in Listing, TheMsg \in Msg
    PROVE  [mem EXCEPT ![ThePeer] = NewHashes] \in Listing
<1>1. ThePeer \in Peer /\ PeerOf[TheMsg] = ThePeer
  BY DEF ThePeer
<1> DEFINE T == {h \in Msg : PeerOf[h] = ThePeer}
<1>2. Hashes \in Seq(T)
  <2>1. CASE mem[ThePeer] = Unused
    BY <2>1 DEF Hashes
  <2>2. CASE mem[ThePeer] # Unused
    <3>1. /\ mem[ThePeer] \in Seq(Msg)
          /\ \A i \in 1..Len(mem[ThePeer]) : mem[ThePeer][i] \in T
      BY <1>1, <2>2 DEF Listing
    <3>2. mem[ThePeer] \in Seq(T)
      BY <3>1
    <3> QED
      BY <2>2, <3>2 DEF Hashes
  <2> QED
    BY <2>1, <2>2
<1>3. TheMsg \in T
  BY <1>1
<1> HIDE DEF T
<1>4. NewHashes \in Seq(T)
  <2>1. CASE Contains(Hashes, TheMsg)
    BY <1>2, <2>1 DEF NewHashes
  <2>2. CASE ~Contains(Hashes, TheMsg) /\ Evicted = {}
    BY <1>2, <1>3, <2>2 DEF NewHashes
  <2>3. CASE ~Contains(Hashes, TheMsg) /\ Evicted # {}
    <3>1. Hashes # <<>>
      BY <2>3 DEF Evicted
    <3>2. Tail(Hashes) \in Seq(T)
      BY <1>2, <3>1
    <3> QED
      BY <1>3, <2>3, <3>2 DEF NewHashes
  <2> QED
    BY <2>1, <2>2, <2>3
<1>5. NewHashes \in Seq(Msg) /\ \A i \in 1..Len(NewHashes) : PeerOf[NewHashes[i]] = ThePeer
  BY <1>4 DEF T
<1> QED
  BY <1>1, <1>5 DEF Listing

(* The index is replaced by the one with the new hash.                     *)
LEMMA AddKeeps ==
    ASSUME StoreInv, AddToConversation
    PROVE  Kept
<1> USE DEF StoreInv
<1>1. /\ pc = "index" /\ up' = up /\ up = "up" /\ files' = files
      /\ ~Replacing /\ ~Between
  BY DEF AddToConversation, JobShape, Replacing, Between
<1>2. FilesShape' /\ IndexFile' = IndexFile
  BY <1>1 DEF IndexShape, FilesShape, IndexFile
<1>3. CASE PoolFull
  <2>1. pc' = "rollback" /\ UNCHANGED <<mem, job, tx>>
    BY <1>3 DEF AddToConversation
  <2>2. JobShape' /\ ~Replacing'
    BY <1>1, <2>1 DEF JobShape, Step, Replacing
  <2> QED
    BY <1>1, <1>2, <2>1, <2>2, QuietStep
<1>4. CASE ~PoolFull /\ job.op = "save"
  <2>1. /\ mem' = [mem EXCEPT ![ThePeer] = NewHashes]
        /\ job' = [job EXCEPT !.undo = mem, !.todo = PayloadFiles(Evicted)]
        /\ tx' = [at |-> Index, new |-> mem', had |-> FALSE]
        /\ pc' = "write"
    BY <1>4 DEF AddToConversation, NoTx
  <2>2. mem \in Listing /\ mem' \in Listing
    BY <1>4, <2>1, SavedMessage, NewHashesKeepListing DEF IndexShape
  <2>3. JobShape' /\ job'.undo = mem
    BY <1>1, <1>4, <2>1, <2>2, PayloadsElsewhere DEF JobShape, Step
  <2>4. Durable = mem /\ Settled /\ Durable' = Durable
    BY <1>1, <1>2, DurableOf DEF IndexInv
  <2>5. IndexShape'
    BY <1>2, <2>2 DEF IndexShape
  <2>6. IndexInv'
    BY <1>2, <2>1, <2>3, <2>4 DEF IndexInv, Replacing, Between, Settled
  <2> QED
    BY <2>3, <2>4, <2>5, <2>6 DEF Kept
<1> QED
  BY <1>1, <1>3, <1>4 DEF JobShape

(* The steps that touch payloads only: none of their files is the index.   *)
LEMMA PayloadStepsKeep ==
    ASSUME StoreInv, RemoveNew \/ RestorePrevious \/ Settle \/ RemoveHot
    PROVE  Kept
<1> USE DEF StoreInv
<1>1. /\ pc \in {"rollback", "restore", "settle", "demote"}
      /\ up' = up /\ up = "up" /\ mem' = mem /\ ~Replacing
  BY DEF RemoveNew, RestorePrevious, Settle, RemoveHot, JobShape, Replacing
<1>2. \E m, f : files' = [files EXCEPT ![Hot(m)] = f]
  BY DEF RemoveNew, RestorePrevious, Settle, RemoveHot
<1>3. FilesShape' /\ IndexFile' = IndexFile
  BY <1>2, PayloadsElsewhere, Elsewhere DEF IndexShape
<1>4. JobShape' /\ ~Replacing'
  <2>1. CASE Return
    BY <1>1, <2>1, ReturnShape DEF Replacing
  <2>2. CASE /\ pc' \in {"restore", "tidy", "cull"} /\ tx' = tx
             /\ \E rest : job' = [job EXCEPT !.rest = rest]
    BY <1>1, <2>2 DEF JobShape, Step, Replacing
  <2>3. CASE pc' \in {"restore", "tidy", "cull"} /\ tx' = tx /\ job' = job
    BY <1>1, <2>3 DEF JobShape, Step, Replacing
  <2> QED
    BY <2>1, <2>2, <2>3 DEF RemoveNew, RestorePrevious, Settle, RemoveHot, Skip
<1> QED
  BY <1>1, <1>3, <1>4, QuietStep

(* The payloads of deleted messages are removed, one at a time.            *)
LEMMA TidyKeeps ==
    ASSUME StoreInv, Tidy
    PROVE  Kept
<1> USE DEF StoreInv
<1>1. /\ pc = "tidy" /\ up' = up /\ up = "up" /\ mem' = mem /\ ~Replacing
      /\ job.op \in {"rewrite", "state", "delete", "save"}
  BY DEF Tidy, JobShape, Replacing
<1>2. CASE job.todo # {}
  <2>1. PICK l \in job.todo :
            /\ \E f : files' = [files EXCEPT ![l] = f]
            /\ job' = [job EXCEPT !.todo = @ \ {l}]
            /\ UNCHANGED <<pc, tx>>
    BY <1>2 DEF Tidy
  <2>2. l # Index
    BY <2>1 DEF JobShape
  <2>3. FilesShape' /\ IndexFile' = IndexFile
    BY <2>1, <2>2, Elsewhere DEF IndexShape
  <2>4. JobShape' /\ ~Replacing'
    BY <1>1, <2>1 DEF JobShape, Replacing
  <2> QED
    BY <1>1, <2>3, <2>4, QuietStep
<1>3. CASE job.todo = {}
  <2>1. FilesShape' /\ IndexFile' = IndexFile
    BY <1>3 DEF Tidy, IndexShape, FilesShape, IndexFile
  <2>2. JobShape' /\ ~Replacing'
    <3>1. CASE Return
      BY <1>1, <3>1, ReturnShape DEF Replacing
    <3>2. CASE ~Return
      <4>1. PICK rest : /\ pc' = "cull" /\ tx' = tx
                        /\ job' = [job EXCEPT !.rest = rest]
        BY <1>3, <3>2 DEF Tidy
      <4> QED
        BY <1>1, <4>1 DEF JobShape, Step, Replacing
    <3> QED
      BY <3>1, <3>2
  <2> QED
    BY <1>1, <2>1, <2>2, QuietStep
<1> QED
  BY <1>2, <1>3

(* The messages past the retention limit are archived, one at a time.      *)
LEMMA CullKeeps ==
    ASSUME StoreInv, Cull
    PROVE  Kept
<1> USE DEF StoreInv
<1>1. /\ pc = "cull" /\ up' = up /\ up = "up" /\ mem' = mem /\ ~Replacing
      /\ job.op \in {"rewrite", "state", "delete", "save"}
  BY DEF Cull, JobShape, Replacing
<1>2. \/ files' = files
      \/ \E m, f : files' = [files EXCEPT ![Archive(m)] = f]
  BY DEF Cull, CullToArchive
<1>3. FilesShape' /\ IndexFile' = IndexFile
  BY <1>2, PayloadsElsewhere, Elsewhere DEF IndexShape, FilesShape, IndexFile
<1>4. JobShape' /\ ~Replacing'
  <2>1. CASE Return
    BY <1>1, <2>1, ReturnShape DEF Replacing
  <2>2. CASE Skip
    BY <1>1, <2>2 DEF Skip, JobShape, Step, Replacing
  <2>3. CASE pc' = "demote" /\ tx' = tx /\ job' = job
    BY <1>1, <2>3 DEF JobShape, Step, Replacing
  <2>4. CASE /\ pc' = "write" /\ job' = job
             /\ \E m, new : tx' = [NoTx EXCEPT !.at = Archive(m), !.new = new]
    <3>1. PICK m, new : tx' = [at |-> Archive(m), new |-> new, had |-> FALSE]
      BY <2>4 DEF NoTx
    <3> QED
      BY <1>1, <2>4, <3>1, PayloadsElsewhere DEF JobShape, Step, Replacing
  <2> QED
    BY <2>1, <2>2, <2>3, <2>4 DEF Cull, CullToArchive
<1> QED
  BY <1>1, <1>3, <1>4, QuietStep

-----------------------------------------------------------------------------
(* Power failures, and the whole.                                          *)

(* A power failure leaves the files as they are, so what is durable is     *)
(* what it was.                                                            *)
LEMMA PowerFailsKeeps ==
    ASSUME StoreInv, PowerFails
    PROVE  Kept
<1> USE DEF StoreInv
<1>1. /\ up' = "down" /\ mem' = EmptyIndex /\ files' = files
      /\ job' = NoJob /\ tx' = NoTx /\ pc' = "idle"
  BY DEF PowerFails, Return
<1>2. JobShape'
  BY <1>1, ListingsAreFiles DEF JobShape, NoJob, NoTx, Step
<1>3. IndexShape'
  BY <1>1, ListingsAreFiles DEF IndexShape, FilesShape, IndexFile
<1>4. IndexInv'
  BY <1>1 DEF IndexInv, Replacing, Between
<1>5. Durable' = Durable
  BY <1>1 DEF Durable
<1> QED
  BY <1>2, <1>3, <1>4, <1>5 DEF Kept

(* A restart puts the .bak back if there is no live file and reads the     *)
(* index.                                                                  *)
LEMMA LoadIndexKeeps ==
    ASSUME StoreInv, IndexCallsWork, LoadIndex
    PROVE  Kept
<1> USE DEF StoreInv
<1>1. /\ up = "down" /\ pc = "idle" /\ FilesShape
      /\ UNCHANGED <<pc, job, tx>>
      /\ IndexFile \in [live : Listing \cup {NoFile}, bak : Listing \cup {NoFile}]
  BY DEF LoadIndex, JobShape, IndexShape
<1> DEFINE Generations == [live : Listing \cup {NoFile}, bak : Listing \cup {NoFile}]
           Outcome(f) ==
               /\ f \in Generations
               /\ Loaded(f, Durable, "up")
               /\ f.live = Durable \/ (f.live = NoFile /\ Durable = EmptyIndex)
               /\ f.live # NoFile \/ f.bak = NoFile
<1>2. \E f : Outcome(f)
  <2>1. CASE IndexFile = NoFiles /\ Loaded(IndexFile, EmptyIndex, "up")
    BY <1>1, <2>1, DurableOf DEF NoFiles
  <2>2. CASE /\ IndexFile.live # NoFile
             /\ \E g \in WithoutBak(IndexFile) : Loaded(g, IndexFile.live, "up")
    <3>1. PICK g \in WithoutBak(IndexFile) : Loaded(g, IndexFile.live, "up")
      BY <2>2
    <3>2. g = [IndexFile EXCEPT !.bak = NoFile] \/ g = IndexFile
      BY DEF WithoutBak
    <3>3. /\ g.live = IndexFile.live
          /\ g \in [live : Listing \cup {NoFile}, bak : Listing \cup {NoFile}]
      BY <1>1, <3>2
    <3> QED
      BY <2>2, <3>1, <3>3, DurableOf
  <2>3. CASE /\ IndexFile.bak # NoFile /\ IndexFile.live = NoFile
             /\ Loaded([live |-> IndexFile.bak, bak |-> NoFile], IndexFile.bak, "up")
    BY <1>1, <2>3, DurableOf
  <2>4. \/ IndexFile = NoFiles /\ Loaded(IndexFile, EmptyIndex, "up")
        \/ /\ IndexFile.live # NoFile
           /\ \E g \in WithoutBak(IndexFile) : Loaded(g, IndexFile.live, "up")
        \/ /\ IndexFile.bak # NoFile /\ IndexFile.live = NoFile
           /\ Loaded([live |-> IndexFile.bak, bak |-> NoFile], IndexFile.bak, "up")
    <3>1. "readIndex" \notin Faults /\ "loadIndex" \notin Faults
      BY DEF IndexCallsWork
    <3> QED
      BY <3>1 DEF LoadIndex, IndexFile
  <2> HIDE DEF StoreInv, Outcome
  <2> QED
    BY <2>1, <2>2, <2>3, <2>4
<1>3. PICK f : Outcome(f)
  BY <1>2, Zenon
<1>4. /\ files' = [files EXCEPT ![Index] = f] /\ mem' = Durable /\ up' = "up"
      /\ f.live = Durable \/ (f.live = NoFile /\ Durable = EmptyIndex)
      /\ f.live # NoFile \/ f.bak = NoFile
      /\ f \in Generations
  BY <1>3 DEF Loaded
<1>5. FilesShape' /\ IndexFile' = f
  BY <1>1, <1>4, IndexReplaced
<1>6. Durable' = Durable /\ Durable \in Listing
  <2>1. Durable' = IF f.live # NoFile THEN f.live
                   ELSE IF f.bak # NoFile THEN f.bak ELSE EmptyIndex
    BY <1>5 DEF Durable, IndexFile
  <2>2. Durable \in Listing
    BY <1>1, DurableOf, ListingsAreFiles
  <2> QED
    BY <1>4, <2>1, <2>2, ListingsAreFiles
<1>7. JobShape'
  BY <1>1, <1>4 DEF JobShape
<1>8. IndexShape'
  BY <1>4, <1>5, <1>6 DEF IndexShape
<1>9. IndexInv'
  BY <1>1, <1>4, <1>5, <1>6 DEF IndexInv, Replacing, Between, Settled
<1> QED
  BY <1>6, <1>7, <1>8, <1>9 DEF Kept

(* Every call, step and restart keeps the invariant.                       *)
LEMMA StoreStepKeeps ==
    ASSUME IndexCallsWork, StoreInv, [StoreNext]_storeVars
    PROVE  Kept
<1>1. CASE StoreCall
  BY <1>1, SaveKeeps, UpdateKeeps, DeleteMessageKeeps, LoadsKeep,
     ClearingKeeps DEF StoreCall
<1>2. CASE StoreStep
  BY <1>2, WriteKeeps, PreserveKeeps, CommitKeeps, CleanUpKeeps, AddKeeps,
     PayloadStepsKeep, TidyKeeps, CullKeeps DEF StoreStep
<1>3. CASE PowerFails \/ LoadIndex
  BY <1>3, PowerFailsKeeps, LoadIndexKeeps
<1>4. CASE UNCHANGED storeVars
  BY <1>4 DEF storeVars, Kept, StoreInv, IndexShape, FilesShape, IndexFile,
              JobShape, IndexInv, Replacing, Between, Settled, Durable
<1> QED
  BY <1>1, <1>2, <1>3, <1>4 DEF StoreNext

(* The invariant holds of an empty store.                                  *)
LEMMA StoreInitEstablishes == StoreInit => StoreInv
<1> SUFFICES ASSUME StoreInit PROVE StoreInv
  OBVIOUS
<1>1. FilesShape /\ IndexFile = [live |-> NoFile, bak |-> NoFile]
  BY PayloadsElsewhere DEF StoreInit, FilesShape, IndexFile, NoFiles
<1>2. IndexShape
  BY <1>1, ListingsAreFiles DEF StoreInit, IndexShape
<1>3. JobShape
  BY ListingsAreFiles DEF StoreInit, JobShape, NoJob, NoTx, Step
<1>4. Durable = EmptyIndex
  BY <1>1, DurableOf
<1>5. IndexInv
  BY <1>1, <1>4 DEF StoreInit, IndexInv, Replacing, Between, Settled
<1> QED
  BY <1>2, <1>3, <1>5 DEF StoreInv

(* The invariant holds in every reachable state.                           *)
LEMMA StoreInvariance ==
    ASSUME IndexCallsWork
    PROVE  StoreSafeSpec => []StoreInv
<1>1. StoreInv /\ [StoreNext]_storeVars => StoreInv'
  BY StoreStepKeeps DEF Kept
<1> QED
  BY <1>1, StoreInitEstablishes, PTL DEF StoreSafeSpec

(* Whatever a call of the store returned, and however many calls of the    *)
(* filesystem and of the power have failed, the index in memory is the one *)
(* a restart would load.                                                   *)
THEOREM MemoryIsDurable ==
    ASSUME IndexCallsWork
    PROVE  StoreSafeSpec => []IdleIsDurable
<1>1. StoreInv => IdleIsDurable
  BY DEF StoreInv, IndexInv, Replacing, IdleIsDurable
<1> QED
  BY <1>1, StoreInvariance, PTL

(* What a restart would load changes only when the index of a transaction  *)
(* is renamed into its place, and to that index: no other step of a save,  *)
(* an update, a deletion, a rollback, an archiving or a recovery does it.  *)
THEOREM OnlyCommitsAreDurable ==
    ASSUME IndexCallsWork
    PROVE  StoreSafeSpec => DurableChangesByCommit
<1>1. StoreInv /\ [StoreNext]_storeVars =>
          [Durable' # Durable =>
               pc = "commit" /\ tx.at = Index /\ Durable' = tx.new]_storeVars
  BY StoreStepKeeps DEF Kept, Commits
<1> QED
  BY <1>1, StoreInvariance, PTL DEF StoreSafeSpec, DurableChangesByCommit

-----------------------------------------------------------------------------
(* The payloads.                                                           *)
(*                                                                         *)
(* The second invariant is about the payloads of the messages, and is      *)
(* proved on top of the first.  It needs names that tell messages apart    *)
(* (OnlyUnlistedRemoved is what happens otherwise), and an archive.  A     *)
(* file is read as the generation a recovery would leave: most steps       *)
(* change no file's reading.                                               *)

HIDE StoreAssumption

(* Names tell messages apart.                                              *)
OwnPaths == \A m, n \in Msg : PathOf[m] = PathOf[n] => m = n

PayloadOf(m) == [msg : {m}, state : Status]

FileOf(m) == [live : PayloadOf(m) \cup {NoFile}, bak : PayloadOf(m) \cup {NoFile}]

(* The generation of a file that would be read.                            *)
Reading(f) == IF f.live # NoFile THEN f.live ELSE f.bak

InHot(m) == Reading(files[Hot(m)])
InArchive(m) == Reading(files[Archive(m)])

IsStored(m) == InHot(m) # NoFile \/ InArchive(m) # NoFile

(* m can be read without the live file of the hot tier.                    *)
OtherCopy(m) == files[Hot(m)].bak # NoFile \/ InArchive(m) # NoFile

(* Files hold the payloads of the message they are named for.              *)
Placed ==
    \A m \in Msg : files[Hot(m)] \in FileOf(m) /\ files[Archive(m)] \in FileOf(m)

Sole(x) == \A p \in Peer : x[p] # Unused => IsInjective(x[p])

AllStored(x) == \A m \in Indexed(x) : IsStored(m)

(* What the disk and memory list is listed once and stored.                *)
IndexesSound == Sole(mem) /\ AllStored(mem) /\ Sole(Durable) /\ AllStored(Durable)

(* The call is in a transaction on a payload.                              *)
InTx == pc \in {"write", "preserve", "commit", "clean"}
OnPayload == InTx /\ tx.at # Index

(* The .bak of a file that is replaced may go: there is a live one until   *)
(* it is renamed.                                                          *)
TxSound ==
    /\ OnPayload =>
           /\ job.op \in {"save", "state"}
           /\ \E m \in Msg : tx.at \in {Hot(m), Archive(m)} /\ tx.new \in PayloadOf(m)
           /\ job.op = "state" => job.msgs = {tx.new.msg}
           /\ pc \in {"write", "preserve"} =>
                  files[tx.at].live # NoFile \/ files[tx.at].bak = NoFile
           /\ pc = "commit" /\ tx.had => files[tx.at].live = NoFile
           /\ pc = "clean" => files[tx.at].live # NoFile
    /\ InTx /\ job.op = "state" => OnPayload
    /\ pc \in {"index", "rollback", "restore", "settle", "cull", "demote"} =>
           job.op = "save"

(* The hot payload of the saved message is new, and may be rolled back.    *)
HotReplaced ==
    /\ job.op = "save"
    /\ \/ pc = "commit" /\ tx.at = Hot(TheMsg)
       \/ pc \in {"index", "rollback", "restore"}
       \/ Replacing

HotWritten ==
    /\ job.op = "save"
    /\ \/ pc \in {"index", "settle"}
       \/ InTx /\ tx.at = Index

SaveSound ==
    /\ job.op = "save" /\ OnPayload /\ tx.at[1] = "hot" =>
           pc # "clean" /\ tx.at = Hot(TheMsg)
    /\ HotReplaced /\ TheMsg \in Indexed(Durable) => OtherCopy(TheMsg)
    /\ HotWritten => files[Hot(TheMsg)].live # NoFile

(* Only files of messages that are not listed are removed as such.         *)
Unneeded(S) == \A m \in Indexed(mem) : Hot(m) \notin S /\ Archive(m) \notin S

TodoSound ==
    /\ job.todo \subseteq PayloadFiles(Msg)
    /\ pc \notin {"idle", "rollback", "restore"} => Unneeded(job.todo)
    /\ job.op = "delete" => job.msgs \subseteq Msg
    /\ job.op = "delete" /\ InTx => tx.at = Index /\ job.msgs \cap Indexed(mem) = {}

(* A message leaves the hot tier when the archive has it.                  *)
ArchivingSound ==
    /\ job.rest \in Seq(Msg)
    /\ job.op = "save" /\ OnPayload /\ tx.at[1] = "archive" =>
           job.rest # <<>> /\ tx.at = Archive(Head(job.rest))
    /\ pc = "demote" => job.rest # <<>> /\ InArchive(Head(job.rest)) # NoFile

ControlSound == TxSound /\ SaveSound /\ TodoSound /\ ArchivingSound

PayloadInv == Placed /\ IndexesSound /\ ControlSound

-----------------------------------------------------------------------------
(* Generations.                                                            *)

(* The files of messages, and no two are one.                              *)
LEMMA Places ==
    ASSUME OwnPaths
    PROVE  /\ \A m \in Msg : Hot(m) \in Location /\ Archive(m) \in Location
           /\ \A m, n \in Msg : /\ Hot(m) # Archive(n)
                                /\ Hot(m) = Hot(n) => m = n
                                /\ Archive(m) = Archive(n) => m = n
           /\ \A m \in Msg : Hot(m) # Index /\ Archive(m) # Index
<1>1. PathOf \in [Msg -> Path]
  BY StoreAssumption
<1>2. \A m \in Msg : Hot(m) \in Location /\ Archive(m) \in Location
  BY <1>1 DEF Hot, Archive, Location
<1>3. \A m, n \in Msg : /\ Hot(m) # Archive(n)
                        /\ Hot(m) = Hot(n) => m = n
                        /\ Archive(m) = Archive(n) => m = n
  BY DEF OwnPaths, Hot, Archive
<1> QED
  BY <1>2, <1>3, PayloadsElsewhere

(* The tier of a file.                                                     *)
LEMMA Tiers ==
    /\ \A m : Hot(m)[1] = "hot" /\ Archive(m)[1] = "archive"
    /\ Index[1] # "hot" /\ Index[1] # "archive"
  BY DEF Hot, Archive, Index

(* What a file holds is a payload of its message.                          *)
LEMMA Held ==
    ASSUME NEW m \in Msg, NEW f \in FileOf(m)
    PROVE  /\ f = [live |-> f.live, bak |-> f.bak]
           /\ f.live \in PayloadOf(m) \cup {NoFile}
           /\ f.bak \in PayloadOf(m) \cup {NoFile}
           /\ HoldsPayload(f.live, m) <=> f.live # NoFile
           /\ HoldsPayload(f.bak, m) <=> f.bak # NoFile
           /\ Reading(f) = NoFile <=> f = NoFiles
           /\ Reading(f) \in PayloadOf(m) \cup {NoFile}
  BY DEF FileOf, PayloadOf, HoldsPayload, Reading, NoFiles

(* Payloads are no absent files.                                           *)
LEMMA PayloadsAreFiles ==
    /\ \A m \in Msg : NoFile \notin PayloadOf(m)
    /\ \A m \in Msg, s \in Status : [msg |-> m, state |-> s] \in PayloadOf(m)
<1>1. NoFile \notin [msg : Msg, state : Status]
  BY StoreAssumption
<1>2. \A m \in Msg : PayloadOf(m) \subseteq [msg : Msg, state : Status]
  BY DEF PayloadOf
<1> QED
  BY <1>1, <1>2 DEF PayloadOf

(* A file and what became of it, read the same, or hold a generation each. *)
SameReading(m, f, g) == g \in FileOf(m) /\ Reading(g) = Reading(f)

StillRead(m, f, g) == g \in FileOf(m) /\ (Reading(g) = NoFile <=> Reading(f) = NoFile)

(* Recovering a file.  It may be read as its .bak when the live file could *)
(* not be.                                                                 *)
LEMMA RecoveredReads ==
    ASSUME NEW m \in Msg, NEW f \in FileOf(m), NEW r \in Recovered(f, m)
    PROVE  /\ StillRead(m, f, r.file)
           /\ r.ok => r.file.live # NoFile
           /\ Writable(r) => r.file.live # NoFile \/ r.file.bak = NoFile
           /\ r.back \subseteq Status
           /\ \/ Reading(r.file) = Reading(f)
              \/ Reading(r.file).state \in r.back
<1> DEFINE inLive == HoldsPayload(f.live, m)
           back(g) == IF inLive /\ g.live # f.live THEN {f.bak.state} ELSE {}
<1>1. /\ f = [live |-> f.live, bak |-> f.bak]
      /\ f.live \in PayloadOf(m) \cup {NoFile}
      /\ f.bak \in PayloadOf(m) \cup {NoFile}
      /\ HoldsPayload(f.live, m) <=> f.live # NoFile
      /\ HoldsPayload(f.bak, m) <=> f.bak # NoFile
  BY Held
<1>2. PICK g, ok :
          /\ r = [file |-> g, ok |-> ok, back |-> back(g)]
          /\ \/ /\ ok /\ inLive /\ g \in WithoutBak(f)
             \/ /\ ok /\ HoldsPayload(f.bak, m)
                /\ g = [live |-> f.bak, bak |-> NoFile]
             \/ /\ ~ok /\ HoldsPayload(f.bak, m)
                /\ g = [f EXCEPT !.live = NoFile]
             \/ ~ok /\ g = f
  BY Zenon DEF Recovered
<1>3. r.file = g /\ r.ok = ok /\ r.back = back(g)
  BY <1>2
<1>4. \/ ok /\ f.live # NoFile /\ g = [live |-> f.live, bak |-> NoFile]
      \/ ok /\ f.live # NoFile /\ g = f
      \/ ok /\ f.bak # NoFile /\ g = [live |-> f.bak, bak |-> NoFile]
      \/ ~ok /\ f.bak # NoFile /\ g = [live |-> NoFile, bak |-> f.bak]
      \/ ~ok /\ g = f
  BY <1>1, <1>2 DEF WithoutBak
<1>5. g \in FileOf(m) /\ (Reading(g) = NoFile <=> Reading(f) = NoFile)
  BY <1>1, <1>4 DEF FileOf, Reading
<1>6. ok => g.live # NoFile
  BY <1>1, <1>4
<1>7. Writable(r) => g.live # NoFile \/ g.bak = NoFile
  BY <1>3, <1>6 DEF Writable, NoFiles
<1>8. back(g) \subseteq Status
  <2>1. inLive /\ g.live # f.live => f.bak # NoFile
    BY <1>1, <1>4
  <2> QED
    BY <1>1, <2>1 DEF PayloadOf
<1>9. Reading(g) = Reading(f) \/ Reading(g).state \in back(g)
  <2>1. CASE inLive /\ g.live # f.live
    BY <1>1, <1>4, <2>1 DEF Reading
  <2>2. CASE ~inLive
    BY <1>1, <1>4, <2>2 DEF Reading
  <2>3. CASE inLive /\ g.live = f.live
    BY <1>1, <2>3 DEF Reading
  <2> QED
    BY <2>1, <2>2, <2>3
<1> QED
  BY <1>3, <1>5, <1>6, <1>7, <1>8, <1>9 DEF StillRead

(* Removing a .bak that is not all there is.                               *)
LEMMA WithoutBakReads ==
    ASSUME NEW m \in Msg, NEW f \in FileOf(m),
           f.live # NoFile \/ f.bak = NoFile,
           NEW g \in WithoutBak(f)
    PROVE  SameReading(m, f, g) /\ g.live = f.live
                                /\ (g.live # NoFile \/ g.bak = NoFile)
<1>1. g = [live |-> f.live, bak |-> NoFile] \/ g = f
  BY Held DEF WithoutBak
<1>2. g \in FileOf(m)
  BY <1>1, Held DEF FileOf
<1> QED
  BY <1>1, <1>2 DEF SameReading, Reading

(* Removing a live file.                                                   *)
LEMMA WithoutLiveReads ==
    ASSUME NEW m \in Msg, NEW f \in FileOf(m), NEW g \in WithoutLive(f)
    PROVE  /\ g \in FileOf(m)
           /\ g.bak = f.bak
           /\ g = f \/ (g.live = NoFile /\ Reading(g) = f.bak)
<1>1. g = [live |-> NoFile, bak |-> f.bak] \/ g = f
  BY Held DEF WithoutLive
<1>2. g \in FileOf(m)
  BY <1>1, Held DEF FileOf
<1> QED
  BY <1>1, <1>2 DEF Reading

-----------------------------------------------------------------------------
(* Frames.                                                                 *)

(* Writing a file of a message leaves the others as they are.              *)
LEMMA OneHotWritten ==
    ASSUME OwnPaths, FilesShape, NEW m \in Msg, NEW f,
           files' = [files EXCEPT ![Hot(m)] = f]
    PROVE  /\ files'[Hot(m)] = f
           /\ \A n \in Msg : n # m => files'[Hot(n)] = files[Hot(n)]
           /\ \A n \in Msg : files'[Archive(n)] = files[Archive(n)]
  BY Places DEF FilesShape

(* A write of one archive copy leaves every other payload file alone.      *)
LEMMA OneArchiveWritten ==
    ASSUME OwnPaths, FilesShape, NEW m \in Msg, NEW f,
           files' = [files EXCEPT ![Archive(m)] = f]
    PROVE  /\ files'[Archive(m)] = f
           /\ \A n \in Msg : n # m => files'[Archive(n)] = files[Archive(n)]
           /\ \A n \in Msg : files'[Hot(n)] = files[Hot(n)]
  BY Places DEF FilesShape

(* A write of both copies of a message leaves those of the others alone.   *)
LEMMA BothWritten ==
    ASSUME OwnPaths, FilesShape, NEW m \in Msg, NEW f, NEW g,
           files' = [files EXCEPT ![Hot(m)] = f, ![Archive(m)] = g]
    PROVE  /\ files'[Hot(m)] = f /\ files'[Archive(m)] = g
           /\ \A n \in Msg : n # m => /\ files'[Hot(n)] = files[Hot(n)]
                                      /\ files'[Archive(n)] = files[Archive(n)]
  BY Places DEF FilesShape

(* A write of the index file leaves every payload file alone.              *)
LEMMA IndexWritten ==
    ASSUME OwnPaths, FilesShape, NEW f,
           files' = [files EXCEPT ![Index] = f]
    PROVE  \A n \in Msg : /\ files'[Hot(n)] = files[Hot(n)]
                          /\ files'[Archive(n)] = files[Archive(n)]
  BY Places DEF FilesShape

(* No payload file changes what is read of it.                             *)
ReadingsKept ==
    \A m \in Msg : /\ SameReading(m, files[Hot(m)], files'[Hot(m)])
                   /\ SameReading(m, files[Archive(m)], files'[Archive(m)])

(* No payload file is lost, and none appears.                              *)
FilesKept ==
    \A m \in Msg : /\ StillRead(m, files[Hot(m)], files'[Hot(m)])
                   /\ StillRead(m, files[Archive(m)], files'[Archive(m)])

PayloadsKept ==
    \A m \in Msg : /\ files'[Hot(m)] = files[Hot(m)]
                   /\ files'[Archive(m)] = files[Archive(m)]

(* Payload files that did not change read as they did.                     *)
LEMMA KeptReadings ==
    ASSUME Placed, PayloadsKept
    PROVE  ReadingsKept
  BY DEF Placed, PayloadsKept, ReadingsKept, SameReading

(* As long as the files are kept, so is where each message is stored.      *)
LEMMA KeptFiles ==
    ASSUME FilesKept
    PROVE  /\ Placed'
           /\ \A m \in Msg : InArchive(m)' = NoFile <=> InArchive(m) = NoFile
           /\ \A m \in Msg : IsStored(m)' <=> IsStored(m)
<1>1. \A m \in Msg : /\ InHot(m)' = NoFile <=> InHot(m) = NoFile
                     /\ InArchive(m)' = NoFile <=> InArchive(m) = NoFile
  BY DEF FilesKept, StillRead, InHot, InArchive
<1>2. \A m \in Msg : IsStored(m)' <=> IsStored(m)
  BY <1>1 DEF IsStored
<1>3. Placed'
  BY DEF FilesKept, StillRead, Placed
<1> QED
  BY <1>1, <1>2, <1>3

(* The same of the readings, which stay what they were.                    *)
LEMMA KeptPlaces ==
    ASSUME ReadingsKept
    PROVE  /\ Placed'
           /\ \A m \in Msg : InHot(m)' = InHot(m) /\ InArchive(m)' = InArchive(m)
           /\ \A m \in Msg : IsStored(m)' <=> IsStored(m)
           /\ FilesKept
<1>1. \A m \in Msg : InHot(m)' = InHot(m) /\ InArchive(m)' = InArchive(m)
  BY DEF ReadingsKept, SameReading, InHot, InArchive
<1>2. \A m \in Msg : IsStored(m)' <=> IsStored(m)
  BY <1>1 DEF IsStored
<1>3. Placed'
  BY DEF ReadingsKept, SameReading, Placed
<1>4. FilesKept
  BY DEF ReadingsKept, FilesKept, SameReading, StillRead
<1> QED
  BY <1>1, <1>2, <1>3, <1>4
-----------------------------------------------------------------------------
(* Listings.                                                               *)

(* A message is listed by its own conversation.                            *)
LEMMA ListedByPeer ==
    ASSUME NEW x \in Listing
    PROVE  /\ Indexed(x) \subseteq Msg
           /\ \A m \in Indexed(x) : x[PeerOf[m]] # Unused /\ m \in ToSet(x[PeerOf[m]])
           /\ \A p \in Peer : \A m \in ToSet(x[p]) :
                  x[p] # Unused => m \in Indexed(x) /\ PeerOf[m] = p
<1>1. ASSUME NEW p \in Peer, x[p] # Unused, NEW m \in ToSet(x[p])
      PROVE  m \in Indexed(x) /\ PeerOf[m] = p /\ m \in Msg
  <2>1. x[p] \in Seq(Msg) /\ \A i \in 1..Len(x[p]) : PeerOf[x[p][i]] = p
    BY <1>1 DEF Listing
  <2>2. PICK i \in 1..Len(x[p]) : x[p][i] = m
    BY <1>1, <2>1 DEF ToSet
  <2>3. m \in Indexed(x)
    BY <1>1 DEF Indexed
  <2> QED
    BY <2>1, <2>2, <2>3
<1>2. \A m \in Indexed(x) : \E p \in Peer : x[p] # Unused /\ m \in ToSet(x[p])
  BY DEF Indexed
<1> QED
  BY <1>1, <1>2

(* Another sequence in the place of a conversation's.                      *)
LEMMA ListingEdited ==
    ASSUME NEW x \in Listing, NEW p \in Peer, NEW q, NEW y \in Listing,
           y = [x EXCEPT ![p] = q]
    PROVE  /\ \A m \in Indexed(y) : \/ m \in Indexed(x) /\ PeerOf[m] # p
                                    \/ q # Unused /\ m \in ToSet(q)
           /\ Sole(x) /\ (q # Unused => IsInjective(q)) => Sole(y)
<1>1. \A r \in Peer : y[r] = IF r = p THEN q ELSE x[r]
  BY DEF Listing
<1>2. ASSUME NEW m \in Indexed(y)
      PROVE  \/ m \in Indexed(x) /\ PeerOf[m] # p
             \/ q # Unused /\ m \in ToSet(q)
  <2>1. /\ y[PeerOf[m]] # Unused /\ m \in ToSet(y[PeerOf[m]])
        /\ PeerOf[m] \in Peer
    BY StoreAssumption, ListedByPeer
  <2>2. CASE PeerOf[m] = p
    BY <1>1, <2>1, <2>2
  <2>3. CASE PeerOf[m] # p
    BY <1>1, <2>1, <2>3, ListedByPeer
  <2> QED
    BY <2>2, <2>3
<1>3. Sole(x) /\ (q # Unused => IsInjective(q)) => Sole(y)
  BY <1>1 DEF Sole
<1> QED
  BY <1>2, <1>3

(* An empty listing lists nothing.                                         *)
LEMMA NothingListed == Indexed(EmptyIndex) = {} /\ Sole(EmptyIndex)
  BY DEF Indexed, EmptyIndex, Sole

(* Where a value stands first in a sequence.                               *)
LEMMA FirstPlace ==
    ASSUME NEW q \in Seq(Msg), NEW m, \E i \in 1..Len(q) : q[i] = m
    PROVE  LET k == SelectInSeq(q, LAMBDA v : v = m)
           IN  k \in 1..Len(q) /\ q[k] = m
<1> DEFINE k == SelectInSeq(q, LAMBDA v : v = m)
           I == {i \in 1..Len(q) : q[i] = m}
<1>1. k = IF I # {} THEN Min(I) ELSE 0
  BY DEF SelectInSeq
<1>2. I # {} /\ I \subseteq Nat
  OBVIOUS
<1>3. \E i \in I : \A j \in I : i <= j
  BY <1>2, LeastNatural
<1>4. Min(I) \in I
  BY <1>3 DEF Min
<1> QED
  BY <1>1, <1>2, <1>4

(* A sequence without one of its places.                                   *)
LEMMA PlaceRemoved ==
    ASSUME NEW q \in Seq(Msg), NEW k \in 1..Len(q)
    PROVE  LET r == SubSeq(q, 1, k - 1) \o SubSeq(q, k + 1, Len(q))
           IN  /\ r \in Seq(Msg) /\ Len(r) = Len(q) - 1
               /\ \A i \in 1..Len(r) : r[i] = IF i < k THEN q[i] ELSE q[i + 1]
<1> DEFINE s == SubSeq(q, 1, k - 1)
           t == SubSeq(q, k + 1, Len(q))
<1>1. /\ s \in Seq(Msg) /\ Len(s) = k - 1
      /\ \A i \in 1..(k - 1) : s[i] = q[i]
  <2>1. k - 1 \in Int /\ \A i \in 1..(k - 1) : q[i] \in Msg
    OBVIOUS
  <2> QED
    BY <2>1, SubSeqProperties
<1>2. /\ t \in Seq(Msg) /\ Len(t) = Len(q) - k
      /\ \A i \in 1..(Len(q) - k) : t[i] = q[k + i]
  <2>1. k + 1 \in Int /\ \A i \in (k + 1)..Len(q) : q[i] \in Msg
    OBVIOUS
  <2>2. /\ t \in Seq(Msg)
        /\ Len(t) = IF k + 1 <= Len(q) THEN Len(q) - (k + 1) + 1 ELSE 0
        /\ \A i \in 1..(Len(q) - (k + 1) + 1) : t[i] = q[k + 1 + i - 1]
    BY <2>1, SubSeqProperties
  <2> QED
    BY <2>2
<1> HIDE DEF s, t
<1>3. /\ s \o t \in Seq(Msg) /\ Len(s \o t) = Len(s) + Len(t)
      /\ \A i \in 1..Len(s) + Len(t) :
             (s \o t)[i] = IF i <= Len(s) THEN s[i] ELSE t[i - Len(s)]
  BY <1>1, <1>2, ConcatProperties
<1>4. \A i \in 1..Len(s \o t) :
          (s \o t)[i] = IF i < k THEN q[i] ELSE q[i + 1]
  <2> SUFFICES ASSUME NEW i \in 1..Len(s \o t)
               PROVE  (s \o t)[i] = IF i < k THEN q[i] ELSE q[i + 1]
    OBVIOUS
  <2>1. Len(q) \in Nat /\ i \in Nat
    BY <1>3
  <2>2. i \in 1..Len(s) + Len(t) /\ i <= Len(q) - 1
    BY <1>1, <1>2, <1>3, <2>1
  <2>3. CASE i < k
    <3>1. i \in 1..(k - 1) /\ i <= Len(s)
      BY <1>1, <2>1, <2>3
    <3> QED
      BY <1>1, <1>3, <2>2, <2>3, <3>1
  <2>4. CASE ~(i < k)
    <3>1. /\ i - (k - 1) \in 1..(Len(q) - k) /\ ~(i <= Len(s))
          /\ k + (i - (k - 1)) = i + 1 /\ i - Len(s) = i - (k - 1)
      BY <1>1, <2>1, <2>2, <2>4
    <3>2. (s \o t)[i] = t[i - (k - 1)]
      BY <1>3, <2>2, <3>1
    <3> QED
      BY <1>2, <2>4, <3>1, <3>2
  <2> QED
    BY <2>3, <2>4
<1>5. Len(s \o t) = Len(q) - 1
  BY <1>1, <1>2, <1>3
<1> QED
  BY <1>3, <1>4, <1>5 DEF s, t

(* A hash that stood once stands no more.                                  *)
LEMMA HashRemoved ==
    ASSUME NEW q \in Seq(Msg), IsInjective(q), NEW m
    PROVE  /\ IsInjective(RemoveFirst(q, m)) /\ Len(RemoveFirst(q, m)) \in 0..Len(q)
           /\ ToSet(RemoveFirst(q, m)) \subseteq ToSet(q) \ {m}
<1>1. CASE ~\E i \in 1..Len(q) : q[i] = m
  BY <1>1 DEF RemoveFirst, ToSet
<1>2. CASE \E i \in 1..Len(q) : q[i] = m
  <2> DEFINE k == SelectInSeq(q, LAMBDA v : v = m)
             r == SubSeq(q, 1, k - 1) \o SubSeq(q, k + 1, Len(q))
  <2>1. k \in 1..Len(q) /\ q[k] = m
    BY <1>2, FirstPlace
  <2>2. RemoveFirst(q, m) = r
    BY <1>2 DEF RemoveFirst, RemoveAt
  <2> HIDE DEF k
  <2>3. /\ r \in Seq(Msg) /\ Len(r) = Len(q) - 1
        /\ \A i \in 1..Len(r) : r[i] = IF i < k THEN q[i] ELSE q[i + 1]
    BY <2>1, PlaceRemoved
  <2> HIDE DEF r
  <2>4. \A i, j \in 1..Len(q) : q[i] = q[j] => i = j
    BY DEF IsInjective
  <2>5. \A i, j \in 1..Len(r) : r[i] = r[j] => i = j
    BY <2>1, <2>3, <2>4
  <2>6. \A i \in 1..Len(r) : r[i] # m /\ \E j \in 1..Len(q) : r[i] = q[j]
    BY <2>1, <2>3, <2>4
  <2>7. IsInjective(r)
    BY <2>3, <2>5 DEF IsInjective
  <2>8. ToSet(r) \subseteq ToSet(q) \ {m}
    BY <2>3, <2>6 DEF ToSet
  <2>9. Len(r) \in 0..Len(q)
    BY <2>1, <2>3
  <2> QED
    BY <2>2, <2>7, <2>8, <2>9
<1> QED
  BY <1>1, <1>2
-----------------------------------------------------------------------------
(* What the invariants say of a step.                                      *)

(* The index on disk, against the one in memory.                           *)
LEMMA DurableListed ==
    ASSUME StoreInv
    PROVE  /\ mem \in Listing /\ Durable \in Listing
           /\ Indexed(mem) \subseteq Msg /\ Indexed(Durable) \subseteq Msg
           /\ pc # "idle" => up = "up"
           /\ up = "up" /\ ~Replacing => Durable = mem
<1>1. /\ mem \in Listing
      /\ IndexFile \in [live : Listing \cup {NoFile}, bak : Listing \cup {NoFile}]
      /\ pc # "idle" => up = "up"
      /\ up = "up" /\ ~Replacing => Durable = mem
  BY DEF StoreInv, IndexShape, JobShape, IndexInv
<1>2. Durable \in Listing
  BY <1>1, DurableOf, ListingsAreFiles
<1> QED
  BY <1>1, <1>2, ListedByPeer

(* It is the same as long as the job is about the same messages.           *)
LEMMA SameMessage ==
    ASSUME job'.msgs = job.msgs
    PROVE  TheMsg' = TheMsg
  BY DEF TheMsg

(* What remains of the invariant when a call has returned.                 *)
LEMMA IdleSound ==
    ASSUME pc' = "idle", job'.todo \subseteq PayloadFiles(Msg),
           job'.rest \in Seq(Msg), job'.op = "delete" => job'.msgs \subseteq Msg
    PROVE  ControlSound'
  BY DEF ControlSound, TxSound, SaveSound, TodoSound, ArchivingSound, InTx,
         OnPayload, HotReplaced, HotWritten, Replacing

(* A call that returns.                                                    *)
LEMMA ReturnSound ==
    ASSUME Return
    PROVE  ControlSound'
<1>1. /\ pc' = "idle" /\ job'.todo = {} /\ job'.rest = <<>>
      /\ job'.op = "none"
  BY DEF Return, NoJob
<1> QED
  BY <1>1, IdleSound

(* A call that ends where it began.                                        *)
LEMMA RefuseSound ==
    ASSUME PayloadInv, pc = "idle", pc' = pc, job' = job
    PROVE  ControlSound'
<1>1. /\ job.todo \subseteq PayloadFiles(Msg) /\ job.rest \in Seq(Msg)
      /\ job.op = "delete" => job.msgs \subseteq Msg
  BY DEF PayloadInv, ControlSound, TodoSound, ArchivingSound
<1> QED
  BY <1>1, IdleSound

(* A step that leaves what is listed, in memory and on disk, stored.       *)
LEMMA ListedKept ==
    ASSUME IndexesSound, Durable' = Durable, mem' \in {mem, Durable},
           \A m \in Indexed(mem) \cup Indexed(Durable) : IsStored(m) => IsStored(m)'
    PROVE  IndexesSound'
<1>1. CASE mem' = mem
  BY <1>1 DEF IndexesSound, Sole, AllStored
<1>2. CASE mem' = Durable
  BY <1>2 DEF IndexesSound, Sole, AllStored
<1> QED
  BY <1>1, <1>2

(* A call that begins to replace a payload.                                *)
LEMMA PayloadStarts ==
    ASSUME OwnPaths, PayloadInv, StoreInv', NEW m \in Msg, NEW s \in Status,
           NEW op \in {"save", "state"}, NEW at \in {Hot(m), Archive(m)},
           op = "save" => at = Hot(m),
           Start(op, {m}, at, [msg |-> m, state |-> s]),
           files'[at].live # NoFile \/ files'[at].bak = NoFile
    PROVE  ControlSound'
<1>1. /\ job' = [op |-> op, msgs |-> {m}, undo |-> mem, todo |-> {}, rest |-> <<>>]
      /\ tx' = [at |-> at, new |-> [msg |-> m, state |-> s], had |-> FALSE]
      /\ pc' = "write"
  BY DEF Start, NoJob, NoTx
<1>2. /\ job'.op = op /\ job'.msgs = {m} /\ job'.todo = {} /\ job'.rest = <<>>
      /\ tx'.at = at /\ tx'.new = [msg |-> m, state |-> s]
      /\ tx'.new \in PayloadOf(m) /\ tx'.new.msg = m
      /\ at # Index
  BY <1>1, Places, PayloadsAreFiles
<1>3. TheMsg' = m
  BY <1>2 DEF TheMsg
<1>4. ~HotReplaced' /\ ~HotWritten'
  BY <1>1, <1>2 DEF HotReplaced, HotWritten, Replacing
<1>5. TxSound'
  BY <1>1, <1>2 DEF TxSound, OnPayload, InTx
<1>6. SaveSound'
  BY <1>1, <1>2, <1>3, <1>4 DEF SaveSound
<1>7. TodoSound'
  BY <1>1, <1>2 DEF TodoSound, Unneeded
<1>8. ArchivingSound'
  BY <1>1, <1>2, Tiers DEF ArchivingSound
<1> QED
  BY <1>5, <1>6, <1>7, <1>8 DEF ControlSound

(* A call that begins to replace the index.                                *)
LEMMA IndexStarts ==
    ASSUME NEW op \in {"rewrite", "delete"}, NEW S \in SUBSET Msg, NEW new,
           Start(op, S, Index, new),
           S \cap Indexed(mem') = {}
    PROVE  ControlSound'
<1>1. /\ job' = [op |-> op, msgs |-> S, undo |-> mem, todo |-> {}, rest |-> <<>>]
      /\ tx' = [at |-> Index, new |-> new, had |-> FALSE]
      /\ pc' = "write"
  BY DEF Start, NoJob, NoTx
<1>2. /\ job'.op = op /\ job'.msgs = S /\ job'.todo = {} /\ job'.rest = <<>>
      /\ tx'.at = Index
  BY <1>1
<1>3. ~HotReplaced' /\ ~HotWritten'
  BY <1>2 DEF HotReplaced, HotWritten
<1>4. TxSound'
  BY <1>1, <1>2 DEF TxSound, OnPayload, InTx
<1>5. SaveSound'
  BY <1>2, <1>3 DEF SaveSound
<1>6. TodoSound'
  BY <1>2 DEF TodoSound, Unneeded
<1>7. ArchivingSound'
  BY <1>1, <1>2 DEF ArchivingSound
<1> QED
  BY <1>4, <1>5, <1>6, <1>7 DEF ControlSound
-----------------------------------------------------------------------------
(* The calls.                                                              *)

(* What the recovery of a message's files leaves, and the states it may    *)
(* have put back.                                                          *)
Recovery(m, back) ==
    /\ FilesKept
    /\ \A n \in Msg \ {m} : InHot(n)' = InHot(n)
    /\ InHot(m)' = InHot(m) \/ InHot(m)'.state \in back

(* The payloads are sound, and what the call has recovered may have gone   *)
(* back to older states.                                                   *)
Recovers(m, back) == PayloadInv' /\ back \subseteq Status /\ Recovery(m, back)

(* Recovering both files of a message.                                     *)
LEMMA RecoveringReads ==
    ASSUME OwnPaths, StoreInv, PayloadInv, NEW m \in Msg,
           NEW h \in Recovered(files[Hot(m)], m), NEW a,
           StillRead(m, files[Archive(m)], a),
           files' = [files EXCEPT ![Hot(m)] = h.file, ![Archive(m)] = a]
    PROVE  /\ Recovery(m, h.back) /\ h.back \subseteq Status
           /\ files'[Hot(m)] = h.file /\ files'[Archive(m)] = a
<1>1. FilesShape /\ Placed
  BY DEF StoreInv, IndexShape, PayloadInv
<1>2. /\ files'[Hot(m)] = h.file /\ files'[Archive(m)] = a
      /\ \A n \in Msg : n # m => /\ files'[Hot(n)] = files[Hot(n)]
                                 /\ files'[Archive(n)] = files[Archive(n)]
  BY <1>1, BothWritten
<1>3. /\ StillRead(m, files[Hot(m)], h.file)
      /\ h.back \subseteq Status
      /\ \/ Reading(h.file) = InHot(m)
         \/ Reading(h.file).state \in h.back
  BY <1>1, RecoveredReads DEF Placed, InHot
<1>4. ASSUME NEW n \in Msg
      PROVE  /\ StillRead(n, files[Hot(n)], files'[Hot(n)])
             /\ StillRead(n, files[Archive(n)], files'[Archive(n)])
  <2>1. CASE n = m
    BY <1>2, <1>3, <2>1
  <2>2. CASE n # m
    BY <1>1, <1>2, <2>2 DEF Placed, StillRead
  <2> QED
    BY <2>1, <2>2
<1>5. \A n \in Msg \ {m} : InHot(n)' = InHot(n)
  BY <1>2 DEF InHot
<1>6. InHot(m)' = InHot(m) \/ InHot(m)'.state \in h.back
  <2>1. InHot(m)' = Reading(h.file)
    BY <1>2 DEF InHot
  <2> QED
    BY <1>3, <2>1
<1> QED
  BY <1>2, <1>3, <1>4, <1>5, <1>6 DEF Recovery, FilesKept

(* Recovering the hot file only.                                           *)
LEMMA RecoveringHotReads ==
    ASSUME OwnPaths, StoreInv, PayloadInv, NEW m \in Msg,
           NEW h \in Recovered(files[Hot(m)], m),
           files' = [files EXCEPT ![Hot(m)] = h.file]
    PROVE  Recovery(m, h.back) /\ h.back \subseteq Status
<1>1. FilesShape /\ Placed
  BY DEF StoreInv, IndexShape, PayloadInv
<1>2. StillRead(m, files[Archive(m)], files[Archive(m)])
  BY <1>1 DEF Placed, StillRead
<1>3. files' = [files EXCEPT ![Hot(m)] = h.file, ![Archive(m)] = files[Archive(m)]]
  BY <1>1, Places DEF FilesShape
<1> QED
  BY <1>2, <1>3, RecoveringReads

(* A file is recovered, or left as it is.                                  *)
LEMMA MaybeRecovered ==
    ASSUME PayloadInv, NEW m \in Msg, NEW l \in {Hot(m), Archive(m)}
    PROVE  /\ StillRead(m, files[l], files[l])
           /\ \A r \in Recovered(files[l], m) :
                  /\ StillRead(m, files[l], r.file)
                  /\ r.ok => r.file.live # NoFile
                  /\ Writable(r) => r.file.live # NoFile \/ r.file.bak = NoFile
<1>1. files[l] \in FileOf(m)
  BY DEF PayloadInv, Placed
<1>2. StillRead(m, files[l], files[l])
  BY <1>1 DEF StillRead
<1> QED
  BY <1>1, <1>2, RecoveredReads

(* The payloads are sound and read as before.                              *)
Undisturbed == PayloadInv' /\ ReadingsKept

(* A call that loses no file and changes no listing, and returns at once   *)
(* or begins with what is sound.                                           *)
LEMMA FilesKeepPayloads ==
    ASSUME StoreInv, PayloadInv, FilesKept, Durable' = Durable,
           mem' \in {mem, Durable}, ControlSound'
    PROVE  PayloadInv'
<1>1. Placed' /\ \A m \in Msg : IsStored(m)' <=> IsStored(m)
  BY KeptFiles
<1>2. Indexed(mem) \subseteq Msg /\ Indexed(Durable) \subseteq Msg
  BY DurableListed
<1>3. IndexesSound
  BY DEF PayloadInv
<1>4. IndexesSound'
  BY <1>1, <1>2, <1>3, ListedKept
<1> QED
  BY <1>1, <1>4 DEF PayloadInv

(* The same of a call that changes no reading either.                      *)
LEMMA ReadingsKeepPayloads ==
    ASSUME StoreInv, PayloadInv, ReadingsKept, Durable' = Durable,
           mem' \in {mem, Durable}, ControlSound'
    PROVE  Undisturbed
<1>1. FilesKept
  BY KeptPlaces
<1> QED
  BY <1>1, FilesKeepPayloads DEF Undisturbed

(* A call on a payload has recovered it; it has returned, or begins to     *)
(* replace it.                                                             *)
Returned(m) ==
    \E back : /\ Recovers(m, back) /\ Refuse
              /\ meant' = [meant EXCEPT ![m] = @ \cup back]

Begun(op, m, s) ==
    \E back, at : /\ Recovers(m, back) /\ at \in {Hot(m), Archive(m)}
                  /\ Start(op, {m}, at, [msg |-> m, state |-> s])
                  /\ meant' = [meant EXCEPT ![m] = @ \cup back \cup {s}]

(* A call that returns after its recovery.                                 *)
LEMMA RecoveredAndReturned ==
    ASSUME StoreInv, PayloadInv, Durable' = Durable, pc = "idle", mem' = mem,
           NEW m \in Msg, NEW back \in SUBSET Status, Recovery(m, back), Refuse,
           meant' = [meant EXCEPT ![m] = @ \cup back]
    PROVE  Returned(m)
<1>1. ControlSound'
  BY RefuseSound DEF Refuse
<1>2. PayloadInv'
  BY <1>1, FilesKeepPayloads DEF Recovery
<1> QED
  BY <1>2 DEF Returned, Recovers

(* A call that goes on after its recovery.                                 *)
LEMMA RecoveredAndBegun ==
    ASSUME OwnPaths, StoreInv, PayloadInv, StoreInv', Durable' = Durable, mem' = mem,
           NEW m \in Msg, NEW s \in Status, NEW op \in {"save", "state"},
           NEW at \in {Hot(m), Archive(m)}, op = "save" => at = Hot(m),
           NEW back \in SUBSET Status, Recovery(m, back),
           Start(op, {m}, at, [msg |-> m, state |-> s]),
           files'[at].live # NoFile \/ files'[at].bak = NoFile,
           meant' = [meant EXCEPT ![m] = @ \cup back \cup {s}]
    PROVE  Begun(op, m, s)
<1>1. ControlSound'
  BY PayloadStarts
<1>2. PayloadInv'
  BY <1>1, FilesKeepPayloads DEF Recovery
<1> QED
  BY <1>2 DEF Begun, Recovers

(* save_message(): both tiers are recovered before a payload is replaced.  *)
LEMMA SavePayloads ==
    ASSUME OwnPaths, StoreInv, PayloadInv, StoreInv', Durable' = Durable,
           NEW m \in Msg, NEW s \in Status, SaveMessage(m, s)
    PROVE  Returned(m) \/ Begun("save", m, s)
<1>1. pc = "idle" /\ mem' = mem
  BY DEF SaveMessage, Ready
<1>2. PICK h \in Recovered(files[Hot(m)], m) :
          \/ /\ Refuse /\ meant' = [meant EXCEPT ![m] = @ \cup h.back]
             /\ files' = [files EXCEPT ![Hot(m)] = h.file]
          \/ \E a \in Recovered(files[Archive(m)], m) :
                 /\ files' = [files EXCEPT ![Hot(m)] = h.file, ![Archive(m)] = a.file]
                 /\ \/ /\ Writable(h)
                       /\ Start("save", {m}, Hot(m), [msg |-> m, state |-> s])
                       /\ meant' = [meant EXCEPT ![m] = @ \cup h.back \cup {s}]
                    \/ Refuse /\ meant' = [meant EXCEPT ![m] = @ \cup h.back]
  BY DEF SaveMessage, MeantWith
<1>3. Writable(h) => h.file.live # NoFile \/ h.file.bak = NoFile
  BY MaybeRecovered
<1>4. CASE /\ Refuse /\ meant' = [meant EXCEPT ![m] = @ \cup h.back]
           /\ files' = [files EXCEPT ![Hot(m)] = h.file]
  BY <1>1, <1>4, RecoveringHotReads, RecoveredAndReturned
<1>5. ASSUME NEW a \in Recovered(files[Archive(m)], m),
             files' = [files EXCEPT ![Hot(m)] = h.file, ![Archive(m)] = a.file],
             \/ /\ Writable(h)
                /\ Start("save", {m}, Hot(m), [msg |-> m, state |-> s])
                /\ meant' = [meant EXCEPT ![m] = @ \cup h.back \cup {s}]
             \/ Refuse /\ meant' = [meant EXCEPT ![m] = @ \cup h.back]
      PROVE  Returned(m) \/ Begun("save", m, s)
  <2>1. StillRead(m, files[Archive(m)], a.file)
    BY MaybeRecovered
  <2>2. /\ Recovery(m, h.back) /\ h.back \in SUBSET Status
        /\ files'[Hot(m)] = h.file
    BY <1>5, <2>1, RecoveringReads
  <2>3. CASE Refuse /\ meant' = [meant EXCEPT ![m] = @ \cup h.back]
    BY <1>1, <2>2, <2>3, RecoveredAndReturned
  <2>4. CASE /\ Writable(h)
             /\ Start("save", {m}, Hot(m), [msg |-> m, state |-> s])
             /\ meant' = [meant EXCEPT ![m] = @ \cup h.back \cup {s}]
    BY <1>1, <1>3, <2>2, <2>4, RecoveredAndBegun
  <2> QED
    BY <1>5, <2>3, <2>4
<1> QED
  BY <1>2, <1>4, <1>5

(* update_message_state(), in the tier that has the message.               *)
LEMMA UpdatePayloads ==
    ASSUME OwnPaths, StoreInv, PayloadInv, StoreInv', Durable' = Durable,
           NEW m \in Msg, NEW s \in Status, UpdateMessageState(m, s)
    PROVE  Returned(m) \/ Begun("state", m, s)
<1>1. pc = "idle" /\ mem' = mem
  BY DEF UpdateMessageState, Ready
<1>2. PICK h \in Recovered(files[Hot(m)], m), a \in Recovered(files[Archive(m)], m) :
          /\ files' = [files EXCEPT ![Hot(m)] = h.file,
                                    ![Archive(m)] = IF h.ok THEN @ ELSE a.file]
          /\ \/ /\ h.ok \/ a.ok
                /\ Start("state", {m}, IF h.ok THEN Hot(m) ELSE Archive(m),
                         [msg |-> m, state |-> s])
                /\ meant' = [meant EXCEPT ![m] = @ \cup h.back \cup {s}]
             \/ Refuse /\ meant' = [meant EXCEPT ![m] = @ \cup h.back]
  BY DEF UpdateMessageState, MeantWith
<1> DEFINE b == IF h.ok THEN files[Archive(m)] ELSE a.file
<1>3. files' = [files EXCEPT ![Hot(m)] = h.file, ![Archive(m)] = b]
  <2>1. Hot(m) # Archive(m)
    BY Places
  <2> QED
    BY <1>2, <2>1
<1>4. /\ StillRead(m, files[Archive(m)], b)
      /\ h.ok => h.file.live # NoFile
      /\ a.ok => a.file.live # NoFile
  BY MaybeRecovered
<1>5. /\ Recovery(m, h.back) /\ h.back \in SUBSET Status
      /\ files'[Hot(m)] = h.file /\ files'[Archive(m)] = b
  BY <1>3, <1>4, RecoveringReads
<1>6. CASE Refuse /\ meant' = [meant EXCEPT ![m] = @ \cup h.back]
  BY <1>1, <1>5, <1>6, RecoveredAndReturned
<1>7. CASE /\ h.ok \/ a.ok
           /\ Start("state", {m}, IF h.ok THEN Hot(m) ELSE Archive(m),
                    [msg |-> m, state |-> s])
           /\ meant' = [meant EXCEPT ![m] = @ \cup h.back \cup {s}]
  <2>1. CASE h.ok
    <3>1. /\ Start("state", {m}, Hot(m), [msg |-> m, state |-> s])
          /\ files'[Hot(m)].live # NoFile
      BY <1>4, <1>5, <1>7, <2>1
    <3> HIDE DEF b
    <3> QED
      BY <1>1, <1>5, <1>7, <3>1, RecoveredAndBegun
  <2>2. CASE ~h.ok
    <3>1. /\ Start("state", {m}, Archive(m), [msg |-> m, state |-> s])
          /\ files'[Archive(m)].live # NoFile
      BY <1>4, <1>5, <1>7, <2>2
    <3> HIDE DEF b
    <3> QED
      BY <1>1, <1>5, <1>7, <3>1, RecoveredAndBegun
  <2> QED
    BY <2>1, <2>2
<1> QED
  BY <1>2, <1>6, <1>7

(* The functions that read a payload: it is only recovered.                *)
LEMMA LoadPayloads ==
    ASSUME OwnPaths, StoreInv, PayloadInv, Durable' = Durable,
           NEW m \in Msg, LoadMessage(m) \/ LoadMetadata(m)
    PROVE  Returned(m)
<1>1. pc = "idle" /\ mem' = mem /\ Refuse
  BY DEF LoadMessage, LoadMetadata, Ready, Refuse
<1>2. PICK h \in Recovered(files[Hot(m)], m) :
          /\ meant' = [meant EXCEPT ![m] = @ \cup h.back]
          /\ \/ files' = [files EXCEPT ![Hot(m)] = h.file]
             \/ \E a \in Recovered(files[Archive(m)], m) :
                    files' = [files EXCEPT ![Hot(m)] = h.file,
                                           ![Archive(m)] = IF h.ok THEN @ ELSE a.file]
             \/ \E a \in Recovered(files[Archive(m)], m) :
                    files' = [files EXCEPT ![Hot(m)] = h.file, ![Archive(m)] = a.file]
  BY DEF LoadMessage, LoadMetadata, MeantWith
<1>3. CASE files' = [files EXCEPT ![Hot(m)] = h.file]
  BY <1>1, <1>2, <1>3, RecoveringHotReads, RecoveredAndReturned
<1>4. ASSUME NEW a \in Recovered(files[Archive(m)], m),
             NEW b \in {files[Archive(m)], a.file},
             files' = [files EXCEPT ![Hot(m)] = h.file, ![Archive(m)] = b]
      PROVE  Returned(m)
  <2>1. StillRead(m, files[Archive(m)], b)
    BY <1>4, MaybeRecovered
  <2> QED
    BY <1>1, <1>2, <1>4, <2>1, RecoveringReads, RecoveredAndReturned
<1>5. ASSUME NEW a \in Recovered(files[Archive(m)], m),
             files' = [files EXCEPT ![Hot(m)] = h.file,
                                    ![Archive(m)] = IF h.ok THEN @ ELSE a.file]
      PROVE  Returned(m)
  <2>1. Hot(m) # Archive(m)
    BY Places
  <2>2. files' = [files EXCEPT ![Hot(m)] = h.file,
                      ![Archive(m)] = IF h.ok THEN files[Archive(m)] ELSE a.file]
    BY <1>5, <2>1
  <2> QED
    BY <1>4, <2>2
<1> QED
  BY <1>2, <1>3, <1>4, <1>5

(* A call that begins by dropping messages from the index in memory.       *)
LEMMA DroppingPayloads ==
    ASSUME StoreInv, PayloadInv, Durable' = Durable, files' = files,
           Sole(mem'), Indexed(mem') \subseteq Indexed(mem), ControlSound'
    PROVE  Undisturbed /\ Indexed(mem') \subseteq Indexed(mem)
<1>1. Placed'
  BY DEF PayloadInv, Placed
<1>2. \A m : IsStored(m)' <=> IsStored(m)
  BY DEF IsStored, InHot, InArchive
<1>3. IndexesSound'
  BY <1>2 DEF PayloadInv, IndexesSound, AllStored, Sole
<1>4. ReadingsKept
  BY KeptReadings DEF PayloadInv, PayloadsKept
<1> QED
  BY <1>1, <1>3, <1>4 DEF PayloadInv, Undisturbed

(* delete_message(): the index is replaced by one without the hash.        *)
LEMMA DeletePayloads ==
    ASSUME OwnPaths, StoreInv, PayloadInv, StoreInv', Durable' = Durable,
           NEW m \in Msg, DeleteMessage(m)
    PROVE  Undisturbed /\ Indexed(mem') \subseteq Indexed(mem)
<1>1. pc = "idle" /\ files' = files
  BY DEF DeleteMessage, Ready
<1>2. CASE m \in Indexed(mem)
  <2> DEFINE p == PeerOf[m]
             q == RemoveFirst(mem[p], m)
  <2>1. /\ mem' = [mem EXCEPT ![p] = q]
        /\ Start("delete", {m}, Index, mem')
    BY <1>2 DEF DeleteMessage
  <2>2. mem \in Listing /\ mem' \in Listing /\ p \in Peer /\ Sole(mem)
    BY StoreAssumption DEF StoreInv, IndexShape, PayloadInv, IndexesSound
  <2>3. mem[p] # Unused /\ mem[p] \in Seq(Msg) /\ IsInjective(mem[p])
    BY <1>2, <2>2, ListedByPeer DEF Listing, Sole
  <2>4. IsInjective(q) /\ ToSet(q) \subseteq ToSet(mem[p]) \ {m}
    BY <2>3, HashRemoved
  <2>5. ToSet(mem[p]) \subseteq Indexed(mem)
    BY <2>2, <2>3, ListedByPeer
  <2> HIDE DEF p, q
  <2>6. /\ Sole(mem')
        /\ \A n \in Indexed(mem') : \/ n \in Indexed(mem) /\ PeerOf[n] # p
                                    \/ n \in ToSet(q)
    BY <2>1, <2>2, <2>4, ListingEdited
  <2>7. Indexed(mem') \subseteq Indexed(mem) /\ {m} \cap Indexed(mem') = {}
    BY <2>4, <2>5, <2>6 DEF p
  <2>8. ControlSound'
    BY <2>1, <2>7, IndexStarts
  <2> QED
    BY <1>1, <2>6, <2>7, <2>8, DroppingPayloads
<1>3. CASE m \notin Indexed(mem)
  <2>1. /\ pc' = "tidy" /\ mem' = mem
        /\ job'.todo = PayloadFiles({m}) /\ job'.rest = <<>>
        /\ job'.op = "delete" /\ job'.msgs = {}
    BY <1>3 DEF DeleteMessage, NoJob
  <2>2. Unneeded(PayloadFiles({m}))'
    <3>1. Indexed(mem) \subseteq Msg
      BY DurableListed
    <3>2. \A n \in Indexed(mem) : /\ Hot(n) \notin PayloadFiles({m})
                                  /\ Archive(n) \notin PayloadFiles({m})
      BY <1>3, <3>1, Places DEF PayloadFiles
    <3> QED
      BY <2>1, <3>2 DEF Unneeded
  <2>3. PayloadFiles({m}) \subseteq PayloadFiles(Msg)
    BY DEF PayloadFiles
  <2>4. TxSound' /\ SaveSound' /\ ArchivingSound'
    BY <2>1 DEF TxSound, SaveSound, ArchivingSound, OnPayload, InTx, HotReplaced,
                HotWritten
  <2>5. TodoSound'
    BY <2>1, <2>2, <2>3 DEF TodoSound, InTx
  <2>6. ControlSound'
    BY <2>4, <2>5 DEF ControlSound
  <2>7. Sole(mem') /\ Indexed(mem') \subseteq Indexed(mem)
    BY <2>1 DEF PayloadInv, IndexesSound
  <2> QED
    BY <1>1, <2>6, <2>7, DroppingPayloads
<1> QED
  BY <1>2, <1>3

(* delete_conversation(), clear_all() and commit_index().                  *)
LEMMA ClearingPayloads ==
    ASSUME StoreInv, PayloadInv, StoreInv', Durable' = Durable,
           \/ \E p \in Peer : DeleteConversation(p)
           \/ ClearAll
           \/ CommitIndex
    PROVE  Undisturbed /\ Indexed(mem') \subseteq Indexed(mem)
<1>1. /\ files' = files /\ mem \in Listing /\ mem' \in Listing
      /\ Sole(mem) /\ Indexed(mem) \subseteq Msg
  BY DurableListed DEF DeleteConversation, ClearAll, CommitIndex, StoreInv,
                       IndexShape, PayloadInv, IndexesSound
<1>2. CASE \E p \in Peer : DeleteConversation(p)
  <2>1. PICK p \in Peer : DeleteConversation(p)
    BY <1>2
  <2>2. /\ mem[p] # Unused
        /\ mem' = [mem EXCEPT ![p] = Unused]
        /\ Start("delete", ToSet(mem[p]), Index, mem')
    BY <2>1 DEF DeleteConversation
  <2>3. \A m \in ToSet(mem[p]) : m \in Msg /\ PeerOf[m] = p
    BY <1>1, <2>2, ListedByPeer
  <2>4. /\ Sole(mem')
        /\ \A n \in Indexed(mem') : n \in Indexed(mem) /\ PeerOf[n] # p
    BY <1>1, <2>2, ListingEdited
  <2>5. ControlSound'
    BY <2>2, <2>3, <2>4, IndexStarts
  <2> QED
    BY <1>1, <2>4, <2>5, DroppingPayloads
<1>3. CASE ClearAll
  <2>1. /\ mem' = EmptyIndex
        /\ Start("delete", Indexed(mem), Index, EmptyIndex)
    BY <1>3, Zenon DEF ClearAll
  <2>2. Sole(mem') /\ Indexed(mem') = {}
    BY <2>1, NothingListed
  <2>3. ControlSound'
    BY <1>1, <2>1, <2>2, IndexStarts
  <2> QED
    BY <1>1, <2>2, <2>3, DroppingPayloads
<1>4. CASE CommitIndex
  <2>1. mem' = mem /\ Start("rewrite", {}, Index, mem)
    BY <1>4, Zenon DEF CommitIndex
  <2>2. ControlSound'
    BY <2>1, IndexStarts
  <2> QED
    BY <1>1, <2>1, <2>2, DroppingPayloads
<1> QED
  BY <1>2, <1>3, <1>4
-----------------------------------------------------------------------------
(* The transaction.                                                        *)

(* The payload that a transaction replaces.                                *)
LEMMA PayloadReplaced ==
    ASSUME PayloadInv, OnPayload
    PROVE  \E m \in Msg : /\ tx.at \in {Hot(m), Archive(m)}
                          /\ tx.new \in PayloadOf(m)
                          /\ files[tx.at] \in FileOf(m)
  BY DEF PayloadInv, ControlSound, TxSound, Placed

(* A file of a message that reads as before.                               *)
LEMMA WrittenReads ==
    ASSUME OwnPaths, StoreInv, PayloadInv, NEW m \in Msg,
           NEW l \in {Hot(m), Archive(m)}, NEW g,
           SameReading(m, files[l], g),
           files' = [files EXCEPT ![l] = g]
    PROVE  ReadingsKept /\ files'[l] = g
<1>1. FilesShape /\ Placed
  BY DEF StoreInv, IndexShape, PayloadInv
<1>2. CASE l = Hot(m)
  <2>1. /\ files'[l] = g
        /\ \A n \in Msg : n # m => files'[Hot(n)] = files[Hot(n)]
        /\ \A n \in Msg : files'[Archive(n)] = files[Archive(n)]
    <3>1. files' = [files EXCEPT ![Hot(m)] = g]
      BY <1>2
    <3>2. /\ files'[Hot(m)] = g
          /\ \A n \in Msg : n # m => files'[Hot(n)] = files[Hot(n)]
          /\ \A n \in Msg : files'[Archive(n)] = files[Archive(n)]
      BY <1>1, <3>1, OneHotWritten
    <3> QED
      BY <1>2, <3>2
  <2>2. ASSUME NEW n \in Msg
        PROVE  /\ SameReading(n, files[Hot(n)], files'[Hot(n)])
               /\ SameReading(n, files[Archive(n)], files'[Archive(n)])
    BY <1>1, <1>2, <2>1 DEF Placed, SameReading
  <2> QED
    BY <2>1, <2>2 DEF ReadingsKept
<1>3. CASE l = Archive(m)
  <2>1. /\ files'[l] = g
        /\ \A n \in Msg : n # m => files'[Archive(n)] = files[Archive(n)]
        /\ \A n \in Msg : files'[Hot(n)] = files[Hot(n)]
    <3>1. files' = [files EXCEPT ![Archive(m)] = g]
      BY <1>3
    <3>2. /\ files'[Archive(m)] = g
          /\ \A n \in Msg : n # m => files'[Archive(n)] = files[Archive(n)]
          /\ \A n \in Msg : files'[Hot(n)] = files[Hot(n)]
      BY <1>1, <3>1, OneArchiveWritten
    <3> QED
      BY <1>3, <3>2
  <2>2. ASSUME NEW n \in Msg
        PROVE  /\ SameReading(n, files[Hot(n)], files'[Hot(n)])
               /\ SameReading(n, files[Archive(n)], files'[Archive(n)])
    BY <1>1, <1>3, <2>1 DEF Placed, SameReading
  <2> QED
    BY <2>1, <2>2 DEF ReadingsKept
<1> QED
  BY <1>2, <1>3

(* A transaction that fails.                                               *)
LEMMA AbortPayloads ==
    ASSUME StoreInv, PayloadInv, pc \in {"write", "preserve", "commit"}, Abort,
           Durable' = Durable, ReadingsKept, tx.at = Index => PayloadsKept
    PROVE  Undisturbed
<1>1. tx.at = Index => job.undo = Durable
  BY DEF StoreInv, IndexInv, Replacing
<1>2. mem' \in {mem, Durable}
  BY <1>1 DEF Abort
<1>3. TodoSound /\ SaveSound /\ ArchivingSound
  BY DEF PayloadInv, ControlSound
<1>4. CASE job.op = "save" /\ tx.at[1] = "archive"
  <2>1. /\ pc' = "cull" /\ mem' = mem /\ tx' = tx
        /\ job'.op = "save" /\ job'.todo = job.todo /\ job'.rest = Tail(job.rest)
    BY <1>4 DEF Abort, StoreInv, JobShape
  <2>2. job.rest \in Seq(Msg) /\ job.rest # <<>>
    BY <1>3, <1>4, Tiers DEF ArchivingSound, OnPayload, InTx
  <2>3. Tail(job.rest) \in Seq(Msg)
    BY <2>2
  <2>4. TxSound' /\ SaveSound' /\ ArchivingSound'
    BY <2>1, <2>3 DEF TxSound, SaveSound, ArchivingSound, OnPayload, InTx,
                      HotReplaced, HotWritten, Replacing
  <2>5. TodoSound'
    BY <1>3, <2>1 DEF TodoSound, Unneeded
  <2>6. ControlSound'
    BY <2>4, <2>5 DEF ControlSound
  <2> QED
    BY <1>2, <2>6, ReadingsKeepPayloads
<1>5. CASE job.op = "save" /\ tx.at = Index
  <2>1. pc' = "rollback" /\ job' = job /\ tx' = tx
    BY <1>5, Tiers DEF Abort
  <2>2. TheMsg' = TheMsg /\ TheMsg \in Msg
    BY <1>5, <2>1, SavedMessage, SameMessage
  <2>3. HotReplaced
    BY <1>5 DEF HotReplaced, Replacing
  <2>4. OtherCopy(TheMsg)' <=> OtherCopy(TheMsg)
    BY <1>5, <2>2 DEF PayloadsKept, OtherCopy, InArchive
  <2>5. TheMsg' \in Indexed(Durable') => OtherCopy(TheMsg)'
    BY <1>3, <2>2, <2>3, <2>4 DEF SaveSound
  <2>6. SaveSound'
    BY <2>1, <2>2, <2>5 DEF SaveSound, OnPayload, InTx, HotWritten
  <2>7. TxSound' /\ ArchivingSound'
    BY <1>3, <1>5, <2>1 DEF TxSound, ArchivingSound, OnPayload, InTx
  <2>8. TodoSound'
    BY <1>3, <2>1, <1>5 DEF TodoSound
  <2>9. ControlSound'
    BY <2>6, <2>7, <2>8 DEF ControlSound
  <2> QED
    BY <1>2, <2>9, ReadingsKeepPayloads
<1>6. CASE job.op # "save" \/ (tx.at[1] # "archive" /\ tx.at # Index)
  <2>1. Return
    BY <1>6 DEF Abort
  <2> QED
    BY <1>2, <2>1, ReturnSound, ReadingsKeepPayloads
<1> QED
  BY <1>4, <1>5, <1>6

(* The transaction on the index goes on.                                   *)
LEMMA IndexGoesOn ==
    ASSUME StoreInv, PayloadInv, PayloadsKept, tx.at = Index, tx'.at = Index,
           UNCHANGED <<mem, job>>,
           pc \in {"write", "preserve", "commit"},
           \/ pc' \in {"preserve", "commit"} /\ Durable' = Durable
           \/ pc' = "clean"
    PROVE  ControlSound'
<1>1. TxSound /\ TodoSound /\ SaveSound /\ ArchivingSound
  BY DEF PayloadInv, ControlSound
<1>2. job.op = "save" => TheMsg' = TheMsg /\ TheMsg \in Msg
  BY SavedMessage, SameMessage
<1>3. SaveSound'
  <2>1. ASSUME HotReplaced', TheMsg' \in Indexed(Durable')
        PROVE  OtherCopy(TheMsg)'
    <3>1. job.op = "save" /\ pc' \in {"preserve", "commit"}
      BY <2>1, Tiers DEF HotReplaced, Replacing
    <3>2. HotReplaced /\ TheMsg \in Indexed(Durable)
      BY <1>2, <2>1, <3>1 DEF HotReplaced, Replacing
    <3>3. OtherCopy(TheMsg)
      BY <1>1, <3>2 DEF SaveSound
    <3> QED
      BY <1>2, <3>1, <3>3 DEF PayloadsKept, OtherCopy, InArchive
  <2>2. ASSUME HotWritten'
        PROVE  files'[Hot(TheMsg)'].live # NoFile
    <3>1. job.op = "save" /\ HotWritten
      BY <2>2 DEF HotWritten, InTx
    <3>2. files[Hot(TheMsg)].live # NoFile
      BY <1>1, <3>1 DEF SaveSound
    <3> QED
      BY <1>2, <3>1, <3>2 DEF PayloadsKept
  <2>3. ~OnPayload'
    BY DEF OnPayload
  <2> QED
    BY <2>1, <2>2, <2>3 DEF SaveSound
<1>4. TxSound' /\ ArchivingSound'
  <2>1. InTx /\ ~OnPayload /\ ~OnPayload'
    BY DEF OnPayload, InTx
  <2>2. job.op # "state"
    BY <1>1, <2>1 DEF TxSound
  <2> QED
    BY <1>1, <2>1, <2>2 DEF TxSound, ArchivingSound
<1>5. TodoSound'
  BY <1>1 DEF TodoSound, Unneeded, InTx
<1> QED
  BY <1>3, <1>4, <1>5 DEF ControlSound

(* The payload files after the index file was written.                     *)
LEMMA IndexLeavesPayloads ==
    ASSUME OwnPaths, StoreInv, PayloadInv,
           \/ files' = files
           \/ \E f : files' = [files EXCEPT ![Index] = f]
    PROVE  PayloadsKept /\ ReadingsKept
<1>1. PayloadsKept
  BY IndexWritten DEF StoreInv, IndexShape, PayloadsKept
<1> QED
  BY <1>1, KeptReadings DEF PayloadInv

(* The transaction on a payload goes on, its file reading as before.       *)
LEMMA PayloadGoesOn ==
    ASSUME OwnPaths, StoreInv, PayloadInv, OnPayload, UNCHANGED <<mem, job>>,
           tx'.at = tx.at, tx'.new = tx.new,
           Durable' = Durable,
           \/ /\ pc = "write" /\ pc' = "preserve"
              /\ files'[tx.at].live # NoFile \/ files'[tx.at].bak = NoFile
           \/ /\ pc = "preserve" /\ pc' = "commit"
              /\ tx'.had => files'[tx.at].live = NoFile
              /\ job.op = "save" /\ tx.at = Hot(TheMsg) /\ TheMsg \in Indexed(Durable)
                 => OtherCopy(TheMsg)'
    PROVE  ControlSound'
<1>1. TxSound /\ TodoSound /\ SaveSound /\ ArchivingSound
  BY DEF PayloadInv, ControlSound
<1>2. job.op = "save" => TheMsg' = TheMsg /\ TheMsg \in Msg
  BY SavedMessage, SameMessage
<1>3. OnPayload' /\ tx.at # Index /\ ~Replacing'
  BY DEF OnPayload, InTx, Replacing
<1>4. TxSound'
  <2>1. /\ job.op \in {"save", "state"}
        /\ \E m \in Msg : tx.at \in {Hot(m), Archive(m)} /\ tx.new \in PayloadOf(m)
        /\ job.op = "state" => job.msgs = {tx.new.msg}
    BY <1>1 DEF TxSound
  <2> QED
    BY <1>3, <2>1 DEF TxSound
<1>5. SaveSound'
  <2>1. ~HotWritten'
    BY <1>3 DEF HotWritten, InTx
  <2>2. ASSUME HotReplaced', TheMsg' \in Indexed(Durable')
        PROVE  OtherCopy(TheMsg)'
    <3>1. job.op = "save" /\ pc' = "commit" /\ tx.at = Hot(TheMsg)
      BY <1>2, <1>3, <2>2 DEF HotReplaced
    <3>2. TheMsg \in Indexed(Durable)
      BY <1>2, <2>2, <3>1
    <3> QED
      BY <3>1, <3>2
  <2>3. job.op = "save" /\ tx.at[1] = "hot" => pc' # "clean" /\ tx.at = Hot(TheMsg)
    BY <1>1 DEF SaveSound
  <2> QED
    BY <1>2, <2>1, <2>2, <2>3 DEF SaveSound
<1>6. ArchivingSound'
  BY <1>1 DEF ArchivingSound
<1>7. TodoSound'
  BY <1>1, <1>3 DEF TodoSound, Unneeded, InTx, OnPayload
<1> QED
  BY <1>4, <1>5, <1>6, <1>7 DEF ControlSound

(* The temporary file is written.                                          *)
LEMMA WritePayloads ==
    ASSUME OwnPaths, StoreInv, PayloadInv, StoreInv', Durable' = Durable,
           WriteTemporary
    PROVE  Undisturbed
<1>1. pc = "write"
  BY DEF WriteTemporary
<1>2. CASE UNCHANGED files /\ Abort
  BY <1>1, <1>2, IndexLeavesPayloads, AbortPayloads
<1>3. CASE ~(UNCHANGED files /\ Abort)
  <2>1. PICK f \in IF job.op = "save" /\ tx.at[1] = "hot"
                   THEN {files[tx.at]} ELSE WithoutBak(files[tx.at]) :
            files' = [files EXCEPT ![tx.at] = f]
    BY <1>3 DEF WriteTemporary
  <2>2. pc' = "preserve" /\ UNCHANGED <<mem, job, tx>>
    BY <1>3 DEF WriteTemporary
  <2>3. CASE tx.at = Index
    <3>1. PayloadsKept /\ ReadingsKept
      BY <2>1, <2>3, IndexLeavesPayloads
    <3>2. ControlSound'
      BY <1>1, <2>2, <2>3, <3>1, IndexGoesOn
    <3> QED
      BY <2>2, <3>1, <3>2, ReadingsKeepPayloads
  <2>4. CASE tx.at # Index
    <3>1. OnPayload
      BY <1>1, <2>4 DEF OnPayload, InTx
    <3>2. PICK m \in Msg : tx.at \in {Hot(m), Archive(m)} /\ files[tx.at] \in FileOf(m)
      BY <3>1, PayloadReplaced
    <3>3. files[tx.at].live # NoFile \/ files[tx.at].bak = NoFile
      BY <1>1, <3>1 DEF PayloadInv, ControlSound, TxSound
    <3>4. SameReading(m, files[tx.at], f) /\ (f.live # NoFile \/ f.bak = NoFile)
      <4>1. CASE f = files[tx.at]
        BY <3>2, <3>3, <4>1 DEF SameReading
      <4>2. CASE f \in WithoutBak(files[tx.at])
        BY <3>2, <3>3, <4>2, WithoutBakReads
      <4> QED
        BY <2>1, <4>1, <4>2
    <3>5. ReadingsKept /\ files'[tx.at] = f
      BY <2>1, <3>2, <3>4, WrittenReads
    <3>6. ControlSound'
      BY <1>1, <2>2, <3>1, <3>4, <3>5, PayloadGoesOn
    <3> QED
      BY <2>2, <3>5, <3>6, ReadingsKeepPayloads
  <2> QED
    BY <2>3, <2>4
<1> QED
  BY <1>2, <1>3

(* The live file becomes the .bak.                                         *)
LEMMA PreservePayloads ==
    ASSUME OwnPaths, StoreInv, PayloadInv, StoreInv', Durable' = Durable,
           PreserveLive
    PROVE  Undisturbed
<1>1. pc = "preserve"
  BY DEF PreserveLive
<1>2. CASE UNCHANGED files /\ Abort
  BY <1>1, <1>2, IndexLeavesPayloads, AbortPayloads
<1>3. CASE ~(UNCHANGED files /\ Abort)
  <2> DEFINE live == files[tx.at].live
  <2>1. /\ files' = IF live = NoFile THEN files
                    ELSE [files EXCEPT ![tx.at] = [live |-> NoFile, bak |-> live]]
        /\ tx' = [tx EXCEPT !.had = live # NoFile]
        /\ pc' = "commit"
        /\ UNCHANGED <<mem, job>>
    BY <1>3 DEF PreserveLive
  <2>2. tx'.at = tx.at /\ tx'.new = tx.new /\ tx'.had = (live # NoFile)
    BY <2>1 DEF StoreInv, JobShape
  <2>3. CASE tx.at = Index
    <3>1. PayloadsKept /\ ReadingsKept
      <4>1. files' = files \/ \E f : files' = [files EXCEPT ![Index] = f]
        BY <2>1, <2>3
      <4> QED
        BY <4>1, IndexLeavesPayloads
    <3>2. ControlSound'
      BY <1>1, <2>1, <2>2, <2>3, <3>1, IndexGoesOn
    <3> QED
      BY <2>1, <3>1, <3>2, ReadingsKeepPayloads
  <2>4. CASE tx.at # Index
    <3>1. OnPayload
      BY <1>1, <2>4 DEF OnPayload, InTx
    <3>2. PICK m \in Msg : tx.at \in {Hot(m), Archive(m)} /\ files[tx.at] \in FileOf(m)
      BY <3>1, PayloadReplaced
    <3>3. live # NoFile \/ files[tx.at].bak = NoFile
      BY <1>1, <3>1 DEF PayloadInv, ControlSound, TxSound
    <3> DEFINE f == IF live = NoFile THEN files[tx.at]
                    ELSE [live |-> NoFile, bak |-> live]
    <3>4. /\ SameReading(m, files[tx.at], f)
          /\ f.live = NoFile
          /\ live # NoFile => f.bak # NoFile
      <4>1. live \in PayloadOf(m) \cup {NoFile}
        BY <3>2, Held
      <4>2. f \in FileOf(m)
        BY <3>2, <4>1 DEF FileOf
      <4>3. Reading(f) = Reading(files[tx.at])
        BY DEF Reading
      <4> QED
        BY <4>2, <4>3 DEF SameReading
    <3>5. files' = [files EXCEPT ![tx.at] = f]
      <4>1. files = [l \in Location |-> files[l]]
        BY DEF StoreInv, IndexShape, FilesShape
      <4> QED
        BY <2>1, <4>1
    <3> HIDE DEF f
    <3>6. ReadingsKept /\ files'[tx.at] = f
      BY <3>2, <3>4, <3>5, WrittenReads
    <3>7. ASSUME job.op = "save", tx.at = Hot(TheMsg), TheMsg \in Indexed(Durable)
          PROVE  OtherCopy(TheMsg)'
      <4>1. TheMsg \in Msg /\ TheMsg' = TheMsg
        BY <2>1, <3>7, SavedMessage, SameMessage
      <4>2. InArchive(TheMsg)' = InArchive(TheMsg)
        BY <3>6, <4>1, KeptPlaces
      <4>3. InHot(TheMsg) # NoFile \/ InArchive(TheMsg) # NoFile
        BY <3>7 DEF PayloadInv, IndexesSound, AllStored, IsStored
      <4>4. InHot(TheMsg) # NoFile => live # NoFile
        BY <3>3, <3>7 DEF InHot, Reading
      <4>5. live # NoFile => files'[Hot(TheMsg)].bak # NoFile
        BY <3>4, <3>6, <3>7
      <4> QED
        BY <4>1, <4>2, <4>3, <4>4, <4>5 DEF OtherCopy
    <3>8. ControlSound'
      BY <1>1, <2>1, <2>2, <3>1, <3>4, <3>6, <3>7, PayloadGoesOn
    <3> QED
      BY <2>1, <3>6, <3>8, ReadingsKeepPayloads
  <2> QED
    BY <2>3, <2>4
<1> QED
  BY <1>2, <1>3

(* The file of the payload that was committed, and the others.             *)
LEMMA CommittedFile ==
    ASSUME OwnPaths, StoreInv, PayloadInv, pc = "commit", Committed, tx.at # Index
    PROVE  \E m \in Msg :
               /\ tx.at \in {Hot(m), Archive(m)} /\ tx.new \in PayloadOf(m)
               /\ files'[tx.at] \in FileOf(m)
               /\ files'[tx.at].live = tx.new /\ tx.new # NoFile
               /\ files'[tx.at].bak = files[tx.at].bak
               /\ \A n \in Msg :
                      /\ Hot(n) # tx.at => files'[Hot(n)] = files[Hot(n)]
                      /\ Archive(n) # tx.at => files'[Archive(n)] = files[Archive(n)]
                      /\ Hot(n) = tx.at \/ Archive(n) = tx.at => n = m
                      /\ ~(Hot(n) = tx.at /\ Archive(n) = tx.at)
<1>1. OnPayload
  BY DEF OnPayload, InTx
<1>2. PICK m \in Msg : /\ tx.at \in {Hot(m), Archive(m)}
                       /\ tx.new \in PayloadOf(m)
                       /\ files[tx.at] \in FileOf(m)
  BY <1>1, PayloadReplaced
<1> DEFINE f == [files[tx.at] EXCEPT !.live = tx.new]
<1>3. f \in FileOf(m) /\ f.live = tx.new /\ f.live # NoFile /\ f.bak = files[tx.at].bak
  <2>1. f = [live |-> tx.new, bak |-> files[tx.at].bak]
    BY <1>2, Held
  <2> QED
    BY <1>2, <2>1, Held, PayloadsAreFiles DEF FileOf
<1>4. FilesShape /\ files' = [files EXCEPT ![tx.at] = f]
  BY DEF StoreInv, IndexShape, Committed
<1> HIDE DEF f
<1>5. /\ files'[tx.at] = f
      /\ \A n \in Msg : /\ Hot(n) # tx.at => files'[Hot(n)] = files[Hot(n)]
                        /\ Archive(n) # tx.at => files'[Archive(n)] = files[Archive(n)]
  <2>1. \A n \in Msg : Hot(n) \in Location /\ Archive(n) \in Location
    BY Places
  <2> QED
    BY <1>2, <1>4, <2>1 DEF FilesShape
<1>6. \A n \in Msg : /\ Hot(n) = tx.at \/ Archive(n) = tx.at => n = m
                     /\ ~(Hot(n) = tx.at /\ Archive(n) = tx.at)
  BY <1>2, Places
<1> QED
  BY <1>2, <1>3, <1>5, <1>6

(* The new payload is in its place.                                        *)
LEMMA PayloadCommitted ==
    ASSUME OwnPaths, StoreInv, PayloadInv, StoreInv', Durable' = Durable,
           pc = "commit", Committed, tx.at # Index
    PROVE  PayloadInv'
<1>1. /\ pc' = IF job.op = "save" /\ tx.at[1] = "hot" THEN "index" ELSE "clean"
      /\ UNCHANGED <<mem, job, tx>>
  BY DEF Committed
<1>2. OnPayload
  BY DEF OnPayload, InTx
<1>3. PICK m \in Msg :
          /\ tx.at \in {Hot(m), Archive(m)} /\ tx.new \in PayloadOf(m)
          /\ files'[tx.at] \in FileOf(m)
          /\ files'[tx.at].live = tx.new /\ tx.new # NoFile
          /\ files'[tx.at].bak = files[tx.at].bak
          /\ \A n \in Msg :
                 /\ Hot(n) # tx.at => files'[Hot(n)] = files[Hot(n)]
                 /\ Archive(n) # tx.at => files'[Archive(n)] = files[Archive(n)]
                 /\ Hot(n) = tx.at \/ Archive(n) = tx.at => n = m
                 /\ ~(Hot(n) = tx.at /\ Archive(n) = tx.at)
  BY CommittedFile
<1>4. Placed'
  BY <1>3 DEF PayloadInv, Placed
<1>5. \A n \in Msg : IsStored(n) => IsStored(n)'
  <2> SUFFICES ASSUME NEW n \in Msg, IsStored(n) PROVE IsStored(n)'
    OBVIOUS
  <2>1. InHot(n)' = InHot(n) \/ InHot(n)' # NoFile
    BY <1>3 DEF InHot, Reading
  <2>2. InArchive(n)' = InArchive(n) \/ InArchive(n)' # NoFile
    BY <1>3 DEF InArchive, Reading
  <2> QED
    BY <2>1, <2>2 DEF IsStored
<1>6. IndexesSound'
  BY <1>1, <1>5, DurableListed, ListedKept DEF PayloadInv
<1>7. TxSound /\ TodoSound /\ SaveSound /\ ArchivingSound
  BY DEF PayloadInv, ControlSound
<1>8. job.op = "save" => TheMsg' = TheMsg /\ TheMsg \in Msg
  BY <1>1, SavedMessage, SameMessage
<1>9. TxSound'
  <2>1. /\ job.op \in {"save", "state"}
        /\ \E n \in Msg : tx.at \in {Hot(n), Archive(n)} /\ tx.new \in PayloadOf(n)
        /\ job.op = "state" => job.msgs = {tx.new.msg}
    BY <1>2, <1>7 DEF TxSound
  <2> QED
    BY <1>1, <1>2, <1>3, <1>7, <2>1 DEF TxSound, OnPayload, InTx
<1>10. SaveSound'
  <2>1. CASE job.op = "save" /\ tx.at[1] = "hot"
    <3>1. tx.at = Hot(TheMsg)
      BY <1>2, <1>7, <2>1 DEF SaveSound
    <3>2. HotReplaced
      BY <2>1, <3>1 DEF HotReplaced
    <3>3. TheMsg \in Indexed(Durable) => OtherCopy(TheMsg)
      BY <1>7, <3>2 DEF SaveSound
    <3>4. OtherCopy(TheMsg) => OtherCopy(TheMsg)'
      <4>1. files'[Hot(TheMsg)].bak = files[Hot(TheMsg)].bak
        BY <1>3, <3>1
      <4>2. InArchive(TheMsg)' = InArchive(TheMsg)
        BY <1>3, <1>8, <2>1, <3>1 DEF InArchive
      <4> QED
        BY <1>8, <2>1, <4>1, <4>2 DEF OtherCopy
    <3>5. pc' = "index" /\ files'[Hot(TheMsg)].live # NoFile
      BY <1>1, <1>3, <2>1, <3>1
    <3> QED
      BY <1>1, <1>8, <2>1, <3>3, <3>4, <3>5 DEF SaveSound, OnPayload, InTx
  <2>2. CASE ~(job.op = "save" /\ tx.at[1] = "hot")
    <3>1. pc' = "clean"
      BY <1>1, <2>2
    <3>2. ~HotReplaced' /\ ~HotWritten'
      BY <1>1, <3>1 DEF HotReplaced, HotWritten, Replacing
    <3> QED
      BY <1>1, <2>2, <3>2 DEF SaveSound
  <2> QED
    BY <2>1, <2>2
<1>11. ArchivingSound'
  BY <1>1, <1>2, <1>7 DEF ArchivingSound, OnPayload, InTx
<1>12. TodoSound'
  BY <1>1, <1>7 DEF TodoSound, Unneeded, InTx
<1> QED
  BY <1>4, <1>6, <1>9, <1>10, <1>11, <1>12 DEF PayloadInv, ControlSound

(* The new index is in its place.                                          *)
LEMMA IndexCommitted ==
    ASSUME OwnPaths, StoreInv, PayloadInv, StoreInv',
           pc = "commit", Committed, tx.at = Index
    PROVE  PayloadInv'
<1>1. /\ files' = [files EXCEPT ![Index] = [files[Index] EXCEPT !.live = tx.new]]
      /\ pc' = "clean"
      /\ UNCHANGED <<mem, job, tx>>
  BY Tiers DEF Committed
<1>2. PayloadsKept /\ ReadingsKept
  BY <1>1, IndexLeavesPayloads
<1>3. ControlSound'
  BY <1>1, <1>2, IndexGoesOn
<1>4. Placed' /\ \A m \in Msg : IsStored(m)' <=> IsStored(m)
  BY <1>2, KeptPlaces
<1>5. Durable' = mem
  <2>1. up' = "up" /\ ~Replacing'
    BY <1>1, DurableListed DEF StoreInv, JobShape, Replacing
  <2> QED
    BY <1>1, <2>1 DEF StoreInv, IndexInv
<1>6. Sole(mem) /\ AllStored(mem) /\ Indexed(mem) \subseteq Msg
  BY DurableListed DEF PayloadInv, IndexesSound
<1>7. IndexesSound'
  BY <1>1, <1>4, <1>5, <1>6 DEF IndexesSound, AllStored, Sole
<1> QED
  BY <1>3, <1>4, <1>7 DEF PayloadInv

(* A commit that fails changes nothing that would be read.                 *)
LEMMA CommitUndone ==
    ASSUME OwnPaths, StoreInv, PayloadInv, Kept, CommitTemporary, ~Committed
    PROVE  Durable' = Durable /\ ReadingsKept /\ (tx.at = Index => PayloadsKept)
<1>1. /\ pc = "commit" /\ StoreInv' /\ Abort
      /\ tx.at # Index => Durable' = Durable
  BY DEF CommitTemporary, Kept, Commits
<1>2. PICK f \in RenamedBack(files[tx.at]) : files' = [files EXCEPT ![tx.at] = f]
  BY DEF CommitTemporary
<1>3. CASE tx.at = Index
  <2>1. Durable = job.undo /\ mem' = job.undo /\ up = "up" /\ up' = up
    BY <1>1, <1>3, Tiers, DurableListed
       DEF StoreInv, IndexInv, Replacing, Abort, CommitTemporary
  <2>2. ~Replacing'
    BY <1>1, <1>3, Tiers DEF Abort, Return, Replacing
  <2>3. Durable' = Durable
    BY <1>1, <2>1, <2>2 DEF StoreInv, IndexInv
  <2> QED
    BY <1>2, <1>3, <2>3, IndexLeavesPayloads
<1>4. CASE tx.at # Index
  <2>1. OnPayload
    BY <1>1, <1>4 DEF OnPayload, InTx
  <2>2. PICK m \in Msg : tx.at \in {Hot(m), Archive(m)} /\ files[tx.at] \in FileOf(m)
    BY <2>1, PayloadReplaced
  <2>3. tx.had => files[tx.at].live = NoFile
    BY <1>1, <2>1 DEF PayloadInv, ControlSound, TxSound
  <2>4. \/ f = files[tx.at]
        \/ /\ f = [live |-> files[tx.at].bak, bak |-> NoFile]
           /\ files[tx.at].live = NoFile
    BY <1>2, <2>3 DEF RenamedBack
  <2>5. f \in FileOf(m)
    BY <2>2, <2>4, Held DEF FileOf
  <2>6. Reading(f) = Reading(files[tx.at])
    BY <2>4 DEF Reading
  <2>7. SameReading(m, files[tx.at], f)
    BY <2>5, <2>6 DEF SameReading
  <2> QED
    BY <1>1, <1>2, <1>4, <2>2, <2>7, WrittenReads
<1> QED
  BY <1>3, <1>4

(* The transaction commits or is undone.                                   *)
LEMMA CommitPayloads ==
    ASSUME OwnPaths, StoreInv, PayloadInv, Kept, CommitTemporary
    PROVE  PayloadInv'
<1>1. /\ pc = "commit" /\ StoreInv'
      /\ tx.at # Index => Durable' = Durable
  BY DEF CommitTemporary, Kept, Commits
<1>2. CASE Committed
  BY <1>1, <1>2, PayloadCommitted, IndexCommitted
<1>3. CASE ~Committed
  <2>1. Abort
    BY <1>3 DEF CommitTemporary
  <2> QED
    BY <1>1, <1>3, <2>1, CommitUndone, AbortPayloads DEF Undisturbed
<1> QED
  BY <1>2, <1>3

(* The previous generation goes.                                           *)
LEMMA CleanUpPayloads ==
    ASSUME HasArchive, OwnPaths, StoreInv, PayloadInv, StoreInv',
           Durable' = Durable, CleanUp
    PROVE  Undisturbed
<1>1. pc = "clean" /\ mem' = mem /\ job.op \in {"rewrite", "state", "delete", "save"}
  BY DEF CleanUp, StoreInv, JobShape
<1>2. PICK f \in IF tx.had THEN WithoutBak(files[tx.at]) ELSE {files[tx.at]} :
          files' = [files EXCEPT ![tx.at] = f]
  BY DEF CleanUp
<1>3. TxSound /\ TodoSound /\ SaveSound /\ ArchivingSound
  BY DEF PayloadInv, ControlSound
<1>4. /\ ReadingsKept
      /\ tx.at = Index => PayloadsKept
      /\ tx.at # Index => files'[tx.at].live # NoFile
  <2>1. CASE tx.at = Index
    BY <1>2, <2>1, IndexLeavesPayloads
  <2>2. CASE tx.at # Index
    <3>1. OnPayload
      BY <1>1, <2>2 DEF OnPayload, InTx
    <3>2. PICK m \in Msg : tx.at \in {Hot(m), Archive(m)} /\ files[tx.at] \in FileOf(m)
      BY <3>1, PayloadReplaced
    <3>3. files[tx.at].live # NoFile
      BY <1>1, <1>3, <3>1 DEF TxSound
    <3>4. SameReading(m, files[tx.at], f) /\ f.live # NoFile
      <4>1. CASE f = files[tx.at]
        BY <3>2, <3>3, <4>1 DEF SameReading
      <4>2. CASE f \in WithoutBak(files[tx.at])
        BY <3>2, <3>3, <4>2, WithoutBakReads
      <4> QED
        BY <1>2, <4>1, <4>2
    <3>5. ReadingsKept /\ files'[tx.at] = f
      BY <1>2, <3>2, <3>4, WrittenReads
    <3> QED
      BY <2>2, <3>4, <3>5
  <2> QED
    BY <2>1, <2>2
<1>5. ControlSound'
  <2>1. CASE job.op \in {"rewrite", "state"}
    <3>1. Return
      BY <2>1 DEF CleanUp
    <3> QED
      BY <3>1, ReturnSound
  <2>2. CASE job.op = "delete"
    <3>1. /\ pc' = "tidy" /\ tx' = tx
          /\ job'.op = "delete" /\ job'.msgs = job.msgs
          /\ job'.todo = PayloadFiles(job.msgs) /\ job'.rest = job.rest
      BY <2>2 DEF CleanUp, StoreInv, JobShape
    <3>2. job.msgs \subseteq Msg /\ job.msgs \cap Indexed(mem) = {}
      BY <1>1, <1>3, <2>2 DEF TodoSound, InTx
    <3>3. Unneeded(PayloadFiles(job.msgs))'
      <4>1. Indexed(mem) \subseteq Msg
        BY DurableListed
      <4>2. \A n \in Indexed(mem) : /\ Hot(n) \notin PayloadFiles(job.msgs)
                                    /\ Archive(n) \notin PayloadFiles(job.msgs)
        BY <3>2, <4>1, Places DEF PayloadFiles
      <4> QED
        BY <1>1, <3>1, <4>2 DEF Unneeded
    <3>4. PayloadFiles(job.msgs) \subseteq PayloadFiles(Msg)
      BY <3>2 DEF PayloadFiles
    <3>5. TxSound' /\ SaveSound' /\ ArchivingSound'
      BY <1>3, <3>1 DEF TxSound, SaveSound, ArchivingSound, OnPayload, InTx,
                        HotReplaced, HotWritten
    <3>6. TodoSound'
      BY <3>1, <3>2, <3>3, <3>4 DEF TodoSound, InTx
    <3> QED
      BY <3>5, <3>6 DEF ControlSound
  <2>3. CASE job.op = "save" /\ tx.at = Index
    <3>1. pc' = "settle" /\ job' = job /\ tx' = tx
      BY <2>3 DEF CleanUp
    <3>2. TheMsg' = TheMsg /\ TheMsg \in Msg
      BY <2>3, <3>1, SavedMessage, SameMessage
    <3>3. files'[Hot(TheMsg)].live # NoFile
      <4>1. HotWritten
        BY <1>1, <2>3 DEF HotWritten, InTx
      <4>2. files[Hot(TheMsg)].live # NoFile
        BY <1>3, <4>1 DEF SaveSound
      <4> QED
        BY <1>4, <2>3, <3>2, <4>2 DEF PayloadsKept
    <3>4. SaveSound'
      BY <2>3, <3>1, <3>2, <3>3 DEF SaveSound, HotReplaced, Replacing, OnPayload
    <3>5. TxSound' /\ ArchivingSound'
      BY <1>3, <2>3, <3>1 DEF TxSound, ArchivingSound, OnPayload, InTx
    <3>6. TodoSound'
      BY <1>1, <1>3, <2>3, <3>1 DEF TodoSound, Unneeded, InTx
    <3> QED
      BY <3>4, <3>5, <3>6 DEF ControlSound
  <2>4. CASE job.op = "save" /\ tx.at # Index
    <3>1. pc' = "demote" /\ job' = job /\ tx' = tx
      BY <2>4 DEF CleanUp
    <3>2. OnPayload
      BY <1>1, <2>4 DEF OnPayload, InTx
    <3>3. tx.at[1] = "archive"
      <4>1. PICK m \in Msg : tx.at \in {Hot(m), Archive(m)}
        BY <3>2, PayloadReplaced
      <4>2. tx.at[1] # "hot"
        BY <1>1, <1>3, <2>4, <3>2 DEF SaveSound
      <4> QED
        BY <4>1, <4>2, Tiers
    <3>4. job.rest # <<>> /\ tx.at = Archive(Head(job.rest))
      BY <1>3, <2>4, <3>2, <3>3 DEF ArchivingSound
    <3>5. InArchive(Head(job.rest))' # NoFile
      BY <1>4, <2>4, <3>1, <3>4 DEF InArchive, Reading
    <3>6. ArchivingSound'
      BY <1>3, <3>1, <3>4, <3>5 DEF ArchivingSound, OnPayload, InTx
    <3>7. TxSound' /\ SaveSound'
      BY <2>4, <3>1 DEF TxSound, SaveSound, OnPayload, InTx, HotReplaced,
                        HotWritten, Replacing
    <3>8. TodoSound'
      BY <1>1, <1>3, <2>4, <3>1 DEF TodoSound, Unneeded, InTx
    <3> QED
      BY <3>6, <3>7, <3>8 DEF ControlSound
  <2> QED
    BY <1>1, <2>1, <2>2, <2>3, <2>4
<1> QED
  BY <1>1, <1>4, <1>5, ReadingsKeepPayloads

-----------------------------------------------------------------------------
(* The rest of save_message().                                             *)

(* The hashes of a conversation with the saved message: the one that is    *)
(* evicted is not among them.                                              *)
LEMMA NewHashesSound ==
    ASSUME mem \in Listing, TheMsg \in Msg, Sole(mem)
    PROVE  /\ Hashes \in Seq(Msg) /\ NewHashes \in Seq(Msg)
           /\ Len(Hashes) <= MAX_MESSAGES_PER_CONVERSATION =>
                  Len(NewHashes) <= MAX_MESSAGES_PER_CONVERSATION
           /\ IsInjective(NewHashes)
           /\ ToSet(NewHashes) \subseteq (ToSet(Hashes) \cup {TheMsg}) \ Evicted
           /\ Evicted \subseteq ToSet(Hashes)
           /\ \A m \in ToSet(Hashes) : m \in Indexed(mem) /\ PeerOf[m] = ThePeer
<1>1. ThePeer \in Peer
  BY StoreAssumption DEF ThePeer
<1>2. Hashes \in Seq(Msg) /\ IsInjective(Hashes)
  BY <1>1 DEF Hashes, Listing, Sole, IsInjective
<1>3. \A m \in ToSet(Hashes) : m \in Indexed(mem) /\ PeerOf[m] = ThePeer
  <2>1. CASE mem[ThePeer] = Unused
    BY <2>1 DEF Hashes, ToSet
  <2>2. CASE mem[ThePeer] # Unused
    BY <1>1, <2>2, ListedByPeer DEF Hashes
  <2> QED
    BY <2>1, <2>2
<1> DEFINE q == Hashes
           e == TheMsg
<1>4. /\ q \in Seq(Msg) /\ e \in Msg
      /\ \A i, j \in 1..Len(q) : q[i] = q[j] => i = j
  BY <1>2 DEF IsInjective
<1>5. CASE Contains(q, e)
  BY <1>2, <1>3, <1>5 DEF NewHashes, Evicted
<1>6. CASE ~Contains(q, e) /\ Evicted = {}
  <2>1. /\ NewHashes = Append(q, e)
        /\ Len(q) < MAX_MESSAGES_PER_CONVERSATION
    BY <1>2, <1>6, StoreAssumption DEF NewHashes, Evicted
  <2>2. \A i \in 1..Len(q) : q[i] # e
    BY <1>6 DEF Contains
  <2> HIDE DEF q, e
  <2> DEFINE r == Append(q, e)
  <2>3. /\ r \in Seq(Msg) /\ Len(r) = Len(q) + 1
        /\ \A i \in 1..Len(r) : r[i] = IF i <= Len(q) THEN q[i] ELSE e
    BY <1>4
  <2> HIDE DEF r
  <2>4. IsInjective(r)
    BY <1>4, <2>2, <2>3 DEF IsInjective
  <2>5. ToSet(r) \subseteq ToSet(q) \cup {e}
    BY <1>4, <2>3 DEF ToSet
  <2> QED
    BY <1>2, <1>3, <1>6, <2>1, <2>3, <2>4, <2>5, StoreAssumption DEF r, q, e
<1>7. CASE ~Contains(q, e) /\ Evicted # {}
  <2>1. /\ NewHashes = Append(Tail(q), e)
        /\ Evicted = {Head(q)} /\ q # <<>>
    BY <1>2, <1>7, StoreAssumption DEF NewHashes, Evicted
  <2>2. \A i \in 1..Len(q) : q[i] # e
    BY <1>7 DEF Contains
  <2> HIDE DEF q, e
  <2> DEFINE r == Append(Tail(q), e)
  <2>3. /\ r \in Seq(Msg) /\ Len(r) = Len(q) /\ Len(q) > 0
        /\ \A i \in 1..Len(r) : r[i] = IF i < Len(q) THEN q[i + 1] ELSE e
        /\ Head(q) = q[1]
    BY <1>4, <2>1
  <2> HIDE DEF r
  <2>4. IsInjective(r)
    BY <1>4, <2>2, <2>3 DEF IsInjective
  <2>5. ToSet(r) \subseteq (ToSet(q) \cup {e}) \ {Head(q)}
    BY <1>4, <2>2, <2>3 DEF ToSet
  <2>6. Head(q) \in ToSet(q)
    BY <1>4, <2>3 DEF ToSet
  <2> QED
    BY <1>2, <1>3, <2>1, <2>3, <2>4, <2>5, <2>6 DEF r, q, e
<1> QED
  BY <1>5, <1>6, <1>7

(* The conversation takes the message.                                     *)
LEMMA AddPayloads ==
    ASSUME OwnPaths, StoreInv, PayloadInv, StoreInv', Durable' = Durable,
           AddToConversation
    PROVE  Undisturbed /\ Indexed(mem') \subseteq Indexed(mem) \cup {TheMsg}
<1>1. pc = "index" /\ files' = files /\ job.op = "save"
  BY DEF AddToConversation, StoreInv, JobShape
<1>2. TxSound /\ TodoSound /\ SaveSound /\ ArchivingSound
  BY DEF PayloadInv, ControlSound
<1>3. PayloadsKept /\ ReadingsKept
  BY <1>1, IndexLeavesPayloads
<1>4. TheMsg \in Msg /\ mem \in Listing /\ Indexed(mem) \subseteq Msg
  BY <1>1, SavedMessage, DurableListed
<1>5. /\ HotReplaced /\ HotWritten
      /\ TheMsg \in Indexed(Durable) => OtherCopy(TheMsg)
      /\ files[Hot(TheMsg)].live # NoFile
  BY <1>1, <1>2 DEF SaveSound, HotReplaced, HotWritten
<1>6. TheMsg' = TheMsg => (OtherCopy(TheMsg)' <=> OtherCopy(TheMsg))
  BY <1>1 DEF OtherCopy, InArchive
<1>7. CASE PoolFull
  <2>1. pc' = "rollback" /\ UNCHANGED <<mem, job, tx>>
    BY <1>7 DEF AddToConversation
  <2>2. TheMsg' = TheMsg
    BY <2>1, SameMessage
  <2>3. SaveSound'
    BY <1>5, <1>6, <2>1, <2>2 DEF SaveSound, OnPayload, InTx, HotWritten
  <2>4. TxSound' /\ TodoSound' /\ ArchivingSound'
    BY <1>1, <1>2, <2>1 DEF TxSound, TodoSound, ArchivingSound, OnPayload, InTx
  <2>5. ControlSound'
    BY <2>3, <2>4 DEF ControlSound
  <2> QED
    BY <1>3, <2>1, <2>5, ReadingsKeepPayloads
<1>8. CASE ~PoolFull
  <2>1. /\ mem' = [mem EXCEPT ![ThePeer] = NewHashes]
        /\ job' = [job EXCEPT !.undo = mem, !.todo = PayloadFiles(Evicted)]
        /\ tx' = [at |-> Index, new |-> mem', had |-> FALSE]
        /\ pc' = "write"
    BY <1>8 DEF AddToConversation, NoTx
  <2>2. /\ job'.op = "save" /\ job'.msgs = job.msgs /\ job'.rest = job.rest
        /\ job'.todo = PayloadFiles(Evicted)
        /\ tx'.at = Index
    BY <1>1, <2>1 DEF StoreInv, JobShape
  <2>3. TheMsg' = TheMsg
    BY <2>2, SameMessage
  <2>4. Sole(mem) /\ AllStored(mem)
    BY DEF PayloadInv, IndexesSound
  <2>5. /\ Hashes \in Seq(Msg)
        /\ IsInjective(NewHashes)
        /\ ToSet(NewHashes) \subseteq (ToSet(Hashes) \cup {TheMsg}) \ Evicted
        /\ Evicted \subseteq ToSet(Hashes)
        /\ \A m \in ToSet(Hashes) : m \in Indexed(mem) /\ PeerOf[m] = ThePeer
    BY <1>1, <1>4, <2>4, NewHashesSound
  <2>6. mem' \in Listing /\ ThePeer \in Peer
    BY <1>4, StoreAssumption DEF StoreInv, IndexShape, ThePeer
  <2>7. /\ Sole(mem')
        /\ \A m \in Indexed(mem') : \/ m \in Indexed(mem) /\ PeerOf[m] # ThePeer
                                    \/ m \in ToSet(NewHashes)
    BY <1>4, <2>1, <2>4, <2>5, <2>6, ListingEdited
  <2>8. Indexed(mem') \subseteq Indexed(mem) \cup {TheMsg}
    BY <2>5, <2>7
  <2>9. Indexed(mem') \cap Evicted = {} /\ Evicted \subseteq Msg
    BY <1>4, <2>5, <2>7
  <2>10. IndexesSound'
    <3>1. \A m : IsStored(m)' <=> IsStored(m)
      BY <1>1 DEF IsStored, InHot, InArchive
    <3>2. IsStored(TheMsg)
      BY <1>5 DEF IsStored, InHot, Reading
    <3>3. \A m \in Indexed(mem') : IsStored(m)'
      BY <2>4, <2>8, <3>1, <3>2 DEF AllStored
    <3>4. Sole(Durable) /\ AllStored(Durable)
      BY DEF PayloadInv, IndexesSound
    <3> QED
      BY <2>7, <3>1, <3>3, <3>4 DEF IndexesSound, AllStored, Sole
  <2>11. SaveSound'
    BY <1>1, <1>5, <1>6, <2>2, <2>3 DEF SaveSound, OnPayload
  <2>12. TodoSound'
    <3>1. \A n \in Indexed(mem') : /\ Hot(n) \notin PayloadFiles(Evicted)
                                   /\ Archive(n) \notin PayloadFiles(Evicted)
      <4>1. Indexed(mem') \subseteq Msg
        BY <1>4, <2>8
      <4> QED
        BY <2>9, <4>1, Places DEF PayloadFiles
    <3>2. PayloadFiles(Evicted) \subseteq PayloadFiles(Msg)
      BY <2>9 DEF PayloadFiles
    <3> QED
      BY <2>2, <3>1, <3>2 DEF TodoSound, Unneeded
  <2>13. TxSound' /\ ArchivingSound'
    BY <1>2, <2>1, <2>2 DEF TxSound, ArchivingSound, OnPayload
  <2>14. Placed'
    BY <1>3, KeptPlaces
  <2> QED
    BY <1>3, <2>8, <2>10, <2>11, <2>12, <2>13, <2>14
       DEF PayloadInv, ControlSound, Undisturbed
<1> QED
  BY <1>7, <1>8

(* rollback_payload(): the new payload is removed; another copy of a       *)
(* message that was listed before is left.                                 *)
LEMMA RemoveNewPayloads ==
    ASSUME OwnPaths, StoreInv, PayloadInv, StoreInv', Durable' = Durable, RemoveNew
    PROVE  PayloadInv'
<1>1. /\ pc = "rollback" /\ pc' = "restore" /\ UNCHANGED <<mem, job, tx>>
      /\ Placed /\ FilesShape
  BY DEF RemoveNew, PayloadInv, StoreInv, IndexShape
<1>2. TxSound /\ TodoSound /\ SaveSound /\ ArchivingSound
  BY DEF PayloadInv, ControlSound
<1>3. job.op = "save" /\ HotReplaced
  BY <1>1, <1>2 DEF TxSound, HotReplaced
<1>4. TheMsg \in Msg /\ TheMsg' = TheMsg
  BY <1>1, <1>3, SavedMessage, SameMessage
<1>5. PICK f \in WithoutLive(files[Hot(TheMsg)]) :
          files' = [files EXCEPT ![Hot(TheMsg)] = f]
  BY DEF RemoveNew
<1>6. f \in FileOf(TheMsg) /\ f.bak = files[Hot(TheMsg)].bak
  BY <1>1, <1>4, <1>5, WithoutLiveReads DEF Placed
<1>7. /\ files'[Hot(TheMsg)] = f
      /\ \A n \in Msg : n # TheMsg => files'[Hot(n)] = files[Hot(n)]
      /\ \A n \in Msg : files'[Archive(n)] = files[Archive(n)]
  BY <1>1, <1>4, <1>5, OneHotWritten
<1>8. Placed'
  BY <1>1, <1>6, <1>7 DEF Placed
<1>9. OtherCopy(TheMsg)' <=> OtherCopy(TheMsg)
  BY <1>4, <1>6, <1>7 DEF OtherCopy, InArchive
<1>10. TheMsg \in Indexed(Durable) => OtherCopy(TheMsg)
  BY <1>2, <1>3 DEF SaveSound
<1>11. mem = Durable /\ Indexed(mem) \subseteq Msg
  BY <1>1, DurableListed DEF Replacing
<1>12. \A n \in Indexed(mem) : IsStored(n) => IsStored(n)'
  <2> SUFFICES ASSUME NEW n \in Indexed(mem), IsStored(n) PROVE IsStored(n)'
    OBVIOUS
  <2>1. CASE n = TheMsg
    <3>1. f.bak # NoFile \/ InArchive(TheMsg) # NoFile
      BY <1>6, <1>10, <1>11, <2>1 DEF OtherCopy
    <3>2. Reading(f) = NoFile => f.bak = NoFile
      BY DEF Reading
    <3> QED
      BY <1>4, <1>7, <2>1, <3>1, <3>2 DEF IsStored, InHot, InArchive
  <2>2. CASE n # TheMsg
    BY <1>7, <1>11, <2>2 DEF IsStored, InHot, InArchive
  <2> QED
    BY <2>1, <2>2
<1>13. IndexesSound'
  BY <1>1, <1>11, <1>12, ListedKept DEF PayloadInv
<1>14. SaveSound'
  BY <1>1, <1>4, <1>9, <1>10 DEF SaveSound, OnPayload, InTx, HotWritten
<1>15. TxSound' /\ TodoSound' /\ ArchivingSound'
  BY <1>1, <1>2, <1>3 DEF TxSound, TodoSound, ArchivingSound, OnPayload, InTx
<1> QED
  BY <1>8, <1>13, <1>14, <1>15 DEF PayloadInv, ControlSound

(* rollback_payload(): the previous generation is put back.                *)
LEMMA RestorePayloads ==
    ASSUME OwnPaths, StoreInv, PayloadInv, StoreInv', Durable' = Durable,
           RestorePrevious
    PROVE  PayloadInv'
<1>1. pc = "restore" /\ mem' = mem /\ Return /\ Placed /\ FilesShape
  BY DEF RestorePrevious, PayloadInv, StoreInv, IndexShape
<1>2. TheMsg \in Msg
  <2>1. job.op = "save"
    BY <1>1 DEF PayloadInv, ControlSound, TxSound
  <2> QED
    BY <2>1, SavedMessage
<1> DEFINE m == TheMsg
           f == files[Hot(m)]
<1>3. f \in FileOf(m)
  BY <1>1, <1>2 DEF Placed
<1>4. PICK g : /\ files' = [files EXCEPT ![Hot(m)] = g]
               /\ g = f \/ (f.bak # NoFile /\ g = [live |-> f.bak, bak |-> NoFile])
  BY DEF RestorePrevious
<1>5. g \in FileOf(m) /\ (Reading(f) # NoFile => Reading(g) # NoFile)
  <2>1. CASE g = f
    BY <1>3, <2>1
  <2>2. CASE f.bak # NoFile /\ g = [live |-> f.bak, bak |-> NoFile]
    <3>1. f.bak \in PayloadOf(m) \cup {NoFile}
      BY <1>2, <1>3, Held
    <3>2. g \in FileOf(m)
      BY <2>2, <3>1 DEF FileOf
    <3>3. Reading(g) = f.bak
      BY <2>2 DEF Reading
    <3> QED
      BY <2>2, <3>2, <3>3
  <2> QED
    BY <1>4, <2>1, <2>2
<1>6. /\ files'[Hot(m)] = g
      /\ \A n \in Msg : n # m => files'[Hot(n)] = files[Hot(n)]
      /\ \A n \in Msg : files'[Archive(n)] = files[Archive(n)]
  <2>1. m \in Msg /\ files' = [files EXCEPT ![Hot(m)] = g]
    BY <1>2, <1>4
  <2> HIDE DEF m
  <2> QED
    BY <1>1, <2>1, OneHotWritten
<1>7. Placed'
  BY <1>1, <1>5, <1>6 DEF Placed
<1>8. \A n \in Msg : IsStored(n) => IsStored(n)'
  BY <1>5, <1>6 DEF IsStored, InHot, InArchive
<1>9. IndexesSound'
  BY <1>1, <1>8, DurableListed, ListedKept DEF PayloadInv
<1>10. ControlSound'
  BY <1>1, ReturnSound
<1> QED
  BY <1>7, <1>9, <1>10 DEF PayloadInv

(* The previous generation goes when there is a live one.                  *)
LEMMA SettlePayloads ==
    ASSUME OwnPaths, StoreInv, PayloadInv, StoreInv', Durable' = Durable, Settle
    PROVE  Undisturbed
<1>1. pc = "settle" /\ pc' = "tidy" /\ UNCHANGED <<mem, job, tx>> /\ Placed
  BY DEF Settle, PayloadInv
<1>2. TxSound /\ TodoSound /\ SaveSound /\ ArchivingSound
  BY DEF PayloadInv, ControlSound
<1>3. job.op = "save" /\ HotWritten
  BY <1>1, <1>2 DEF TxSound, HotWritten
<1>4. TheMsg \in Msg /\ files[Hot(TheMsg)].live # NoFile
  BY <1>2, <1>3, SavedMessage DEF SaveSound
<1>5. PICK f \in WithoutBak(files[Hot(TheMsg)]) :
          files' = [files EXCEPT ![Hot(TheMsg)] = f]
  BY DEF Settle
<1>6. SameReading(TheMsg, files[Hot(TheMsg)], f)
  BY <1>1, <1>4, <1>5, WithoutBakReads DEF Placed
<1>7. ReadingsKept
  BY <1>4, <1>5, <1>6, WrittenReads
<1>8. TxSound' /\ TodoSound' /\ SaveSound' /\ ArchivingSound'
  BY <1>1, <1>2, <1>3 DEF TxSound, TodoSound, SaveSound, ArchivingSound, Unneeded,
                          OnPayload, InTx, HotReplaced, HotWritten, Replacing
<1> QED
  BY <1>1, <1>7, <1>8, ReadingsKeepPayloads DEF ControlSound

(* A payload file of no listed message is removed; a save goes on to move  *)
(* old messages.                                                           *)
LEMMA TidyPayloads ==
    ASSUME OwnPaths, StoreInv, PayloadInv, StoreInv', Durable' = Durable, Tidy
    PROVE  PayloadInv'
<1>1. pc = "tidy" /\ mem' = mem /\ Placed /\ FilesShape
  BY DEF Tidy, PayloadInv, StoreInv, IndexShape
<1>2. TxSound /\ TodoSound /\ SaveSound /\ ArchivingSound
  BY DEF PayloadInv, ControlSound
<1>3. mem = Durable /\ Indexed(mem) \subseteq Msg
  BY <1>1, DurableListed DEF Replacing
<1>4. CASE job.todo # {}
  <2>1. PICK l \in job.todo :
            /\ \E f \in WithoutLive(files[l]) : files' = [files EXCEPT ![l] = f]
            /\ job' = [job EXCEPT !.todo = @ \ {l}]
            /\ UNCHANGED <<pc, tx>>
    BY <1>4 DEF Tidy
  <2>2. Unneeded(job.todo) /\ job.todo \subseteq PayloadFiles(Msg)
    BY <1>1, <1>2 DEF TodoSound
  <2>3. PICK m \in Msg : l \in {Hot(m), Archive(m)}
    BY <2>1, <2>2 DEF PayloadFiles
  <2>4. PICK f \in FileOf(m) : files' = [files EXCEPT ![l] = f]
    BY <1>1, <2>1, <2>3, WithoutLiveReads DEF Placed
  <2>5. /\ files'[l] = f
        /\ \A n \in Msg : /\ Hot(n) # l => files'[Hot(n)] = files[Hot(n)]
                          /\ Archive(n) # l => files'[Archive(n)] = files[Archive(n)]
    BY <1>1, <2>3, <2>4, Places DEF FilesShape
  <2>6. \A n \in Msg : Hot(n) = l \/ Archive(n) = l => n = m
    BY <2>3, Places
  <2>7. Placed'
    BY <1>1, <2>4, <2>5, <2>6 DEF Placed
  <2>8. \A n \in Indexed(mem) : IsStored(n) => IsStored(n)'
    <3>1. \A n \in Indexed(mem) : n \in Msg /\ Hot(n) # l /\ Archive(n) # l
      BY <1>3, <2>1, <2>2 DEF Unneeded
    <3> QED
      BY <2>5, <3>1 DEF IsStored, InHot, InArchive
  <2>9. IndexesSound'
    BY <1>1, <1>3, <2>8, ListedKept DEF PayloadInv
  <2>10. /\ pc' = "tidy" /\ tx' = tx
         /\ job'.op = job.op /\ job'.msgs = job.msgs /\ job'.rest = job.rest
         /\ job'.todo \subseteq job.todo
    BY <1>1, <2>1 DEF StoreInv, JobShape
  <2>11. TxSound' /\ SaveSound' /\ ArchivingSound'
    BY <1>2, <2>10 DEF TxSound, SaveSound, ArchivingSound, OnPayload, InTx,
                       HotReplaced, HotWritten, Replacing
  <2>12. TodoSound'
    BY <1>1, <1>2, <2>2, <2>10 DEF TodoSound, Unneeded, InTx
  <2> QED
    BY <2>7, <2>9, <2>11, <2>12 DEF PayloadInv, ControlSound
<1>5. CASE job.todo = {}
  <2>1. ReadingsKept
    <3>1. files' = files
      BY <1>5 DEF Tidy
    <3> QED
      BY <3>1, IndexLeavesPayloads
  <2>2. CASE Return
    BY <1>1, <2>1, <2>2, ReturnSound, ReadingsKeepPayloads DEF Undisturbed
  <2>3. CASE ~Return
    <3> DEFINE rest == SubSeq(Hashes, 1, Len(Hashes) - HOT_MESSAGES_PER_CONVERSATION)
    <3>1. /\ job.op = "save" /\ Len(Hashes) > HOT_MESSAGES_PER_CONVERSATION
          /\ pc' = "cull" /\ tx' = tx
          /\ job' = [job EXCEPT !.rest = rest]
      BY <1>5, <2>3 DEF Tidy
    <3>2. rest \in Seq(Msg)
      <4>1. Hashes \in Seq(Msg)
        BY <3>1, SavedMessage, DurableListed, NewHashesSound DEF PayloadInv, IndexesSound
      <4>2. HOT_MESSAGES_PER_CONVERSATION \in Nat
        BY StoreAssumption
      <4> QED
        BY <3>1, <4>1, <4>2
    <3> HIDE DEF rest
    <3>3. /\ job'.op = "save" /\ job'.todo = {} /\ job'.rest = rest
      BY <1>5, <3>1 DEF StoreInv, JobShape
    <3>4. TxSound' /\ SaveSound' /\ ArchivingSound' /\ TodoSound'
      BY <3>1, <3>2, <3>3 DEF TxSound, SaveSound, ArchivingSound, TodoSound,
             Unneeded, OnPayload, InTx, HotReplaced, HotWritten, Replacing
    <3> QED
      BY <1>1, <2>1, <3>4, ReadingsKeepPayloads DEF ControlSound, Undisturbed
  <2> QED
    BY <2>2, <2>3
<1> QED
  BY <1>4, <1>5

(* The next message is skipped.                                            *)
LEMMA SkipSound ==
    ASSUME StoreInv, PayloadInv, pc \in {"cull", "demote"}, mem' = mem, Skip,
           job.rest # <<>>
    PROVE  ControlSound'
<1>1. TxSound /\ TodoSound /\ SaveSound /\ ArchivingSound
  BY DEF PayloadInv, ControlSound
<1>2. job.op = "save" /\ job.rest \in Seq(Msg)
  BY <1>1 DEF TxSound, ArchivingSound
<1>3. /\ pc' = "cull" /\ tx' = tx /\ job'.rest = Tail(job.rest)
      /\ job'.op = job.op /\ job'.msgs = job.msgs /\ job'.todo = job.todo
  BY DEF Skip, StoreInv, JobShape
<1>4. Tail(job.rest) \in Seq(Msg)
  BY <1>2
<1>5. TxSound' /\ SaveSound' /\ ArchivingSound'
  BY <1>2, <1>3, <1>4 DEF TxSound, SaveSound, ArchivingSound, OnPayload, InTx,
                          HotReplaced, HotWritten, Replacing
<1>6. TodoSound'
  BY <1>1, <1>2, <1>3 DEF TodoSound, Unneeded
<1> QED
  BY <1>5, <1>6 DEF ControlSound

(* No file is lost, and the hot ones read as before.                       *)
HotsKept == FilesKept /\ \A m \in Msg : InHot(m)' = InHot(m)

(* Recovering the archive's file only.                                     *)
LEMMA RecoveringArchiveReads ==
    ASSUME OwnPaths, StoreInv, PayloadInv, NEW m \in Msg,
           NEW a \in Recovered(files[Archive(m)], m),
           files' = [files EXCEPT ![Archive(m)] = a.file]
    PROVE  HotsKept /\ files'[Archive(m)] = a.file
<1>1. FilesShape /\ Placed
  BY DEF StoreInv, IndexShape, PayloadInv
<1>2. StillRead(m, files[Archive(m)], a.file)
  BY MaybeRecovered
<1>3. /\ files'[Archive(m)] = a.file
      /\ \A n \in Msg : n # m => files'[Archive(n)] = files[Archive(n)]
      /\ \A n \in Msg : files'[Hot(n)] = files[Hot(n)]
  BY <1>1, OneArchiveWritten
<1>4. ASSUME NEW n \in Msg
      PROVE  /\ StillRead(n, files[Hot(n)], files'[Hot(n)])
             /\ StillRead(n, files[Archive(n)], files'[Archive(n)])
             /\ InHot(n)' = InHot(n)
  <2>1. StillRead(n, files[Hot(n)], files'[Hot(n)]) /\ InHot(n)' = InHot(n)
    BY <1>1, <1>3 DEF Placed, StillRead, InHot
  <2>2. CASE n = m
    BY <1>2, <1>3, <2>1, <2>2
  <2>3. CASE n # m
    BY <1>1, <1>3, <2>1, <2>3 DEF Placed, StillRead
  <2> QED
    BY <2>2, <2>3
<1> QED
  BY <1>3, <1>4 DEF HotsKept, FilesKept

(* archive_one_message(): the archive's file is recovered and replaced.    *)
LEMMA CullPayloads ==
    ASSUME HasArchive, OwnPaths, StoreInv, PayloadInv, StoreInv',
           Durable' = Durable, Cull
    PROVE  PayloadInv' /\ HotsKept
<1>1. pc = "cull" /\ mem' = mem /\ Placed
  BY DEF Cull, PayloadInv
<1>2. TxSound /\ TodoSound /\ SaveSound /\ ArchivingSound
  BY DEF PayloadInv, ControlSound
<1>3. job.op = "save" /\ job.rest \in Seq(Msg)
  BY <1>1, <1>2 DEF TxSound, ArchivingSound
<1>4. ReadingsKept => HotsKept
  BY KeptPlaces DEF HotsKept
<1>5. CASE Return /\ UNCHANGED files
  BY <1>1, <1>4, <1>5, IndexLeavesPayloads, ReturnSound, ReadingsKeepPayloads
     DEF Undisturbed
<1>6. CASE job.rest # <<>> /\ Skip /\ UNCHANGED files
  BY <1>1, <1>4, <1>6, IndexLeavesPayloads, SkipSound, ReadingsKeepPayloads
     DEF Undisturbed
<1>7. CASE ~((Return \/ (job.rest # <<>> /\ Skip)) /\ UNCHANGED files)
  <2> DEFINE m == Head(job.rest)
             hot == files[Hot(m)].live
  <2>1. job.rest # <<>> /\ hot # NoFile /\ CullToArchive(m, hot)
    BY <1>7 DEF Cull
  <2> HIDE DEF hot
  <2>2. PICK a \in Recovered(files[Archive(m)], m) :
            /\ files' = [files EXCEPT ![Archive(m)] = a.file]
            /\ \/ /\ Writable(a)
                  /\ tx' = [NoTx EXCEPT !.at = Archive(m), !.new = hot]
                  /\ pc' = "write"
                  /\ UNCHANGED job
               \/ Skip
    BY <1>7, <2>1 DEF CullToArchive
  <2>3. m \in Msg
    BY <1>3, <2>1
  <2>4. Writable(a) => a.file.live # NoFile \/ a.file.bak = NoFile
    BY <2>3, MaybeRecovered
  <2>5. HotsKept /\ files'[Archive(m)] = a.file
    BY <2>2, <2>3, RecoveringArchiveReads
  <2>6. CASE Skip
    BY <1>1, <2>1, <2>5, <2>6, SkipSound, FilesKeepPayloads DEF HotsKept
  <2>7. CASE ~Skip
    <3>1. /\ pc' = "write" /\ job' = job
          /\ tx'.at = Archive(m) /\ tx'.new = hot
          /\ files'[Archive(m)].live # NoFile \/ files'[Archive(m)].bak = NoFile
      BY <2>2, <2>4, <2>5, <2>7 DEF NoTx
    <3>2. hot \in PayloadOf(m)
      BY <1>1, <2>1, <2>3, Held DEF Placed, hot
    <3>3. Archive(m) # Index /\ Archive(m)[1] = "archive"
      BY <2>3, Places, Tiers
    <3> HIDE DEF m
    <3>4. TxSound'
      BY <1>3, <2>3, <3>1, <3>2, <3>3 DEF TxSound, OnPayload, InTx
    <3>5. SaveSound'
      BY <3>1, <3>3 DEF SaveSound, HotReplaced, HotWritten, Replacing, InTx
    <3>6. ArchivingSound'
      BY <1>3, <2>1, <3>1 DEF ArchivingSound, m
    <3>7. TodoSound'
      BY <1>1, <1>2, <1>3, <3>1 DEF TodoSound, Unneeded
    <3>8. ControlSound'
      BY <3>4, <3>5, <3>6, <3>7 DEF ControlSound
    <3> QED
      BY <1>1, <2>5, <3>8, FilesKeepPayloads DEF HotsKept
  <2> QED
    BY <2>6, <2>7
<1> QED
  BY <1>5, <1>6, <1>7

(* archive_one_message(): the archive has the message, and the hot file    *)
(* goes.                                                                   *)
LEMMA RemoveHotPayloads ==
    ASSUME OwnPaths, StoreInv, PayloadInv, StoreInv', Durable' = Durable, RemoveHot
    PROVE  PayloadInv'
<1>1. pc = "demote" /\ mem' = mem /\ Skip /\ Placed /\ FilesShape
  BY DEF RemoveHot, PayloadInv, StoreInv, IndexShape
<1> DEFINE m == Head(job.rest)
<1>2. job.rest # <<>> /\ m \in Msg /\ InArchive(m) # NoFile
  BY <1>1 DEF PayloadInv, ControlSound, ArchivingSound
<1>3. PICK f \in WithoutLive(files[Hot(m)]) :
          files' = [files EXCEPT ![Hot(m)] = f]
  BY DEF RemoveHot
<1> HIDE DEF m
<1>4. f \in FileOf(m)
  BY <1>1, <1>2, <1>3, WithoutLiveReads DEF Placed
<1>5. /\ files'[Hot(m)] = f
      /\ \A n \in Msg : n # m => files'[Hot(n)] = files[Hot(n)]
      /\ \A n \in Msg : files'[Archive(n)] = files[Archive(n)]
  BY <1>1, <1>2, <1>3, OneHotWritten
<1>6. Placed'
  BY <1>1, <1>4, <1>5 DEF Placed
<1>7. \A n \in Msg : IsStored(n) => IsStored(n)'
  BY <1>2, <1>5 DEF IsStored, InHot, InArchive
<1>8. IndexesSound'
  BY <1>1, <1>7, DurableListed, ListedKept DEF PayloadInv
<1>9. ControlSound'
  BY <1>1, <1>2, SkipSound
<1> QED
  BY <1>6, <1>8, <1>9 DEF PayloadInv

-----------------------------------------------------------------------------
(* Power failures, and the whole.                                          *)

(* Neither a power failure nor a restart touches a payload.                *)
LEMMA RestartPayloads ==
    ASSUME IndexCallsWork, OwnPaths, StoreInv, PayloadInv, StoreInv',
           Durable' = Durable, PowerFails \/ LoadIndex
    PROVE  Undisturbed
<1>1. PayloadsKept /\ ReadingsKept
  <2>1. files' = files \/ \E f : files' = [files EXCEPT ![Index] = f]
    BY DEF PowerFails, LoadIndex, Loaded
  <2> QED
    BY <2>1, IndexLeavesPayloads
<1>2. Placed' /\ \A m \in Msg : IsStored(m)' <=> IsStored(m)
  BY <1>1, KeptPlaces
<1>3. Sole(Durable) /\ AllStored(Durable) /\ Indexed(Durable) \subseteq Msg
  BY DurableListed DEF PayloadInv, IndexesSound
<1>4. CASE PowerFails
  <2>1. mem' = EmptyIndex /\ Return
    BY <1>4 DEF PowerFails
  <2>2. IndexesSound'
    BY <1>2, <1>3, <2>1, NothingListed DEF IndexesSound, AllStored, Sole
  <2> QED
    BY <1>1, <1>2, <2>1, <2>2, ReturnSound DEF PayloadInv, Undisturbed
<1>5. CASE LoadIndex
  <2>1. /\ up = "down" /\ pc = "idle" /\ pc' = pc /\ job' = job /\ tx' = tx
        /\ up' \in {"up", "failed"}
    BY <1>5 DEF LoadIndex, Loaded, StoreInv, JobShape
  <2>2. mem' = Durable
    <3>1. up' = "up" /\ ~Replacing'
      BY <2>1 DEF StoreInv, JobShape, Replacing
    <3> QED
      BY <3>1 DEF StoreInv, IndexInv
  <2>3. ControlSound'
    BY <2>1, RefuseSound
  <2> QED
    BY <1>1, <2>2, <2>3, ReadingsKeepPayloads
<1> QED
  BY <1>4, <1>5

(* Only the commit of an index changes what is durable.                    *)
LEMMA OnlyCommitTemporary ==
    ASSUME IndexCallsWork, StoreInv, StoreNext, ~CommitTemporary
    PROVE  Durable' = Durable
<1>1. Kept
  BY StoreStepKeeps
<1>2. pc = "commit" => PowerFails \/ LoadIndex
  BY DEF StoreNext, StoreCall, StoreStep, SaveMessage, UpdateMessageState,
         DeleteMessage, LoadMessage, LoadMetadata, DeleteConversation, ClearAll,
         CommitIndex, CullToArchive,
         Ready, WriteTemporary, PreserveLive, CleanUp, AddToConversation,
         RemoveNew, RestorePrevious, Settle, Tidy, Cull, RemoveHot
<1>3. PowerFails => Durable' = Durable
  BY DEF PowerFails, Durable
<1>4. LoadIndex => pc = "idle"
  BY DEF LoadIndex, StoreInv, JobShape
<1> QED
  BY <1>1, <1>2, <1>3, <1>4 DEF Kept, Commits

(* Every call, step and restart keeps the invariant.                       *)
LEMMA PayloadStepKeeps ==
    ASSUME IndexCallsWork, HasArchive, OwnPaths, StoreInv, PayloadInv,
           [StoreNext]_storeVars
    PROVE  PayloadInv'
<1>1. Kept /\ StoreInv'
  BY StoreStepKeeps DEF Kept
<1>2. CASE CommitTemporary
  BY <1>1, <1>2, CommitPayloads
<1>3. CASE UNCHANGED storeVars
  BY <1>3 DEF storeVars, PayloadInv, Placed, IndexesSound, AllStored, IsStored,
              InHot, InArchive, Durable, ControlSound, TxSound, SaveSound,
              TodoSound, ArchivingSound, InTx, OnPayload, HotReplaced, HotWritten,
              Replacing, OtherCopy, Unneeded, TheMsg
<1>4. CASE StoreNext /\ ~CommitTemporary
  <2>1. Durable' = Durable
    BY <1>4, OnlyCommitTemporary
  <2>2. CASE StoreCall
    BY <1>1, <2>1, <2>2, SavePayloads, UpdatePayloads, DeletePayloads,
       LoadPayloads, ClearingPayloads
       DEF StoreCall, Undisturbed, Returned, Begun, Recovers
  <2>3. CASE StoreStep
    BY <1>1, <1>4, <2>1, <2>3, WritePayloads, PreservePayloads, CleanUpPayloads,
       AddPayloads, RemoveNewPayloads, RestorePayloads, SettlePayloads,
       TidyPayloads, CullPayloads, RemoveHotPayloads DEF StoreStep, Undisturbed
  <2>4. CASE PowerFails \/ LoadIndex
    BY <1>1, <2>1, <2>4, RestartPayloads DEF Undisturbed
  <2> QED
    BY <1>4, <2>2, <2>3, <2>4 DEF StoreNext
<1> QED
  BY <1>2, <1>3, <1>4

(* The invariant holds of an empty store.                                  *)
LEMMA PayloadInitEstablishes ==
    ASSUME OwnPaths
    PROVE  StoreInit => PayloadInv
<1> SUFFICES ASSUME StoreInit PROVE PayloadInv
  OBVIOUS
<1>1. \A m \in Msg : files[Hot(m)] = NoFiles /\ files[Archive(m)] = NoFiles
  BY Places DEF StoreInit
<1>2. Placed
  BY <1>1 DEF Placed, FileOf, NoFiles
<1>3. Durable = EmptyIndex /\ mem = EmptyIndex
  BY PayloadsElsewhere DEF StoreInit, Durable, NoFiles
<1>4. IndexesSound
  BY <1>3, NothingListed DEF IndexesSound, AllStored
<1>5. pc = "idle" /\ job.todo = {} /\ job.rest = <<>> /\ job.op = "none"
  BY DEF StoreInit, NoJob
<1>6. ControlSound
  BY <1>5 DEF ControlSound, TxSound, SaveSound, TodoSound, ArchivingSound, InTx,
              OnPayload, HotReplaced, HotWritten, Replacing
<1> QED
  BY <1>2, <1>4, <1>6 DEF PayloadInv

(* The two invariants hold in every reachable state.                       *)
LEMMA PayloadInvariance ==
    ASSUME IndexCallsWork, HasArchive, OwnPaths
    PROVE  StoreSafeSpec => [](StoreInv /\ PayloadInv)
<1>1. StoreInit => StoreInv /\ PayloadInv
  BY StoreInitEstablishes, PayloadInitEstablishes
<1>2. StoreInv /\ PayloadInv /\ [StoreNext]_storeVars => StoreInv' /\ PayloadInv'
  BY StoreStepKeeps, PayloadStepKeeps DEF Kept
<1> QED
  BY <1>1, <1>2, PTL DEF StoreSafeSpec

(* What is stored of a message is what would be read.                      *)
LEMMA StoredIsRead ==
    ASSUME PayloadInv, NEW m \in Msg
    PROVE  /\ Stored(m) = IF InHot(m) # NoFile THEN InHot(m) ELSE InArchive(m)
           /\ Stored(m) # NoFile <=> IsStored(m)
<1>1. files[Hot(m)] \in FileOf(m) /\ files[Archive(m)] \in FileOf(m)
  BY DEF PayloadInv, Placed
<1>2. \A l \in {Hot(m), Archive(m)} : Copy(l, m) = Reading(files[l])
  BY <1>1, Held DEF Copy, Reading
<1> QED
  BY <1>2 DEF Stored, InHot, InArchive, IsStored

(* A message is durable with both its payload and its index entry: every   *)
(* message a restart would list has a payload in one of the tiers, in the  *)
(* middle of every call, after every failure of the filesystem and every   *)
(* loss of power; given names that tell messages apart.                    *)
THEOREM ListedAreStored ==
    ASSUME IndexCallsWork, OwnPaths
    PROVE  StoreSafeSpec => []ListedIsStored
<1>1. CASE HasArchive
  <2>1. StoreInv /\ PayloadInv => ListedIsStored
    <3> SUFFICES ASSUME StoreInv, PayloadInv, NEW m \in Indexed(Durable)
                 PROVE  Stored(m) # NoFile
      BY DEF ListedIsStored
    <3>1. m \in Msg
      BY DurableListed
    <3>2. IsStored(m)
      BY DEF PayloadInv, IndexesSound, AllStored
    <3> QED
      BY <3>1, <3>2, StoredIsRead
  <2> QED
    BY <1>1, <2>1, PayloadInvariance, PTL
<1>2. CASE ~HasArchive
  <2>1. ListedIsStored
    BY <1>2 DEF ListedIsStored
  <2>2. ListedIsStored /\ [StoreNext]_storeVars => ListedIsStored'
    BY <1>2 DEF ListedIsStored
  <2> QED
    BY <2>1, <2>2, PTL DEF StoreSafeSpec
<1> QED
  BY <1>1, <1>2
-----------------------------------------------------------------------------
(* The states that are read.                                               *)
(*                                                                         *)
(* The third invariant is about the states of the payloads, and on top of  *)
(* the second: of a message that is listed and not archived, the state     *)
(* that would be read is one of those it may have, also once a rollback    *)
(* has taken the saved payload back.                                       *)

Fresh(m) == m \in Indexed(Durable) /\ InArchive(m) = NoFile

ReadIsMeant ==
    \A m \in Msg : Fresh(m) /\ InHot(m) # NoFile => InHot(m).state \in meant[m]

(* The payload that is being written has a state its message may have.     *)
WrittenIsMeant ==
    pc \in {"write", "preserve", "commit"} /\ tx.at # Index /\ tx.at[1] = "hot"
    => tx.new.state \in meant[tx.new.msg]

(* So has the one a rollback would put back.                               *)
BakIsMeant ==
    HotReplaced /\ Fresh(TheMsg) /\ files[Hot(TheMsg)].bak # NoFile
    => files[Hot(TheMsg)].bak.state \in meant[TheMsg]

(* A new index adds the saved message at most.                             *)
OnlySavedAdded ==
    Replacing => \A m \in Indexed(mem) : \/ m \in Indexed(Durable)
                                         \/ job.op = "save" /\ m = TheMsg

MeantTyped == meant \in [Msg -> SUBSET Status]

MeantInv == MeantTyped /\ ReadIsMeant /\ WrittenIsMeant /\ BakIsMeant /\ OnlySavedAdded

MeantGrows == MeantTyped' /\ \A m \in Msg : meant[m] \subseteq meant'[m]

Quiet == {"idle", "clean", "settle", "tidy", "cull", "demote"}

(* A step that changes no reading and no durable index.                    *)
LEMMA ReadingsMeant ==
    ASSUME MeantInv, ReadingsKept, Durable' = Durable, MeantGrows
    PROVE  ReadIsMeant'
<1>1. \A m \in Msg : InHot(m)' = InHot(m) /\ InArchive(m)' = InArchive(m)
  BY KeptPlaces
<1> QED
  BY <1>1 DEF MeantInv, MeantGrows, ReadIsMeant, Fresh

(* A step that leaves the hot readings, or may have put one back that its  *)
(* message may have.                                                       *)
LEMMA RecoveredMeant ==
    ASSUME MeantInv, FilesKept, Durable' = Durable, MeantGrows,
           \A m \in Msg : InHot(m)' = InHot(m) \/ InHot(m)'.state \in meant'[m]
    PROVE  ReadIsMeant'
<1> SUFFICES ASSUME NEW m \in Msg, Fresh(m)', InHot(m)' # NoFile
             PROVE  InHot(m)'.state \in meant'[m]
  BY DEF ReadIsMeant
<1>1. Fresh(m) /\ InHot(m) # NoFile
  BY DEF FilesKept, StillRead, Fresh, InArchive, InHot
<1>2. CASE InHot(m)' = InHot(m)
  BY <1>1, <1>2 DEF MeantInv, MeantGrows, ReadIsMeant
<1>3. CASE InHot(m)'.state \in meant'[m]
  BY <1>3
<1> QED
  BY <1>2, <1>3

(* A recovery whose states are added to what its message may have.         *)
LEMMA RecoveryMeant ==
    ASSUME MeantInv, Durable' = Durable, NEW m \in Msg, NEW S \in SUBSET Status,
           NEW back \in SUBSET S, Recovery(m, back),
           meant' = [meant EXCEPT ![m] = @ \cup S]
    PROVE  MeantGrows /\ ReadIsMeant' /\ S \subseteq meant'[m]
<1>1. MeantGrows /\ S \subseteq meant'[m]
  BY DEF MeantInv, MeantTyped, MeantGrows
<1>2. \A n \in Msg : InHot(n)' = InHot(n) \/ InHot(n)'.state \in meant'[n]
  BY <1>1 DEF Recovery
<1>3. ReadIsMeant'
  BY <1>1, <1>2, RecoveredMeant DEF Recovery
<1> QED
  BY <1>1, <1>3

(* The other parts of the invariant are about the replacing of a file.     *)
LEMMA QuietMeant ==
    ASSUME MeantTyped', ReadIsMeant', pc' \in Quiet
    PROVE  MeantInv'
  BY DEF MeantInv, WrittenIsMeant, BakIsMeant, OnlySavedAdded, HotReplaced,
         Replacing, Quiet

(* Nothing may be added to what a message may be.                          *)
LEMMA SameMeant ==
    ASSUME MeantInv, meant' = meant
    PROVE  MeantGrows
  BY DEF MeantInv, MeantGrows, MeantTyped

(* A step that changes no reading, after which nothing is replaced.        *)
LEMMA UndisturbedMeant ==
    ASSUME MeantInv, Undisturbed, Durable' = Durable, meant' = meant, pc' \in Quiet
    PROVE  MeantInv'
  BY SameMeant, ReadingsMeant, QuietMeant DEF Undisturbed, MeantGrows

(* A call that begins to replace a payload by one of a new state.          *)
LEMMA PayloadStartsMeant ==
    ASSUME OwnPaths, MeantInv, Durable' = Durable, NEW m \in Msg, NEW s \in Status,
           NEW op \in {"save", "state"}, Begun(op, m, s)
    PROVE  MeantInv'
<1>1. PICK back, at :
          /\ back \subseteq Status /\ Recovery(m, back) /\ at \in {Hot(m), Archive(m)}
          /\ Start(op, {m}, at, [msg |-> m, state |-> s])
          /\ meant' = [meant EXCEPT ![m] = @ \cup back \cup {s}]
  BY Zenon DEF Begun, Recovers
<1>2. /\ pc' = "write" /\ tx'.at = at /\ at # Index
      /\ tx'.new.msg = m /\ tx'.new.state = s
  <2>1. tx' = [at |-> at, new |-> [msg |-> m, state |-> s], had |-> FALSE]
    BY <1>1 DEF Start, NoTx
  <2> QED
    BY <1>1, <2>1, Places DEF Start
<1> DEFINE S == back \cup {s}
<1>3. /\ S \in SUBSET Status /\ back \in SUBSET S
      /\ meant' = [meant EXCEPT ![m] = @ \cup S]
  BY <1>1 DEF MeantInv, MeantTyped
<1> HIDE DEF S
<1>4. MeantGrows /\ ReadIsMeant' /\ S \subseteq meant'[m]
  BY <1>1, <1>3, RecoveryMeant
<1>5. WrittenIsMeant'
  BY <1>2, <1>4 DEF WrittenIsMeant, S
<1>6. BakIsMeant' /\ OnlySavedAdded'
  BY <1>1, <1>2 DEF BakIsMeant, OnlySavedAdded, HotReplaced, Replacing
<1> QED
  BY <1>4, <1>5, <1>6 DEF MeantInv, MeantGrows

(* A call that returns after its recovery.                                 *)
LEMMA ReturnedMeant ==
    ASSUME MeantInv, Durable' = Durable, NEW m \in Msg, Returned(m), pc = "idle"
    PROVE  MeantInv'
<1>1. PICK back : /\ back \in SUBSET Status /\ Recovery(m, back) /\ pc' = pc
                  /\ meant' = [meant EXCEPT ![m] = @ \cup back]
  BY DEF Returned, Recovers, Refuse
<1>2. MeantGrows /\ ReadIsMeant'
  BY <1>1, RecoveryMeant
<1> QED
  BY <1>1, <1>2, QuietMeant DEF Quiet, MeantGrows

(* The calls.                                                              *)
LEMMA CallsMeant ==
    ASSUME OwnPaths, StoreInv, PayloadInv, MeantInv, StoreInv', Durable' = Durable,
           StoreCall
    PROVE  MeantInv'
<1>1. ASSUME NEW m \in Msg, NEW s \in Status, SaveMessage(m, s)
      PROVE  MeantInv'
  <2>1. pc = "idle"
    BY <1>1 DEF SaveMessage, Ready
  <2> QED
    BY <1>1, <2>1, SavePayloads, ReturnedMeant, PayloadStartsMeant
<1>2. ASSUME NEW m \in Msg, NEW s \in Status, UpdateMessageState(m, s)
      PROVE  MeantInv'
  <2>1. pc = "idle"
    BY <1>2 DEF UpdateMessageState, Ready
  <2> QED
    BY <1>2, <2>1, UpdatePayloads, ReturnedMeant, PayloadStartsMeant
<1>3. ASSUME NEW m \in Msg, LoadMessage(m) \/ LoadMetadata(m)
      PROVE  MeantInv'
  <2>1. pc = "idle"
    BY <1>3 DEF LoadMessage, LoadMetadata, Ready
  <2> QED
    BY <1>3, <2>1, LoadPayloads, ReturnedMeant
<1>4. ASSUME \/ \E m \in Msg : DeleteMessage(m)
             \/ \E p \in Peer : DeleteConversation(p)
             \/ ClearAll
             \/ CommitIndex
      PROVE  MeantInv'
  <2>1. Undisturbed /\ Indexed(mem') \subseteq Indexed(mem)
    BY <1>4, DeletePayloads, ClearingPayloads
  <2>2. /\ pc = "idle" /\ up = "up" /\ meant' = meant
        /\ pc' = "tidy" \/ (pc' = "write" /\ tx'.at = Index /\ job'.op # "save")
    <3>1. /\ meant' = meant /\ Ready
          /\ \/ pc' = "tidy"
             \/ \E op \in {"rewrite", "delete"} : \E S, new : Start(op, S, Index, new)
      BY <1>4 DEF DeleteMessage, DeleteConversation, ClearAll, CommitIndex
    <3>2. ASSUME NEW op \in {"rewrite", "delete"}, NEW S, NEW new,
                 Start(op, S, Index, new)
          PROVE  pc' = "write" /\ tx'.at = Index /\ job'.op # "save"
      BY <3>2 DEF Start, NoJob, NoTx
    <3> QED
      BY <3>1, <3>2, ReadyIsUp
  <2>3. CASE pc' = "tidy"
    BY <2>1, <2>2, <2>3, UndisturbedMeant DEF Quiet
  <2>4. CASE pc' = "write" /\ tx'.at = Index /\ job'.op # "save"
    <3>1. Durable = mem
      BY <2>2, DurableListed DEF Replacing
    <3>2. OnlySavedAdded'
      BY <2>1, <3>1 DEF OnlySavedAdded
    <3>3. MeantTyped' /\ ReadIsMeant'
      BY <2>1, <2>2, SameMeant, ReadingsMeant DEF Undisturbed, MeantGrows
    <3>4. WrittenIsMeant' /\ BakIsMeant'
      BY <2>4 DEF WrittenIsMeant, BakIsMeant, HotReplaced
    <3> QED
      BY <3>2, <3>3, <3>4 DEF MeantInv
  <2> QED
    BY <2>2, <2>3, <2>4
<1> QED
  BY <1>1, <1>2, <1>3, <1>4 DEF StoreCall

-----------------------------------------------------------------------------
(* Its transactions.                                                       *)

(* Nothing about the payload of the saved message has changed.             *)
LEMMA SamePayloadMeant ==
    ASSUME StoreInv, MeantInv, PayloadsKept, Durable' = Durable, meant' = meant,
           job.op = "save", HotReplaced, TheMsg' = TheMsg
    PROVE  BakIsMeant'
<1>1. TheMsg \in Msg
  BY SavedMessage
<1>2. /\ files'[Hot(TheMsg)] = files[Hot(TheMsg)]
      /\ InArchive(TheMsg)' = InArchive(TheMsg)
  BY <1>1 DEF PayloadsKept, InArchive
<1> QED
  BY <1>2 DEF MeantInv, BakIsMeant, Fresh

(* A transaction that fails.                                               *)
LEMMA AbortMeant ==
    ASSUME StoreInv, PayloadInv, MeantInv, pc \in {"write", "preserve", "commit"},
           Abort, Durable' = Durable, meant' = meant,
           ReadingsKept, tx.at = Index => PayloadsKept
    PROVE  MeantInv'
<1>1. Undisturbed
  BY AbortPayloads
<1>2. CASE pc' \in Quiet
  BY <1>1, <1>2, UndisturbedMeant
<1>3. CASE pc' \notin Quiet
  <2>1. job.op = "save" /\ tx.at = Index /\ pc' = "rollback" /\ job' = job
    BY <1>3 DEF Abort, Return, Quiet
  <2>2. TheMsg' = TheMsg /\ HotReplaced
    BY <2>1, SameMessage DEF HotReplaced, Replacing
  <2>3. BakIsMeant'
    BY <2>1, <2>2, SamePayloadMeant
  <2>4. WrittenIsMeant' /\ OnlySavedAdded'
    BY <2>1 DEF WrittenIsMeant, OnlySavedAdded, Replacing
  <2>5. MeantTyped' /\ ReadIsMeant'
    BY SameMeant, ReadingsMeant DEF MeantGrows
  <2> QED
    BY <2>3, <2>4, <2>5 DEF MeantInv
<1> QED
  BY <1>2, <1>3

(* A transaction that goes on; when the live file has become the .bak,     *)
(* that one is read.                                                       *)
LEMMA GoesOnMeant ==
    ASSUME StoreInv, PayloadInv, MeantInv, Durable' = Durable, meant' = meant,
           UNCHANGED <<mem, job>>, tx'.at = tx.at, tx'.new = tx.new,
           ReadingsKept, tx.at = Index => PayloadsKept,
           pc \in {"write", "preserve"}, pc' \in {"preserve", "commit"},
           tx.at # Index /\ pc' = "commit" => files'[tx.at].live = NoFile
    PROVE  MeantInv'
<1>1. MeantTyped' /\ ReadIsMeant'
  BY SameMeant, ReadingsMeant DEF MeantGrows
<1>2. WrittenIsMeant'
  BY DEF MeantInv, WrittenIsMeant
<1>3. job.op = "save" => TheMsg' = TheMsg /\ TheMsg \in Msg
  BY SavedMessage, SameMessage
<1>4. OnlySavedAdded'
  BY <1>3 DEF MeantInv, OnlySavedAdded, Replacing
<1>5. ASSUME HotReplaced' PROVE BakIsMeant'
  <2>1. job.op = "save" /\ (tx.at = Index \/ (pc' = "commit" /\ tx.at = Hot(TheMsg)))
    BY <1>3, <1>5 DEF HotReplaced, Replacing
  <2>2. CASE tx.at = Index
    <3>1. HotReplaced
      BY <2>1, <2>2 DEF HotReplaced, Replacing
    <3> QED
      BY <1>3, <2>1, <2>2, <3>1, SamePayloadMeant
  <2>3. CASE tx.at # Index /\ pc' = "commit" /\ tx.at = Hot(TheMsg)
    <3>1. InHot(TheMsg)' = files'[Hot(TheMsg)].bak
      BY <1>3, <2>1, <2>3 DEF InHot, Reading
    <3> QED
      BY <1>1, <1>3, <2>1, <3>1 DEF BakIsMeant, ReadIsMeant
  <2> QED
    BY <2>1, <2>2, <2>3
<1>6. BakIsMeant'
  BY <1>5 DEF BakIsMeant
<1> QED
  BY <1>1, <1>2, <1>4, <1>6 DEF MeantInv

(* A payload or an index is written.                                       *)
LEMMA WriteMeant ==
    ASSUME OwnPaths, StoreInv, PayloadInv, MeantInv, StoreInv', Durable' = Durable,
           WriteTemporary
    PROVE  MeantInv'
<1>1. /\ pc = "write" /\ meant' = meant /\ ReadingsKept
      /\ Abort \/ (pc' = "preserve" /\ UNCHANGED <<mem, job, tx>>)
  BY WritePayloads DEF WriteTemporary, Undisturbed
<1>2. tx.at = Index => PayloadsKept
  <2>1. files' = files \/ \E f : files' = [files EXCEPT ![tx.at] = f]
    BY DEF WriteTemporary
  <2> QED
    BY <2>1, IndexLeavesPayloads
<1> QED
  BY <1>1, <1>2, AbortMeant, GoesOnMeant

(* A live file becomes the .bak.                                           *)
LEMMA PreserveMeant ==
    ASSUME OwnPaths, StoreInv, PayloadInv, MeantInv, StoreInv', Durable' = Durable,
           PreserveLive
    PROVE  MeantInv'
<1>1. pc = "preserve" /\ meant' = meant /\ ReadingsKept
  BY PreservePayloads DEF PreserveLive, Undisturbed
<1>2. tx.at = Index => PayloadsKept
  <2>1. files' = files \/ \E f : files' = [files EXCEPT ![tx.at] = f]
    BY DEF PreserveLive
  <2> QED
    BY <2>1, IndexLeavesPayloads
<1>3. CASE Abort
  BY <1>1, <1>2, <1>3, AbortMeant
<1>4. CASE ~Abort
  <2> DEFINE live == files[tx.at].live
  <2>1. /\ files' = IF live = NoFile THEN files
                    ELSE [files EXCEPT ![tx.at] = [live |-> NoFile, bak |-> live]]
        /\ tx' = [tx EXCEPT !.had = live # NoFile]
        /\ pc' = "commit"
        /\ UNCHANGED <<mem, job>>
    BY <1>4 DEF PreserveLive
  <2>2. tx'.at = tx.at /\ tx'.new = tx.new
    BY <2>1 DEF StoreInv, JobShape
  <2>3. tx.at # Index => files'[tx.at].live = NoFile
    <3> SUFFICES ASSUME tx.at # Index PROVE files'[tx.at].live = NoFile
      OBVIOUS
    <3>1. OnPayload
      BY <1>1 DEF OnPayload, InTx
    <3>2. tx.at \in Location
      BY <3>1, PayloadReplaced, Places
    <3> QED
      BY <2>1, <3>2 DEF StoreInv, IndexShape, FilesShape
  <2> QED
    BY <1>1, <1>2, <2>1, <2>2, <2>3, GoesOnMeant
<1> QED
  BY <1>3, <1>4

(* A payload is committed: its message may have no other state once an     *)
(* update has succeeded.                                                   *)
LEMMA PayloadCommittedMeant ==
    ASSUME OwnPaths, StoreInv, PayloadInv, MeantInv, Durable' = Durable,
           pc = "commit", Committed, tx.at # Index
    PROVE  MeantInv'
<1>1. /\ pc' = IF job.op = "save" /\ tx.at[1] = "hot" THEN "index" ELSE "clean"
      /\ UNCHANGED <<mem, job, tx>>
  BY DEF Committed
<1>2. PICK m \in Msg :
          /\ tx.at \in {Hot(m), Archive(m)} /\ tx.new \in PayloadOf(m)
          /\ files'[tx.at] \in FileOf(m)
          /\ files'[tx.at].live = tx.new /\ tx.new # NoFile
          /\ files'[tx.at].bak = files[tx.at].bak
          /\ \A n \in Msg :
                 /\ Hot(n) # tx.at => files'[Hot(n)] = files[Hot(n)]
                 /\ Archive(n) # tx.at => files'[Archive(n)] = files[Archive(n)]
                 /\ Hot(n) = tx.at \/ Archive(n) = tx.at => n = m
                 /\ ~(Hot(n) = tx.at /\ Archive(n) = tx.at)
  BY CommittedFile
<1>3. tx.new.msg = m /\ tx.new.state \in Status
  BY <1>2 DEF PayloadOf
<1>4. /\ job.op \in {"save", "state"}
      /\ job.op = "state" => job.msgs = {m}
  <2>1. OnPayload
    BY DEF OnPayload, InTx
  <2> QED
    BY <1>3, <2>1 DEF PayloadInv, ControlSound, TxSound
<1>5. /\ MeantTyped'
      /\ \A n \in Msg : n # m => meant'[n] = meant[n]
      /\ meant'[m] = IF job.op = "state" THEN {tx.new.state} ELSE meant[m]
  <2>1. CASE job.op = "state"
    <3>1. (CHOOSE n \in job.msgs : TRUE) = m
      BY <1>4, <2>1
    <3>2. meant' = [meant EXCEPT ![m] = {tx.new.state}]
      BY <2>1, <3>1 DEF Committed
    <3> QED
      BY <1>3, <2>1, <3>2 DEF MeantInv, MeantTyped
  <2>2. CASE job.op # "state"
    BY <2>2 DEF Committed, MeantInv, MeantTyped
  <2> QED
    BY <2>1, <2>2
<1>6. \A n \in Msg : n # m => InHot(n)' = InHot(n) /\ InArchive(n)' = InArchive(n)
  BY <1>2 DEF InHot, InArchive
<1>7. CASE tx.at = Archive(m)
  <2>1. InArchive(m)' # NoFile
    BY <1>2, <1>7 DEF InArchive, Reading
  <2>2. ReadIsMeant'
    BY <1>5, <1>6, <2>1 DEF MeantInv, ReadIsMeant, Fresh
  <2>3. pc' = "clean"
    BY <1>1, <1>7, Tiers
  <2> QED
    BY <1>5, <2>2, <2>3, QuietMeant DEF Quiet
<1>8. CASE tx.at = Hot(m)
  <2>1. InHot(m)' = tx.new /\ InArchive(m)' = InArchive(m)
    BY <1>2, <1>8 DEF InHot, InArchive, Reading
  <2>2. tx.new.state \in meant[m] /\ tx.at[1] = "hot"
    BY <1>3, <1>8, Tiers DEF MeantInv, WrittenIsMeant
  <2>3. tx.new.state \in meant'[m]
    BY <1>5, <2>2
  <2>4. ReadIsMeant'
    BY <1>5, <1>6, <2>1, <2>3 DEF MeantInv, ReadIsMeant, Fresh
  <2>5. CASE job.op = "state"
    <3>1. pc' = "clean"
      BY <1>1, <2>5
    <3> QED
      BY <1>5, <2>4, <3>1, QuietMeant DEF Quiet
  <2>6. CASE job.op = "save"
    <3>1. pc' = "index"
      BY <1>1, <2>2, <2>6
    <3>2. TheMsg' = TheMsg /\ TheMsg \in Msg /\ tx.at = Hot(TheMsg)
      BY <1>1, <2>2, <2>6, SavedMessage, SameMessage
         DEF PayloadInv, ControlSound, SaveSound, OnPayload, InTx
    <3>3. TheMsg = m
      BY <1>2, <3>2
    <3>4. HotReplaced
      BY <2>6, <3>2 DEF HotReplaced
    <3>5. Fresh(m) /\ files[Hot(m)].bak # NoFile => files[Hot(m)].bak.state \in meant[m]
      BY <3>3, <3>4 DEF MeantInv, BakIsMeant
    <3>6. BakIsMeant'
      BY <1>2, <1>5, <1>8, <2>1, <2>6, <3>2, <3>3, <3>5 DEF BakIsMeant, Fresh
    <3>7. WrittenIsMeant' /\ OnlySavedAdded'
      BY <3>1 DEF WrittenIsMeant, OnlySavedAdded, Replacing
    <3> QED
      BY <1>5, <2>4, <3>6, <3>7 DEF MeantInv
  <2> QED
    BY <1>4, <2>5, <2>6
<1> QED
  BY <1>2, <1>7, <1>8

(* An index is committed, which may list the saved message for the first   *)
(* time.                                                                   *)
LEMMA IndexCommittedMeant ==
    ASSUME OwnPaths, StoreInv, PayloadInv, MeantInv, StoreInv',
           pc = "commit", Committed, tx.at = Index
    PROVE  MeantInv'
<1>1. /\ files' = [files EXCEPT ![Index] = [files[Index] EXCEPT !.live = tx.new]]
      /\ pc' = "clean"
      /\ UNCHANGED <<mem, job, tx>>
  BY Tiers DEF Committed
<1>2. PayloadsKept /\ ReadingsKept
  BY <1>1, IndexLeavesPayloads
<1>3. \A m \in Msg : InHot(m)' = InHot(m) /\ InArchive(m)' = InArchive(m)
  BY <1>2, KeptPlaces
<1>4. Durable' = mem
  <2>1. up' = "up" /\ ~Replacing'
    BY <1>1, DurableListed DEF StoreInv, JobShape, Replacing
  <2> QED
    BY <1>1, <2>1 DEF StoreInv, IndexInv
<1>5. \A m \in Indexed(mem) : m \in Indexed(Durable) \/ (job.op = "save" /\ m = TheMsg)
  BY DEF MeantInv, OnlySavedAdded, Replacing
<1>6. CASE job.op = "save"
  <2>1. TheMsg \in Msg /\ job.msgs = {TheMsg}
    BY <1>6, SavedMessage
  <2> DEFINE read == files[Hot(TheMsg)].live
  <2>2. InHot(TheMsg) = read /\ read # NoFile /\ read.state \in Status
    <3>1. HotWritten
      BY <1>6 DEF HotWritten, InTx
    <3>2. read # NoFile
      BY <3>1 DEF PayloadInv, ControlSound, SaveSound
    <3>3. read \in PayloadOf(TheMsg) \cup {NoFile}
      BY <2>1, Held DEF PayloadInv, Placed
    <3> QED
      BY <3>2, <3>3 DEF InHot, Reading, PayloadOf
  <2>3. meant' = [meant EXCEPT ![TheMsg] = {read.state}]
    <3>1. (CHOOSE m \in job.msgs : TRUE) = TheMsg
      BY DEF TheMsg
    <3> QED
      BY <1>6, <3>1 DEF Committed
  <2> HIDE DEF read
  <2>4. /\ MeantTyped'
        /\ \A m \in Msg : meant'[m] = IF m = TheMsg THEN {read.state} ELSE meant[m]
    BY <2>1, <2>2, <2>3 DEF MeantInv, MeantTyped
  <2>5. ReadIsMeant'
    <3> SUFFICES ASSUME NEW m \in Msg, m \in Indexed(mem), InArchive(m) = NoFile,
                        InHot(m) # NoFile
                 PROVE  InHot(m).state \in meant'[m]
      BY <1>3, <1>4 DEF ReadIsMeant, Fresh
    <3>1. CASE m = TheMsg
      BY <2>2, <2>4, <3>1
    <3>2. CASE m # TheMsg
      BY <1>5, <2>4, <3>2 DEF MeantInv, ReadIsMeant, Fresh
    <3> QED
      BY <3>1, <3>2
  <2> QED
    BY <1>1, <2>4, <2>5, QuietMeant DEF Quiet
<1>7. CASE job.op # "save"
  <2>1. job.op = "rewrite" \/ job.op = "delete"
    <3>1. job.op \in {"rewrite", "state", "delete", "save"}
      BY DEF StoreInv, JobShape
    <3>2. job.op # "state"
      BY DEF PayloadInv, ControlSound, TxSound, InTx, OnPayload
    <3> QED
      BY <1>7, <3>1, <3>2
  <2>2. meant' = meant
    BY <2>1 DEF Committed
  <2>3. ReadIsMeant'
    BY <1>3, <1>4, <1>5, <1>7, <2>2 DEF MeantInv, ReadIsMeant, Fresh
  <2> QED
    BY <1>1, <2>2, <2>3, SameMeant, QuietMeant DEF Quiet, MeantGrows
<1> QED
  BY <1>6, <1>7

(* A transaction on either commits or is undone.                           *)
LEMMA CommitMeant ==
    ASSUME OwnPaths, StoreInv, PayloadInv, MeantInv, Kept, CommitTemporary
    PROVE  MeantInv'
<1>1. /\ pc = "commit" /\ StoreInv'
      /\ tx.at # Index => Durable' = Durable
  BY DEF CommitTemporary, Kept, Commits
<1>2. CASE Committed
  BY <1>1, <1>2, PayloadCommittedMeant, IndexCommittedMeant
<1>3. CASE ~Committed
  <2>1. Abort /\ meant' = meant
    BY <1>3 DEF CommitTemporary
  <2>2. Durable' = Durable /\ ReadingsKept /\ (tx.at = Index => PayloadsKept)
    BY <1>3, CommitUndone
  <2> QED
    BY <1>1, <2>1, <2>2, AbortMeant
<1> QED
  BY <1>2, <1>3

-----------------------------------------------------------------------------
(* Its other steps.                                                        *)

(* The index takes the message.                                            *)
LEMMA AddMeant ==
    ASSUME OwnPaths, StoreInv, PayloadInv, MeantInv, StoreInv', Durable' = Durable,
           AddToConversation
    PROVE  MeantInv'
<1>1. /\ pc = "index" /\ meant' = meant /\ files' = files /\ job.op = "save"
      /\ up = "up" /\ Durable = mem
  BY DurableListed DEF AddToConversation, StoreInv, JobShape, Replacing
<1>2. Undisturbed /\ Indexed(mem') \subseteq Indexed(mem) \cup {TheMsg}
  BY AddPayloads
<1>3. MeantTyped' /\ ReadIsMeant'
  BY <1>1, <1>2, SameMeant, ReadingsMeant DEF Undisturbed, MeantGrows
<1>4. /\ pc' = "rollback" \/ (pc' = "write" /\ tx'.at = Index)
      /\ job'.msgs = job.msgs /\ job'.op = "save"
  BY <1>1 DEF AddToConversation, NoTx, StoreInv, JobShape
<1>5. TheMsg' = TheMsg
  BY <1>4, SameMessage
<1>6. BakIsMeant'
  BY <1>1, <1>5, IndexLeavesPayloads, SamePayloadMeant DEF HotReplaced
<1>7. WrittenIsMeant'
  BY <1>4 DEF WrittenIsMeant
<1>8. OnlySavedAdded'
  BY <1>1, <1>2, <1>4, <1>5 DEF OnlySavedAdded
<1> QED
  BY <1>3, <1>6, <1>7, <1>8 DEF MeantInv

(* The saved payload is taken back: what the .bak has is read again.       *)
LEMMA RollbackMeant ==
    ASSUME OwnPaths, StoreInv, PayloadInv, MeantInv, Durable' = Durable,
           RemoveNew \/ RestorePrevious
    PROVE  MeantInv'
<1>1. /\ pc \in {"rollback", "restore"} /\ meant' = meant
      /\ Placed /\ FilesShape
  BY DEF RemoveNew, RestorePrevious, PayloadInv, StoreInv, IndexShape
<1>2. job.op = "save" /\ HotReplaced
  BY <1>1 DEF PayloadInv, ControlSound, TxSound, HotReplaced
<1>3. TheMsg \in Msg
  BY <1>2, SavedMessage
<1>4. MeantTyped' /\ MeantTyped
  BY <1>1 DEF MeantInv, MeantTyped
<1> DEFINE f == files[Hot(TheMsg)]
<1>5. f \in FileOf(TheMsg)
  BY <1>1, <1>3 DEF Placed
<1>6. PICK g : /\ files' = [files EXCEPT ![Hot(TheMsg)] = g]
               /\ g = f \/ Reading(g) = f.bak
               /\ RemoveNew => g.bak = f.bak
  <2>1. CASE RemoveNew
    BY <1>3, <1>5, <2>1, WithoutLiveReads DEF RemoveNew
  <2>2. CASE RestorePrevious
    <3>1. pc = "restore"
      BY <2>2 DEF RestorePrevious
    <3>2. ~RemoveNew
      BY <3>1 DEF RemoveNew
    <3>3. PICK g : /\ files' = [files EXCEPT ![Hot(TheMsg)] = g]
                   /\ g = f \/ (f.bak # NoFile /\ g = [live |-> f.bak, bak |-> NoFile])
      BY <2>2 DEF RestorePrevious
    <3>4. g = f \/ Reading(g) = f.bak
      BY <3>3 DEF Reading
    <3> QED
      BY <3>2, <3>3, <3>4
  <2> QED
    BY <2>1, <2>2
<1> HIDE DEF f
<1>7. /\ files'[Hot(TheMsg)] = g
      /\ \A n \in Msg : n # TheMsg => files'[Hot(n)] = files[Hot(n)]
      /\ \A n \in Msg : files'[Archive(n)] = files[Archive(n)]
  BY <1>1, <1>3, <1>6, OneHotWritten
<1>8. \A n \in Msg : /\ n # TheMsg => files'[Hot(n)] = files[Hot(n)]
                     /\ InArchive(n)' = InArchive(n)
  BY <1>7 DEF InArchive
<1>9. Fresh(TheMsg) /\ f.bak # NoFile => f.bak.state \in meant[TheMsg]
  BY <1>2 DEF MeantInv, BakIsMeant, f
<1>10. ReadIsMeant'
  <2> SUFFICES ASSUME NEW n \in Msg, Fresh(n), Reading(files'[Hot(n)]) # NoFile
               PROVE  Reading(files'[Hot(n)]).state \in meant[n]
    BY <1>1, <1>8 DEF ReadIsMeant, Fresh, InHot
  <2>1. CASE n = TheMsg
    <3>1. CASE g = f
      BY <1>7, <2>1, <3>1 DEF MeantInv, ReadIsMeant, InHot, f
    <3>2. CASE Reading(g) = f.bak
      BY <1>7, <1>9, <2>1, <3>2
    <3> QED
      BY <1>6, <3>1, <3>2
  <2>2. CASE n # TheMsg
    BY <1>7, <2>2 DEF MeantInv, ReadIsMeant, InHot
  <2> QED
    BY <2>1, <2>2
<1>11. CASE RestorePrevious
  <2>1. pc' = "idle"
    BY <1>11 DEF RestorePrevious, Return
  <2> QED
    BY <1>4, <1>10, <2>1, QuietMeant DEF Quiet
<1>12. CASE RemoveNew
  <2>1. pc' = "restore" /\ job' = job
    BY <1>12 DEF RemoveNew
  <2>2. TheMsg' = TheMsg
    BY <2>1, SameMessage
  <2>3. BakIsMeant'
    BY <1>1, <1>3, <1>6, <1>7, <1>8, <1>9, <1>12, <2>2 DEF BakIsMeant, Fresh
  <2>4. WrittenIsMeant' /\ OnlySavedAdded'
    BY <2>1 DEF WrittenIsMeant, OnlySavedAdded, Replacing
  <2> QED
    BY <1>4, <1>10, <2>3, <2>4 DEF MeantInv
<1> QED
  BY <1>11, <1>12

(* Files of messages that are not listed, or are archived, are removed.    *)
LEMMA RemovalMeant ==
    ASSUME MeantInv, Durable' = Durable, meant' = meant, pc' \in Quiet,
           \A m \in Msg : \/ m \notin Indexed(Durable)
                          \/ InArchive(m)' # NoFile
                          \/ InHot(m)' = InHot(m) /\ InArchive(m)' = InArchive(m)
    PROVE  MeantInv'
<1>1. MeantTyped' /\ ReadIsMeant'
  BY DEF MeantInv, MeantTyped, ReadIsMeant, Fresh
<1> QED
  BY <1>1, QuietMeant

(* The steps that remove them.                                             *)
LEMMA RemovingMeant ==
    ASSUME OwnPaths, StoreInv, PayloadInv, MeantInv, StoreInv', Durable' = Durable,
           Tidy \/ RemoveHot
    PROVE  MeantInv'
<1>1. meant' = meant /\ pc' \in Quiet /\ FilesShape
  BY DEF Tidy, RemoveHot, Return, Skip, Quiet, StoreInv, IndexShape
<1>2. CASE Tidy /\ job.todo = {}
  <2>1. files' = files
    BY <1>2 DEF Tidy
  <2> QED
    BY <1>1, <2>1, RemovalMeant DEF InHot, InArchive
<1>3. CASE Tidy /\ job.todo # {}
  <2>1. PICK l \in job.todo : \E f : files' = [files EXCEPT ![l] = f]
    BY <1>3 DEF Tidy
  <2>2. pc = "tidy"
    BY <1>3 DEF Tidy
  <2>3. Unneeded(job.todo) /\ mem = Durable
    BY <2>2, DurableListed DEF PayloadInv, ControlSound, TodoSound, Replacing
  <2>4. \A m \in Msg : /\ Hot(m) # l => files'[Hot(m)] = files[Hot(m)]
                       /\ Archive(m) # l => files'[Archive(m)] = files[Archive(m)]
    BY <1>1, <2>1, Places DEF FilesShape
  <2>5. \A m \in Indexed(Durable) : Hot(m) # l /\ Archive(m) # l
    BY <2>1, <2>3 DEF Unneeded
  <2> QED
    BY <1>1, <2>4, <2>5, RemovalMeant DEF InHot, InArchive
<1>4. CASE RemoveHot
  <2> DEFINE m == Head(job.rest)
  <2>1. m \in Msg /\ InArchive(m) # NoFile
    BY <1>4 DEF RemoveHot, PayloadInv, ControlSound, ArchivingSound
  <2>2. PICK f : files' = [files EXCEPT ![Hot(m)] = f]
    BY <1>4 DEF RemoveHot
  <2> HIDE DEF m
  <2>3. /\ \A n \in Msg : n # m => files'[Hot(n)] = files[Hot(n)]
        /\ \A n \in Msg : files'[Archive(n)] = files[Archive(n)]
    BY <1>1, <2>1, <2>2, OneHotWritten
  <2> QED
    BY <1>1, <2>1, <2>3, RemovalMeant DEF InHot, InArchive
<1> QED
  BY <1>2, <1>3, <1>4

(* The steps that change no reading of the hot tier.                       *)
LEMMA ReadingStepsMeant ==
    ASSUME HasArchive, OwnPaths, StoreInv, PayloadInv, MeantInv, StoreInv',
           Durable' = Durable, CleanUp \/ Settle \/ Cull
    PROVE  MeantInv'
<1>1. HotsKept /\ meant' = meant
  BY CleanUpPayloads, SettlePayloads, CullPayloads, KeptPlaces
     DEF CleanUp, Settle, Cull, Undisturbed, HotsKept
<1>2. \/ pc' \in Quiet
      \/ pc' = "write" /\ \E m : tx'.at = Archive(m)
  BY DEF CleanUp, Settle, Cull, CullToArchive, Return, Skip, Quiet, NoTx, StoreInv,
         JobShape
<1>3. MeantTyped' /\ ReadIsMeant'
  BY <1>1, SameMeant, RecoveredMeant DEF HotsKept, MeantGrows
<1>4. CASE pc' \in Quiet
  BY <1>3, <1>4, QuietMeant
<1>5. CASE pc' = "write" /\ \E m : tx'.at = Archive(m)
  <2>1. tx'.at # Index /\ tx'.at[1] # "hot"
    BY <1>5, PayloadsElsewhere, Tiers
  <2>2. WrittenIsMeant' /\ BakIsMeant' /\ OnlySavedAdded'
    BY <1>5, <2>1 DEF WrittenIsMeant, BakIsMeant, OnlySavedAdded, HotReplaced,
                      Replacing
  <2> QED
    BY <1>3, <2>2 DEF MeantInv
<1> QED
  BY <1>2, <1>4, <1>5

(* Every call, step and restart keeps the invariant.                       *)
LEMMA MeantStepKeeps ==
    ASSUME IndexCallsWork, HasArchive, OwnPaths, StoreInv, PayloadInv, MeantInv,
           [StoreNext]_storeVars
    PROVE  MeantInv'
<1>1. Kept /\ StoreInv'
  BY StoreStepKeeps DEF Kept
<1>2. CASE CommitTemporary
  BY <1>1, <1>2, CommitMeant
<1>3. CASE UNCHANGED storeVars
  BY <1>3 DEF storeVars, MeantInv, MeantTyped, ReadIsMeant, WrittenIsMeant,
              BakIsMeant, OnlySavedAdded, Fresh, InHot, InArchive, Durable,
              HotReplaced, Replacing, TheMsg
<1>4. CASE StoreNext /\ ~CommitTemporary
  <2>1. Durable' = Durable
    BY <1>4, OnlyCommitTemporary
  <2>2. CASE StoreCall
    BY <1>1, <2>1, <2>2, CallsMeant
  <2>3. CASE StoreStep
    BY <1>1, <1>4, <2>1, <2>3, WriteMeant, PreserveMeant, AddMeant, RollbackMeant,
       RemovingMeant, ReadingStepsMeant DEF StoreStep
  <2>4. CASE PowerFails \/ LoadIndex
    <3>1. Undisturbed
      BY <1>1, <2>1, <2>4, RestartPayloads
    <3>2. pc' = "idle" /\ meant' = meant
      BY <2>4 DEF PowerFails, LoadIndex, Return, StoreInv, JobShape
    <3> QED
      BY <2>1, <3>1, <3>2, UndisturbedMeant DEF Quiet
  <2> QED
    BY <1>4, <2>2, <2>3, <2>4 DEF StoreNext
<1> QED
  BY <1>2, <1>3, <1>4

(* As long as a listed message has not been archived, the state that would *)
(* be read is the last one a save or an update returned, or one that has   *)
(* been asked for since: no failed replacement, rollback or power failure  *)
(* brings an older one back, and a recovery only when it could not read    *)
(* the live file.                                                          *)
THEOREM UnarchivedAreCurrent ==
    ASSUME IndexCallsWork, OwnPaths
    PROVE  StoreSafeSpec => []HotStateIsCurrent
<1>1. CASE HasArchive
  <2>1. StoreInit => MeantInv
    <3> SUFFICES ASSUME StoreInit PROVE MeantInv
      OBVIOUS
    <3>1. \A m \in Msg : files[Hot(m)] = NoFiles
      BY Places DEF StoreInit
    <3>2. MeantTyped /\ ReadIsMeant
      BY <3>1 DEF StoreInit, MeantTyped, ReadIsMeant, InHot, Reading, NoFiles
    <3>3. WrittenIsMeant /\ BakIsMeant /\ OnlySavedAdded
      BY DEF StoreInit, NoJob, WrittenIsMeant, BakIsMeant, OnlySavedAdded,
             HotReplaced, Replacing
    <3> QED
      BY <3>2, <3>3 DEF MeantInv
  <2>2. StoreInv /\ PayloadInv /\ MeantInv /\ [StoreNext]_storeVars => MeantInv'
    BY <1>1, MeantStepKeeps
  <2>3. StoreInv /\ PayloadInv /\ MeantInv => HotStateIsCurrent
    <3> SUFFICES ASSUME StoreInv, PayloadInv, MeantInv, NEW m \in Indexed(Durable),
                        files[Archive(m)] = NoFiles, Stored(m) # NoFile
                 PROVE  Stored(m).state \in meant[m]
      BY DEF HotStateIsCurrent, CurrentState
    <3>1. m \in Msg
      BY DurableListed
    <3>2. InArchive(m) = NoFile
      BY DEF InArchive, Reading, NoFiles
    <3>3. Stored(m) = InHot(m) /\ InHot(m) # NoFile
      BY <3>1, <3>2, StoredIsRead
    <3> QED
      BY <3>1, <3>2, <3>3 DEF MeantInv, ReadIsMeant, Fresh
  <2> QED
    BY <1>1, <2>1, <2>2, <2>3, PayloadInvariance, PTL DEF StoreSafeSpec
<1>2. CASE ~HasArchive
  <2>1. HotStateIsCurrent
    BY <1>2 DEF HotStateIsCurrent
  <2>2. HotStateIsCurrent /\ [StoreNext]_storeVars => HotStateIsCurrent'
    BY <1>2 DEF HotStateIsCurrent
  <2> QED
    BY <2>1, <2>2, PTL DEF StoreSafeSpec
<1> QED
  BY <1>1, <1>2

-----------------------------------------------------------------------------
(* Types.                                                                  *)
(*                                                                         *)
(* The types need neither assumption: whatever the filesystem does with    *)
(* the index and however messages are named, files hold what belongs into  *)
(* them, and an index has room for what it lists.                          *)

Used(x) == {p \in Peer : x[p] # Unused}

(* Indexes within the limits of the pool and of its conversations.         *)
Bounded ==
    {x \in Listing :
         /\ IsFiniteSet(Used(x))
         /\ Cardinality(Used(x)) <= MAX_CONVERSATIONS
         /\ \A p \in Peer : x[p] # Unused =>
                Len(x[p]) <= MAX_MESSAGES_PER_CONVERSATION /\ IsInjective(x[p])}

Generations(S) == [live : S \cup {NoFile}, bak : S \cup {NoFile}]

(* What belongs into a file.                                               *)
Sort(l) == IF l = Index THEN Bounded ELSE Payload

FilesTyped ==
    /\ files = [l \in Location |-> files[l]]
    /\ \A l \in Location : files[l] \in Generations(Sort(l))

MemTyped ==
    /\ mem \in Bounded
    /\ cache \in [Msg -> Status \cup {Uncached}]
    /\ meant \in [Msg -> SUBSET Status]

JobTyped ==
    /\ up \in {"up", "failed", "down"}
    /\ pc \in Step
    /\ up = "down" => pc = "idle"
    /\ job \in [op : {"none", "rewrite", "state", "delete", "save"},
                msgs : SUBSET Msg, undo : Bounded,
                todo : SUBSET (Location \ {Index}), rest : Seq(Msg)]
    /\ pc # "idle" => job.op # "none"
    /\ job.op = "save" => \E m \in Msg : job.msgs = {m}
    /\ pc \in {"index", "rollback", "restore", "settle", "cull", "demote"} =>
           job.op = "save"
    /\ pc = "demote" => job.rest # <<>>

TxTyped ==
    /\ tx = [at |-> tx.at, new |-> tx.new, had |-> tx.had]
    /\ tx.at \in Location /\ tx.had \in BOOLEAN
    /\ InTx =>
           /\ tx.new \in Sort(tx.at)
           /\ job.op = "state" => tx.at # Index
           /\ job.op = "save" /\ tx.at[1] = "hot" => tx.at = Hot(TheMsg) /\ pc # "clean"
           /\ job.op = "save" /\ tx.at[1] = "archive" => job.rest # <<>>

(* The index takes a saved message once its payload is in place.           *)
SavedInPlace ==
    job.op = "save" /\ (pc = "index" \/ Replacing) => files[Hot(TheMsg)].live # NoFile

CallTyped == JobTyped /\ TxTyped /\ SavedInPlace

TypeInv == FilesTyped /\ MemTyped /\ CallTyped

(* Indexes within the limits, and payloads, are no absent files.           *)
LEMMA SortsAreFiles ==
    /\ NoFile \notin Bounded /\ NoFile \notin Payload
    /\ \A l : NoFile \notin Sort(l)
    /\ Bounded \subseteq Listing
  BY StoreAssumption, ListingsAreFiles DEF Bounded, Payload, Sort

(* The empty index is within the limits.                                   *)
LEMMA EmptyIsBounded == EmptyIndex \in Bounded
<1>1. Used(EmptyIndex) = {}
  BY DEF Used, EmptyIndex
<1>2. IsFiniteSet({}) /\ Cardinality({}) = 0
  BY FS_EmptySet
<1>3. MAX_CONVERSATIONS \in Nat
  BY StoreAssumption
<1>4. \A p \in Peer : EmptyIndex[p] = Unused
  BY DEF EmptyIndex
<1>5. IsFiniteSet(Used(EmptyIndex)) /\ Cardinality(Used(EmptyIndex)) <= MAX_CONVERSATIONS
  BY <1>1, <1>2, <1>3
<1>6. EmptyIndex \in Listing
  BY ListingsAreFiles
<1> HIDE DEF EmptyIndex
<1> QED
  BY <1>4, <1>5, <1>6 DEF Bounded

(* An edit that uses no further conversation.                              *)
LEMMA EditedIsBounded ==
    ASSUME NEW x \in Bounded, NEW p \in Peer, NEW q,
           [x EXCEPT ![p] = q] \in Listing,
           q # Unused =>
               /\ Len(q) <= MAX_MESSAGES_PER_CONVERSATION /\ IsInjective(q)
               /\ \/ x[p] # Unused
                  \/ Cardinality(Used(x)) < MAX_CONVERSATIONS
    PROVE  [x EXCEPT ![p] = q] \in Bounded
<1> DEFINE y == [x EXCEPT ![p] = q]
<1>1. x \in Listing /\ \A r \in Peer : y[r] = IF r = p THEN q ELSE x[r]
  BY DEF Bounded, Listing
<1>2. /\ IsFiniteSet(Used(x)) /\ Cardinality(Used(x)) <= MAX_CONVERSATIONS
      /\ \A r \in Peer : x[r] # Unused =>
             Len(x[r]) <= MAX_MESSAGES_PER_CONVERSATION /\ IsInjective(x[r])
  BY DEF Bounded
<1> HIDE DEF y
<1>3. \A r \in Peer : y[r] # Unused =>
          Len(y[r]) <= MAX_MESSAGES_PER_CONVERSATION /\ IsInjective(y[r])
  BY <1>1, <1>2
<1>4. IsFiniteSet(Used(y)) /\ Cardinality(Used(y)) <= MAX_CONVERSATIONS
  <2>1. MAX_CONVERSATIONS \in Nat /\ Cardinality(Used(x)) \in Nat
    BY <1>2, StoreAssumption, FS_CardinalityType
  <2>2. CASE q = Unused \/ x[p] # Unused
    <3>1. Used(y) \in SUBSET Used(x)
      BY <1>1, <2>2 DEF Used
    <3>2. IsFiniteSet(Used(y)) /\ Cardinality(Used(y)) <= Cardinality(Used(x))
      BY <1>2, <3>1, FS_Subset
    <3>3. Cardinality(Used(y)) \in Nat
      BY <3>2, FS_CardinalityType
    <3> QED
      BY <1>2, <2>1, <3>2, <3>3
  <2>3. CASE q # Unused /\ x[p] = Unused
    <3>1. Used(y) = Used(x) \cup {p} /\ p \notin Used(x)
      BY <1>1, <2>3 DEF Used
    <3>2. /\ IsFiniteSet(Used(x) \cup {p})
          /\ Cardinality(Used(x) \cup {p}) = Cardinality(Used(x)) + 1
      BY <1>2, <3>1, FS_AddElement
    <3> QED
      BY <2>1, <2>3, <3>1, <3>2
  <2> QED
    BY <2>2, <2>3
<1> QED
  BY <1>3, <1>4 DEF Bounded, y

(* The indexes the calls make of another.                                  *)
LEMMA CallsStayBounded ==
    ASSUME NEW x \in Bounded
    PROVE  /\ \A p \in Peer : [x EXCEPT ![p] = Unused] \in Bounded
           /\ \A m \in Msg : m \in Indexed(x) =>
                  [x EXCEPT ![PeerOf[m]] = RemoveFirst(@, m)] \in Bounded
<1>1. x \in Listing
  BY DEF Bounded
<1>2. ASSUME NEW p \in Peer
      PROVE  [x EXCEPT ![p] = Unused] \in Bounded
  BY <1>1, DroppingKeepsListing, EditedIsBounded
<1>3. ASSUME NEW m \in Msg, m \in Indexed(x)
      PROVE  [x EXCEPT ![PeerOf[m]] = RemoveFirst(@, m)] \in Bounded
  <2> DEFINE p == PeerOf[m]
             q == RemoveFirst(x[p], m)
  <2>1. p \in Peer /\ x[p] # Unused
    BY <1>1, <1>3, StoreAssumption, ListedByPeer
  <2>2. [x EXCEPT ![p] = q] \in Listing
    BY <1>1, <1>3, RemovingKeepsListing
  <2>3. /\ x[p] \in Seq(Msg) /\ IsInjective(x[p])
        /\ Len(x[p]) <= MAX_MESSAGES_PER_CONVERSATION
    BY <1>1, <2>1 DEF Bounded, Listing
  <2>4. IsInjective(q) /\ Len(q) <= Len(x[p]) /\ Len(q) \in Nat
    <3> HIDE DEF p
    <3>1. IsInjective(q) /\ Len(q) \in 0..Len(x[p])
      BY <2>3, HashRemoved
    <3> QED
      BY <2>3, <3>1
  <2>5. Len(q) <= MAX_MESSAGES_PER_CONVERSATION
    BY <2>3, <2>4, StoreAssumption
  <2> HIDE DEF p, q
  <2>6. [x EXCEPT ![p] = q] \in Bounded
    BY <2>1, <2>2, <2>4, <2>5, EditedIsBounded
  <2> QED
    BY <2>6 DEF p, q
<1> QED
  BY <1>2, <1>3

(* What becomes of a file's generations.                                   *)
LEMMA GenerationsTyped ==
    ASSUME NEW S, NEW f \in Generations(S)
    PROVE  /\ f.live \in S \cup {NoFile} /\ f.bak \in S \cup {NoFile}
           /\ \A g \in WithoutBak(f) : g \in Generations(S) /\ g.live = f.live
           /\ \A g \in WithoutLive(f) : g \in Generations(S)
           /\ [live |-> f.bak, bak |-> NoFile] \in Generations(S)
           /\ [live |-> NoFile, bak |-> f.live] \in Generations(S)
           /\ \A c \in S : [f EXCEPT !.live = c] \in Generations(S)
  BY DEF Generations, WithoutBak, WithoutLive

(* A file is replaced by one that belongs there.                           *)
LEMMA FileReplaced ==
    ASSUME FilesTyped, NEW l, NEW f, files' = [files EXCEPT ![l] = f],
           l \in Location => f \in Generations(Sort(l))
    PROVE  /\ FilesTyped'
           /\ l \in Location => files'[l] = f
           /\ \A k : k # l => files'[k] = files[k]
  BY DEF FilesTyped

(* Where the files of messages are.                                        *)
LEMMA PayloadsPlaced ==
    /\ Index \in Location /\ Sort(Index) = Bounded
    /\ \A m : Hot(m) # Index /\ Archive(m) # Index
    /\ \A m : Sort(Hot(m)) = Payload /\ Sort(Archive(m)) = Payload
    /\ \A m \in Msg : Hot(m) \in Location /\ Archive(m) \in Location
    /\ \A S \in SUBSET Msg : PayloadFiles(S) \in SUBSET (Location \ {Index})
<1>1. PathOf \in [Msg -> Path]
  BY StoreAssumption
<1>2. \A m \in Msg : Hot(m) \in Location /\ Archive(m) \in Location
  BY <1>1 DEF Hot, Archive, Location
<1>3. \A m : Hot(m) # Index /\ Archive(m) # Index
  BY PayloadsElsewhere
<1> QED
  BY <1>2, <1>3, PayloadsElsewhere DEF Sort, PayloadFiles

(* Both files of a message are replaced.                                   *)
LEMMA PairReplaced ==
    ASSUME FilesTyped, NEW m \in Msg,
           NEW h \in Generations(Payload), NEW a \in Generations(Payload),
           files' = [files EXCEPT ![Hot(m)] = h, ![Archive(m)] = a]
    PROVE  FilesTyped'
  BY PayloadsPlaced DEF FilesTyped

-----------------------------------------------------------------------------
(* The call.                                                               *)

(* The message that is saved, whatever the index.                          *)
LEMMA SavedTyped ==
    ASSUME JobTyped, job.op = "save"
    PROVE  TheMsg \in Msg /\ job.msgs = {TheMsg}
<1>1. PICK m \in Msg : job.msgs = {m}
  BY DEF JobTyped
<1> QED
  BY <1>1 DEF TheMsg

(* A call that returns.                                                    *)
LEMMA ReturnTyped ==
    ASSUME Return, up' \in {"up", "failed", "down"}
    PROVE  CallTyped'
<1>1. /\ pc' = "idle"
      /\ job' = [op |-> "none", msgs |-> {}, undo |-> EmptyIndex, todo |-> {}, rest |-> <<>>]
      /\ tx' = [at |-> Index, new |-> NoFile, had |-> FALSE]
  BY DEF Return, NoJob, NoTx
<1>2. JobTyped'
  BY <1>1, EmptyIsBounded DEF JobTyped, Step
<1>3. TxTyped'
  BY <1>1, PayloadsPlaced DEF TxTyped, InTx
<1>4. SavedInPlace'
  BY <1>1 DEF SavedInPlace
<1> QED
  BY <1>2, <1>3, <1>4 DEF CallTyped

(* A call that is refused, or works on files only.                         *)
LEMMA RefuseTyped ==
    ASSUME CallTyped, pc = "idle", UNCHANGED <<pc, job, tx>>,
           up' \in {"up", "failed", "down"}
    PROVE  CallTyped'
<1>1. JobTyped'
  BY DEF CallTyped, JobTyped
<1>2. TxTyped' /\ SavedInPlace'
  BY DEF CallTyped, TxTyped, SavedInPlace, InTx, Replacing
<1> QED
  BY <1>1, <1>2 DEF CallTyped

(* A call that begins with a transaction.                                  *)
LEMMA StartTyped ==
    ASSUME MemTyped, up \in {"up", "failed"}, up' = up,
           NEW op \in {"rewrite", "state", "delete", "save"},
           NEW S \in SUBSET Msg, NEW at \in Location, NEW new \in Sort(at),
           op = "state" => at # Index,
           op = "save" => \E m \in Msg : S = {m} /\ at = Hot(m),
           Start(op, S, at, new)
    PROVE  CallTyped'
<1>1. /\ job' = [op |-> op, msgs |-> S, undo |-> mem, todo |-> {}, rest |-> <<>>]
      /\ tx' = [at |-> at, new |-> new, had |-> FALSE]
      /\ pc' = "write"
  BY DEF Start, NoJob, NoTx
<1>2. JobTyped'
  BY <1>1 DEF MemTyped, JobTyped, Step
<1>3. op = "save" => /\ at = Hot(TheMsg') /\ at # Index
                     /\ at[1] # "archive"
  <2> SUFFICES ASSUME op = "save"
               PROVE  /\ at = Hot(TheMsg') /\ at # Index
                      /\ at[1] # "archive"
    OBVIOUS
  <2>1. PICK m \in Msg : S = {m} /\ at = Hot(m)
    OBVIOUS
  <2>2. TheMsg' = m
    BY <1>1, <2>1 DEF TheMsg
  <2> QED
    BY <2>1, <2>2, PayloadsPlaced, Tiers
<1>4. TxTyped'
  BY <1>1, <1>3 DEF TxTyped, InTx
<1>5. SavedInPlace'
  BY <1>1, <1>3 DEF SavedInPlace, Replacing
<1> QED
  BY <1>2, <1>4, <1>5 DEF CallTyped

(* Between the transactions of a call nothing is asked of the last one.    *)
LEMMA QuietTyped ==
    ASSUME TxTyped, tx' = tx, JobTyped',
           pc' \in {"rollback", "restore", "settle", "tidy", "cull", "demote"}
    PROVE  CallTyped'
<1>1. TxTyped'
  BY DEF TxTyped, InTx
<1>2. SavedInPlace'
  BY DEF SavedInPlace, Replacing
<1> QED
  BY <1>1, <1>2 DEF CallTyped

(* A transaction that goes on: other files are not touched.                *)
LEMMA TxGoesOn ==
    ASSUME CallTyped, pc \in {"write", "preserve"}, pc' \in {"preserve", "commit"},
           job' = job, up' = up, NEW had \in BOOLEAN, tx' = [tx EXCEPT !.had = had],
           \A k : k # tx.at => files'[k] = files[k]
    PROVE  CallTyped'
<1>1. JobTyped'
  BY DEF CallTyped, JobTyped, Step
<1>2. TheMsg' = TheMsg
  BY SameMessage
<1>3. tx' = [at |-> tx.at, new |-> tx.new, had |-> had]
  BY DEF CallTyped, TxTyped
<1>4. TxTyped'
  BY <1>2, <1>3 DEF CallTyped, TxTyped, InTx
<1>5. SavedInPlace'
  <2> SUFFICES ASSUME job.op = "save", tx.at = Index
               PROVE  files'[Hot(TheMsg)].live # NoFile
    BY <1>2, <1>3 DEF SavedInPlace, Replacing
  <2>1. files[Hot(TheMsg)].live # NoFile
    BY DEF CallTyped, SavedInPlace, Replacing
  <2> QED
    BY <2>1, PayloadsPlaced
<1> QED
  BY <1>1, <1>4, <1>5 DEF CallTyped

(* A transaction that fails.                                               *)
LEMMA AbortTyped ==
    ASSUME TypeInv, pc \in {"write", "preserve", "commit"}, up' = up, Abort
    PROVE  CallTyped' /\ mem' \in Bounded
<1>1. JobTyped /\ TxTyped /\ mem \in Bounded /\ job.undo \in Bounded
  BY DEF TypeInv, CallTyped, JobTyped, MemTyped
<1>2. CASE job.op = "save" /\ tx.at[1] = "archive"
  <2>1. job.rest # <<>>
    BY <1>1, <1>2 DEF TxTyped, InTx
  <2>2. /\ pc' = "cull" /\ mem' = mem /\ tx' = tx
        /\ job' = [job EXCEPT !.rest = Tail(@)]
    BY <1>2 DEF Abort
  <2>3. job.rest \in Seq(Msg) /\ Tail(job.rest) \in Seq(Msg)
    BY <1>1, <2>1 DEF JobTyped
  <2>4. JobTyped'
    BY <1>1, <1>2, <2>2, <2>3 DEF JobTyped, Step
  <2> QED
    BY <1>1, <2>2, <2>4, QuietTyped
<1>3. CASE job.op = "save" /\ tx.at = Index
  <2>1. pc' = "rollback" /\ mem' = job.undo /\ job' = job /\ tx' = tx
    BY <1>3, Tiers DEF Abort
  <2>2. JobTyped'
    BY <1>1, <1>3, <2>1 DEF JobTyped, Step
  <2> QED
    BY <1>1, <2>1, <2>2, QuietTyped
<1>4. CASE ~(job.op = "save" /\ (tx.at[1] = "archive" \/ tx.at = Index))
  <2>1. Return /\ mem' \in {job.undo, mem}
    BY <1>4 DEF Abort
  <2>2. up' \in {"up", "failed", "down"}
    BY <1>1 DEF JobTyped
  <2> QED
    BY <1>1, <2>1, <2>2, ReturnTyped
<1> QED
  BY <1>2, <1>3, <1>4

-----------------------------------------------------------------------------
(* The calls.                                                              *)

(* A recovery of a file of payloads.                                       *)
LEMMA RecoveryTyped ==
    ASSUME NEW f \in Generations(Payload), NEW m, NEW r \in Recovered(f, m)
    PROVE  /\ r.file \in Generations(Payload)
           /\ r.ok => r.file.live \in Payload
           /\ r.back \subseteq Status
<1> DEFINE inLive == HoldsPayload(f.live, m)
           back(g) == IF inLive /\ g.live # f.live THEN {f.bak.state} ELSE {}
<1>1. f = [live |-> f.live, bak |-> f.bak]
  BY DEF Generations
<1>2. PICK g, ok :
          /\ r = [file |-> g, ok |-> ok, back |-> back(g)]
          /\ \/ /\ ok /\ inLive /\ g \in WithoutBak(f)
             \/ /\ ok /\ HoldsPayload(f.bak, m)
                /\ g = [live |-> f.bak, bak |-> NoFile]
             \/ /\ ~ok /\ HoldsPayload(f.bak, m)
                /\ g = [f EXCEPT !.live = NoFile]
             \/ ~ok /\ g = f
  BY Zenon DEF Recovered
<1>3. r.file = g /\ r.ok = ok /\ r.back = back(g)
  BY <1>2
<1>4. \/ ok /\ f.live # NoFile /\ g = [live |-> f.live, bak |-> NoFile]
      \/ ok /\ f.live # NoFile /\ g = f
      \/ ok /\ f.bak # NoFile /\ g = [live |-> f.bak, bak |-> NoFile]
      \/ ~ok /\ f.bak # NoFile /\ g = [live |-> NoFile, bak |-> f.bak]
      \/ ~ok /\ g = f
  BY <1>1, <1>2 DEF WithoutBak, HoldsPayload
<1>5. g \in Generations(Payload) /\ (ok => g.live \in Payload)
  BY <1>1, <1>4 DEF Generations
<1>6. back(g) \subseteq Status
  <2>1. inLive /\ g.live # f.live => f.bak \in Payload
    BY <1>1, <1>4 DEF Generations
  <2> QED
    BY <2>1 DEF Payload
<1> QED
  BY <1>3, <1>5, <1>6

(* A recovery leaves what belongs into the files.                          *)
LEMMA RecoveredTyped ==
    ASSUME FilesTyped, NEW m \in Msg
    PROVE  /\ files[Hot(m)] \in Generations(Payload)
           /\ files[Archive(m)] \in Generations(Payload)
           /\ \A h \in Recovered(files[Hot(m)], m) :
                  h.file \in Generations(Payload) /\ h.back \subseteq Status
           /\ \A a \in Recovered(files[Archive(m)], m) :
                  /\ a.file \in Generations(Payload)
                  /\ a.ok => a.file.live \in Payload
<1>1. /\ files[Hot(m)] \in Generations(Payload)
      /\ files[Archive(m)] \in Generations(Payload)
  BY PayloadsPlaced DEF FilesTyped
<1> QED
  BY <1>1, RecoveryTyped

(* The files after both were recovered, or only the hot one.               *)
LEMMA RecoveredFiles ==
    ASSUME FilesTyped, NEW m \in Msg, NEW h \in Recovered(files[Hot(m)], m),
           \/ files' = [files EXCEPT ![Hot(m)] = h.file]
           \/ \E a \in Recovered(files[Archive(m)], m) :
                  files' = [files EXCEPT ![Hot(m)] = h.file, ![Archive(m)] = a.file]
           \/ \E a \in Recovered(files[Archive(m)], m) :
                  files' = [files EXCEPT ![Hot(m)] = h.file,
                                         ![Archive(m)] = IF h.ok THEN @ ELSE a.file]
    PROVE  FilesTyped'
<1>1. CASE files' = [files EXCEPT ![Hot(m)] = h.file]
  BY <1>1, RecoveredTyped, FileReplaced, PayloadsPlaced
<1>2. ASSUME NEW b \in Generations(Payload),
             files' = [files EXCEPT ![Hot(m)] = h.file, ![Archive(m)] = b]
      PROVE  FilesTyped'
  BY <1>2, RecoveredTyped, PairReplaced
<1>3. ASSUME NEW a \in Recovered(files[Archive(m)], m),
             files' = [files EXCEPT ![Hot(m)] = h.file,
                                    ![Archive(m)] = IF h.ok THEN @ ELSE a.file]
      PROVE  FilesTyped'
  <2>1. Hot(m) # Archive(m)
    BY DEF Hot, Archive
  <2>2. files' = [files EXCEPT ![Hot(m)] = h.file,
                      ![Archive(m)] = IF h.ok THEN files[Archive(m)] ELSE a.file]
    BY <1>3, <2>1
  <2>3. (IF h.ok THEN files[Archive(m)] ELSE a.file) \in Generations(Payload)
    BY RecoveredTyped
  <2> QED
    BY <1>2, <2>2, <2>3
<1> QED
  BY <1>1, <1>2, <1>3, RecoveredTyped

(* A call that has recovered the files of a message, and returns or begins *)
(* to replace one of them.                                                 *)
LEMMA RecoveredCallTyped ==
    ASSUME TypeInv, FilesTyped', pc = "idle", UNCHANGED <<mem, cache, up>>,
           up \in {"up", "failed"}, NEW m \in Msg, NEW s \in Status,
           NEW back \in SUBSET Status, NEW op \in {"save", "state"},
           NEW at \in {Hot(m), Archive(m)}, op = "save" => at = Hot(m),
           \/ Refuse /\ meant' = [meant EXCEPT ![m] = @ \cup back]
           \/ /\ Start(op, {m}, at, [msg |-> m, state |-> s])
              /\ meant' = [meant EXCEPT ![m] = @ \cup back \cup {s}]
    PROVE  TypeInv'
<1>1. MemTyped'
  BY DEF TypeInv, MemTyped
<1>2. CASE Refuse
  BY <1>1, <1>2, RefuseTyped DEF TypeInv, Refuse
<1>3. CASE Start(op, {m}, at, [msg |-> m, state |-> s])
  <2>1. [msg |-> m, state |-> s] \in Sort(at) /\ at \in Location /\ at # Index
    BY PayloadsPlaced DEF Payload
  <2>2. CallTyped'
    BY <1>3, <2>1, StartTyped DEF TypeInv
  <2> QED
    BY <1>1, <2>2 DEF TypeInv
<1> QED
  BY <1>2, <1>3

(* save_message(), to its first transaction.                               *)
LEMMA SaveTyped ==
    ASSUME TypeInv, NEW m \in Msg, NEW s \in Status, SaveMessage(m, s)
    PROVE  TypeInv'
<1>1. /\ pc = "idle" /\ up \in {"up", "failed"} /\ UNCHANGED <<mem, cache, up>>
      /\ FilesTyped
  BY DEF SaveMessage, Ready, TypeInv
<1>2. PICK h \in Recovered(files[Hot(m)], m) :
          /\ \/ files' = [files EXCEPT ![Hot(m)] = h.file]
             \/ \E a \in Recovered(files[Archive(m)], m) :
                    files' = [files EXCEPT ![Hot(m)] = h.file, ![Archive(m)] = a.file]
          /\ \/ Refuse /\ meant' = [meant EXCEPT ![m] = @ \cup h.back]
             \/ /\ Start("save", {m}, Hot(m), [msg |-> m, state |-> s])
                /\ meant' = [meant EXCEPT ![m] = @ \cup h.back \cup {s}]
  BY DEF SaveMessage, MeantWith
<1>3. FilesTyped' /\ h.back \in SUBSET Status
  BY <1>1, <1>2, RecoveredFiles, RecoveredTyped
<1> QED
  BY <1>1, <1>2, <1>3, RecoveredCallTyped

(* update_message_state(), to its transaction.                             *)
LEMMA UpdateTyped ==
    ASSUME TypeInv, NEW m \in Msg, NEW s \in Status, UpdateMessageState(m, s)
    PROVE  TypeInv'
<1>1. /\ pc = "idle" /\ up \in {"up", "failed"} /\ UNCHANGED <<mem, cache, up>>
      /\ FilesTyped
  BY DEF UpdateMessageState, Ready, TypeInv
<1>2. PICK h \in Recovered(files[Hot(m)], m), a \in Recovered(files[Archive(m)], m) :
          /\ files' = [files EXCEPT ![Hot(m)] = h.file,
                                    ![Archive(m)] = IF h.ok THEN @ ELSE a.file]
          /\ \/ Refuse /\ meant' = [meant EXCEPT ![m] = @ \cup h.back]
             \/ /\ Start("state", {m}, IF h.ok THEN Hot(m) ELSE Archive(m),
                         [msg |-> m, state |-> s])
                /\ meant' = [meant EXCEPT ![m] = @ \cup h.back \cup {s}]
  BY DEF UpdateMessageState, MeantWith
<1> DEFINE at == IF h.ok THEN Hot(m) ELSE Archive(m)
<1>3. FilesTyped' /\ h.back \in SUBSET Status
  BY <1>1, <1>2, RecoveredFiles, RecoveredTyped
<1>4. at \in {Hot(m), Archive(m)}
  OBVIOUS
<1>5. \/ Refuse /\ meant' = [meant EXCEPT ![m] = @ \cup h.back]
      \/ /\ Start("state", {m}, at, [msg |-> m, state |-> s])
         /\ meant' = [meant EXCEPT ![m] = @ \cup h.back \cup {s}]
  BY <1>2
<1> HIDE DEF at
<1> QED
  BY <1>1, <1>3, <1>4, <1>5, RecoveredCallTyped

(* The functions that read a payload: the cache shows a state that was     *)
(* stored, if any.                                                         *)
LEMMA LoadsTyped ==
    ASSUME TypeInv, NEW m \in Msg, LoadMessage(m) \/ LoadMetadata(m)
    PROVE  TypeInv'
<1>1. /\ pc = "idle" /\ up \in {"up", "failed"} /\ mem' = mem
      /\ up' = up /\ pc' = pc /\ job' = job /\ tx' = tx
      /\ FilesTyped /\ MemTyped /\ CallTyped
  BY DEF LoadMessage, LoadMetadata, Ready, TypeInv
<1>2. PICK h \in Recovered(files[Hot(m)], m) :
          /\ \/ files' = [files EXCEPT ![Hot(m)] = h.file]
             \/ \E a \in Recovered(files[Archive(m)], m) :
                    files' = [files EXCEPT ![Hot(m)] = h.file, ![Archive(m)] = a.file]
             \/ \E a \in Recovered(files[Archive(m)], m) :
                    files' = [files EXCEPT ![Hot(m)] = h.file,
                                           ![Archive(m)] = IF h.ok THEN @ ELSE a.file]
          /\ \/ cache' = cache
             \/ Show(m, IF HoldsPayload(h.file.live, m) THEN h.file.live.state
                                                         ELSE Uncached)
             \/ \E a \in Recovered(files[Archive(m)], m) :
                    Show(m, IF a.ok THEN a.file.live.state ELSE Uncached)
          /\ meant' = [meant EXCEPT ![m] = @ \cup h.back]
  BY DEF LoadMessage, LoadMetadata, MeantWith
<1>3. FilesTyped' /\ h.back \in SUBSET Status /\ h.file \in Generations(Payload)
  BY <1>1, <1>2, RecoveredFiles, RecoveredTyped
<1>4. cache' \in [Msg -> Status \cup {Uncached}]
  <2>1. cache \in [Msg -> Status \cup {Uncached}]
    BY <1>1 DEF MemTyped
  <2>2. \A c \in Status \cup {Uncached} :
            Show(m, c) => cache' \in [Msg -> Status \cup {Uncached}]
    BY <2>1 DEF Show
  <2>3. HoldsPayload(h.file.live, m) => h.file.live.state \in Status
    BY <1>3 DEF HoldsPayload, Generations, Payload
  <2>4. \A a \in Recovered(files[Archive(m)], m) : a.ok => a.file.live.state \in Status
    BY <1>1, RecoveredTyped DEF Payload
  <2> QED
    BY <1>2, <2>1, <2>2, <2>3, <2>4
<1>5. MemTyped'
  BY <1>1, <1>2, <1>3, <1>4 DEF MemTyped
<1>6. CallTyped'
  BY <1>1, RefuseTyped
<1> QED
  BY <1>3, <1>5, <1>6 DEF TypeInv

(* The calls that edit the index: a deletion removes the files of what is  *)
(* deleted, and nothing else.                                              *)
LEMMA EditsTyped ==
    ASSUME TypeInv,
           \/ \E m \in Msg : DeleteMessage(m)
           \/ \E p \in Peer : DeleteConversation(p)
           \/ ClearAll
           \/ CommitIndex
    PROVE  TypeInv'
<1>1. /\ pc = "idle" /\ up \in {"up", "failed"}
      /\ UNCHANGED <<files, up, meant>>
      /\ FilesTyped /\ MemTyped /\ JobTyped /\ TxTyped /\ mem \in Bounded
      /\ mem \in Listing
  BY SortsAreFiles DEF DeleteMessage, DeleteConversation, ClearAll, CommitIndex, Ready,
                       TypeInv, CallTyped, MemTyped, JobTyped
<1>2. FilesTyped'
  BY <1>1 DEF FilesTyped
<1>3. ASSUME NEW op \in {"rewrite", "delete"}, NEW S \in SUBSET Msg,
             mem' \in Bounded, cache' = cache, Start(op, S, Index, mem')
      PROVE  TypeInv'
  <2>1. Index \in Location /\ mem' \in Sort(Index)
    BY <1>3, PayloadsPlaced
  <2>2. CallTyped'
    BY <1>1, <1>3, <2>1, StartTyped
  <2> QED
    BY <1>1, <1>2, <1>3, <2>2 DEF TypeInv, MemTyped
<1>4. ASSUME NEW m \in Msg, DeleteMessage(m)
      PROVE  TypeInv'
  <2>1. CASE m \in Indexed(mem)
    <3>1. /\ mem' = [mem EXCEPT ![PeerOf[m]] = RemoveFirst(@, m)]
          /\ Start("delete", {m}, Index, mem') /\ cache' = cache
      BY <1>4, <2>1 DEF DeleteMessage
    <3>2. mem' \in Bounded
      BY <1>1, <2>1, <3>1, CallsStayBounded
    <3> QED
      BY <1>3, <3>1, <3>2
  <2>2. CASE m \notin Indexed(mem)
    <3>1. /\ pc' = "tidy" /\ mem' = mem /\ tx' = tx
          /\ job' = [op |-> "delete", msgs |-> {}, undo |-> EmptyIndex,
                     todo |-> PayloadFiles({m}), rest |-> <<>>]
          /\ cache' = [cache EXCEPT ![m] = Uncached]
      BY <1>4, <2>2 DEF DeleteMessage, NoJob
    <3>2. PayloadFiles({m}) \in SUBSET (Location \ {Index})
      BY PayloadsPlaced
    <3>3. JobTyped'
      <4>1. <<>> \in Seq(Msg) /\ {} \in SUBSET Msg
        OBVIOUS
      <4>2. job' \in [op : {"none", "rewrite", "state", "delete", "save"},
                      msgs : SUBSET Msg, undo : Bounded,
                      todo : SUBSET (Location \ {Index}), rest : Seq(Msg)]
        BY <3>1, <3>2, <4>1, EmptyIsBounded
      <4>3. job'.op = "delete"
        BY <3>1
      <4> QED
        BY <1>1, <3>1, <4>2, <4>3 DEF JobTyped, Step
    <3>4. CallTyped'
      BY <1>1, <3>1, <3>3, QuietTyped
    <3>5. MemTyped'
      BY <1>1, <3>1 DEF MemTyped
    <3> QED
      BY <1>2, <3>4, <3>5 DEF TypeInv
  <2> QED
    BY <2>1, <2>2
<1>5. ASSUME NEW p \in Peer, DeleteConversation(p)
      PROVE  TypeInv'
  <2>1. /\ mem[p] # Unused
        /\ mem' = [mem EXCEPT ![p] = Unused] /\ cache' = cache
        /\ Start("delete", ToSet(mem[p]), Index, mem')
    BY <1>5 DEF DeleteConversation
  <2>2. ToSet(mem[p]) \in SUBSET Msg
    BY <1>1, <2>1 DEF Listing, ToSet
  <2>3. mem' \in Bounded
    BY <1>1, <2>1, CallsStayBounded
  <2> QED
    BY <1>3, <2>1, <2>2, <2>3
<1>6. CASE ClearAll
  <2>1. /\ mem' = EmptyIndex /\ cache' = cache
        /\ Start("delete", Indexed(mem), Index, mem')
    BY <1>6 DEF ClearAll
  <2>2. Indexed(mem) \in SUBSET Msg
    BY <1>1, ListedByPeer
  <2> QED
    BY <1>3, <2>1, <2>2, EmptyIsBounded
<1>7. CASE CommitIndex
  <2>1. mem' = mem /\ cache' = cache /\ Start("rewrite", {}, Index, mem')
    BY <1>7 DEF CommitIndex
  <2> QED
    BY <1>1, <1>3, <2>1
<1> QED
  BY <1>4, <1>5, <1>6, <1>7

-----------------------------------------------------------------------------
(* The transaction.                                                        *)

(* The file that is being replaced.                                        *)
LEMMA TxFile ==
    ASSUME TypeInv
    PROVE  /\ tx.at \in Location /\ files[tx.at] \in Generations(Sort(tx.at))
           /\ pc \in {"write", "preserve", "commit", "clean"} => tx.new \in Sort(tx.at)
           /\ FilesTyped /\ JobTyped /\ TxTyped /\ CallTyped /\ MemTyped
  BY DEF TypeInv, CallTyped, TxTyped, FilesTyped, InTx

(* The temporary is written; a .bak may go.                                *)
LEMMA WriteTyped ==
    ASSUME TypeInv, WriteTemporary
    PROVE  TypeInv'
<1>1. pc = "write" /\ UNCHANGED <<cache, up, meant>>
  BY DEF WriteTemporary
<1>2. CASE UNCHANGED files /\ Abort
  <2>1. CallTyped' /\ mem' \in Bounded
    BY <1>1, <1>2, AbortTyped
  <2> QED
    BY <1>1, <1>2, <2>1, TxFile DEF TypeInv, FilesTyped, MemTyped
<1>3. CASE ~(UNCHANGED files /\ Abort)
  <2>1. PICK f \in {files[tx.at]} \cup WithoutBak(files[tx.at]) :
            files' = [files EXCEPT ![tx.at] = f]
    BY <1>3 DEF WriteTemporary
  <2>2. pc' = "preserve" /\ UNCHANGED <<mem, job, tx>>
    BY <1>3 DEF WriteTemporary
  <2>3. f \in Generations(Sort(tx.at))
    BY <2>1, TxFile, GenerationsTyped
  <2>4. FilesTyped' /\ \A k : k # tx.at => files'[k] = files[k]
    BY <2>1, <2>3, TxFile, FileReplaced
  <2>5. tx' = [tx EXCEPT !.had = tx.had] /\ tx.had \in BOOLEAN
    BY <2>2, TxFile DEF TxTyped
  <2>6. CallTyped'
    BY <1>1, <2>2, <2>4, <2>5, TxFile, TxGoesOn
  <2> QED
    BY <1>1, <2>2, <2>4, <2>6, TxFile DEF TypeInv, MemTyped
<1> QED
  BY <1>2, <1>3

(* The live file becomes the .bak.                                         *)
LEMMA PreserveTyped ==
    ASSUME TypeInv, PreserveLive
    PROVE  TypeInv'
<1>1. pc = "preserve" /\ UNCHANGED <<cache, up, meant>>
  BY DEF PreserveLive
<1>2. CASE UNCHANGED files /\ Abort
  <2>1. CallTyped' /\ mem' \in Bounded
    BY <1>1, <1>2, AbortTyped
  <2> QED
    BY <1>1, <1>2, <2>1, TxFile DEF TypeInv, FilesTyped, MemTyped
<1>3. CASE ~(UNCHANGED files /\ Abort)
  <2>1. /\ pc' = "commit" /\ UNCHANGED <<mem, job>>
        /\ tx' = [tx EXCEPT !.had = files[tx.at].live # NoFile]
        /\ \/ files' = files
           \/ files' = [files EXCEPT ![tx.at] = [live |-> NoFile,
                                                 bak |-> files[tx.at].live]]
    BY <1>3 DEF PreserveLive
  <2>2. [live |-> NoFile, bak |-> files[tx.at].live] \in Generations(Sort(tx.at))
    BY TxFile, GenerationsTyped
  <2>3. FilesTyped' /\ \A k : k # tx.at => files'[k] = files[k]
    <3>1. CASE files' = files
      BY <3>1, TxFile DEF FilesTyped
    <3>2. CASE files' # files
      BY <2>1, <2>2, <3>2, TxFile, FileReplaced
    <3> QED
      BY <3>1, <3>2
  <2>4. (files[tx.at].live # NoFile) \in BOOLEAN
    OBVIOUS
  <2>5. CallTyped'
    BY <1>1, <2>1, <2>3, <2>4, TxFile, TxGoesOn
  <2> QED
    BY <1>1, <2>1, <2>3, <2>5, TxFile DEF TypeInv, MemTyped
<1> QED
  BY <1>2, <1>3

(* The states a message may have, once it is stored.                       *)
LEMMA CommittedMeant ==
    ASSUME TypeInv, pc = "commit", Committed
    PROVE  meant' \in [Msg -> SUBSET Status]
<1>1. meant \in [Msg -> SUBSET Status]
  BY TxFile DEF MemTyped
<1>2. CASE job.op = "state"
  <2>1. tx.new \in Payload
    BY <1>2, TxFile DEF TxTyped, InTx, Sort
  <2>2. meant' = [meant EXCEPT ![TheMsg] = {tx.new.state}]
    BY <1>2 DEF Committed, TheMsg
  <2> QED
    BY <1>1, <2>1, <2>2 DEF Payload
<1>3. CASE job.op = "save" /\ tx.at = Index
  <2>1. TheMsg \in Msg
    BY <1>3, TxFile, SavedTyped
  <2>2. files[Hot(TheMsg)].live # NoFile
    BY <1>3, TxFile DEF CallTyped, SavedInPlace, Replacing
  <2>3. files[Hot(TheMsg)].live \in Payload
    BY <2>1, <2>2, TxFile, RecoveredTyped, GenerationsTyped
  <2>4. meant' = [meant EXCEPT ![TheMsg] = {files[Hot(TheMsg)].live.state}]
    BY <1>3 DEF Committed, TheMsg
  <2> QED
    BY <1>1, <2>3, <2>4 DEF Payload
<1>4. CASE ~(job.op = "state" \/ (job.op = "save" /\ tx.at = Index))
  BY <1>1, <1>4 DEF Committed
<1> QED
  BY <1>2, <1>3, <1>4

(* The temporary becomes the live file, or the .bak does again.            *)
LEMMA CommitTyped ==
    ASSUME TypeInv, CommitTemporary
    PROVE  TypeInv'
<1>1. pc = "commit" /\ UNCHANGED <<cache, up>>
  BY DEF CommitTemporary
<1>2. CASE Committed
  <2>1. /\ files' = [files EXCEPT ![tx.at] = [files[tx.at] EXCEPT !.live = tx.new]]
        /\ pc' = IF job.op = "save" /\ tx.at[1] = "hot" THEN "index" ELSE "clean"
        /\ UNCHANGED <<mem, job, tx>>
    BY <1>2 DEF Committed
  <2> DEFINE f == [files[tx.at] EXCEPT !.live = tx.new]
  <2>2. f \in Generations(Sort(tx.at)) /\ f.live = tx.new /\ tx.new # NoFile
    <3>1. tx.new \in Sort(tx.at) /\ files[tx.at] \in Generations(Sort(tx.at))
      BY <1>1, TxFile
    <3>2. f \in Generations(Sort(tx.at)) /\ f.live = tx.new
      BY <3>1 DEF Generations
    <3> QED
      BY <3>1, <3>2, SortsAreFiles
  <2> HIDE DEF f
  <2>3. FilesTyped' /\ files'[tx.at] = f
    BY <2>1, <2>2, TxFile, FileReplaced DEF f
  <2>4. TheMsg' = TheMsg
    BY <2>1, SameMessage
  <2>5. JobTyped'
    BY <1>1, <2>1, TxFile DEF JobTyped, Step
  <2>6. TxTyped'
    BY <1>1, <2>1, <2>4, TxFile DEF TxTyped, InTx
  <2>7. SavedInPlace'
    <3> SUFFICES ASSUME pc' = "index", job.op = "save"
                 PROVE  files'[Hot(TheMsg)].live # NoFile
      BY <2>1, <2>4 DEF SavedInPlace, Replacing
    <3>1. tx.at = Hot(TheMsg)
      BY <1>1, <2>1, TxFile DEF TxTyped, InTx
    <3> QED
      BY <2>2, <2>3, <3>1
  <2>8. MemTyped'
    BY <1>1, <1>2, <2>1, TxFile, CommittedMeant DEF MemTyped
  <2> QED
    BY <2>3, <2>5, <2>6, <2>7, <2>8 DEF TypeInv, CallTyped
<1>3. CASE ~Committed
  <2>1. PICK f \in RenamedBack(files[tx.at]) : files' = [files EXCEPT ![tx.at] = f]
    BY <1>3 DEF CommitTemporary
  <2>2. Abort /\ meant' = meant
    BY <1>3 DEF CommitTemporary
  <2>3. f \in Generations(Sort(tx.at))
    BY <2>1, TxFile, GenerationsTyped DEF RenamedBack
  <2>4. FilesTyped'
    BY <2>1, <2>3, TxFile, FileReplaced
  <2>5. CallTyped' /\ mem' \in Bounded
    BY <1>1, <2>2, AbortTyped
  <2> QED
    BY <1>1, <2>2, <2>4, <2>5, TxFile DEF TypeInv, MemTyped
<1> QED
  BY <1>2, <1>3

(* A file that is not the index's is a payload's, in one of the tiers.     *)
LEMMA TwoTiers == \A l \in Location : l # Index => l[1] \in {"hot", "archive"}
  BY DEF Location

(* The .bak goes, and the call goes on as its kind requires.               *)
LEMMA CleanUpTyped ==
    ASSUME TypeInv, CleanUp
    PROVE  TypeInv'
<1>1. /\ pc = "clean" /\ UNCHANGED <<mem, up, meant>>
      /\ job.op \in {"rewrite", "state", "delete", "save"}
      /\ up \in {"up", "failed"}
      /\ job.msgs \in SUBSET Msg /\ cache \in [Msg -> Status \cup {Uncached}]
  BY TxFile DEF CleanUp, JobTyped, MemTyped
<1>2. FilesTyped'
  <2>1. PICK f \in {files[tx.at]} \cup WithoutBak(files[tx.at]) :
            files' = [files EXCEPT ![tx.at] = f]
    BY DEF CleanUp
  <2>2. f \in Generations(Sort(tx.at))
    BY <2>1, TxFile, GenerationsTyped
  <2> QED
    BY <2>1, <2>2, TxFile, FileReplaced
<1>3. CallTyped' /\ cache' \in [Msg -> Status \cup {Uncached}]
  <2>1. CASE job.op = "rewrite"
    <3>1. Return /\ cache' = cache
      BY <2>1 DEF CleanUp
    <3> QED
      BY <1>1, <3>1, ReturnTyped
  <2>2. CASE job.op = "state"
    <3>1. /\ Return
          /\ cache' = [m \in Msg |-> IF m \in job.msgs /\ cache[m] # Uncached
                                     THEN tx.new.state ELSE cache[m]]
      BY <2>2 DEF CleanUp
    <3>2. tx.new.state \in Status
      BY <1>1, <2>2, TxFile DEF TxTyped, InTx, Sort, Payload
    <3> QED
      BY <1>1, <3>1, <3>2, ReturnTyped
  <2>3. CASE job.op = "delete"
    <3>1. /\ pc' = "tidy" /\ tx' = tx
          /\ job' = [job EXCEPT !.todo = PayloadFiles(job.msgs)]
          /\ cache' = [m \in Msg |-> IF m \in job.msgs THEN Uncached ELSE cache[m]]
      BY <2>3 DEF CleanUp
    <3>2. PayloadFiles(job.msgs) \in SUBSET (Location \ {Index})
      BY <1>1, PayloadsPlaced
    <3>3. JobTyped'
      BY <1>1, <2>3, <3>1, <3>2, TxFile DEF JobTyped, Step
    <3> QED
      BY <1>1, <3>1, <3>3, TxFile, QuietTyped
  <2>4. CASE job.op = "save"
    <3>1. /\ pc' = IF tx.at = Index THEN "settle" ELSE "demote"
          /\ UNCHANGED <<job, tx, cache>>
      BY <2>4 DEF CleanUp
    <3>2. tx.at # Index => job.rest # <<>>
      BY <1>1, <2>4, TxFile, TwoTiers DEF TxTyped, InTx
    <3>3. JobTyped'
      BY <1>1, <2>4, <3>1, <3>2, TxFile DEF JobTyped, Step
    <3> QED
      BY <1>1, <3>1, <3>3, TxFile, QuietTyped
  <2> QED
    BY <1>1, <2>1, <2>2, <2>3, <2>4
<1> QED
  BY <1>1, <1>2, <1>3, TxFile DEF TypeInv, MemTyped

-----------------------------------------------------------------------------
(* The rest of save_message().                                             *)

(* The index with the saved message stays within its limits.               *)
LEMMA NewHashesBounded ==
    ASSUME mem \in Bounded, TheMsg \in Msg, ~PoolFull
    PROVE  [mem EXCEPT ![ThePeer] = NewHashes] \in Bounded
<1>1. mem \in Listing /\ ThePeer \in Peer
  BY StoreAssumption DEF Bounded, ThePeer
<1>2. Sole(mem) /\ [mem EXCEPT ![ThePeer] = NewHashes] \in Listing
  BY <1>1, NewHashesKeepListing DEF Bounded, Sole
<1>3. /\ Hashes \in Seq(Msg) /\ NewHashes \in Seq(Msg) /\ IsInjective(NewHashes)
      /\ Len(Hashes) <= MAX_MESSAGES_PER_CONVERSATION =>
             Len(NewHashes) <= MAX_MESSAGES_PER_CONVERSATION
  BY <1>1, <1>2, NewHashesSound
<1>4. Len(Hashes) <= MAX_MESSAGES_PER_CONVERSATION
  <2>1. CASE mem[ThePeer] = Unused
    BY <2>1, StoreAssumption DEF Hashes
  <2>2. CASE mem[ThePeer] # Unused
    BY <1>1, <2>2 DEF Hashes, Bounded
  <2> QED
    BY <2>1, <2>2
<1>5. mem[ThePeer] # Unused \/ Cardinality(Used(mem)) < MAX_CONVERSATIONS
  <2>1. Cardinality(Used(mem)) \in Nat /\ MAX_CONVERSATIONS \in Nat
    BY StoreAssumption, FS_CardinalityType DEF Bounded
  <2> QED
    BY <2>1 DEF PoolFull, Used
<1> QED
  BY <1>1, <1>2, <1>3, <1>4, <1>5, EditedIsBounded

(* The index takes the message, or the payload is taken back.              *)
LEMMA AddTyped ==
    ASSUME TypeInv, AddToConversation
    PROVE  TypeInv'
<1>1. /\ pc = "index" /\ UNCHANGED <<files, cache, up, meant>>
      /\ up \in {"up", "failed"} /\ job.op = "save" /\ mem \in Bounded
      /\ FilesTyped'
  BY TxFile DEF AddToConversation, JobTyped, MemTyped, FilesTyped
<1>2. TheMsg \in Msg
  BY <1>1, TxFile, SavedTyped
<1>3. CASE PoolFull
  <2>1. pc' = "rollback" /\ UNCHANGED <<mem, job, tx>>
    BY <1>3 DEF AddToConversation
  <2>2. JobTyped'
    BY <1>1, <2>1, TxFile DEF JobTyped, Step
  <2>3. CallTyped'
    BY <2>1, <2>2, TxFile, QuietTyped
  <2> QED
    BY <1>1, <2>1, <2>3, TxFile DEF TypeInv, MemTyped
<1>4. CASE ~PoolFull
  <2>1. /\ mem' = [mem EXCEPT ![ThePeer] = NewHashes]
        /\ job' = [job EXCEPT !.undo = mem, !.todo = PayloadFiles(Evicted)]
        /\ tx' = [at |-> Index, new |-> mem', had |-> FALSE]
        /\ pc' = "write"
    BY <1>4 DEF AddToConversation, NoTx
  <2>2. mem' \in Bounded
    BY <1>1, <1>2, <1>4, <2>1, NewHashesBounded
  <2>3. PayloadFiles(Evicted) \in SUBSET (Location \ {Index})
    <3>1. mem \in Listing /\ Sole(mem)
      BY <1>1 DEF Bounded, Sole
    <3>2. Hashes \in Seq(Msg) /\ Evicted \subseteq ToSet(Hashes)
      BY <1>2, <3>1, NewHashesSound
    <3>3. Evicted \in SUBSET Msg
      BY <3>2 DEF ToSet
    <3> QED
      BY <3>3, PayloadsPlaced
  <2>4. JobTyped'
    BY <1>1, <2>1, <2>3, TxFile DEF JobTyped, Step
  <2>5. TxTyped'
    BY <1>1, <2>1, <2>2, TxFile, PayloadsPlaced, Tiers DEF TxTyped, JobTyped
  <2>6. SavedInPlace'
    <3>1. TheMsg' = TheMsg
      BY <2>1, TxFile, SameMessage DEF JobTyped
    <3> QED
      BY <1>1, <3>1, TxFile DEF CallTyped, SavedInPlace
  <2> QED
    BY <1>1, <2>2, <2>4, <2>5, <2>6, TxFile DEF TypeInv, CallTyped, MemTyped
<1> QED
  BY <1>3, <1>4

(* A rollback and the end of the transaction work on the saved payload.    *)
LEMMA SavedStepsTyped ==
    ASSUME TypeInv, RemoveNew \/ RestorePrevious \/ Settle
    PROVE  TypeInv'
<1>1. /\ UNCHANGED <<mem, cache, up, meant>>
      /\ up \in {"up", "failed"} /\ job.op = "save"
  BY TxFile DEF RemoveNew, RestorePrevious, Settle, JobTyped
<1>2. TheMsg \in Msg
  BY <1>1, TxFile, SavedTyped
<1> DEFINE f == files[Hot(TheMsg)]
<1>3. f \in Generations(Payload)
  BY <1>2, TxFile, RecoveredTyped
<1>4. PICK g : g \in Generations(Payload) /\ files' = [files EXCEPT ![Hot(TheMsg)] = g]
  <2>1. PICK g \in WithoutLive(f) \cup WithoutBak(f) \cup
                   {f, [live |-> f.bak, bak |-> NoFile]} :
            files' = [files EXCEPT ![Hot(TheMsg)] = g]
    BY DEF RemoveNew, RestorePrevious, Settle
  <2>2. g \in Generations(Payload)
    BY <1>3, <2>1, GenerationsTyped
  <2> QED
    BY <2>1, <2>2
<1>5. FilesTyped'
  BY <1>2, <1>4, TxFile, FileReplaced, PayloadsPlaced
<1>6. CallTyped'
  <2>1. CASE RestorePrevious
    BY <1>1, <2>1, ReturnTyped DEF RestorePrevious
  <2>2. CASE RemoveNew \/ Settle
    <3>1. pc' \in {"restore", "tidy"} /\ job' = job /\ tx' = tx
      BY <2>2 DEF RemoveNew, Settle
    <3>2. JobTyped'
      BY <1>1, <3>1, TxFile DEF JobTyped, Step
    <3> QED
      BY <3>1, <3>2, TxFile, QuietTyped
  <2> QED
    BY <2>1, <2>2
<1> QED
  BY <1>1, <1>5, <1>6, TxFile DEF TypeInv, MemTyped

(* Files are removed one by one, before messages are archived.             *)
LEMMA TidyTyped ==
    ASSUME TypeInv, Tidy
    PROVE  TypeInv'
<1>1. /\ pc = "tidy" /\ UNCHANGED <<mem, cache, up, meant>>
      /\ up \in {"up", "failed"} /\ mem \in Bounded
  BY TxFile DEF Tidy, JobTyped, MemTyped
<1>2. CASE job.todo # {}
  <2>1. PICK l \in job.todo :
            /\ \E f \in WithoutLive(files[l]) : files' = [files EXCEPT ![l] = f]
            /\ job' = [job EXCEPT !.todo = @ \ {l}]
            /\ pc' = "tidy" /\ tx' = tx
    BY <1>1, <1>2 DEF Tidy
  <2>2. l \in Location
    BY <2>1, TxFile DEF JobTyped
  <2>3. PICK f \in WithoutLive(files[l]) : files' = [files EXCEPT ![l] = f]
    BY <2>1
  <2>4. FilesTyped'
    <3>1. f \in Generations(Sort(l))
      BY <2>2, <2>3, TxFile, GenerationsTyped DEF FilesTyped
    <3> QED
      BY <2>3, <3>1, TxFile, FileReplaced
  <2>5. JobTyped'
    BY <1>1, <2>1, TxFile DEF JobTyped, Step
  <2>6. CallTyped'
    BY <2>1, <2>5, TxFile, QuietTyped
  <2> QED
    BY <1>1, <2>4, <2>6, TxFile DEF TypeInv, MemTyped
<1>3. CASE job.todo = {}
  <2>1. FilesTyped' /\ MemTyped'
    BY <1>1, <1>3, TxFile DEF Tidy, FilesTyped, MemTyped
  <2>2. CASE Return
    BY <1>1, <2>1, <2>2, ReturnTyped DEF TypeInv
  <2>3. CASE ~Return
    <3> DEFINE rest == SubSeq(Hashes, 1, Len(Hashes) - HOT_MESSAGES_PER_CONVERSATION)
    <3>1. /\ job.op = "save" /\ Len(Hashes) > HOT_MESSAGES_PER_CONVERSATION
          /\ pc' = "cull" /\ tx' = tx
          /\ job' = [job EXCEPT !.rest = rest]
      BY <1>3, <2>3 DEF Tidy
    <3>2. rest \in Seq(Msg)
      <4>1. mem \in Listing /\ Sole(mem) /\ TheMsg \in Msg
        BY <1>1, <3>1, TxFile, SavedTyped DEF Bounded, Sole
      <4>2. Hashes \in Seq(Msg)
        BY <4>1, NewHashesSound
      <4>3. HOT_MESSAGES_PER_CONVERSATION \in Nat
        BY StoreAssumption
      <4> QED
        BY <3>1, <4>2, <4>3
    <3> HIDE DEF rest
    <3>3. JobTyped'
      BY <1>1, <3>1, <3>2, TxFile DEF JobTyped, Step
    <3>4. CallTyped'
      BY <3>1, <3>3, TxFile, QuietTyped
    <3> QED
      BY <2>1, <3>4 DEF TypeInv
  <2> QED
    BY <2>2, <2>3
<1> QED
  BY <1>2, <1>3

(* The next message is skipped.                                            *)
LEMMA SkipTyped ==
    ASSUME TypeInv, pc \in {"cull", "demote"}, job.rest # <<>>, up' = up, Skip
    PROVE  CallTyped'
<1>1. /\ pc' = "cull" /\ tx' = tx /\ job' = [job EXCEPT !.rest = Tail(@)]
      /\ job.op = "save" /\ up \in {"up", "failed"}
  BY TxFile DEF Skip, JobTyped
<1>2. job.rest \in Seq(Msg) /\ Tail(job.rest) \in Seq(Msg)
  BY TxFile DEF JobTyped
<1>3. JobTyped'
  BY <1>1, <1>2, TxFile DEF JobTyped, Step
<1> QED
  BY <1>1, <1>3, TxFile, QuietTyped

(* The next message is archived, if it can be.                             *)
LEMMA CullTyped ==
    ASSUME TypeInv, Cull
    PROVE  TypeInv'
<1>1. /\ pc = "cull" /\ UNCHANGED <<mem, cache, up, meant>>
      /\ up \in {"up", "failed"} /\ job.op = "save"
  BY TxFile DEF Cull, JobTyped
<1>2. MemTyped'
  BY <1>1, TxFile DEF MemTyped
<1>3. CASE UNCHANGED files /\ (Return \/ (job.rest # <<>> /\ Skip))
  <2>1. CallTyped'
    BY <1>1, <1>3, ReturnTyped, SkipTyped
  <2> QED
    BY <1>2, <1>3, <2>1, TxFile DEF TypeInv, FilesTyped
<1>4. CASE job.rest # <<>> /\ pc' = "demote" /\ UNCHANGED <<files, job, tx>>
  <2>1. JobTyped'
    BY <1>1, <1>4, TxFile DEF JobTyped, Step
  <2>2. CallTyped'
    BY <1>4, <2>1, TxFile, QuietTyped
  <2> QED
    BY <1>2, <1>4, <2>2, TxFile DEF TypeInv, FilesTyped
<1> DEFINE m == Head(job.rest)
           hot == files[Hot(m)].live
<1>5. ASSUME job.rest # <<>>, hot # NoFile,
             NEW a \in Recovered(files[Archive(m)], m),
             files' = [files EXCEPT ![Archive(m)] = a.file],
             \/ /\ tx' = [NoTx EXCEPT !.at = Archive(m), !.new = hot]
                /\ pc' = "write" /\ job' = job
             \/ Skip
      PROVE  TypeInv'
  <2>1. m \in Msg
    BY <1>5, TxFile DEF JobTyped
  <2>2. hot \in Payload /\ a.file \in Generations(Payload)
    BY <1>5, <2>1, TxFile, RecoveredTyped, GenerationsTyped
  <2>3. FilesTyped'
    BY <1>5, <2>1, <2>2, TxFile, FileReplaced, PayloadsPlaced
  <2>4. CASE Skip
    BY <1>1, <1>2, <1>5, <2>3, <2>4, SkipTyped DEF TypeInv
  <2>5. CASE /\ tx' = [NoTx EXCEPT !.at = Archive(m), !.new = hot]
             /\ pc' = "write" /\ job' = job
    <3> HIDE DEF m, hot
    <3>1. tx' = [at |-> Archive(m), new |-> hot, had |-> FALSE]
      BY <2>5 DEF NoTx
    <3>2. JobTyped'
      BY <1>1, <2>5, TxFile DEF JobTyped, Step
    <3>3. /\ Archive(m) \in Location /\ Archive(m) # Index
          /\ hot \in Sort(Archive(m))
          /\ Archive(m)[1] # "hot"
      BY <2>1, <2>2, PayloadsPlaced, Tiers
    <3>4. job'.op = "save" /\ job'.rest # <<>>
      BY <1>1, <1>5, <2>5
    <3>5. TxTyped'
      BY <3>1, <3>3, <3>4 DEF TxTyped
    <3>6. SavedInPlace'
      BY <2>5, <3>1, <3>3 DEF SavedInPlace, Replacing
    <3> QED
      BY <1>2, <2>3, <3>2, <3>5, <3>6 DEF TypeInv, CallTyped
  <2> QED
    BY <1>5, <2>4, <2>5
<1>6. CASE job.rest # <<>> /\ hot # NoFile /\ CullToArchive(m, hot)
  BY <1>3, <1>5, <1>6 DEF CullToArchive
<1> HIDE DEF m, hot
<1> QED
  BY <1>3, <1>4, <1>6 DEF Cull, m, hot

(* An archived message leaves the hot tier.                                *)
LEMMA RemoveHotTyped ==
    ASSUME TypeInv, RemoveHot
    PROVE  TypeInv'
<1>1. /\ pc = "demote" /\ UNCHANGED <<mem, cache, up, meant>> /\ Skip
      /\ job.rest # <<>> /\ job.rest \in Seq(Msg)
  BY TxFile DEF RemoveHot, JobTyped
<1> DEFINE m == Head(job.rest)
<1>2. m \in Msg
  BY <1>1
<1>3. PICK f \in WithoutLive(files[Hot(m)]) : files' = [files EXCEPT ![Hot(m)] = f]
  BY DEF RemoveHot
<1> HIDE DEF m
<1>4. f \in Generations(Payload)
  BY <1>2, <1>3, TxFile, RecoveredTyped, GenerationsTyped
<1>5. FilesTyped'
  BY <1>3, <1>4, TxFile, FileReplaced, PayloadsPlaced
<1>6. CallTyped'
  BY <1>1, SkipTyped
<1> QED
  BY <1>1, <1>5, <1>6, TxFile DEF TypeInv, MemTyped

-----------------------------------------------------------------------------
(* Power failures, and the theorem.                                        *)

(* A power failure empties the memory.                                     *)
LEMMA PowerFailsTyped ==
    ASSUME TypeInv, PowerFails
    PROVE  TypeInv'
<1>1. /\ files' = files /\ meant' = meant /\ mem' = EmptyIndex
      /\ cache' = [m \in Msg |-> Uncached] /\ up' = "down" /\ Return
  BY DEF PowerFails
<1>2. CallTyped'
  BY <1>1, ReturnTyped
<1> QED
  BY <1>1, <1>2, TxFile, EmptyIsBounded DEF TypeInv, FilesTyped, MemTyped

(* Whichever generation of the index is taken, it is one.                  *)
LEMMA LoadIndexTyped ==
    ASSUME TypeInv, LoadIndex
    PROVE  TypeInv'
<1>1. /\ pc = "idle" /\ UNCHANGED <<cache, pc, job, tx, meant>>
  BY TxFile DEF LoadIndex, JobTyped
<1> DEFINE f == files[Index]
<1>2. f \in Generations(Bounded)
  BY TxFile, PayloadsPlaced DEF FilesTyped
<1>3. PICK g \in WithoutBak(f) \cup {f, [live |-> f.bak, bak |-> NoFile],
                                    [f EXCEPT !.live = NoFile]} :
          /\ files' = [files EXCEPT ![Index] = g]
          /\ up' \in {"up", "failed"}
          /\ \/ mem' = EmptyIndex
             \/ mem' = f.live /\ f.live # NoFile
             \/ mem' = f.bak /\ f.bak # NoFile
  BY DEF LoadIndex, Loaded
<1>4. g \in Generations(Bounded) /\ mem' \in Bounded
  <2>1. f.live \in Bounded \cup {NoFile} /\ f.bak \in Bounded \cup {NoFile}
    BY <1>2, GenerationsTyped
  <2>2. mem' \in Bounded
    BY <1>3, <2>1, EmptyIsBounded
  <2> HIDE DEF f
  <2>3. g \in Generations(Bounded)
    BY <1>2, <1>3, GenerationsTyped DEF Generations
  <2> QED
    BY <2>2, <2>3
<1>5. FilesTyped'
  BY <1>3, <1>4, TxFile, FileReplaced, PayloadsPlaced
<1>6. CallTyped'
  BY <1>1, <1>3, TxFile, RefuseTyped
<1> QED
  BY <1>1, <1>4, <1>5, <1>6, TxFile DEF TypeInv, MemTyped

(* Files, indexes and the cache hold what belongs into them, and an index  *)
(* lists no message twice and no more than pool and conversation take: of  *)
(* every step, whatever fails and however messages are named.              *)
THEOREM StoreTypeCorrect == StoreSafeSpec => []StoreTypeOK
<1>1. StoreInit => TypeInv
  <2> SUFFICES ASSUME StoreInit PROVE TypeInv
    OBVIOUS
  <2>1. FilesTyped
    BY DEF StoreInit, FilesTyped, NoFiles, Generations
  <2>2. MemTyped
    BY EmptyIsBounded DEF StoreInit, MemTyped
  <2>3. JobTyped
    BY EmptyIsBounded DEF StoreInit, JobTyped, NoJob, Step
  <2>4. TxTyped /\ SavedInPlace
    BY PayloadsPlaced DEF StoreInit, TxTyped, SavedInPlace, NoJob, NoTx, InTx
  <2> QED
    BY <2>1, <2>2, <2>3, <2>4 DEF TypeInv, CallTyped
<1>2. TypeInv /\ [StoreNext]_storeVars => TypeInv'
  <2> SUFFICES ASSUME TypeInv, [StoreNext]_storeVars PROVE TypeInv'
    OBVIOUS
  <2>1. CASE StoreCall
    BY <2>1, SaveTyped, UpdateTyped, LoadsTyped, EditsTyped DEF StoreCall
  <2>2. CASE StoreStep
    BY <2>2, WriteTyped, PreserveTyped, CommitTyped, CleanUpTyped, AddTyped,
       SavedStepsTyped, TidyTyped, CullTyped, RemoveHotTyped DEF StoreStep
  <2>3. CASE PowerFails \/ LoadIndex
    BY <2>3, PowerFailsTyped, LoadIndexTyped
  <2>4. CASE UNCHANGED storeVars
    BY <2>4 DEF storeVars, TypeInv, FilesTyped, MemTyped, CallTyped, JobTyped,
                TxTyped, SavedInPlace, InTx, Replacing, TheMsg
  <2> QED
    BY <2>1, <2>2, <2>3, <2>4 DEF StoreNext
<1>3. TypeInv => StoreTypeOK
  <2> SUFFICES ASSUME TypeInv PROVE StoreTypeOK
    OBVIOUS
  <2>1. \A x \in Bounded : IsIndex(x)
    BY DEF Bounded, Listing, IsIndex
  <2>2. \A l \in Location : \A c \in {files[l].live, files[l].bak} :
            c # NoFile => IF l = Index THEN IsIndex(c) ELSE c \in Payload
    <3> SUFFICES ASSUME NEW l \in Location, NEW c \in {files[l].live, files[l].bak},
                        c # NoFile
                 PROVE  IF l = Index THEN IsIndex(c) ELSE c \in Payload
      OBVIOUS
    <3>1. files[l] \in Generations(Sort(l))
      BY TxFile DEF FilesTyped
    <3>2. c \in Sort(l)
      BY <3>1 DEF Generations
    <3> QED
      BY <2>1, <3>2 DEF Sort
  <2>3. /\ Cardinality({p \in Peer : mem[p] # Unused}) <= MAX_CONVERSATIONS
        /\ \A p \in Peer : mem[p] # Unused =>
               /\ Len(mem[p]) <= MAX_MESSAGES_PER_CONVERSATION
               /\ IsInjective(mem[p])
    BY TxFile DEF MemTyped, Bounded, Used
  <2>4. DOMAIN files = Location /\ tx.at \in Location
    BY TxFile DEF FilesTyped
  <2> QED
    BY <2>1, <2>2, <2>3, <2>4, TxFile DEF StoreTypeOK, MemTyped, JobTyped, Step
<1> QED
  BY <1>1, <1>2, <1>3, PTL DEF StoreSafeSpec
=============================================================================
