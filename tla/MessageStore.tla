---------------------------- MODULE MessageStore ----------------------------
(***************************************************************************)
(* The message store on disk (MessageStore.cpp): an index of conversations *)
(* and one payload per message in a hot and an archive tier.  Every file   *)
(* is replaced by the same transaction: a verified temporary is renamed    *)
(* over it, with the previous generation kept as a .bak meanwhile.  Calls  *)
(* of the filesystem fail one by one, and the power fails between any two. *)
(*                                                                         *)
(* One thread uses the store.  Renames are atomic, and files keep their    *)
(* contents.  Left out: the temporary files (nothing ever reads one that   *)
(* another call left), names, previews, timestamps and the unread count.   *)
(***************************************************************************)
EXTENDS Naturals, Sequences, SequencesExt, FiniteSets

CONSTANTS
    Msg,            \* message hashes
    Peer,           \* conversations
    PeerOf,         \* the conversation of a message
    Path,           \* shortened file names
    PathOf,         \* get_message_path(): may coincide for two messages
    Status,         \* the states a stored message goes through
    NoFile,         \* absent file
    Unused,         \* free conversation slot
    Uncached,       \* no entry in the metadata cache
    HasArchive,     \* whether an archive filesystem is set
    MAX_CONVERSATIONS,
    MAX_MESSAGES_PER_CONVERSATION,
    HOT_MESSAGES_PER_CONVERSATION,
    Faults,         \* the filesystem calls that may fail
    MaxCalls,       \* bound: calls of the store
    MaxCrashes      \* bound: power failures

ASSUME StoreAssumption ==
    /\ PeerOf \in [Msg -> Peer]
    /\ PathOf \in [Msg -> Path]
    /\ NoFile \notin [Peer -> Seq(Msg) \cup {Unused}]
    /\ NoFile \notin [msg : Msg, state : Status]
    /\ HasArchive \in BOOLEAN
    /\ MAX_CONVERSATIONS \in Nat
    /\ MAX_MESSAGES_PER_CONVERSATION \in Nat
    /\ HOT_MESSAGES_PER_CONVERSATION \in 1..(MAX_MESSAGES_PER_CONVERSATION - 1)
    /\ Faults \subseteq {"write", "remove", "preserve", "commit", "restore",
                         "restoreIndex", "recover", "loadIndex", "readIndex",
                         "readPayload"}
    /\ MaxCalls \in Nat
    /\ MaxCrashes \in Nat

VARIABLES
    files,      \* [location -> the live file and its .bak]
    mem,        \* _conversations_pool: the hashes of each conversation
    cache,      \* the metadata cache: the state it shows of a message
    up,         \* "up" (_initialized), "failed" or "down"
    pc,         \* the step of the call in progress
    job,        \* that call
    tx,         \* the file transaction it is in
    calls,      \* calls made
    crashes,    \* power failures
    meant       \* history: the states the store may hold of a message

storeVars == <<files, mem, cache, up, pc, job, tx, calls, crashes, meant>>

Index == <<"index">>
Hot(m) == <<"hot", PathOf[m]>>
Archive(m) == <<"archive", PathOf[m]>>
Location == {Index} \cup {<<t, p>> : t \in {"hot", "archive"}, p \in Path}

NoFiles == [live |-> NoFile, bak |-> NoFile]
EmptyIndex == [p \in Peer |-> Unused]
NoJob == [op |-> "none", msgs |-> {}, undo |-> EmptyIndex, todo |-> {}, rest |-> <<>>]
NoTx == [at |-> Index, new |-> NoFile, had |-> FALSE]

Payload == [msg : Msg, state : Status]
IsIndex(x) ==
    /\ DOMAIN x = Peer
    /\ \A p \in Peer : x[p] = Unused \/ x[p] \in Seq(Msg)

Indexed(x) == UNION {ToSet(x[p]) : p \in {q \in Peer : x[q] # Unused}}

StoreTypeOK ==
    /\ DOMAIN files = Location
    /\ \A l \in Location : \A c \in {files[l].live, files[l].bak} :
           c # NoFile => IF l = Index THEN IsIndex(c) ELSE c \in Payload
    /\ IsIndex(mem)
    /\ Cardinality({p \in Peer : mem[p] # Unused}) <= MAX_CONVERSATIONS
    /\ \A p \in Peer : mem[p] # Unused =>
           Len(mem[p]) <= MAX_MESSAGES_PER_CONVERSATION /\ IsInjective(mem[p])
    /\ cache \in [Msg -> Status \cup {Uncached}]
    /\ up \in {"up", "failed", "down"}
    /\ pc \in {"idle", "write", "preserve", "commit", "clean", "index",
               "rollback", "restore", "settle", "tidy", "cull", "demote"}
    /\ tx.at \in Location
    /\ meant \in [Msg -> SUBSET Status]

StoreInit ==
    /\ files = [l \in Location |-> NoFiles]
    /\ mem = EmptyIndex
    /\ cache = [m \in Msg |-> Uncached]
    /\ up = "up"
    /\ pc = "idle"
    /\ job = NoJob
    /\ tx = NoTx
    /\ calls = 0
    /\ crashes = 0
    /\ meant = [m \in Msg |-> {}]

-----------------------------------------------------------------------------
(* Files and their generations.                                            *)

(* What may be left of a file's generations after its .bak, or the file    *)
(* itself, is removed: results of removals are never looked at.            *)
WithoutBak(f) ==
    {[f EXCEPT !.bak = NoFile]} \cup IF "remove" \in Faults THEN {f} ELSE {}

WithoutLive(f) ==
    {[f EXCEPT !.live = NoFile]} \cup IF "remove" \in Faults THEN {f} ELSE {}

HoldsPayload(c, m) == c # NoFile /\ c.msg = m

ReadMayFail == "readPayload" \in Faults

(* Mutant: the .bak is preferred to the live file.                         *)
RecoveredFromBak(f, m) ==
    IF HoldsPayload(f.bak, m)
    THEN {[file |-> [live |-> f.bak, bak |-> NoFile], ok |-> TRUE, back |-> {}]}
    ELSE {[file |-> f, ok |-> HoldsPayload(f.live, m), back |-> {}]}

(* recover_message_payload() and recover_archived_message_payload(): what  *)
(* becomes of the file, whether the call succeeds, and the state that came *)
(* back because the live file could not be read.  The live file is removed *)
(* before the .bak is put in its place.                                    *)
Recovered(f, m) ==
    LET inLive == HoldsPayload(f.live, m)
        inBak == HoldsPayload(f.bak, m)
        Outcome(file, ok) ==
            [file |-> file, ok |-> ok,
             back |-> IF inLive /\ file.live # f.live THEN {f.bak.state} ELSE {}]
        Live == {Outcome(g, TRUE) : g \in WithoutBak(f)}
        Bak == {Outcome([live |-> f.bak, bak |-> NoFile], TRUE)}
               \cup IF "recover" \in Faults
                    THEN {Outcome([f EXCEPT !.live = NoFile], FALSE)} ELSE {}
               \cup IF f.live # NoFile /\ "remove" \in Faults
                    THEN {Outcome(f, FALSE)} ELSE {}
    IN  (IF inLive THEN Live ELSE {})
        \cup (IF inBak /\ (~inLive \/ ReadMayFail) THEN Bak ELSE {})
        \cup (IF (~inLive /\ ~inBak) \/ ReadMayFail
              THEN {Outcome(f, FALSE)} ELSE {})

(* A payload may be written where there is none, or over its own.          *)
Writable(r) == r.ok \/ r.file = NoFiles

(* A payload that has just been recovered is read once more.               *)
ReadAgain(r) == r.file # NoFiles /\ ReadMayFail

(* What load_index() would make of the disk, whenever the power fails.     *)
Durable ==
    IF files[Index].live # NoFile THEN files[Index].live
    ELSE IF files[Index].bak # NoFile THEN files[Index].bak
    ELSE EmptyIndex

-----------------------------------------------------------------------------
(* The calls.                                                              *)

Ready == pc = "idle" /\ up # "down" /\ calls < MaxCalls

Call == calls' = calls + 1

Start(op, msgs, at, new) ==
    /\ job' = [NoJob EXCEPT !.op = op, !.msgs = msgs, !.undo = mem]
    /\ tx' = [NoTx EXCEPT !.at = at, !.new = new]
    /\ pc' = "write"

Return == pc' = "idle" /\ job' = NoJob /\ tx' = NoTx

Refuse == UNCHANGED <<pc, job, tx>>

(* The states the recovery of a hot payload has put back.                  *)
MeantWith(m, h) == [meant EXCEPT ![m] = @ \cup h.back]

(* save_message(): both tiers are recovered, and a file of another message *)
(* or one that cannot be read is never overwritten.                        *)
SaveMessage(m, s) ==
    /\ Ready /\ up = "up" /\ Call
    /\ \E h \in Recovered(files[Hot(m)], m) :
           \/ /\ ~Writable(h)
              /\ files' = [files EXCEPT ![Hot(m)] = h.file]
              /\ Refuse /\ meant' = MeantWith(m, h)
           \/ /\ Writable(h)
              /\ \E a \in Recovered(files[Archive(m)], m) :
                     /\ files' = [files EXCEPT ![Hot(m)] = h.file,
                                               ![Archive(m)] = a.file]
                     /\ \/ /\ Writable(a)
                           /\ Start("save", {m}, Hot(m), [msg |-> m, state |-> s])
                           /\ meant' = [meant EXCEPT ![m] = @ \cup h.back \cup {s}]
                        \/ /\ ~Writable(a) \/ ReadAgain(a)
                           /\ Refuse /\ meant' = MeantWith(m, h)
    /\ UNCHANGED <<mem, cache, up, crashes>>

(* update_message_state(), and update_archived_message_state() when only   *)
(* the archive has the message.                                            *)
UpdateMessageState(m, s) ==
    /\ Ready /\ up = "up" /\ Call
    /\ \E h \in Recovered(files[Hot(m)], m), a \in Recovered(files[Archive(m)], m) :
           /\ files' = [files EXCEPT ![Hot(m)] = h.file,
                                     ![Archive(m)] = IF h.ok THEN @ ELSE a.file]
           /\ \/ /\ h.ok \/ a.ok
                 /\ Start("state", {m}, IF h.ok THEN Hot(m) ELSE Archive(m),
                          [msg |-> m, state |-> s])
                 /\ meant' = [meant EXCEPT ![m] = @ \cup h.back \cup {s}]
              \/ /\ ~(h.ok \/ a.ok) \/ ReadMayFail
                 /\ Refuse /\ meant' = MeantWith(m, h)
    /\ UNCHANGED <<mem, cache, up, crashes>>

PayloadFiles(S) == {Hot(m) : m \in S} \cup {Archive(m) : m \in S}

(* delete_message(): an index that lists the message is committed without  *)
(* it first; the files of its name are removed whether or not one does.    *)
DeleteMessage(m) ==
    /\ Ready /\ up = "up" /\ Call
    /\ IF m \in Indexed(mem)
       THEN /\ mem' = [mem EXCEPT ![PeerOf[m]] = RemoveFirst(@, m)]
            /\ Start("delete", {m}, Index, mem')
            /\ UNCHANGED cache
       ELSE /\ pc' = "tidy"
            /\ job' = [NoJob EXCEPT !.op = "delete", !.todo = PayloadFiles({m})]
            /\ cache' = [cache EXCEPT ![m] = Uncached]
            /\ UNCHANGED <<mem, tx>>
    /\ UNCHANGED <<files, up, crashes, meant>>

(* delete_conversation() and clear_all() do not ask whether the store is   *)
(* initialized.                                                            *)
DeleteConversation(p) ==
    /\ Ready /\ Call
    /\ mem[p] # Unused
    /\ mem' = [mem EXCEPT ![p] = Unused]
    /\ Start("delete", ToSet(mem[p]), Index, mem')
    /\ UNCHANGED <<files, cache, up, crashes, meant>>

ClearAll ==
    /\ Ready /\ Call
    /\ mem' = EmptyIndex
    /\ Start("delete", Indexed(mem), Index, EmptyIndex)
    /\ UNCHANGED <<files, cache, up, crashes, meant>>

(* commit_index(), and the index commits of mark_conversation_read(),      *)
(* set_display_name() and the destructor.                                  *)
CommitIndex ==
    /\ Ready /\ Call
    /\ Start("rewrite", {}, Index, mem)
    /\ UNCHANGED <<files, mem, cache, up, crashes, meant>>

(* load_message() recovers what it reads.                                  *)
LoadMessage(m) ==
    /\ Ready /\ up = "up"
    /\ \E h \in Recovered(files[Hot(m)], m), a \in Recovered(files[Archive(m)], m) :
           /\ files' = [files EXCEPT ![Hot(m)] = h.file,
                                     ![Archive(m)] = IF h.ok THEN @ ELSE a.file]
           /\ meant' = MeantWith(m, h)
    /\ UNCHANGED <<mem, cache, up, pc, job, tx, calls, crashes>>

Show(m, state) ==
    \/ UNCHANGED cache
    \/ cache[m] = Uncached /\ cache' = [cache EXCEPT ![m] = state]

(* load_message_metadata(), which warms the cache unless it has the        *)
(* message, and load_message_content(), which does not: the archive is     *)
(* asked when nothing can be read in the hot tier, and a file that can be  *)
(* read is looked at only then.                                            *)
LoadMetadata(m) ==
    /\ Ready /\ up = "up"
    /\ \E h \in Recovered(files[Hot(m)], m) :
           /\ \/ /\ h.file.live # NoFile
                 /\ files' = [files EXCEPT ![Hot(m)] = h.file]
                 /\ Show(m, IF HoldsPayload(h.file.live, m) THEN h.file.live.state
                                                             ELSE Uncached)
              \/ /\ h.file.live = NoFile \/ ReadMayFail
                 /\ \E a \in Recovered(files[Archive(m)], m) :
                        /\ files' = [files EXCEPT ![Hot(m)] = h.file,
                                                  ![Archive(m)] = a.file]
                        /\ Show(m, IF a.ok THEN a.file.live.state ELSE Uncached)
           /\ meant' = MeantWith(m, h)
    /\ UNCHANGED <<mem, up, pc, job, tx, calls, crashes>>

-----------------------------------------------------------------------------
(* The transaction that replaces a file.                                   *)

(* Mutant: a failed commit leaves the index in memory as it is.            *)
AbortKeepingMem ==
    IF job.op = "save" /\ tx.at[1] = "archive"
    THEN /\ pc' = "cull"
         /\ job' = [job EXCEPT !.rest = Tail(@)]
         /\ UNCHANGED <<mem, tx>>
    ELSE IF job.op = "save" /\ tx.at = Index
    THEN pc' = "rollback" /\ UNCHANGED <<mem, job, tx>>
    ELSE Return /\ UNCHANGED mem

(* Mutant: a message that cannot be archived is tried again.               *)
AbortRetrying ==
    IF job.op = "save" /\ tx.at[1] = "archive"
    THEN pc' = "cull" /\ UNCHANGED <<mem, job, tx>>
    ELSE IF job.op = "save" /\ tx.at = Index
    THEN pc' = "rollback" /\ mem' = job.undo /\ UNCHANGED <<job, tx>>
    ELSE Return /\ mem' = IF tx.at = Index THEN job.undo ELSE mem

(* What a call does when its transaction fails: the index in memory goes   *)
(* back to what it was, and a saved payload is rolled back.                *)
Abort ==
    IF job.op = "save" /\ tx.at[1] = "archive"
    THEN /\ pc' = "cull"
         /\ job' = [job EXCEPT !.rest = Tail(@)]
         /\ UNCHANGED <<mem, tx>>
    ELSE IF job.op = "save" /\ tx.at = Index
    THEN pc' = "rollback" /\ mem' = job.undo /\ UNCHANGED <<job, tx>>
    ELSE Return /\ mem' = IF tx.at = Index THEN job.undo ELSE mem

(* The temporary is written and verified.  The .bak of a payload that is   *)
(* saved has been removed by the recovery; the others remove it here.      *)
WriteTemporary ==
    /\ pc = "write"
    /\ \/ /\ \E f \in IF job.op = "save" /\ tx.at[1] = "hot"
                      THEN {files[tx.at]} ELSE WithoutBak(files[tx.at]) :
                 files' = [files EXCEPT ![tx.at] = f]
          /\ pc' = "preserve"
          /\ UNCHANGED <<mem, job, tx>>
       \/ /\ "write" \in Faults
          /\ Abort
          /\ UNCHANGED files
    /\ UNCHANGED <<cache, up, calls, crashes, meant>>

(* Mutant: the previous generation is removed instead of kept.             *)
PreserveNothing ==
    /\ pc = "preserve"
    /\ files' = [files EXCEPT ![tx.at].live = NoFile]
    /\ tx' = [tx EXCEPT !.had = FALSE]
    /\ pc' = "commit"
    /\ UNCHANGED <<mem, job, cache, up, calls, crashes, meant>>

PreserveLive ==
    /\ pc = "preserve"
    /\ LET live == files[tx.at].live
       IN  \/ /\ files' = IF live = NoFile THEN files
                          ELSE [files EXCEPT ![tx.at] = [live |-> NoFile, bak |-> live]]
              /\ tx' = [tx EXCEPT !.had = live # NoFile]
              /\ pc' = "commit"
              /\ UNCHANGED <<mem, job>>
           \/ /\ live # NoFile
              /\ "preserve" \in Faults
              /\ Abort
              /\ UNCHANGED files
    /\ UNCHANGED <<cache, up, calls, crashes, meant>>

(* What a failed commit may leave: the rename back is not checked.         *)
RenamedBack(f) ==
    IF ~tx.had THEN {f}
    ELSE {[live |-> f.bak, bak |-> NoFile]}
             \cup IF (IF tx.at = Index THEN "restoreIndex" ELSE "restore") \in Faults
                  THEN {f} ELSE {}

Committed ==
    /\ files' = [files EXCEPT ![tx.at].live = tx.new]
    /\ pc' = IF job.op = "save" /\ tx.at[1] = "hot" THEN "index" ELSE "clean"
    /\ meant' = IF job.op = "state" \/ (job.op = "save" /\ tx.at = Index)
                THEN LET m == CHOOSE m \in job.msgs : TRUE
                     IN  [meant EXCEPT ![m] =
                              {IF job.op = "state" THEN tx.new.state
                               ELSE files[Hot(m)].live.state}]
                ELSE meant
    /\ UNCHANGED <<mem, job, tx>>

CommitTemporary ==
    /\ pc = "commit"
    /\ \/ Committed
       \/ /\ "commit" \in Faults
          /\ \E f \in RenamedBack(files[tx.at]) : files' = [files EXCEPT ![tx.at] = f]
          /\ Abort
          /\ UNCHANGED meant
    /\ UNCHANGED <<cache, up, calls, crashes>>

(* The previous generation goes; the call goes on or returns.              *)
CleanUp ==
    /\ pc = "clean"
    /\ \E f \in IF tx.had THEN WithoutBak(files[tx.at]) ELSE {files[tx.at]} :
           files' = [files EXCEPT ![tx.at] = f]
    /\ CASE job.op = "rewrite" -> Return /\ UNCHANGED cache
         [] job.op = "state" ->
                /\ Return
                /\ cache' = [m \in Msg |-> IF m \in job.msgs /\ cache[m] # Uncached
                                           THEN tx.new.state ELSE cache[m]]
         [] job.op = "delete" ->
                /\ pc' = "tidy"
                /\ job' = [job EXCEPT !.todo = PayloadFiles(job.msgs)]
                /\ cache' = [m \in Msg |-> IF m \in job.msgs THEN Uncached ELSE cache[m]]
                /\ UNCHANGED tx
         [] job.op = "save" ->
                /\ pc' = IF tx.at = Index THEN "settle" ELSE "demote"
                /\ UNCHANGED <<job, tx, cache>>
    /\ UNCHANGED <<mem, up, calls, crashes, meant>>

-----------------------------------------------------------------------------
(* The rest of save_message().                                             *)

TheMsg == CHOOSE m \in job.msgs : TRUE
ThePeer == PeerOf[TheMsg]

PoolFull ==
    /\ mem[ThePeer] = Unused
    /\ Cardinality({p \in Peer : mem[p] # Unused}) >= MAX_CONVERSATIONS

Hashes == IF mem[ThePeer] = Unused THEN <<>> ELSE mem[ThePeer]

Evicted ==
    IF ~Contains(Hashes, TheMsg) /\ Len(Hashes) >= MAX_MESSAGES_PER_CONVERSATION
    THEN {Head(Hashes)} ELSE {}

NewHashes ==
    IF Contains(Hashes, TheMsg) THEN Hashes
    ELSE Append(IF Evicted # {} THEN Tail(Hashes) ELSE Hashes, TheMsg)

(* The conversation takes the message, at its cap in place of the oldest,  *)
(* whose payload is only removed once the new index is committed.          *)
AddToConversation ==
    /\ pc = "index"
    /\ IF PoolFull
       THEN pc' = "rollback" /\ UNCHANGED <<mem, job, tx>>
       ELSE /\ mem' = [mem EXCEPT ![ThePeer] = NewHashes]
            /\ job' = [job EXCEPT !.undo = mem, !.todo = PayloadFiles(Evicted)]
            /\ tx' = [NoTx EXCEPT !.new = mem']
            /\ pc' = "write"
    /\ UNCHANGED <<files, cache, up, calls, crashes, meant>>

(* rollback_payload().                                                     *)
RemoveNew ==
    /\ pc = "rollback"
    /\ \E f \in WithoutLive(files[Hot(TheMsg)]) :
           files' = [files EXCEPT ![Hot(TheMsg)] = f]
    /\ pc' = "restore"
    /\ UNCHANGED <<mem, job, tx, cache, up, calls, crashes, meant>>

(* Mutant: the previous generation is dropped like the new one.            *)
RestorePreviousDropped ==
    /\ pc = "restore"
    /\ files' = [files EXCEPT ![Hot(TheMsg)].bak = NoFile]
    /\ Return
    /\ UNCHANGED <<mem, cache, up, calls, crashes, meant>>

RestorePrevious ==
    /\ pc = "restore"
    /\ LET f == files[Hot(TheMsg)]
       IN  \E g \in IF f.bak = NoFile THEN {f}
                    ELSE {[live |-> f.bak, bak |-> NoFile]}
                             \cup IF "restore" \in Faults THEN {f} ELSE {} :
               files' = [files EXCEPT ![Hot(TheMsg)] = g]
    /\ Return
    /\ UNCHANGED <<mem, cache, up, calls, crashes, meant>>

(* The index is durable: the payload's previous generation goes.           *)
Settle ==
    /\ pc = "settle"
    /\ \E f \in WithoutBak(files[Hot(TheMsg)]) :
           files' = [files EXCEPT ![Hot(TheMsg)] = f]
    /\ pc' = "tidy"
    /\ UNCHANGED <<mem, job, tx, cache, up, calls, crashes, meant>>

(* The files no index refers to any more are removed one by one; a save    *)
(* then moves the messages beyond the hot ones to the archive.             *)
Tidy ==
    /\ pc = "tidy"
    /\ IF job.todo # {}
       THEN \E l \in job.todo : \E f \in WithoutLive(files[l]) :
                /\ files' = [files EXCEPT ![l] = f]
                /\ job' = [job EXCEPT !.todo = @ \ {l}]
                /\ UNCHANGED <<pc, tx>>
       ELSE /\ UNCHANGED files
            /\ IF job.op = "save" /\ Len(Hashes) > HOT_MESSAGES_PER_CONVERSATION
               THEN /\ pc' = "cull"
                    /\ job' = [job EXCEPT !.rest =
                           SubSeq(Hashes, 1, Len(Hashes) - HOT_MESSAGES_PER_CONVERSATION)]
                    /\ UNCHANGED tx
               ELSE Return
    /\ UNCHANGED <<mem, cache, up, calls, crashes, meant>>

(* archive_one_message(), of the next old message.                         *)
Skip == pc' = "cull" /\ job' = [job EXCEPT !.rest = Tail(@)] /\ UNCHANGED tx

CullToArchive(m, hot) ==
    \/ /\ hot.msg # m \/ ReadMayFail
       /\ Skip /\ UNCHANGED files
    \/ /\ hot.msg = m
       /\ \E a \in Recovered(files[Archive(m)], m) :
              /\ files' = [files EXCEPT ![Archive(m)] = a.file]
              /\ \/ /\ Writable(a)
                    /\ tx' = [NoTx EXCEPT !.at = Archive(m), !.new = hot]
                    /\ pc' = "write"
                    /\ UNCHANGED job
                 \/ /\ ~Writable(a) \/ ReadAgain(a)
                    /\ Skip

Cull ==
    /\ pc = "cull"
    /\ IF job.rest = <<>> THEN Return /\ UNCHANGED files
       ELSE LET m == Head(job.rest)
                hot == files[Hot(m)].live
            IN  IF hot = NoFile THEN Skip /\ UNCHANGED files
                ELSE IF ~HasArchive
                THEN pc' = "demote" /\ UNCHANGED <<files, job, tx>>
                ELSE CullToArchive(m, hot)
    /\ UNCHANGED <<mem, cache, up, calls, crashes, meant>>

RemoveHot ==
    /\ pc = "demote"
    /\ \E f \in WithoutLive(files[Hot(Head(job.rest))]) :
           files' = [files EXCEPT ![Hot(Head(job.rest))] = f]
    /\ Skip
    /\ UNCHANGED <<mem, cache, up, calls, crashes, meant>>

-----------------------------------------------------------------------------
(* Power failures and restarts.                                            *)

PowerFails ==
    /\ up # "down"
    /\ crashes < MaxCrashes
    /\ crashes' = crashes + 1
    /\ up' = "down"
    /\ mem' = EmptyIndex
    /\ cache' = [m \in Msg |-> Uncached]
    /\ Return
    /\ UNCHANGED <<files, calls, meant>>

Loaded(f, index, status) ==
    /\ files' = [files EXCEPT ![Index] = f]
    /\ mem' = index
    /\ up' = status

(* load_index(): the live file wins, and the .bak is put in its place when *)
(* there is none that can be read.  The index that was read stays in       *)
(* memory when that fails.                                                 *)
LoadIndex ==
    /\ up = "down"
    /\ LET f == files[Index]
       IN  \/ f = NoFiles /\ Loaded(f, EmptyIndex, "up")
           \/ f.live # NoFile /\ \E g \in WithoutBak(f) : Loaded(g, f.live, "up")
           \/ /\ f.bak # NoFile
              /\ f.live = NoFile \/ "readIndex" \in Faults
              /\ \/ Loaded([live |-> f.bak, bak |-> NoFile], f.bak, "up")
                 \/ /\ "loadIndex" \in Faults
                    /\ Loaded([f EXCEPT !.live = NoFile], f.bak, "failed")
                 \/ /\ f.live # NoFile /\ "remove" \in Faults
                    /\ Loaded(f, f.bak, "failed")
           \/ /\ f # NoFiles /\ "readIndex" \in Faults
              /\ Loaded(f, EmptyIndex, "failed")
    /\ UNCHANGED <<cache, pc, job, tx, calls, crashes, meant>>

-----------------------------------------------------------------------------
StoreCall ==
    \/ \E m \in Msg, s \in Status : SaveMessage(m, s) \/ UpdateMessageState(m, s)
    \/ \E m \in Msg : DeleteMessage(m) \/ LoadMessage(m) \/ LoadMetadata(m)
    \/ \E p \in Peer : DeleteConversation(p)
    \/ ClearAll
    \/ CommitIndex

StoreStep ==
    \/ WriteTemporary \/ PreserveLive \/ CommitTemporary \/ CleanUp
    \/ AddToConversation \/ RemoveNew \/ RestorePrevious \/ Settle
    \/ Tidy \/ Cull \/ RemoveHot

StoreNext == StoreCall \/ StoreStep \/ PowerFails \/ LoadIndex

StoreSafeSpec == StoreInit /\ [][StoreNext]_storeVars

(* The calls are synchronous: one that has begun goes on, unless the power *)
(* fails.                                                                  *)
StoreSpec == StoreSafeSpec /\ WF_storeVars(StoreStep)

-----------------------------------------------------------------------------
(* Properties.                                                             *)

(* Whatever a call returned, the index in memory and the one a restart     *)
(* would load agree: no failure path keeps a change in one of them only.   *)
IdleIsDurable == pc = "idle" /\ up = "up" => Durable = mem

(* What a restart would load changes in one step only, the commit of an    *)
(* index, and to that index: neither a power failure in any other step nor *)
(* a failed call nor the recovery itself changes or loses it.              *)
DurableChangesByCommit ==
    [][Durable' # Durable =>
           pc = "commit" /\ tx.at = Index /\ Durable' = tx.new]_storeVars

Copy(l, m) ==
    IF HoldsPayload(files[l].live, m) THEN files[l].live
    ELSE IF HoldsPayload(files[l].bak, m) THEN files[l].bak
    ELSE NoFile

Stored(m) == IF Copy(Hot(m), m) # NoFile THEN Copy(Hot(m), m) ELSE Copy(Archive(m), m)

(* "A message is durable only when both its payload and the conversation   *)
(* index are committed": every message a restart would list has a payload  *)
(* in one of the tiers, in the middle of every transaction too.            *)
ListedIsStored ==
    HasArchive => \A m \in Indexed(Durable) : Stored(m) # NoFile

(* As long as a listed message has not been archived, the generation that  *)
(* would be read is never older than the last state that was saved or      *)
(* updated with success, whichever generations failures have left, unless  *)
(* a recovery has put it back since then because it could not read the     *)
(* live file.  (Once it is archived it may be: see NoOldStateReturns.)     *)
CurrentState(m) == Stored(m) # NoFile => Stored(m).state \in meant[m]

HotStateIsCurrent ==
    HasArchive => \A m \in Indexed(Durable) :
                      files[Archive(m)] = NoFiles => CurrentState(m)

(* Whichever calls of the filesystem fail, and however often, every call   *)
(* of the store returns.                                                   *)
CallsReturn == pc # "idle" ~> pc = "idle"

(* Documented expectations the code does not meet.                         *)

(* "Only the file location changes" when a message is archived: the state  *)
(* that is read stays the last one that was saved or updated.              *)
NoOldStateReturns == \A m \in Indexed(Durable) : CurrentState(m)

(* "Never truncate the only committed index in place": a disk whose index  *)
(* lists messages keeps an index.                                          *)
IndexIsKept ==
    [][Indexed(Durable) # {} => files'[Index] # NoFiles]_storeVars

(* commit_index() "rewrites the whole index file": it never drops messages *)
(* from the index on disk.                                                 *)
RewriteKeepsMessages ==
    [][job.op = "rewrite" => Indexed(Durable) \subseteq Indexed(Durable')]_storeVars

(* "The state field is kept in sync": the cache shows the stored state.    *)
CachedIsStored ==
    pc = "idle" => \A m \in Indexed(mem) :
        cache[m] # Uncached /\ Stored(m) # NoFile => cache[m] = Stored(m).state

(* "Deletion of a message, conversation, or the whole store evicts the     *)
(* affected slots": only listed messages are served from the cache.        *)
CachedIsListed ==
    pc = "idle" => \A m \in Msg : cache[m] # Uncached => m \in Indexed(mem)

(* "The durable index no longer references this message": no file of a     *)
(* message that is listed is removed as unreferenced.                      *)
OnlyUnlistedRemoved ==
    [][\A l \in Location :
           /\ pc = "tidy"
           /\ files[l].live # NoFile
           /\ files'[l].live = NoFile
           => files[l].live.msg \notin Indexed(Durable)]_storeVars
=============================================================================
