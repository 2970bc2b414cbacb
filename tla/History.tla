--------------------------------- MODULE History ---------------------------------
(*********************************************************************************)
(* The history of items that the laptop and its phones have sent each other, the *)
(* files that belong to it, and items.json: ItemStore, saveUpload, the handlers  *)
(* that send, delete and clear, the start of a process and its end at any moment.*)
(*                                                                               *)
(* An upload is an action when its checks are passed (its .part file exists from *)
(* then on) and another one when its last byte is there or it breaks.  Files are *)
(* of size 1: the limit of the outbox is a number of files.  The content of a    *)
(* file is named by the upload that brought it, and so is its entry.             *)
(*********************************************************************************)
EXTENDS Integers, FiniteSets, SequencesExt, Maps

CONSTANTS Phone,
          Name,          \* what sanitizeFilename makes of the names that clients give
          PartName,      \* those that end in ".part"
          MaxHistory,    \* limits.maxHistory
          MaxOutbox,     \* limits.maxOutboxBytes
          MaxItems,      \* bound: items and uploads begun
          MaxUploads,    \* bound: uploads at one time
          DiskMayFail    \* whether items.json may be impossible to write

ASSUME HistoryAssumption == /\ PartName \subseteq Name
                            /\ MaxHistory \in Nat \ {0} /\ MaxOutbox \in Nat \ {0}
                            /\ MaxItems \in Nat /\ MaxUploads \in Nat \ {0}
                            /\ DiskMayFail \in BOOLEAN

VARIABLES items,      \* the history in memory, oldest first
          saved,      \* items.json
          disk,       \* Map: path of a finished file -> the upload it came from
          uploads,    \* Map: upload that passed its checks -> who sends what to whom
          lastId,     \* ids 1..lastId are used
          \* History variables.
          promised,   \* items whose sender was told 201 and that nobody removed since
          deleted,    \* ids whose delete was answered 200
          unsaved     \* ids that left memory while items.json still lists them: the
                      \* removal was not saved, or the file was missing at the start

vars == <<items, saved, disk, uploads, lastId, promised, deleted, unsaved>>

Side == {"phone", "laptop"}

Path == {"received", "outbox"} \X Name \X Nat

Item == [id : Nat, device : Phone, from : Side, path : Path \cup {<<>>}]  \* <<>>: a text

Ids(seq) == {it.id : it \in ToSet(seq)}

\* Laptop-to-phone files live in the outbox, the others in the user's folder.
Dir(from) == IF from = "laptop" THEN "outbox" ELSE "received"

InOutbox(it) == it.path # <<>> /\ it.from = "laptop"

outboxBytes == Cardinality({it \in ToSet(items) : InOutbox(it)})

Init == /\ items = <<>> /\ saved = <<>> /\ disk = EmptyMap /\ uploads = EmptyMap
        /\ lastId = 0
        /\ promised = {} /\ deleted = {} /\ unsaved = {}

---------------------------------------------------------------------------------
(* ItemStore.                                                                    *)

\* Mutant: only the entry goes.
Dispose_Nothing(files, doomed) == files

\* Of the entries that go, the files in the outbox go too.
Dispose(files, doomed) == Without(files, {it.path : it \in {i \in doomed : InOutbox(i)}})

Saves(ok) == ok \/ DiskMayFail

\* What is settled once items.json is written: only the entries that are back stay open.
StillOpen(seq) == unsaved \cap Ids(seq)

\* The oldest entries of a history that is too long.
Pruned(seq) == IF Len(seq) > MaxHistory THEN SubSeq(seq, 1, Len(seq) - MaxHistory) ELSE <<>>

\* Mutant: an entry is acknowledged before it is saved.
add_Early(item, files, ok) ==
    LET all == Append(items, item)
        old == Pruned(all)
    IN  /\ items' = SubSeq(all, Len(old) + 1, Len(all))
        /\ disk' = Dispose(files, ToSet(old))
        /\ saved' = IF ok THEN items' ELSE saved
        /\ promised' = {it \in promised \cup {item} : it.id \notin Ids(old)}
        /\ unsaved' = IF ok THEN StillOpen(items') ELSE unsaved \cup Ids(old)

\* add, with the files that are on the disk by now; not ok: _save throws at the end.
add(item, files, ok) ==
    LET all == Append(items, item)
        old == Pruned(all)
    IN  /\ items' = SubSeq(all, Len(old) + 1, Len(all))
        /\ disk' = Dispose(files, ToSet(old))
        /\ saved' = IF ok THEN items' ELSE saved
        /\ promised' = {it \in promised \cup (IF ok THEN {item} ELSE {}) : it.id \notin Ids(old)}
        /\ unsaved' = IF ok THEN StillOpen(items') ELSE unsaved \cup Ids(old)

Rest(ids) == Only(items, {it \in ToSet(items) : it.id \notin ids})

\* Mutant: the file is written before the entries leave memory.
Written_Before(ids) == items

\* What _save writes when these entries have left memory.
Written(ids) == Rest(ids)

\* remove for each of a sequence of entries: n of them are saved, and when these are
\* not all, the next one leaves memory and disk and its _save throws.
removeEach(doomed, n) ==
    LET thrown == IF n < Len(doomed) THEN {doomed[n + 1].id} ELSE {}
        done == Ids(SubSeq(doomed, 1, n))
    IN  /\ items' = Rest(done \cup thrown)
        /\ disk' = Dispose(disk, {it \in ToSet(doomed) : it.id \in done \cup thrown})
        /\ saved' = IF n > 0 THEN Written(done) ELSE saved
        /\ promised' = {it \in promised : it.id \notin done \cup thrown}
        /\ deleted' = deleted \cup done
        /\ unsaved' = (IF n > 0 THEN StillOpen(items') ELSE unsaved) \cup thrown

---------------------------------------------------------------------------------
(* The handlers.                                                                 *)

sendText(d, from, ok) ==
    /\ lastId < MaxItems
    /\ Saves(ok)
    /\ lastId' = lastId + 1
    /\ add([id |-> lastId', device |-> d, from |-> from, path |-> <<>>], disk, ok)
    /\ UNCHANGED <<uploads, deleted>>

\* Mutant: what is being sent is not counted.
QuotaAllows_Off == outboxBytes <= MaxOutbox

QuotaAllows == outboxBytes + 1 <= MaxOutbox

\* The checks of saveUpload: the quota counts what is in the history now.
UploadBegins(d, from, name) ==
    /\ lastId < MaxItems
    /\ Cardinality(DOMAIN uploads) < MaxUploads
    /\ from = "laptop" => QuotaAllows
    /\ lastId' = lastId + 1
    /\ uploads' = With(uploads, lastId', [device |-> d, from |-> from, name |-> name])
    /\ UNCHANGED <<items, saved, disk, promised, deleted, unsaved>>

\* Mutant: an existing file is overwritten.
uniquePath_First(dir, name) == <<dir, name, 0>>

\* The first of "name", "name (1)", "name (2)"... that no file has.
uniquePath(dir, name) ==
    LET free == {n \in 0..Cardinality(DOMAIN disk) : <<dir, name, n>> \notin DOMAIN disk}
    IN  <<dir, name, CHOOSE n \in free : \A k \in free : n <= k>>

FinalPath(u) == uniquePath(Dir(uploads[u].from), uploads[u].name)

Entry(u) == [id |-> u, device |-> uploads[u].device, from |-> uploads[u].from, path |-> FinalPath(u)]

\* Everything was received: the file gets its name, and its entry in the same turn.
UploadEnds(u, ok) ==
    /\ u \in DOMAIN uploads
    /\ Saves(ok)
    /\ uploads' = Without(uploads, {u})
    /\ add(Entry(u), With(disk, FinalPath(u), u), ok)
    /\ UNCHANGED <<lastId, deleted>>

\* Interrupted, too long or too short: the .part file is removed.
UploadFails(u) == /\ u \in DOMAIN uploads
                  /\ uploads' = Without(uploads, {u})
                  /\ UNCHANGED <<items, saved, disk, lastId, promised, deleted, unsaved>>

\* A phone deletes its own items only, the laptop any.
MayDelete(who, it) == who \in {"laptop", it.device}

deleteItem(who, it, ok) ==
    /\ it \in ToSet(items)
    /\ MayDelete(who, it)
    /\ Saves(ok)
    /\ removeEach(<<it>>, IF ok THEN 1 ELSE 0)
    /\ UNCHANGED <<uploads, lastId>>

\* 200 too when the history has no such entry.
deleteItemAgain(id) == /\ id \in 1..lastId \ (Ids(items) \cup DOMAIN uploads)
                       /\ deleted' = deleted \cup {id}
                       /\ UNCHANGED <<items, saved, disk, uploads, lastId, promised, unsaved>>

\* The entries of one phone, or of all.
Doomed(whose) == Only(items, {it \in ToSet(items) : it.device \in whose})

\* clear, of one phone's items or of all; saves what it can before a write fails.
clearHistory(whose, n) ==
    /\ Doomed(whose) # <<>>
    /\ n \in 0..Len(Doomed(whose))
    /\ Saves(n = Len(Doomed(whose)))
    /\ removeEach(Doomed(whose), n)
    /\ UNCHANGED <<uploads, lastId>>

---------------------------------------------------------------------------------
(* The process ends and starts again; the user.                                  *)

\* What the disk may hold when the process ends: also in the middle of a handler, when
\* a file has its name and no entry, or an entry has lost its file but is still saved.
DisksAtEnd ==
    LET Renamed(u) == With(disk, FinalPath(u), u)
        Oldest(u) == ToSet(Pruned(Append(items, Entry(u))))
    IN  {disk} \cup {Renamed(u) : u \in DOMAIN uploads}
               \cup {Dispose(Renamed(u), Oldest(u)) : u \in DOMAIN uploads}
               \cup {Dispose(disk, {it}) : it \in ToSet(items)}

\* sweepPartFiles, in both folders: any file of such a name.
Swept(files) == Without(files, {p \in DOMAIN files : p[2] \in PartName})

\* The entries whose file is there.
load == Only(saved, {it \in ToSet(saved) : it.path # <<>> => it.path \in DOMAIN disk'})

Restart == /\ \E files \in DisksAtEnd : disk' = Swept(files)
           /\ items' = load
           /\ uploads' = EmptyMap
           /\ unsaved' = unsaved \cup (Ids(saved) \ Ids(items'))
           /\ UNCHANGED <<saved, lastId, promised, deleted>>

\* The user removes a received file from the folder, which is the user's.
UserRemoves(path) == /\ path \in DOMAIN disk
                     /\ path[1] = "received"
                     /\ disk' = Without(disk, {path})
                     /\ UNCHANGED <<items, saved, uploads, lastId, promised, deleted, unsaved>>

Next == \/ \E d \in Phone, from \in Side :
              \/ \E ok \in BOOLEAN : sendText(d, from, ok)
              \/ \E name \in Name : UploadBegins(d, from, name)
        \/ \E u \in DOMAIN uploads : UploadFails(u) \/ \E ok \in BOOLEAN : UploadEnds(u, ok)
        \/ \E it \in ToSet(items), who \in Phone \cup {"laptop"}, ok \in BOOLEAN : deleteItem(who, it, ok)
        \/ \E id \in 1..lastId : deleteItemAgain(id)
        \/ \E whose \in {{d} : d \in Phone} \cup {Phone}, n \in 0..MaxHistory : clearHistory(whose, n)
        \/ Restart
        \/ \E path \in DOMAIN disk : UserRemoves(path)

Spec == Init /\ [][Next]_vars

---------------------------------------------------------------------------------
\* Types; the history is not longer than it may be, and lists no entry twice.
TypeOK == /\ items \in Seq(Item) /\ saved \in Seq(Item)
          /\ Len(items) <= MaxHistory /\ IsInjective(items)
          /\ IsMap(disk, Path, Nat)
          /\ lastId \in Nat
          /\ IsMap(uploads, 1..lastId, [device : Phone, from : Side, name : Name])
          /\ promised \subseteq Item /\ deleted \subseteq 1..lastId /\ unsaved \subseteq 1..lastId

\* An item whose sender was told 201 is in the history and in items.json until it is
\* deleted, cleared or pruned, or its file is lost (store.js add; a restart loads it).
AcknowledgedIsKept ==
    \A it \in promised :
        \/ it \in ToSet(items) \cap ToSet(saved)
        \/ it.path # <<>> /\ ~(it.path \in DOMAIN disk /\ disk[it.path] = it.id)

\* A delete that was answered 200 is final, whatever happens later; except when an
\* earlier removal of the same entry failed to be saved (store.js remove).
DeletedIsGone == deleted \cap Ids(items) \subseteq unsaved

\* Each entry for a file in the outbox has that very file, whatever else was uploaded,
\* deleted, pruned or cut by a crash; except an entry that came back although memory
\* had lost it (store.js:28, where a start forgets entries without saving).
EntriesHaveTheirFiles ==
    \A it \in ToSet(items) : InOutbox(it) =>
        it.id \in unsaved \/ (it.path \in DOMAIN disk /\ disk[it.path] = it.id)

\* Uploads that begin while the outbox has room are let in together: it may get too
\* full by one file for each other upload that goes on, and by no more (transfers.js:46).
QuotaExceededOnlyByOverlap ==
    /\ TypeOK
    /\ outboxBytes + Cardinality({u \in DOMAIN uploads : uploads[u].from = "laptop"})
          <= MaxOutbox + MaxUploads - 1

Orphans(files, seq) == {p \in DOMAIN files : p[1] = "outbox" /\ p \notin {it.path : it \in ToSet(seq)}}

\* No handler leaves a file in the outbox that no entry lists, and that nothing would
\* ever remove: only the end of a process does.
OrphansOnlyByCrash == [][Orphans(disk', items') \subseteq Orphans(disk, items) \/ Restart]_vars

\* What test/transfers.test.js says of the sweep at the start: it "removes leftovers
\* from a crash and nothing else"; so only the user removes a received file.  (Broken
\* for a file whose own name ends in .part.)
ReceivedFilesStay ==
    [][\A p \in DOMAIN disk \ DOMAIN disk' : p[1] = "received" => UserRemoves(p)]_vars

\* What protocol.md:115 says of DELETE: safe to repeat.  (Broken when the first one was
\* not saved: the repeat finds nothing, is answered 200, and a restart brings it back.)
RepeatedDeleteIsFinal == deleted \cap Ids(items) = {}

\* What transfers.md:21 says: an upload is rejected before anything is written when it
\* exceeds the quota.  (Broken by uploads that overlap.)
QuotaHolds == outboxBytes <= MaxOutbox
=================================================================================
