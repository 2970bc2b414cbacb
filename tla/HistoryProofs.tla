----------------------------- MODULE HistoryProofs -----------------------------
(*********************************************************************************)
(* Proofs about History, for any number of phones, items, files and uploads, and *)
(* any limits; and about PhoneList, the list that a phone makes of it.           *)
(*********************************************************************************)
EXTENDS PhoneList, MapTheorems

---------------------------------------------------------------------------------
(* The inductive invariant.                                                      *)

\* The entries in memory and in items.json.
Entries == ToSet(items) \cup ToSet(saved)

\* An id names one entry, and none that is still being sent.
IdsInv == /\ \A a \in Entries : a.id \in 1..lastId \ DOMAIN uploads
          /\ \A a, b \in Entries : a.id = b.id => a = b
          /\ \A it \in promised : it.id \in 1..lastId \ DOMAIN uploads
          /\ deleted \cap DOMAIN uploads = {}

\* items.json is a history that was in memory; what it lists and memory does not is known.
SavedInv == /\ Len(saved) <= MaxHistory /\ IsInjective(saved)
            /\ Ids(saved) \ Ids(items) \subseteq unsaved

\* No two entries of a list share a file of the outbox.
OwnFiles(entries) == \A a, b \in entries : InOutbox(a) /\ a.path = b.path => a = b

\* Files lie where their sender's side says, and each entry in memory for one in the
\* outbox has some file.
PathsInv == /\ IsFiniteSet(DOMAIN disk)
            /\ \A a \in Entries : a.path # <<>> => a.path[1] = Dir(a.from)
            /\ OwnFiles(ToSet(items)) /\ OwnFiles(ToSet(saved))
            /\ \A it \in ToSet(items) : InOutbox(it) => it.path \in DOMAIN disk

\* How full the outbox may get, also by a restart.
OutboxOf(entries) == {it \in entries : InOutbox(it)}

Sending == {u \in DOMAIN uploads : uploads[u].from = "laptop"}

QuotaInv == /\ Cardinality(OutboxOf(ToSet(items))) + Cardinality(Sending) <= MaxOutbox + MaxUploads - 1
            /\ Cardinality(OutboxOf(ToSet(saved))) <= MaxOutbox + MaxUploads - 1

HistoryInv == /\ TypeOK /\ IdsInv /\ SavedInv /\ PathsInv /\ QuotaInv
              /\ AcknowledgedIsKept /\ EntriesHaveTheirFiles /\ DeletedIsGone

---------------------------------------------------------------------------------
(* Files.                                                                        *)

\* The name that uniquePath finds is one that no file has: among one name more than
\* there are files, one is free, and then there is a first one.
LEMMA UniquePathIsFree ==
  ASSUME IsFiniteSet(DOMAIN disk), NEW dir, NEW name
  PROVE  \E n \in Nat : uniquePath(dir, name) = <<dir, name, n>> /\ <<dir, name, n>> \notin DOMAIN disk
<1> DEFINE m == Cardinality(DOMAIN disk)
           free == {n \in 0..m : <<dir, name, n>> \notin DOMAIN disk}
           f == [n \in 0..m |-> <<dir, name, n>>]
<1>1. m \in Nat /\ IsFiniteSet(0..m) /\ Cardinality(0..m) = m + 1
  <2>1. m \in Nat
    BY FS_CardinalityType
  <2> HIDE DEF m
  <2> QED BY <2>1, UpToN
<1>2. free # {}
  <2> SUFFICES ASSUME \A n \in 0..m : <<dir, name, n>> \in DOMAIN disk PROVE FALSE
    OBVIOUS
  <2>1. f \in [0..m -> DOMAIN disk]
    OBVIOUS
  <2>2. \A x, y \in 0..m : f[x] = f[y] => x = y
    OBVIOUS
  <2>3. Cardinality(DOMAIN disk) < Cardinality(0..m)
    BY <1>1
  <2> HIDE DEF f, m
  <2> QED BY <1>1, <2>1, <2>2, <2>3, FS_PigeonHole
<1>3. \E n \in free : \A k \in free : n <= k
  <2>1. free \in SUBSET (0..m)
    OBVIOUS
  <2> HIDE DEF free, m
  <2> QED BY <1>1, <1>2, <2>1, Least
<1> DEFINE first == CHOOSE n \in free : \A k \in free : n <= k
<1>4. first \in free
  <2> HIDE DEF free
  <2> QED BY <1>3
<1>5. uniquePath(dir, name) = <<dir, name, first>>
  BY DEF uniquePath
<1>6. first \in Nat /\ <<dir, name, first>> \notin DOMAIN disk
  <2> HIDE DEF first
  <2> QED BY <1>1, <1>4
<1> HIDE DEF first
<1> QED BY <1>5, <1>6

---------------------------------------------------------------------------------
(* What the operations do to the entries, as sets.                               *)

\* add: the new entry joins, the oldest go, and a list is written.
Added(item, files, ok, old) ==
    /\ old \subseteq ToSet(items) \cup {item}
    /\ items' \in Seq(Item) /\ Len(items') <= MaxHistory /\ IsInjective(items')
    /\ ToSet(items') = (ToSet(items) \cup {item}) \ old
    /\ disk' = Dispose(files, old)
    /\ \/ /\ ok
          /\ saved' = items'
          /\ promised' = {it \in promised \cup {item} : it.id \notin {o.id : o \in old}}
          /\ unsaved' = unsaved \cap Ids(items')
       \/ /\ ~ok
          /\ saved' = saved
          /\ promised' = {it \in promised : it.id \notin {o.id : o \in old}}
          /\ unsaved' = unsaved \cup {o.id : o \in old}

\* add, with every list it prunes, is this.
LEMMA AddEffect ==
  ASSUME items \in Seq(Item), IsInjective(items),
         NEW item \in Item, item \notin ToSet(items), NEW files, NEW ok \in BOOLEAN,
         add(item, files, ok)
  PROVE  \E old : Added(item, files, ok, old)
<1> DEFINE all == Append(items, item)
<1>1. /\ all \in Seq(Item) /\ IsInjective(all)
      /\ ToSet(all) = ToSet(items) \cup {item}
  BY PushProperties
<1>2. PICK n \in Nat : n = Len(all)
  BY <1>1, LenProperties
<1>3. PICK m \in 0..n : m = (IF n > MaxHistory THEN n - MaxHistory ELSE 0)
  BY <1>2, HistoryAssumption
<1>4. n - m <= MaxHistory
  BY <1>2, <1>3, HistoryAssumption
<1> DEFINE first == SubSeq(all, 1, m)
           rest == SubSeq(all, m + 1, n)
<1>5. /\ first \in Seq(Item) /\ Len(first) = m
      /\ rest \in Seq(Item) /\ Len(rest) = n - m /\ IsInjective(rest)
      /\ ToSet(all) = ToSet(first) \cup ToSet(rest) /\ ToSet(first) \cap ToSet(rest) = {}
  <2> HIDE DEF all
  <2> QED BY <1>1, <1>2, <1>3, CutProperties
<1>6. Pruned(all) = first
  <2>1. CASE n > MaxHistory
    BY <1>2, <1>3, <2>1 DEF Pruned
  <2>2. CASE ~ (n > MaxHistory)
    <3>1. Pruned(all) = <<>> /\ m = 0
      BY <1>2, <1>3, <2>2 DEF Pruned
    <3>2. SubSeq(all, 1, 0) = <<>>
      BY SubSeqEmpty
    <3> QED BY <3>1, <3>2
  <2> QED BY <2>1, <2>2
<1>7. items' = rest /\ disk' = Dispose(files, ToSet(first))
  BY <1>2, <1>5, <1>6 DEF add
<1>8. /\ ok => /\ saved' = items'
               /\ promised' = {it \in promised \cup {item} : it.id \notin Ids(first)}
               /\ unsaved' = unsaved \cap Ids(items')
      /\ ~ok => /\ saved' = saved
                /\ promised' = {it \in promised : it.id \notin Ids(first)}
                /\ unsaved' = unsaved \cup Ids(first)
  BY <1>6 DEF add, StillOpen
<1> HIDE DEF first, rest, all
<1>9. Ids(first) = {o.id : o \in ToSet(first)}
  BY DEF Ids
<1>10. Added(item, files, ok, ToSet(first))
  BY <1>1, <1>4, <1>5, <1>7, <1>8, <1>9 DEF Added
<1> QED BY <1>10

\* remove, of each of some entries: the files of those that go go with them, and what was
\* written last lists the one whose removal was not saved.
Removed(done, thrown) ==
    /\ done \subseteq Ids(items) /\ thrown \subseteq Ids(items)
    /\ items' \in Seq(Item) /\ Len(items') <= Len(items) /\ IsInjective(items')
    /\ ToSet(items') = {it \in ToSet(items) : it.id \notin done \cup thrown}
    /\ disk' = Dispose(disk, {it \in ToSet(items) : it.id \in done \cup thrown})
    /\ promised' = {it \in promised : it.id \notin done \cup thrown}
    /\ deleted' = deleted \cup done
    /\ \/ /\ saved' \in Seq(Item) /\ Len(saved') <= Len(items) /\ IsInjective(saved')
          /\ ToSet(saved') = {it \in ToSet(items) : it.id \notin done}
          /\ unsaved' = (unsaved \cap Ids(items')) \cup thrown
       \/ saved' = saved /\ unsaved' = unsaved \cup thrown /\ done = {}

\* What splicing some entries out leaves.
LEMMA RestProperties ==
  ASSUME items \in Seq(Item), IsInjective(items), NEW ids
  PROVE  /\ Rest(ids) \in Seq(Item) /\ Len(Rest(ids)) <= Len(items) /\ IsInjective(Rest(ids))
         /\ ToSet(Rest(ids)) = {it \in ToSet(items) : it.id \notin ids}
<1> DEFINE kept == {it \in ToSet(items) : it.id \notin ids}
<1>1. Rest(ids) = Only(items, kept)
  BY DEF Rest
<1>2. ToSet(items) \cap kept = kept /\ Len(items) \in Nat
  BY LenProperties
<1> HIDE DEF kept
<1>3. /\ Only(items, kept) \in Seq(Item)
      /\ Len(Only(items, kept)) \in 0..Len(items)
      /\ ToSet(Only(items, kept)) = ToSet(items) \cap kept
      /\ IsInjective(items) => IsInjective(Only(items, kept))
  BY OnlyProperties
<1> QED BY <1>1, <1>2, <1>3 DEF kept

\* So is remove of each of some entries, of which a number is saved.
LEMMA RemoveEffect ==
  ASSUME items \in Seq(Item), IsInjective(items),
         \A a, b \in ToSet(items) : a.id = b.id => a = b,
         NEW doomed \in Seq(Item), ToSet(doomed) \subseteq ToSet(items), NEW n \in 0..Len(doomed),
         removeEach(doomed, n)
  PROVE  \E done, thrown : Removed(done, thrown)
<1> DEFINE done == Ids(SubSeq(doomed, 1, n))
           thrown == IF n < Len(doomed) THEN {doomed[n + 1].id} ELSE {}
<1>1. Len(doomed) \in Nat /\ DOMAIN doomed = 1..Len(doomed)
  BY LenProperties
<1>2. done \subseteq Ids(doomed) /\ (n = 0 => done = {})
  <2>1. ToSet(SubSeq(doomed, 1, n)) \subseteq ToSet(doomed)
    BY CutProperties
  <2>2. n = 0 => SubSeq(doomed, 1, n) = <<>>
    BY SubSeqEmpty
  <2>3. Ids(<<>>) = {}
    BY DEF Ids, ToSet
  <2> QED BY <2>1, <2>2, <2>3 DEF Ids
<1>3. thrown \subseteq Ids(doomed)
  <2>1. n < Len(doomed) => n + 1 \in DOMAIN doomed
    BY <1>1
  <2> QED BY <2>1 DEF Ids, ToSet
<1>4. /\ items' = Rest(done \cup thrown)
      /\ disk' = Dispose(disk, {it \in ToSet(doomed) : it.id \in done \cup thrown})
      /\ saved' = IF n > 0 THEN Rest(done) ELSE saved
      /\ promised' = {it \in promised : it.id \notin done \cup thrown}
      /\ deleted' = deleted \cup done
      /\ unsaved' = (IF n > 0 THEN unsaved \cap Ids(items') ELSE unsaved) \cup thrown
  BY DEF removeEach, Written, StillOpen
<1> HIDE DEF done, thrown
<1>5. {it \in ToSet(doomed) : it.id \in done \cup thrown} = {it \in ToSet(items) : it.id \in done \cup thrown}
  BY <1>2, <1>3 DEF Ids
<1>6. done \subseteq Ids(items) /\ thrown \subseteq Ids(items)
  BY <1>2, <1>3 DEF Ids
<1>7. /\ items' \in Seq(Item) /\ Len(items') <= Len(items) /\ IsInjective(items')
      /\ ToSet(items') = {it \in ToSet(items) : it.id \notin done \cup thrown}
  BY <1>4, RestProperties
<1>8. CASE n > 0
  <2>1. /\ saved' \in Seq(Item) /\ Len(saved') <= Len(items) /\ IsInjective(saved')
        /\ ToSet(saved') = {it \in ToSet(items) : it.id \notin done}
    BY <1>4, <1>8, RestProperties
  <2>2. unsaved' = (unsaved \cap Ids(items')) \cup thrown
    BY <1>4, <1>8
  <2>3. Removed(done, thrown)
    BY <1>4, <1>5, <1>6, <1>7, <2>1, <2>2 DEF Removed
  <2> QED BY <2>3
<1>9. CASE n = 0
  <2>1. saved' = saved /\ unsaved' = unsaved \cup thrown /\ done = {}
    BY <1>2, <1>4, <1>9
  <2>2. Removed(done, thrown)
    BY <1>4, <1>5, <1>6, <1>7, <2>1 DEF Removed
  <2> QED BY <2>2
<1> QED BY <1>1, <1>8, <1>9

---------------------------------------------------------------------------------
(* Adding an entry keeps the invariant.                                          *)

\* The counts of the quota are numbers.
LEMMA CountsAreNumbers ==
  ASSUME TypeOK
  PROVE  /\ IsFiniteSet(OutboxOf(ToSet(items))) /\ Cardinality(OutboxOf(ToSet(items))) \in Nat
         /\ IsFiniteSet(OutboxOf(ToSet(saved))) /\ Cardinality(OutboxOf(ToSet(saved))) \in Nat
         /\ IsFiniteSet(Sending) /\ Cardinality(Sending) \in Nat
<1>1. /\ OutboxOf(ToSet(items)) \in SUBSET ToSet(items) /\ OutboxOf(ToSet(saved)) \in SUBSET ToSet(saved)
      /\ IsFiniteSet(ToSet(items)) /\ IsFiniteSet(ToSet(saved))
  BY ListFinite DEF OutboxOf, TypeOK
<1>2. Sending \in SUBSET (1..lastId) /\ IsFiniteSet(1..lastId)
  <2>1. PICK n \in Nat : n = lastId
    BY DEF TypeOK
  <2> QED BY <2>1, UpToN DEF Sending, TypeOK, IsMap
<1> QED BY <1>1, <1>2, FS_Subset, FS_CardinalityType

\* A text has no path.
LEMMA NoPath == <<>> \notin Path
BY DEF Path

\* An entry that can be added: it is new, its file, if it has one, is there by now under
\* a name of its own, and its upload is over.
Fits(item, files) ==
    /\ item \in Item
    /\ item.id \in 1..lastId' \ DOMAIN uploads'
    /\ \A a \in Entries \cup promised : a.id # item.id
    /\ item.id \notin deleted
    /\ lastId' \in Nat /\ lastId <= lastId'
    /\ IsMap(uploads', 1..lastId', [device : Phone, from : Side, name : Name])
    /\ DOMAIN uploads' \subseteq DOMAIN uploads
    /\ Cardinality(Sending') \in Nat
    /\ Cardinality(Sending') <= Cardinality(Sending)
    /\ InOutbox(item) => Cardinality(Sending') + 1 <= Cardinality(Sending)
    /\ item.path # <<>> => item.path[1] = Dir(item.from)
    /\ IsMap(files, Path, Nat) /\ IsFiniteSet(DOMAIN files)
    /\ \A p \in DOMAIN disk : p \in DOMAIN files /\ files[p] = disk[p]
    /\ \/ item.path = <<>> /\ DOMAIN files = DOMAIN disk
       \/ /\ item.path \notin DOMAIN disk
          /\ DOMAIN files = DOMAIN disk \cup {item.path} /\ files[item.path] = item.id
    /\ deleted' = deleted

\* Deleting files leaves the others.
LEMMA DisposeProperties ==
  ASSUME NEW files, IsMap(files, Path, Nat), IsFiniteSet(DOMAIN files), NEW doomed
  PROVE  /\ IsMap(Dispose(files, doomed), Path, Nat) /\ IsFiniteSet(DOMAIN Dispose(files, doomed))
         /\ DOMAIN Dispose(files, doomed) \subseteq DOMAIN files
         /\ \A p \in DOMAIN files :
               /\ (\A it \in doomed : InOutbox(it) => it.path # p) => p \in DOMAIN Dispose(files, doomed)
               /\ p \in DOMAIN Dispose(files, doomed) =>
                     /\ Dispose(files, doomed)[p] = files[p]
                     /\ \A it \in doomed : InOutbox(it) => it.path # p
<1> DEFINE gone == {it.path : it \in {i \in doomed : InOutbox(i)}}
<1>1. Dispose(files, doomed) = Without(files, gone)
  BY DEF Dispose
<1>2. \A p : p \in gone <=> \E it \in doomed : InOutbox(it) /\ it.path = p
  OBVIOUS
<1> HIDE DEF gone
<1>3. /\ IsMap(Without(files, gone), Path, Nat)
      /\ DOMAIN Without(files, gone) = DOMAIN files \ gone
      /\ \A j \in DOMAIN files \ gone : Without(files, gone)[j] = files[j]
  BY WithoutProperties
<1>4. IsFiniteSet(DOMAIN files \ gone)
  <2>1. DOMAIN files \ gone \in SUBSET DOMAIN files
    OBVIOUS
  <2> QED BY <2>1, FS_Subset
<1> QED BY <1>1, <1>2, <1>3, <1>4

\* Types.
LEMMA AddTypes ==
  ASSUME HistoryInv, NEW item, NEW files, NEW ok, NEW old, Fits(item, files), Added(item, files, ok, old)
  PROVE  TypeOK' /\ IsFiniteSet(DOMAIN disk') /\ lastId' \in Nat
<1>1. IsMap(disk', Path, Nat) /\ IsFiniteSet(DOMAIN disk')
  BY DisposeProperties DEF Fits, Added
<1>2. promised' \subseteq Item /\ deleted' \subseteq 1..lastId'
  BY DEF Fits, Added, HistoryInv, TypeOK
<1>3. unsaved' \subseteq 1..lastId'
  <2>1. unsaved \subseteq 1..lastId' /\ \A o \in old : o.id \in 1..lastId'
    BY DEF Fits, Added, HistoryInv, TypeOK, IdsInv, Entries
  <2>2. unsaved' \subseteq unsaved \cup {o.id : o \in old}
    BY DEF Added
  <2> QED BY <2>1, <2>2
<1>4. saved' \in Seq(Item)
  BY DEF Added, HistoryInv, TypeOK
<1> QED BY <1>1, <1>2, <1>3, <1>4 DEF Fits, Added, TypeOK

\* Ids.
LEMMA AddIds ==
  ASSUME HistoryInv, NEW item, NEW files, NEW ok, NEW old, Fits(item, files), Added(item, files, ok, old)
  PROVE  IdsInv' /\ Entries' \subseteq Entries \cup {item} /\ promised' \subseteq promised \cup {item}
<1>1. Entries' \subseteq Entries \cup {item} /\ promised' \subseteq promised \cup {item}
  BY DEF Entries, Added
<1>2. \A a \in Entries \cup {item} \cup promised : a.id \in 1..lastId' \ DOMAIN uploads'
  BY DEF HistoryInv, IdsInv, Fits, TypeOK
<1>3. \A a, b \in Entries \cup {item} : a.id = b.id => a = b
  BY DEF HistoryInv, IdsInv, Fits
<1>4. deleted' \cap DOMAIN uploads' = {}
  BY DEF HistoryInv, IdsInv, Fits
<1> QED BY <1>1, <1>2, <1>3, <1>4 DEF IdsInv

\* The list in items.json, and what is deleted.
LEMMA AddSaved ==
  ASSUME HistoryInv, NEW item, NEW files, NEW ok, NEW old, Fits(item, files), Added(item, files, ok, old)
  PROVE  SavedInv' /\ DeletedIsGone'
<1>1. CASE saved' = items' /\ unsaved' = unsaved \cap Ids(items')
  <2>1. SavedInv'
    BY <1>1 DEF SavedInv, Ids, Added
  <2>2. \A d \in deleted' : d \in Ids(items') => d \in Ids(items)
    BY DEF Fits, Added, Ids
  <2> QED BY <1>1, <2>1, <2>2 DEF DeletedIsGone, Fits, HistoryInv
<1>2. CASE saved' = saved /\ unsaved' = unsaved \cup {o.id : o \in old}
  <2>1. Ids(saved') \ Ids(items') \subseteq unsaved'
    BY <1>2 DEF Added, Ids, HistoryInv, SavedInv
  <2>2. SavedInv'
    BY <1>2, <2>1 DEF HistoryInv, SavedInv
  <2>3. \A d \in deleted' : d \in Ids(items') => d \in Ids(items)
    BY DEF Fits, Added, Ids
  <2> QED BY <1>2, <2>2, <2>3 DEF DeletedIsGone, Fits, HistoryInv
<1> QED BY <1>1, <1>2 DEF Added

\* The files of the entries: none of those that go shares one with those that stay.
LEMMA AddPaths ==
  ASSUME HistoryInv, NEW item, NEW files, NEW ok, NEW old, Fits(item, files), Added(item, files, ok, old)
  PROVE  PathsInv' /\ EntriesHaveTheirFiles'
<1> DEFINE all == ToSet(items) \cup {item}
<1>1. \A a \in Entries \cup {item} : a.path # <<>> => a.path[1] = Dir(a.from)
  BY DEF HistoryInv, PathsInv, Fits
<1>2. \A a \in all : InOutbox(a) => a.path \in DOMAIN files
  BY DEF HistoryInv, PathsInv, Fits, InOutbox
<1>3. OwnFiles(all)
  <2>1. \A a \in ToSet(items) : a.path = item.path => ~InOutbox(a) /\ ~InOutbox(item)
    <3> SUFFICES ASSUME NEW a \in ToSet(items), a.path = item.path, InOutbox(a) \/ InOutbox(item)
                 PROVE  FALSE
      OBVIOUS
    <3>1. a.path # <<>> /\ item.path \notin DOMAIN disk
      BY DEF InOutbox, Fits
    <3>2. Dir(a.from) = Dir(item.from) /\ a.from \in Side /\ item.from \in Side
      <4>1. ToSet(items) \subseteq Item /\ item \in Item
        BY ElementOfSeq, LenProperties DEF HistoryInv, TypeOK, ToSet, Fits
      <4> QED BY <1>1, <3>1, <4>1 DEF Entries, Item
    <3>3. InOutbox(a)
      BY <3>1, <3>2 DEF InOutbox, Dir, Side
    <3> QED BY <3>1, <3>3 DEF HistoryInv, PathsInv
  <2> QED BY <2>1 DEF HistoryInv, PathsInv, OwnFiles
<1>4. \A a \in ToSet(items') : /\ a \in all /\ a \notin old
                              /\ \A o \in old : InOutbox(o) => o \in all /\ o.path # a.path
  BY <1>3 DEF Added, OwnFiles
<1>5. \A a \in ToSet(items') : InOutbox(a) => a.path \in DOMAIN disk' /\ disk'[a.path] = files[a.path]
  BY <1>2, <1>4, DisposeProperties DEF Added, Fits
<1>6. PathsInv'
  <2>1. ToSet(items') \subseteq all /\ (saved' = items' \/ saved' = saved)
    BY DEF Added
  <2>2. OwnFiles(ToSet(items')) /\ OwnFiles(ToSet(saved'))
    BY <1>3, <2>1 DEF OwnFiles, HistoryInv, PathsInv
  <2>3. \A a \in Entries' : a.path # <<>> => a.path[1] = Dir(a.from)
    BY <1>1, <2>1 DEF Entries
  <2>4. IsFiniteSet(DOMAIN disk')
    BY AddTypes
  <2> QED BY <1>5, <2>2, <2>3, <2>4 DEF PathsInv
<1>7. EntriesHaveTheirFiles'
  <2> SUFFICES ASSUME NEW a \in ToSet(items'), InOutbox(a)
               PROVE  a.id \in unsaved' \/ (a.path \in DOMAIN disk' /\ disk'[a.path] = a.id)
    BY DEF EntriesHaveTheirFiles
  <2>1. a.path \in DOMAIN disk' /\ disk'[a.path] = files[a.path]
    BY <1>5
  <2>2. CASE a = item
    BY <2>1, <2>2 DEF Fits, InOutbox
  <2>3. CASE a \in ToSet(items)
    <3>1. a.id \in unsaved \/ (a.path \in DOMAIN disk /\ disk[a.path] = a.id)
      BY <2>3 DEF HistoryInv, EntriesHaveTheirFiles
    <3>2. a.id \in unsaved => a.id \in unsaved'
      BY DEF Added, Ids
    <3> QED BY <2>1, <3>1, <3>2 DEF Fits
  <2> QED BY <2>2, <2>3 DEF Added
<1> QED BY <1>6, <1>7

\* The quota: what joins the history is no longer being sent.
LEMMA AddQuota ==
  ASSUME HistoryInv, NEW item, NEW files, NEW ok, NEW old, Fits(item, files), Added(item, files, ok, old)
  PROVE  QuotaInv'
<1> DEFINE before == OutboxOf(ToSet(items))
           after == OutboxOf(ToSet(items'))
           most == before \cup (IF InOutbox(item) THEN {item} ELSE {})
<1>1. after \in SUBSET most
  BY DEF Added, OutboxOf
<1>2. /\ IsFiniteSet(before) /\ Cardinality(before) \in Nat /\ Cardinality(Sending) \in Nat
      /\ Cardinality(before) + Cardinality(Sending) <= MaxOutbox + MaxUploads - 1
  BY CountsAreNumbers DEF HistoryInv, QuotaInv
<1> HIDE DEF before, after
<1>3. /\ IsFiniteSet(most) /\ Cardinality(most) \in Nat
      /\ Cardinality(most) <= Cardinality(before) + (IF InOutbox(item) THEN 1 ELSE 0)
  <2>1. CASE InOutbox(item)
    <3>0. /\ IsFiniteSet(before \cup {item})
          /\ Cardinality(before \cup {item})
                = IF item \in before THEN Cardinality(before) ELSE Cardinality(before) + 1
      BY <1>2, FS_AddElement
    <3>1. IsFiniteSet(before \cup {item}) /\ Cardinality(before \cup {item}) <= Cardinality(before) + 1
      BY <1>2, <3>0
    <3>2. Cardinality(before \cup {item}) \in Nat
      BY <3>1, FS_CardinalityType
    <3> QED BY <2>1, <3>1, <3>2
  <2>2. CASE ~InOutbox(item)
    BY <1>2, <2>2
  <2> QED BY <2>1, <2>2
<1> HIDE DEF most
<1>4. Cardinality(after) \in Nat /\ Cardinality(after) <= Cardinality(most)
  BY <1>1, <1>3, FS_Subset, FS_CardinalityType
<1>5. Cardinality(after) + Cardinality(Sending') <= MaxOutbox + MaxUploads - 1
  BY <1>2, <1>3, <1>4, HistoryAssumption DEF Fits
<1>6. Cardinality(after) <= MaxOutbox + MaxUploads - 1
  BY <1>4, <1>5, HistoryAssumption DEF Fits
<1> QED BY <1>5, <1>6 DEF QuotaInv, Added, HistoryInv, after

\* What was acknowledged.
LEMMA AddAcknowledged ==
  ASSUME HistoryInv, NEW item, NEW files, NEW ok, NEW old, Fits(item, files), Added(item, files, ok, old)
  PROVE  AcknowledgedIsKept'
<1> SUFFICES ASSUME NEW it \in promised'
             PROVE  \/ it \in ToSet(items') \cap ToSet(saved')
                    \/ it.path # <<>> /\ ~(it.path \in DOMAIN disk' /\ disk'[it.path] = it.id)
  BY DEF AcknowledgedIsKept
<1>1. it \notin old
  BY DEF Added
<1>2. CASE it = item /\ saved' = items'
  BY <1>1, <1>2 DEF Added
<1>3. CASE it \in promised
  <2>1. CASE it \in ToSet(items) \cap ToSet(saved)
    BY <1>1, <2>1 DEF Added
  <2>2. CASE it.path # <<>> /\ ~(it.path \in DOMAIN disk /\ disk[it.path] = it.id)
    <3>1. it.id # item.id
      BY <1>3 DEF Fits
    <3>2. ~(it.path \in DOMAIN files /\ files[it.path] = it.id)
      BY <2>2, <3>1 DEF Fits
    <3> QED BY <2>2, <3>2, DisposeProperties DEF Added, Fits
  <2> QED BY <1>3, <2>1, <2>2 DEF HistoryInv, AcknowledgedIsKept
<1> QED BY <1>2, <1>3 DEF Added

\* Together, and: a file in the outbox whose entry goes goes with it.
LEMMA AddKeeps ==
  ASSUME HistoryInv, NEW item, NEW files, NEW ok \in BOOLEAN, Fits(item, files), add(item, files, ok)
  PROVE  HistoryInv' /\ Orphans(disk', items') \subseteq Orphans(disk, items)
<1>1. PICK old : Added(item, files, ok, old)
  <2>1. item \in Item /\ item \notin ToSet(items) /\ items \in Seq(Item) /\ IsInjective(items)
    BY DEF Fits, Entries, HistoryInv, TypeOK
  <2> QED BY <2>1, AddEffect
<1>2. HistoryInv'
  BY <1>1, AddTypes, AddIds, AddSaved, AddPaths, AddQuota, AddAcknowledged DEF HistoryInv
<1>3. ASSUME NEW p \in Orphans(disk', items')
      PROVE  p \in Orphans(disk, items)
  <2>1. /\ p \in DOMAIN disk' /\ p[1] = "outbox" /\ \A it \in ToSet(items') : it.path # p
    BY DEF Orphans
  <2>2. p \in DOMAIN files /\ \A it \in old : InOutbox(it) => it.path # p
    BY <1>1, <2>1, DisposeProperties DEF Added, Fits
  <2>3. ASSUME NEW it \in ToSet(items) \cup {item}, it.path = p PROVE FALSE
    <3>1. it \in old
      BY <1>1, <2>1, <2>3 DEF Added
    <3>2. it.path # <<>> /\ it.path[1] = Dir(it.from)
      <4>1. it.path # <<>>
        BY <2>2, <2>3, NoPath DEF Fits, IsMap
      <4> QED BY <4>1 DEF Fits, HistoryInv, PathsInv, Entries
    <3>3. it.from = "laptop"
      BY <2>1, <2>3, <3>2 DEF Dir
    <3> QED BY <2>2, <2>3, <3>1, <3>2, <3>3 DEF InOutbox
  <2>4. p \in DOMAIN disk
    BY <2>2, <2>3 DEF Fits
  <2> QED BY <2>1, <2>3, <2>4 DEF Orphans
<1> QED BY <1>2, <1>3

---------------------------------------------------------------------------------
(* Removing entries keeps it.                                                    *)

\* The types and the ids.
LEMMA RemoveTypes ==
  ASSUME HistoryInv, NEW done, NEW thrown, Removed(done, thrown), UNCHANGED <<uploads, lastId>>
  PROVE  TypeOK' /\ IsFiniteSet(DOMAIN disk') /\ IdsInv' /\ Entries' \subseteq Entries
<1>1. IsMap(disk', Path, Nat) /\ IsFiniteSet(DOMAIN disk')
  BY DisposeProperties DEF Removed, HistoryInv, TypeOK, PathsInv
<1>2. saved' \in Seq(Item) /\ promised' \subseteq promised /\ promised \subseteq Item
  BY DEF Removed, HistoryInv, TypeOK
<1>3. done \subseteq 1..lastId \ DOMAIN uploads /\ thrown \subseteq 1..lastId
  BY DEF Removed, HistoryInv, IdsInv, Entries, Ids
<1>4. deleted' \subseteq 1..lastId' /\ unsaved' \subseteq 1..lastId'
  BY <1>3 DEF Removed, HistoryInv, TypeOK
<1>5. Len(items') <= MaxHistory
  <2>1. Len(items) \in Nat /\ Len(items') \in Nat
    BY LenProperties DEF Removed, HistoryInv, TypeOK
  <2> QED BY <2>1, HistoryAssumption DEF Removed, HistoryInv, TypeOK
<1>6. TypeOK'
  BY <1>1, <1>2, <1>4, <1>5 DEF Removed, HistoryInv, TypeOK
<1>7. ToSet(items') \subseteq ToSet(items) /\ ToSet(saved') \subseteq Entries
  BY DEF Removed, Entries
<1>8. Entries' \subseteq Entries
  BY <1>7 DEF Entries
<1>9. IdsInv'
  BY <1>2, <1>3, <1>8 DEF Removed, HistoryInv, IdsInv
<1> QED BY <1>1, <1>6, <1>8, <1>9

\* The list in items.json, what is deleted, and what was acknowledged.
LEMMA RemoveSaved ==
  ASSUME HistoryInv, NEW done, NEW thrown, Removed(done, thrown), UNCHANGED <<uploads, lastId>>
  PROVE  SavedInv' /\ DeletedIsGone' /\ AcknowledgedIsKept'
<1>1. Len(saved') <= MaxHistory /\ IsInjective(saved')
  <2>1. CASE saved' = saved
    BY <2>1 DEF HistoryInv, SavedInv
  <2>2. CASE Len(saved') <= Len(items) /\ IsInjective(saved') /\ saved' \in Seq(Item)
    <3>1. Len(items) \in Nat /\ Len(saved') \in Nat
      BY <2>2, LenProperties DEF HistoryInv, TypeOK
    <3> QED BY <2>2, <3>1, HistoryAssumption DEF HistoryInv, TypeOK
  <2> QED BY <2>1, <2>2 DEF Removed
<1>2. Ids(saved') \ Ids(items') \subseteq unsaved'
  BY DEF Removed, Ids, HistoryInv, SavedInv
<1>3. DeletedIsGone'
  <2> SUFFICES ASSUME NEW d \in deleted', d \in Ids(items') PROVE d \in unsaved'
    BY DEF DeletedIsGone
  <2>1. d \notin done \cup thrown /\ d \in Ids(items)
    BY DEF Removed, Ids
  <2>2. d \in deleted /\ d \in unsaved
    BY <2>1 DEF Removed, HistoryInv, DeletedIsGone
  <2> QED BY <2>2 DEF Removed
<1>4. AcknowledgedIsKept'
  <2> SUFFICES ASSUME NEW it \in promised'
               PROVE  \/ it \in ToSet(items') \cap ToSet(saved')
                      \/ it.path # <<>> /\ ~(it.path \in DOMAIN disk' /\ disk'[it.path] = it.id)
    BY DEF AcknowledgedIsKept
  <2>1. it \in promised /\ it.id \notin done \cup thrown
    BY DEF Removed
  <2>2. CASE it \in ToSet(items) \cap ToSet(saved)
    BY <2>1, <2>2 DEF Removed
  <2>3. CASE it.path # <<>> /\ ~(it.path \in DOMAIN disk /\ disk[it.path] = it.id)
    BY <2>3, DisposeProperties DEF Removed, HistoryInv, TypeOK, PathsInv
  <2> QED BY <2>1, <2>2, <2>3 DEF HistoryInv, AcknowledgedIsKept
<1> QED BY <1>1, <1>2, <1>3, <1>4 DEF SavedInv

\* The files.
LEMMA RemovePaths ==
  ASSUME HistoryInv, NEW done, NEW thrown, Removed(done, thrown), UNCHANGED <<uploads, lastId>>
  PROVE  PathsInv' /\ EntriesHaveTheirFiles'
<1>1. ToSet(items') \subseteq ToSet(items) /\ (ToSet(saved') \subseteq ToSet(items) \/ saved' = saved)
  BY DEF Removed
<1>2. \A a \in ToSet(items') : InOutbox(a) =>
         /\ a.path \in DOMAIN disk
         /\ \A o \in ToSet(items) : o.id \in done \cup thrown /\ InOutbox(o) => o.path # a.path
  BY DEF Removed, HistoryInv, PathsInv, OwnFiles
<1>3. \A a \in ToSet(items') : InOutbox(a) => a.path \in DOMAIN disk' /\ disk'[a.path] = disk[a.path]
  BY <1>2, DisposeProperties DEF Removed, HistoryInv, TypeOK, PathsInv
<1>4. OwnFiles(ToSet(items')) /\ OwnFiles(ToSet(saved'))
  BY <1>1 DEF OwnFiles, HistoryInv, PathsInv
<1>5. \A a \in Entries' : a.path # <<>> => a.path[1] = Dir(a.from)
  BY RemoveTypes DEF HistoryInv, PathsInv
<1>6. PathsInv'
  BY <1>3, <1>4, <1>5, RemoveTypes DEF PathsInv
<1>7. EntriesHaveTheirFiles'
  <2> SUFFICES ASSUME NEW a \in ToSet(items'), InOutbox(a)
               PROVE  a.id \in unsaved' \/ (a.path \in DOMAIN disk' /\ disk'[a.path] = a.id)
    BY DEF EntriesHaveTheirFiles
  <2>1. a.id \in unsaved \/ (a.path \in DOMAIN disk /\ disk[a.path] = a.id)
    BY <1>1 DEF HistoryInv, EntriesHaveTheirFiles
  <2>2. a.id \in unsaved => a.id \in unsaved'
    BY DEF Removed, Ids
  <2> QED BY <1>3, <2>1, <2>2
<1> QED BY <1>6, <1>7

\* The counts of a smaller history are smaller.
LEMMA FewerInOutbox ==
  ASSUME NEW E, NEW F, E \subseteq F, IsFiniteSet(OutboxOf(F)), NEW n \in Int, Cardinality(OutboxOf(F)) <= n
  PROVE  /\ Cardinality(OutboxOf(E)) \in Nat /\ Cardinality(OutboxOf(E)) <= Cardinality(OutboxOf(F))
         /\ Cardinality(OutboxOf(E)) <= n
<1>1. OutboxOf(E) \in SUBSET OutboxOf(F)
  BY DEF OutboxOf
<1>2. IsFiniteSet(OutboxOf(E)) /\ Cardinality(OutboxOf(E)) <= Cardinality(OutboxOf(F))
  BY <1>1, FS_Subset
<1>3. Cardinality(OutboxOf(E)) \in Nat /\ Cardinality(OutboxOf(F)) \in Nat
  BY <1>2, FS_CardinalityType
<1> QED BY <1>2, <1>3

\* The quota, when nothing new is sent and no entry is new.
LEMMA FewerQuota ==
  ASSUME HistoryInv, ToSet(items') \subseteq ToSet(items) \/ (Sending' = {} /\ ToSet(items') \subseteq ToSet(saved)),
         ToSet(saved') \subseteq ToSet(items) \/ ToSet(saved') \subseteq ToSet(saved),
         Sending' \subseteq Sending
  PROVE  QuotaInv'
<1> DEFINE most == MaxOutbox + MaxUploads - 1
<1>1. most \in Int
  BY HistoryAssumption
<1>2. /\ IsFiniteSet(OutboxOf(ToSet(items))) /\ Cardinality(OutboxOf(ToSet(items))) \in Nat
      /\ IsFiniteSet(OutboxOf(ToSet(saved))) /\ Cardinality(OutboxOf(ToSet(saved))) \in Nat
      /\ IsFiniteSet(Sending) /\ Cardinality(Sending) \in Nat
      /\ Cardinality(OutboxOf(ToSet(items))) + Cardinality(Sending) <= most
      /\ Cardinality(OutboxOf(ToSet(saved))) <= most
  BY CountsAreNumbers DEF HistoryInv, QuotaInv
<1> HIDE DEF most
<1>3. Cardinality(OutboxOf(ToSet(items))) <= most
  BY <1>1, <1>2
<1>4. Cardinality(Sending') \in Nat /\ Cardinality(Sending') <= Cardinality(Sending)
  BY <1>2, FS_Subset, FS_CardinalityType
<1>5. Cardinality(OutboxOf(ToSet(saved'))) <= most
  <2>1. CASE ToSet(saved') \subseteq ToSet(items)
    BY <1>1, <1>2, <1>3, <2>1, FewerInOutbox
  <2>2. CASE ToSet(saved') \subseteq ToSet(saved)
    BY <1>1, <1>2, <2>2, FewerInOutbox
  <2> QED BY <2>1, <2>2
<1>6. Cardinality(OutboxOf(ToSet(items'))) + Cardinality(Sending') <= most
  <2>1. CASE ToSet(items') \subseteq ToSet(items)
    <3>1. /\ Cardinality(OutboxOf(ToSet(items'))) \in Nat
          /\ Cardinality(OutboxOf(ToSet(items'))) <= Cardinality(OutboxOf(ToSet(items)))
      BY <1>1, <1>2, <1>3, <2>1, FewerInOutbox
    <3> QED BY <1>1, <1>2, <1>4, <3>1
  <2>2. CASE Sending' = {} /\ ToSet(items') \subseteq ToSet(saved)
    <3>1. Cardinality(OutboxOf(ToSet(items'))) \in Nat /\ Cardinality(OutboxOf(ToSet(items'))) <= most
      BY <1>1, <1>2, <2>2, FewerInOutbox
    <3>2. Cardinality(Sending') = 0
      BY <2>2, FS_EmptySet
    <3> QED BY <3>1, <3>2
  <2> QED BY <2>1, <2>2
<1>7. OutboxOf(ToSet(items))' = OutboxOf(ToSet(items')) /\ OutboxOf(ToSet(saved))' = OutboxOf(ToSet(saved'))
  BY DEF OutboxOf
<1> QED BY <1>5, <1>6, <1>7 DEF QuotaInv, most

\* Together, and: a file in the outbox whose entry goes goes with it.
LEMMA RemoveKeeps ==
  ASSUME HistoryInv, NEW done, NEW thrown, Removed(done, thrown), UNCHANGED <<uploads, lastId>>
  PROVE  HistoryInv' /\ Orphans(disk', items') \subseteq Orphans(disk, items)
<1>1. QuotaInv'
  <2>1. ToSet(items') \subseteq ToSet(items) /\ (ToSet(saved') \subseteq ToSet(items) \/ saved' = saved)
    BY DEF Removed
  <2>2. Sending' = Sending
    BY DEF Sending
  <2> QED BY <2>1, <2>2, FewerQuota
<1>2. HistoryInv'
  BY <1>1, RemoveTypes, RemoveSaved, RemovePaths DEF HistoryInv
<1>3. ASSUME NEW p \in Orphans(disk', items')
      PROVE  p \in Orphans(disk, items)
  <2>1. p \in DOMAIN disk' /\ p[1] = "outbox" /\ \A it \in ToSet(items') : it.path # p
    BY DEF Orphans
  <2>2. /\ p \in DOMAIN disk /\ p \in Path
        /\ \A it \in ToSet(items) : it.id \in done \cup thrown /\ InOutbox(it) => it.path # p
    BY <2>1, DisposeProperties DEF Removed, HistoryInv, TypeOK, PathsInv, IsMap
  <2>3. ASSUME NEW it \in ToSet(items), it.path = p PROVE FALSE
    <3>1. it.id \in done \cup thrown
      BY <2>1, <2>3 DEF Removed
    <3>2. it.path # <<>> /\ it.path[1] = Dir(it.from)
      BY <2>2, <2>3, NoPath DEF HistoryInv, PathsInv, Entries
    <3>3. it.from = "laptop"
      BY <2>1, <2>3, <3>2 DEF Dir
    <3> QED BY <2>2, <2>3, <3>1, <3>2, <3>3 DEF InOutbox
  <2> QED BY <2>1, <2>2, <2>3 DEF Orphans
<1> QED BY <1>2, <1>3

---------------------------------------------------------------------------------
(* Each handler keeps it.                                                        *)

\* A set of names of uploads has a number of members.
LEMMA SomeUploads ==
  ASSUME TypeOK, NEW S \in SUBSET DOMAIN uploads
  PROVE  IsFiniteSet(S) /\ Cardinality(S) \in Nat
<1>1. PICK n \in Nat : n = lastId
  BY DEF TypeOK
<1>2. S \in SUBSET (1..n) /\ IsFiniteSet(1..n)
  BY <1>1, UpToN DEF TypeOK, IsMap
<1> QED BY <1>2, FS_Subset, FS_CardinalityType

\* One more id is drawn: what was an id is one.
LEMMA OneMoreId ==
  ASSUME TypeOK, lastId' = lastId + 1
  PROVE  /\ lastId' \in Nat /\ lastId <= lastId' /\ lastId' \in 1..lastId'
         /\ 1..lastId \subseteq 1..lastId' /\ lastId' \notin 1..lastId
<1>1. lastId \in Nat
  BY DEF TypeOK
<1> QED BY <1>1

\* A text.
LEMMA SendTextKeeps ==
  ASSUME HistoryInv, NEW d \in Phone, NEW from \in Side, NEW ok \in BOOLEAN, sendText(d, from, ok)
  PROVE  HistoryInv' /\ Orphans(disk', items') \subseteq Orphans(disk, items)
<1> DEFINE item == [id |-> lastId', device |-> d, from |-> from, path |-> <<>>]
<1>1. add(item, disk, ok) /\ lastId' = lastId + 1 /\ uploads' = uploads /\ deleted' = deleted
  BY DEF sendText
<1>2. /\ lastId' \in Nat /\ lastId <= lastId' /\ lastId' \in 1..lastId'
      /\ 1..lastId \subseteq 1..lastId' /\ lastId' \notin 1..lastId
  BY <1>1, OneMoreId DEF HistoryInv
<1>3. item \in Item /\ item.id = lastId' /\ item.path = <<>> /\ ~InOutbox(item)
  BY <1>2 DEF Item, InOutbox
<1> HIDE DEF item
<1>4. IsMap(uploads', 1..lastId', [device : Phone, from : Side, name : Name])
  BY <1>1, <1>2, IsMapMonotonic DEF HistoryInv, TypeOK
<1>5. /\ DOMAIN uploads \subseteq 1..lastId /\ deleted \subseteq 1..lastId
      /\ \A a \in Entries \cup promised : a.id \in 1..lastId
  BY DEF HistoryInv, TypeOK, IdsInv, IsMap
<1>6. Sending' = Sending /\ Cardinality(Sending) \in Nat
  BY <1>1, CountsAreNumbers DEF Sending, HistoryInv
<1>7. Cardinality(Sending') \in Nat /\ Cardinality(Sending') <= Cardinality(Sending)
  BY <1>6
<1>8. IsMap(disk, Path, Nat) /\ IsFiniteSet(DOMAIN disk)
  BY DEF HistoryInv, TypeOK, PathsInv
<1>9. /\ item.id \in 1..lastId' \ DOMAIN uploads'
      /\ \A a \in Entries \cup promised : a.id # item.id
      /\ item.id \notin deleted
  BY <1>1, <1>2, <1>3, <1>5
<1>10. Fits(item, disk)
  BY <1>1, <1>2, <1>3, <1>4, <1>7, <1>8, <1>9 DEF Fits
<1> QED BY <1>1, <1>10, AddKeeps

\* An upload that is let in: the outbox has room for one more, and there are not yet
\* MaxUploads of them.
LEMMA UploadBeginsKeeps ==
  ASSUME HistoryInv, NEW d \in Phone, NEW from \in Side, NEW name \in Name, UploadBegins(d, from, name)
  PROVE  HistoryInv' /\ Orphans(disk', items') \subseteq Orphans(disk, items)
<1> DEFINE upload == [device |-> d, from |-> from, name |-> name]
           Upload == [device : Phone, from : Side, name : Name]
<1>1. /\ lastId' = lastId + 1 /\ uploads' = With(uploads, lastId', upload)
      /\ UNCHANGED <<items, saved, disk, promised, deleted, unsaved>>
      /\ Cardinality(DOMAIN uploads) < MaxUploads
      /\ from = "laptop" => outboxBytes + 1 <= MaxOutbox
  BY DEF UploadBegins, QuotaAllows
<1>2. /\ lastId' \in Nat /\ lastId <= lastId' /\ lastId' \in 1..lastId'
      /\ 1..lastId \subseteq 1..lastId' /\ lastId' \notin 1..lastId
  BY <1>1, OneMoreId DEF HistoryInv
<1>3. upload \in Upload /\ upload.from = from
  OBVIOUS
<1> HIDE DEF upload, Upload
<1>4. IsMap(uploads, 1..lastId', Upload)
  BY <1>2, IsMapMonotonic DEF HistoryInv, TypeOK, Upload
<1>5. /\ IsMap(uploads', 1..lastId', Upload)
      /\ DOMAIN uploads' = DOMAIN uploads \cup {lastId'}
      /\ uploads'[lastId'] = upload
      /\ \A u \in DOMAIN uploads : u # lastId' => uploads'[u] = uploads[u]
  <2> DEFINE Used == 1..lastId'
  <2>1. PICK k \in Used : k = lastId'
    BY <1>2
  <2>0. IsMap(uploads, Used, Upload)
    BY <1>4
  <2> HIDE DEF Used
  <2>2. /\ IsMap(With(uploads, k, upload), Used, Upload)
        /\ DOMAIN With(uploads, k, upload) = DOMAIN uploads \cup {k}
        /\ With(uploads, k, upload)[k] = upload
        /\ \A u \in DOMAIN uploads : u # k => With(uploads, k, upload)[u] = uploads[u]
    <3>1. upload \in Upload
      BY <1>3
    <3>2. k \in Used
      BY <2>1
    <3> QED BY <2>0, <3>1, <3>2 DEF IsMap, With
  <2> QED BY <1>1, <2>1, <2>2 DEF Used
<1>6. lastId' \notin DOMAIN uploads
  BY <1>2 DEF HistoryInv, TypeOK, IsMap
<1>7. TypeOK'
  BY <1>1, <1>2, <1>5 DEF HistoryInv, TypeOK, Upload
<1>8. IdsInv'
  <2>1. Entries' = Entries /\ promised' = promised /\ deleted' = deleted
    BY <1>1 DEF Entries
  <2>2. \A i \in 1..lastId \ DOMAIN uploads : i \in 1..lastId' \ DOMAIN uploads'
    BY <1>2, <1>5
  <2>3. deleted \cap DOMAIN uploads' = {}
    BY <1>2, <1>5 DEF HistoryInv, IdsInv, TypeOK
  <2> QED BY <2>1, <2>2, <2>3 DEF HistoryInv, IdsInv
<1>9. QuotaInv'
  <2>1. Sending' = IF from = "laptop" THEN Sending \cup {lastId'} ELSE Sending
    BY <1>3, <1>5, <1>6 DEF Sending
  <2>2. IsFiniteSet(Sending) /\ Cardinality(Sending) \in Nat /\ Sending \in SUBSET DOMAIN uploads
    BY CountsAreNumbers DEF HistoryInv, Sending
  <2>3. OutboxOf(ToSet(items))' = OutboxOf(ToSet(items)) /\ OutboxOf(ToSet(saved))' = OutboxOf(ToSet(saved))
    BY <1>1 DEF OutboxOf
  <2>4. Cardinality(Sending) <= Cardinality(DOMAIN uploads) /\ Cardinality(DOMAIN uploads) \in Nat
    <3>1. IsFiniteSet(DOMAIN uploads) /\ Cardinality(DOMAIN uploads) \in Nat
      BY SomeUploads DEF HistoryInv
    <3> QED BY <2>2, <3>1, FS_Subset
  <2>5. outboxBytes = Cardinality(OutboxOf(ToSet(items))) /\ Cardinality(OutboxOf(ToSet(items))) \in Nat
    BY CountsAreNumbers DEF outboxBytes, OutboxOf, HistoryInv
  <2>6. CASE from = "laptop"
    <3>1. lastId' \notin Sending
      BY <1>6 DEF Sending
    <3>2. Cardinality(Sending') = Cardinality(Sending) + 1
      BY <2>1, <2>2, <2>6, <3>1, FS_AddElement
    <3>3. /\ Cardinality(OutboxOf(ToSet(items))) + 1 <= MaxOutbox
          /\ Cardinality(Sending) + 1 <= MaxUploads
      BY <1>1, <2>2, <2>4, <2>5, <2>6, HistoryAssumption
    <3>4. Cardinality(OutboxOf(ToSet(items))) + Cardinality(Sending') <= MaxOutbox + MaxUploads - 1
      BY <2>2, <2>5, <3>2, <3>3, HistoryAssumption
    <3> QED BY <2>3, <3>4 DEF HistoryInv, QuotaInv
  <2>7. CASE from # "laptop"
    BY <2>1, <2>3, <2>7 DEF HistoryInv, QuotaInv
  <2> QED BY <2>6, <2>7
<1>10. SavedInv' /\ PathsInv' /\ AcknowledgedIsKept' /\ EntriesHaveTheirFiles' /\ DeletedIsGone'
  BY <1>1 DEF HistoryInv, SavedInv, PathsInv, Entries, OwnFiles, AcknowledgedIsKept,
              EntriesHaveTheirFiles, DeletedIsGone
<1> QED BY <1>1, <1>7, <1>8, <1>9, <1>10 DEF HistoryInv

\* What an upload that ends leaves of the uploads.
LEMMA EndedUpload ==
  ASSUME HistoryInv, NEW u \in DOMAIN uploads, uploads' = Without(uploads, {u}), lastId' = lastId
  PROVE  /\ IsMap(uploads', 1..lastId', [device : Phone, from : Side, name : Name])
         /\ DOMAIN uploads' \subseteq DOMAIN uploads /\ u \notin DOMAIN uploads'
         /\ Sending' \subseteq Sending
         /\ Cardinality(Sending') \in Nat /\ Cardinality(Sending') <= Cardinality(Sending)
         /\ uploads[u].from = "laptop" => Cardinality(Sending') + 1 <= Cardinality(Sending)
<1>1. /\ IsMap(uploads', 1..lastId, [device : Phone, from : Side, name : Name])
      /\ DOMAIN uploads' = DOMAIN uploads \ {u}
      /\ \A v \in DOMAIN uploads \ {u} : uploads'[v] = uploads[v]
  BY WithoutProperties DEF HistoryInv, TypeOK
<1>2. Sending' = Sending \ {u}
  BY <1>1 DEF Sending
<1>3. IsFiniteSet(Sending) /\ Cardinality(Sending) \in Nat
  BY CountsAreNumbers DEF HistoryInv
<1>4. IsFiniteSet(Sending \ {u}) /\ Cardinality(Sending \ {u}) = (IF u \in Sending THEN Cardinality(Sending) - 1 ELSE Cardinality(Sending))
  BY <1>3, FS_RemoveElement
<1>5. Cardinality(Sending') \in Nat
  BY <1>2, <1>4, FS_CardinalityType
<1>6. Cardinality(Sending') <= Cardinality(Sending)
  BY <1>2, <1>3, <1>4
<1>7. ASSUME uploads[u].from = "laptop" PROVE Cardinality(Sending') + 1 <= Cardinality(Sending)
  <2>1. u \in Sending
    BY <1>7 DEF Sending
  <2>2. Cardinality(Sending') = Cardinality(Sending) - 1
    BY <1>2, <1>4, <2>1
  <2> QED BY <1>3, <2>2
<1>8. IsMap(uploads', 1..lastId', [device : Phone, from : Side, name : Name])
  BY <1>1
<1> QED BY <1>1, <1>2, <1>5, <1>6, <1>7, <1>8

\* An upload that fails.
LEMMA UploadFailsKeeps ==
  ASSUME HistoryInv, NEW u, UploadFails(u)
  PROVE  HistoryInv' /\ Orphans(disk', items') \subseteq Orphans(disk, items)
<1>1. /\ u \in DOMAIN uploads /\ uploads' = Without(uploads, {u})
      /\ UNCHANGED <<items, saved, disk, lastId, promised, deleted, unsaved>>
  BY DEF UploadFails
<1>2. /\ IsMap(uploads', 1..lastId', [device : Phone, from : Side, name : Name])
      /\ DOMAIN uploads' \subseteq DOMAIN uploads
      /\ Sending' \subseteq Sending
  BY <1>1, EndedUpload
<1>3. TypeOK'
  BY <1>1, <1>2 DEF HistoryInv, TypeOK
<1>4. IdsInv'
  <2>1. Entries' = Entries
    BY <1>1 DEF Entries
  <2> QED BY <1>1, <1>2, <2>1 DEF HistoryInv, IdsInv
<1>5. QuotaInv'
  BY <1>1, <1>2, FewerQuota
<1>6. SavedInv' /\ PathsInv' /\ AcknowledgedIsKept' /\ EntriesHaveTheirFiles' /\ DeletedIsGone'
  BY <1>1 DEF HistoryInv, SavedInv, PathsInv, Entries, OwnFiles, AcknowledgedIsKept,
              EntriesHaveTheirFiles, DeletedIsGone
<1> QED BY <1>1, <1>3, <1>4, <1>5, <1>6 DEF HistoryInv

\* The name a finished upload gets, and its entry.
LEMMA FinalPathIsFree ==
  ASSUME HistoryInv, NEW u \in DOMAIN uploads
  PROVE  /\ FinalPath(u) \in Path /\ FinalPath(u) \notin DOMAIN disk
         /\ FinalPath(u)[1] = Dir(uploads[u].from) /\ FinalPath(u)[2] = uploads[u].name
         /\ Entry(u) \in Item /\ Entry(u).id = u /\ Entry(u).path = FinalPath(u)
         /\ Entry(u).from = uploads[u].from
         /\ u \in Nat /\ u \in 1..lastId
<1>1. u \in 1..lastId /\ uploads[u] \in [device : Phone, from : Side, name : Name]
  BY DEF HistoryInv, TypeOK, IsMap
<1>2. u \in Nat
  BY <1>1 DEF HistoryInv, TypeOK
<1>3. PICK n \in Nat : /\ uniquePath(Dir(uploads[u].from), uploads[u].name)
                             = <<Dir(uploads[u].from), uploads[u].name, n>>
                       /\ <<Dir(uploads[u].from), uploads[u].name, n>> \notin DOMAIN disk
  BY UniquePathIsFree DEF HistoryInv, PathsInv
<1>4. FinalPath(u) = <<Dir(uploads[u].from), uploads[u].name, n>>
  BY <1>3 DEF FinalPath
<1>5. Dir(uploads[u].from) \in {"received", "outbox"} /\ uploads[u].name \in Name
  BY <1>1 DEF Dir
<1>6. FinalPath(u) \in Path
  BY <1>3, <1>4, <1>5 DEF Path
<1>7. Entry(u) \in Item
  BY <1>1, <1>2, <1>6 DEF Entry, Item
<1> QED BY <1>1, <1>2, <1>3, <1>4, <1>6, <1>7 DEF Entry

\* An upload that ends with its file and its entry.
LEMMA UploadEndsKeeps ==
  ASSUME HistoryInv, NEW u, NEW ok \in BOOLEAN, UploadEnds(u, ok)
  PROVE  HistoryInv' /\ Orphans(disk', items') \subseteq Orphans(disk, items)
<1> DEFINE files == With(disk, FinalPath(u), u)
           item == Entry(u)
<1>1. /\ u \in DOMAIN uploads /\ uploads' = Without(uploads, {u})
      /\ add(item, files, ok)
      /\ UNCHANGED <<lastId, deleted>>
  BY DEF UploadEnds
<1>2. /\ IsMap(uploads', 1..lastId', [device : Phone, from : Side, name : Name])
      /\ DOMAIN uploads' \subseteq DOMAIN uploads /\ u \notin DOMAIN uploads'
      /\ Cardinality(Sending') \in Nat /\ Cardinality(Sending') <= Cardinality(Sending)
      /\ uploads[u].from = "laptop" => Cardinality(Sending') + 1 <= Cardinality(Sending)
  BY <1>1, EndedUpload
<1>3. /\ FinalPath(u) \in Path /\ FinalPath(u) \notin DOMAIN disk
      /\ FinalPath(u)[1] = Dir(uploads[u].from)
      /\ item \in Item /\ item.id = u /\ item.path = FinalPath(u) /\ item.from = uploads[u].from
      /\ u \in Nat /\ u \in 1..lastId
  BY <1>1, FinalPathIsFree
<1>4. /\ IsMap(files, Path, Nat)
      /\ DOMAIN files = DOMAIN disk \cup {FinalPath(u)}
      /\ files[FinalPath(u)] = u
      /\ \A p \in DOMAIN disk : p # FinalPath(u) => files[p] = disk[p]
  <2>1. PICK p \in Path : p = FinalPath(u)
    BY <1>3
  <2>2. PICK v \in Nat : v = u
    BY <1>3
  <2>3. /\ IsMap(With(disk, p, v), Path, Nat)
        /\ DOMAIN With(disk, p, v) = DOMAIN disk \cup {p}
        /\ With(disk, p, v)[p] = v
        /\ \A q \in DOMAIN disk : q # p => With(disk, p, v)[q] = disk[q]
    <3>1. IsMap(disk, Path, Nat)
      BY DEF HistoryInv, TypeOK
    <3>2. p \in Path /\ v \in Nat
      BY <2>1, <2>2
    <3> QED BY <3>1, <3>2 DEF IsMap, With
  <2> QED BY <2>1, <2>2, <2>3
<1> HIDE DEF files, item
<1>5. IsFiniteSet(DOMAIN files)
  BY <1>4, FS_AddElement DEF HistoryInv, PathsInv
<1>6. \A p \in DOMAIN disk : p \in DOMAIN files /\ files[p] = disk[p]
  BY <1>3, <1>4
<1>7. item.id \in 1..lastId' \ DOMAIN uploads' /\ (\A a \in Entries \cup promised : a.id # item.id) /\ item.id \notin deleted
  BY <1>1, <1>2, <1>3 DEF HistoryInv, IdsInv
<1>8. lastId' \in Nat /\ lastId <= lastId'
  BY <1>1 DEF HistoryInv, TypeOK
<1>9. InOutbox(item) => Cardinality(Sending') + 1 <= Cardinality(Sending)
  BY <1>2, <1>3 DEF InOutbox
<1>10. /\ item.path \notin DOMAIN disk
       /\ DOMAIN files = DOMAIN disk \cup {item.path} /\ files[item.path] = item.id
  BY <1>3, <1>4
<1>11. item.path # <<>> => item.path[1] = Dir(item.from)
  BY <1>3
<1>12. Fits(item, files)
  BY <1>1, <1>2, <1>3, <1>4, <1>5, <1>6, <1>7, <1>8, <1>9, <1>10, <1>11 DEF Fits
<1> QED BY <1>1, <1>12, AddKeeps

\* A delete.
LEMMA DeleteItemKeeps ==
  ASSUME HistoryInv, NEW it, NEW who, NEW ok \in BOOLEAN, deleteItem(who, it, ok)
  PROVE  HistoryInv' /\ Orphans(disk', items') \subseteq Orphans(disk, items)
<1>1. it \in ToSet(items) /\ UNCHANGED <<uploads, lastId>>
  BY DEF deleteItem
<1>2. PICK n \in 0..1 : removeEach(<<it>>, n)
  BY DEF deleteItem
<1>3. /\ items \in Seq(Item) /\ IsInjective(items)
      /\ \A a, b \in ToSet(items) : a.id = b.id => a = b
  BY DEF HistoryInv, TypeOK, IdsInv, Entries
<1>4. it \in Item
  BY <1>1, <1>3, ElementOfSeq, LenProperties DEF ToSet
<1> DEFINE doomed == <<it>>
<1>5. doomed \in Seq(Item) /\ Len(doomed) = 1 /\ ToSet(doomed) \subseteq ToSet(items)
  BY <1>1, <1>4 DEF ToSet
<1>6. removeEach(doomed, n) /\ n \in 0..Len(doomed)
  BY <1>2, <1>5
<1> HIDE DEF doomed
<1>7. \E done, thrown : Removed(done, thrown)
  BY <1>3, <1>5, <1>6, RemoveEffect
<1> QED BY <1>1, <1>7, RemoveKeeps

\* The same delete again.
LEMMA DeleteItemAgainKeeps ==
  ASSUME HistoryInv, NEW id, deleteItemAgain(id)
  PROVE  HistoryInv' /\ Orphans(disk', items') \subseteq Orphans(disk, items)
<1>1. /\ id \in 1..lastId \ (Ids(items) \cup DOMAIN uploads) /\ deleted' = deleted \cup {id}
      /\ UNCHANGED <<items, saved, disk, uploads, lastId, promised, unsaved>>
  BY DEF deleteItemAgain
<1>2. TypeOK'
  BY <1>1 DEF HistoryInv, TypeOK
<1>3. IdsInv'
  BY <1>1 DEF HistoryInv, IdsInv, Entries
<1>4. QuotaInv'
  BY <1>1 DEF HistoryInv, QuotaInv, Sending, OutboxOf
<1>5. DeletedIsGone'
  BY <1>1 DEF HistoryInv, DeletedIsGone, Ids
<1>6. SavedInv' /\ PathsInv' /\ AcknowledgedIsKept' /\ EntriesHaveTheirFiles'
  BY <1>1 DEF HistoryInv, SavedInv, PathsInv, Entries, OwnFiles, AcknowledgedIsKept, EntriesHaveTheirFiles
<1> QED BY <1>1, <1>2, <1>3, <1>4, <1>5, <1>6 DEF HistoryInv

\* The history of one phone, or all of it, is cleared.
LEMMA ClearHistoryKeeps ==
  ASSUME HistoryInv, NEW whose, NEW n, clearHistory(whose, n)
  PROVE  HistoryInv' /\ Orphans(disk', items') \subseteq Orphans(disk, items)
<1> DEFINE doomed == Doomed(whose)
           chosen == {it \in ToSet(items) : it.device \in whose}
<1>1. removeEach(doomed, n) /\ n \in 0..Len(doomed) /\ UNCHANGED <<uploads, lastId>>
  BY DEF clearHistory
<1>2. /\ items \in Seq(Item) /\ IsInjective(items)
      /\ \A a, b \in ToSet(items) : a.id = b.id => a = b
  BY DEF HistoryInv, TypeOK, IdsInv, Entries
<1>3. doomed = Only(items, chosen)
  BY DEF Doomed
<1> HIDE DEF doomed, chosen
<1>4. doomed \in Seq(Item) /\ ToSet(doomed) = ToSet(items) \cap chosen
  BY <1>2, <1>3, OnlyProperties
<1>5. \E done, thrown : Removed(done, thrown)
  BY <1>1, <1>2, <1>4, RemoveEffect
<1> QED BY <1>1, <1>5, RemoveKeeps

---------------------------------------------------------------------------------
(* The end of a process at any moment and the next start keep it.                *)

\* What a process may leave on the disk: each file was there, or has just got its name.
EndedWith(files) ==
    /\ IsMap(files, Path, Nat) /\ IsFiniteSet(DOMAIN files)
    /\ \A p \in DOMAIN files :
          \/ p \in DOMAIN disk /\ files[p] = disk[p]
          \/ p \notin DOMAIN disk /\ files[p] \in DOMAIN uploads

\* Whatever handler the end of the process cuts.
LEMMA EndOfProcess ==
  ASSUME HistoryInv, NEW files \in DisksAtEnd
  PROVE  EndedWith(files)
<1>1. IsMap(disk, Path, Nat) /\ IsFiniteSet(DOMAIN disk)
  BY DEF HistoryInv, TypeOK, PathsInv
<1>2. EndedWith(disk)
  BY <1>1 DEF EndedWith
<1>3. ASSUME NEW u \in DOMAIN uploads PROVE EndedWith(With(disk, FinalPath(u), u))
  <2> DEFINE renamed == With(disk, FinalPath(u), u)
  <2>1. /\ FinalPath(u) \in Path /\ FinalPath(u) \notin DOMAIN disk /\ u \in Nat
    BY FinalPathIsFree
  <2>2. PICK p \in Path : p = FinalPath(u)
    BY <2>1
  <2>3. p \in Path /\ u \in Nat
    BY <2>1, <2>2
  <2>4. /\ IsMap(With(disk, p, u), Path, Nat)
        /\ DOMAIN With(disk, p, u) = DOMAIN disk \cup {p}
        /\ With(disk, p, u)[p] = u
        /\ \A q \in DOMAIN disk : q # p => With(disk, p, u)[q] = disk[q]
    BY <1>1, <2>3 DEF IsMap, With
  <2>5. /\ IsMap(renamed, Path, Nat)
        /\ DOMAIN renamed = DOMAIN disk \cup {p}
        /\ renamed[p] = u
        /\ \A q \in DOMAIN disk : q # p => renamed[q] = disk[q]
    BY <2>2, <2>4
  <2> HIDE DEF renamed
  <2>6. IsFiniteSet(DOMAIN renamed)
    BY <1>1, <2>5, FS_AddElement
  <2>7. EndedWith(renamed)
    BY <2>1, <2>2, <2>5, <2>6 DEF EndedWith
  <2> QED BY <2>7 DEF renamed
<1>4. ASSUME NEW left, EndedWith(left), NEW doomed PROVE EndedWith(Dispose(left, doomed))
  BY <1>4, DisposeProperties DEF EndedWith
<1>5. \/ files = disk
      \/ \E u \in DOMAIN uploads : files = With(disk, FinalPath(u), u)
      \/ \E u \in DOMAIN uploads :
            files = Dispose(With(disk, FinalPath(u), u), ToSet(Pruned(Append(items, Entry(u)))))
      \/ \E it \in ToSet(items) : files = Dispose(disk, {it})
  BY DEF DisksAtEnd
<1> QED BY <1>2, <1>3, <1>4, <1>5

\* What the next start finds and loads.
LEMMA RestartEffect ==
  ASSUME HistoryInv, Restart
  PROVE  /\ EndedWith(disk')
         /\ items' \in Seq(Item) /\ Len(items') <= MaxHistory /\ IsInjective(items')
         /\ ToSet(items') = {it \in ToSet(saved) : it.path # <<>> => it.path \in DOMAIN disk'}
<1>1. PICK files \in DisksAtEnd : disk' = Swept(files)
  BY DEF Restart
<1>2. EndedWith(files)
  BY <1>1, EndOfProcess
<1>3. EndedWith(disk')
  <2> DEFINE parts == {p \in DOMAIN files : p[2] \in PartName}
  <2>1. disk' = Without(files, parts)
    BY <1>1 DEF Swept
  <2> HIDE DEF parts
  <2>2. /\ IsMap(disk', Path, Nat) /\ DOMAIN disk' = DOMAIN files \ parts
        /\ \A p \in DOMAIN files \ parts : disk'[p] = files[p]
    BY <1>2, <2>1, WithoutProperties DEF EndedWith
  <2>3. DOMAIN disk' \in SUBSET DOMAIN files
    BY <2>2
  <2>4. IsFiniteSet(DOMAIN disk')
    BY <1>2, <2>3, FS_Subset DEF EndedWith
  <2> QED BY <1>2, <2>2, <2>4 DEF EndedWith
<1> DEFINE kept == {it \in ToSet(saved) : it.path # <<>> => it.path \in DOMAIN disk'}
<1>4. items' = Only(saved, kept)
  BY DEF Restart, load
<1>5. ToSet(saved) \cap kept = kept
  OBVIOUS
<1>6. saved \in Seq(Item) /\ IsInjective(saved) /\ Len(saved) <= MaxHistory /\ Len(saved) \in Nat
  BY LenProperties DEF HistoryInv, TypeOK, SavedInv
<1> HIDE DEF kept
<1>7. /\ Only(saved, kept) \in Seq(Item)
      /\ Len(Only(saved, kept)) \in 0..Len(saved)
      /\ ToSet(Only(saved, kept)) = ToSet(saved) \cap kept
      /\ IsInjective(saved) => IsInjective(Only(saved, kept))
  BY <1>6, OnlyProperties
<1>8. Len(items') <= MaxHistory
  BY <1>4, <1>6, <1>7, HistoryAssumption
<1>9. ToSet(items') = kept
  BY <1>4, <1>5, <1>7
<1> QED BY <1>3, <1>4, <1>6, <1>7, <1>8, <1>9 DEF kept

\* All of the invariant: an entry that comes back although memory had lost it is unsaved,
\* and the file that has just got its name is nobody's.
LEMMA RestartKeeps ==
  ASSUME HistoryInv, Restart
  PROVE  HistoryInv'
<1>1. /\ uploads' = EmptyMap /\ unsaved' = unsaved \cup (Ids(saved) \ Ids(items'))
      /\ UNCHANGED <<saved, lastId, promised, deleted>>
  BY DEF Restart
<1>2. /\ IsMap(disk', Path, Nat) /\ IsFiniteSet(DOMAIN disk')
      /\ \A p \in DOMAIN disk' :
            \/ p \in DOMAIN disk /\ disk'[p] = disk[p]
            \/ p \notin DOMAIN disk /\ disk'[p] \in DOMAIN uploads
  BY RestartEffect DEF EndedWith
<1>3. /\ items' \in Seq(Item) /\ Len(items') <= MaxHistory /\ IsInjective(items')
      /\ ToSet(items') = {it \in ToSet(saved) : it.path # <<>> => it.path \in DOMAIN disk'}
  BY RestartEffect
<1>4. Entries' \subseteq ToSet(saved)
  BY <1>1, <1>3 DEF Entries
<1>5. \A a \in ToSet(saved) : a.id \in Ids(items) => a \in ToSet(items)
  BY DEF HistoryInv, IdsInv, Entries, Ids
<1>6. \A a \in ToSet(saved) : a \in ToSet(items) \/ a.id \in unsaved
  BY <1>5 DEF HistoryInv, SavedInv, Ids
<1>7. DOMAIN uploads' = {} /\ Sending' = {}
  BY <1>1 DEF EmptyMap, Sending
<1>8. TypeOK'
  <2>1. IsMap(uploads', 1..lastId', [device : Phone, from : Side, name : Name])
    BY <1>1, EmptyMapIsMap
  <2>2. Ids(saved) \subseteq 1..lastId
    BY DEF Ids, Entries, HistoryInv, IdsInv
  <2> QED BY <1>1, <1>2, <1>3, <2>1, <2>2 DEF HistoryInv, TypeOK
<1>9. IdsInv'
  BY <1>1, <1>4, <1>7 DEF HistoryInv, IdsInv, Entries
<1>10. SavedInv'
  BY <1>1 DEF HistoryInv, SavedInv
<1>11. PathsInv'
  <2>1. OwnFiles(ToSet(items')) /\ OwnFiles(ToSet(saved'))
    BY <1>1, <1>3 DEF OwnFiles, HistoryInv, PathsInv
  <2>2. \A it \in ToSet(items') : InOutbox(it) => it.path \in DOMAIN disk'
    BY <1>3 DEF InOutbox
  <2>3. \A a \in Entries' : a.path # <<>> => a.path[1] = Dir(a.from)
    BY <1>4 DEF HistoryInv, PathsInv, Entries
  <2> QED BY <1>2, <2>1, <2>2, <2>3 DEF PathsInv
<1>12. QuotaInv'
  <2>1. ToSet(items') \subseteq ToSet(saved) /\ ToSet(saved') \subseteq ToSet(saved)
    BY <1>1, <1>3
  <2> QED BY <1>7, <2>1, FewerQuota
<1>13. AcknowledgedIsKept'
  <2> SUFFICES ASSUME NEW it \in promised
               PROVE  \/ it \in ToSet(items') \cap ToSet(saved)
                      \/ it.path # <<>> /\ ~(it.path \in DOMAIN disk' /\ disk'[it.path] = it.id)
    BY <1>1 DEF AcknowledgedIsKept
  <2>1. CASE it \in ToSet(saved)
    BY <1>3, <2>1
  <2>2. CASE it.path # <<>> /\ ~(it.path \in DOMAIN disk /\ disk[it.path] = it.id)
    <3>1. it.id \notin DOMAIN uploads
      BY DEF HistoryInv, IdsInv
    <3> QED BY <1>2, <2>2, <3>1
  <2> QED BY <2>1, <2>2 DEF HistoryInv, AcknowledgedIsKept
<1>14. EntriesHaveTheirFiles'
  <2> SUFFICES ASSUME NEW it \in ToSet(items'), InOutbox(it), it.id \notin unsaved
               PROVE  it.path \in DOMAIN disk' /\ disk'[it.path] = it.id
    BY <1>1 DEF EntriesHaveTheirFiles
  <2>1. it \in ToSet(items) /\ it.path \in DOMAIN disk'
    BY <1>3, <1>6 DEF InOutbox
  <2>2. it.path \in DOMAIN disk /\ disk[it.path] = it.id
    BY <2>1 DEF HistoryInv, EntriesHaveTheirFiles
  <2> QED BY <1>2, <2>1, <2>2
<1>15. DeletedIsGone'
  <2> SUFFICES ASSUME NEW d \in deleted, d \in Ids(items'), d \notin unsaved PROVE FALSE
    BY <1>1 DEF DeletedIsGone
  <2>1. d \in Ids(items)
    BY <1>3, <1>6 DEF Ids
  <2> QED BY <2>1 DEF HistoryInv, DeletedIsGone
<1> QED BY <1>8, <1>9, <1>10, <1>11, <1>12, <1>13, <1>14, <1>15 DEF HistoryInv

\* The user removes a received file: none of the outbox.
LEMMA UserRemovesKeeps ==
  ASSUME HistoryInv, NEW path, UserRemoves(path)
  PROVE  HistoryInv' /\ Orphans(disk', items') \subseteq Orphans(disk, items)
<1>1. /\ path[1] = "received" /\ disk' = Without(disk, {path})
      /\ UNCHANGED <<items, saved, uploads, lastId, promised, deleted, unsaved>>
  BY DEF UserRemoves
<1>2. /\ IsMap(disk', Path, Nat) /\ DOMAIN disk' = DOMAIN disk \ {path}
      /\ \A p \in DOMAIN disk \ {path} : disk'[p] = disk[p]
  BY <1>1, WithoutProperties DEF HistoryInv, TypeOK
<1>3. IsFiniteSet(DOMAIN disk')
  <2>1. DOMAIN disk' \in SUBSET DOMAIN disk
    BY <1>2
  <2> QED BY <2>1, FS_Subset DEF HistoryInv, PathsInv
<1>4. \A it \in ToSet(items) : InOutbox(it) => it.path # path
  BY <1>1 DEF HistoryInv, PathsInv, Entries, InOutbox, Dir
<1>5. TypeOK'
  BY <1>1, <1>2 DEF HistoryInv, TypeOK
<1>6. IdsInv' /\ SavedInv' /\ DeletedIsGone'
  BY <1>1 DEF HistoryInv, IdsInv, Entries, SavedInv, DeletedIsGone
<1>7. PathsInv' /\ EntriesHaveTheirFiles'
  <2>1. PathsInv'
    BY <1>1, <1>2, <1>3, <1>4 DEF HistoryInv, PathsInv, Entries, OwnFiles
  <2>2. EntriesHaveTheirFiles'
    BY <1>1, <1>2, <1>4 DEF HistoryInv, EntriesHaveTheirFiles
  <2> QED BY <2>1, <2>2
<1>8. QuotaInv'
  BY <1>1 DEF HistoryInv, QuotaInv, Sending, OutboxOf
<1>9. AcknowledgedIsKept'
  BY <1>1, <1>2 DEF HistoryInv, AcknowledgedIsKept
<1>10. Orphans(disk', items') \subseteq Orphans(disk, items)
  BY <1>1, <1>2 DEF Orphans
<1> QED BY <1>5, <1>6, <1>7, <1>8, <1>9, <1>10 DEF HistoryInv

---------------------------------------------------------------------------------
(* The invariant, and what follows from it.                                      *)

\* A first start.
LEMMA InitKeeps ==
  ASSUME Init
  PROVE  HistoryInv
<1>1. ToSet(items) = {} /\ ToSet(saved) = {} /\ Len(items) = 0 /\ Len(saved) = 0
      /\ IsInjective(items) /\ IsInjective(saved)
  BY DEF Init, ToSet, IsInjective
<1>2. Entries = {} /\ Ids(items) = {} /\ Ids(saved) = {} /\ DOMAIN uploads = {} /\ DOMAIN disk = {}
  BY <1>1 DEF Entries, Ids, Init, EmptyMap
<1>3. TypeOK
  <2>1. IsMap(disk, Path, Nat) /\ IsMap(uploads, 1..lastId, [device : Phone, from : Side, name : Name])
    BY EmptyMapIsMap DEF Init
  <2>2. 0 <= MaxHistory /\ lastId \in Nat
    BY HistoryAssumption DEF Init
  <2>3. items \in Seq(Item) /\ saved \in Seq(Item)
    BY DEF Init
  <2> QED BY <1>1, <2>1, <2>2, <2>3 DEF Init, TypeOK
<1>4. IdsInv /\ SavedInv /\ PathsInv
  <2>1. IsFiniteSet(DOMAIN disk)
    BY <1>2, FS_EmptySet
  <2>2. Len(saved) <= MaxHistory
    BY <1>1, HistoryAssumption
  <2> QED BY <1>1, <1>2, <2>1, <2>2 DEF IdsInv, SavedInv, PathsInv, OwnFiles, Init
<1>5. QuotaInv
  <2>1. OutboxOf(ToSet(items)) = {} /\ OutboxOf(ToSet(saved)) = {} /\ Sending = {}
    BY <1>1, <1>2 DEF OutboxOf, Sending
  <2>2. Cardinality({}) = 0
    BY FS_EmptySet
  <2>3. 0 + 0 <= MaxOutbox + MaxUploads - 1 /\ 0 <= MaxOutbox + MaxUploads - 1
    BY HistoryAssumption
  <2> QED BY <2>1, <2>2, <2>3 DEF QuotaInv
<1>6. AcknowledgedIsKept /\ EntriesHaveTheirFiles /\ DeletedIsGone
  BY <1>1 DEF AcknowledgedIsKept, EntriesHaveTheirFiles, DeletedIsGone, Init
<1> QED BY <1>3, <1>4, <1>5, <1>6 DEF HistoryInv

\* Every step keeps it, and only the end of a process leaves a file without an entry.
LEMMA EveryStepKeeps ==
  ASSUME HistoryInv, [Next]_vars
  PROVE  HistoryInv' /\ (Orphans(disk', items') \subseteq Orphans(disk, items) \/ Restart)
<1>1. ASSUME NEW d \in Phone, NEW from \in Side, NEW ok \in BOOLEAN, sendText(d, from, ok)
      PROVE  HistoryInv' /\ Orphans(disk', items') \subseteq Orphans(disk, items)
  BY <1>1, SendTextKeeps
<1>2. ASSUME NEW d \in Phone, NEW from \in Side, NEW name \in Name, UploadBegins(d, from, name)
      PROVE  HistoryInv' /\ Orphans(disk', items') \subseteq Orphans(disk, items)
  BY <1>2, UploadBeginsKeeps
<1>3. ASSUME NEW u \in DOMAIN uploads, UploadFails(u)
      PROVE  HistoryInv' /\ Orphans(disk', items') \subseteq Orphans(disk, items)
  BY <1>3, UploadFailsKeeps
<1>4. ASSUME NEW u \in DOMAIN uploads, NEW ok \in BOOLEAN, UploadEnds(u, ok)
      PROVE  HistoryInv' /\ Orphans(disk', items') \subseteq Orphans(disk, items)
  BY <1>4, UploadEndsKeeps
<1>5. ASSUME NEW it \in ToSet(items), NEW who \in Phone \cup {"laptop"}, NEW ok \in BOOLEAN,
             deleteItem(who, it, ok)
      PROVE  HistoryInv' /\ Orphans(disk', items') \subseteq Orphans(disk, items)
  BY <1>5, DeleteItemKeeps
<1>6. ASSUME NEW id \in 1..lastId, deleteItemAgain(id)
      PROVE  HistoryInv' /\ Orphans(disk', items') \subseteq Orphans(disk, items)
  BY <1>6, DeleteItemAgainKeeps
<1>7. ASSUME NEW whose \in {{d} : d \in Phone} \cup {Phone}, NEW n \in 0..MaxHistory, clearHistory(whose, n)
      PROVE  HistoryInv' /\ Orphans(disk', items') \subseteq Orphans(disk, items)
  BY <1>7, ClearHistoryKeeps
<1>8. CASE Restart
  BY <1>8, RestartKeeps
<1>9. ASSUME NEW path \in DOMAIN disk, UserRemoves(path)
      PROVE  HistoryInv' /\ Orphans(disk', items') \subseteq Orphans(disk, items)
  BY <1>9, UserRemovesKeeps
<1>10. CASE UNCHANGED vars
  <2>1. UNCHANGED <<items, saved, disk, uploads, lastId, promised, deleted, unsaved>>
    BY <1>10 DEF vars
  <2> QED BY <2>1 DEF HistoryInv, TypeOK, IdsInv, Entries, SavedInv, PathsInv, OwnFiles, QuotaInv, Sending,
             OutboxOf, AcknowledgedIsKept, EntriesHaveTheirFiles, DeletedIsGone, Orphans
<1> QED BY <1>1, <1>2, <1>3, <1>4, <1>5, <1>6, <1>7, <1>8, <1>9, <1>10 DEF Next

\* The inductive invariant holds.
LEMMA HistoryIsSound == Spec => []HistoryInv
BY InitKeeps, EveryStepKeeps, PTL DEF Spec

\* Types: the history is never longer than it may be, and lists no entry twice.
THEOREM HistoryTypes == Spec => []TypeOK
<1>1. HistoryInv => TypeOK
  BY DEF HistoryInv
<1> QED BY <1>1, HistoryIsSound, PTL

\* An item whose sender was told 201 is in the history and in items.json until somebody
\* removes it or its file is lost, whatever fails or crashes meanwhile.
THEOREM AcknowledgedIsAlwaysKept == Spec => []AcknowledgedIsKept
<1>1. HistoryInv => AcknowledgedIsKept
  BY DEF HistoryInv
<1> QED BY <1>1, HistoryIsSound, PTL

\* A delete that was answered 200 is final, except where a removal could not be saved.
THEOREM DeletedIsAlwaysGone == Spec => []DeletedIsGone
<1>1. HistoryInv => DeletedIsGone
  BY DEF HistoryInv
<1> QED BY <1>1, HistoryIsSound, PTL

\* Each entry for a file in the outbox has the file that was uploaded for it.
THEOREM EntriesAlwaysHaveTheirFiles == Spec => []EntriesHaveTheirFiles
<1>1. HistoryInv => EntriesHaveTheirFiles
  BY DEF HistoryInv
<1> QED BY <1>1, HistoryIsSound, PTL

\* The outbox gets fuller than its limit by uploads that overlap, and by nothing else.
THEOREM QuotaIsExceededOnlyByOverlap == Spec => []QuotaExceededOnlyByOverlap
<1>1. HistoryInv => QuotaExceededOnlyByOverlap
  <2>1. /\ outboxBytes = Cardinality(OutboxOf(ToSet(items)))
        /\ Cardinality({u \in DOMAIN uploads : uploads[u].from = "laptop"}) = Cardinality(Sending)
    BY DEF outboxBytes, OutboxOf, Sending
  <2> QED BY <2>1 DEF HistoryInv, QuotaInv, QuotaExceededOnlyByOverlap
<1> QED BY <1>1, HistoryIsSound, PTL

\* No handler leaves a file in the outbox that no entry lists: only a crash does.
THEOREM OrphansAreLeftByCrashOnly == Spec => OrphansOnlyByCrash
<1>1. HistoryInv /\ [Next]_vars => [Orphans(disk', items') \subseteq Orphans(disk, items) \/ Restart]_vars
  BY EveryStepKeeps
<1> QED BY <1>1, HistoryIsSound, PTL DEF Spec, OrphansOnlyByCrash

---------------------------------------------------------------------------------
(* The list of a phone: what relates it to the history.                          *)

\* Entries in the order of their ids: these are texts, added when their ids are drawn.
InOrder(entries) == \A i, j \in DOMAIN entries : i < j => entries[i].id < entries[j].id

\* The ids that events delete.
Gone(events) == {e.id : e \in {x \in ToSet(events) : x.event = "item-deleted"}}

\* The events that will add to the list what stays there.
Coming(ids, events) == {i \in DOMAIN events : /\ events[i].event = "item-added"
                                              /\ events[i].id \notin ToSet(ids) \cup Gone(events)}

\* A list becomes the one of these ids, in order, when these events have come.
Becomes(ids, events, target) ==
    /\ target = (ToSet(ids) \ Gone(events)) \cup {events[i].id : i \in Coming(ids, events)}
    /\ \A i, j \in DOMAIN ids : i < j /\ ids[i] \notin Gone(events) /\ ids[j] \notin Gone(events)
                                   => ids[i] < ids[j]
    /\ \A x \in ToSet(ids) \ Gone(events), i \in Coming(ids, events) : x < events[i].id
    /\ \A i, j \in Coming(ids, events) : i < j => events[i].id < events[j].id

\* Events: an item is added before it is deleted, and each once; what they delete is gone.
Once(events) == \A i, j \in DOMAIN events : i < j /\ events[i].id = events[j].id =>
                   events[i].event = "item-added" /\ events[j].event = "item-deleted"

EventsInv == /\ \A e \in ToSet(queue) : e.id \in 1..lastId
             /\ Once(queue) /\ Gone(queue) \cap Ids(items) = {}

OrderInv == /\ InOrder(items) /\ InOrder(saved)
            /\ ToSet(list) \subseteq 1..lastId
            /\ \A c \in Call : ToSet(fetch[c].ids) \subseteq 1..lastId

\* What the laptop has of these ids' phone is what the events on their way make of them.
Leads(ids) == Becomes(ids, queue, ToSet(Own(items)))

\* An answer on its way is a list of its own, which gets the events that the phone has not
\* handled yet: it becomes what the history is, as the list does, unless one is missed.
ShownInv == /\ ~missed => Leads(list)
            /\ \A c \in Call : fetch[c].status = "answered" /\ ~fetch[c].late => Leads(fetch[c].ids)

\* The inductive invariant of the list.
ListInv == HistoryInv /\ ListTypeOK /\ EventsInv /\ OrderInv /\ ShownInv


\* What events delete, index by index.
LEMMA GoneByIndex ==
  ASSUME NEW events
  PROVE  \A id : id \in Gone(events) <=>
                    \E i \in DOMAIN events : events[i].event = "item-deleted" /\ events[i].id = id
BY DEF Gone, ToSet

\* An event is an added or a deleted one, of an id.
LEMMA EventTypes ==
  ASSUME NEW events \in Seq(Event)
  PROVE  /\ Len(events) \in Nat /\ DOMAIN events = 1..Len(events)
         /\ \A i \in DOMAIN events : /\ events[i] \in Event /\ events[i].id \in Nat
                                     /\ events[i].event \in {"item-added", "item-deleted"}
<1>1. Len(events) \in Nat /\ DOMAIN events = 1..Len(events)
  BY LenProperties
<1>2. \A i \in DOMAIN events : events[i] \in Event
  BY <1>1, ElementOfSeq
<1> QED BY <1>1, <1>2 DEF Event

\* What is left of events when the first has been taken.
LEMMA TailOfEvents ==
  ASSUME NEW events \in Seq(Event), events # <<>>
  PROVE  /\ Head(events) = events[1] /\ 1 \in DOMAIN events
         /\ Tail(events) \in Seq(Event)
         /\ \A i \in DOMAIN Tail(events) : i + 1 \in DOMAIN events /\ Tail(events)[i] = events[i + 1]
         /\ \A i \in DOMAIN events \ {1} : i - 1 \in DOMAIN Tail(events) /\ Tail(events)[i - 1] = events[i]
         /\ \A i \in DOMAIN events \cup DOMAIN Tail(events) : i \in Nat /\ i > 0
<1>1. PICK n \in Nat : n = Len(events) /\ DOMAIN events = 1..n
  BY LenProperties
<1>2. n # 0
  BY <1>1, EmptySeq
<1>3. /\ Head(events) = events[1] /\ Tail(events) \in Seq(Event)
      /\ Len(Tail(events)) = n - 1
      /\ \A i \in 1..(n - 1) : Tail(events)[i] = events[i + 1]
  BY <1>1, HeadTailProperties
<1>4. DOMAIN Tail(events) = 1..(n - 1)
  BY <1>3, LenProperties
<1>5. \A i \in 1..n \ {1} : i - 1 \in 1..(n - 1) /\ i - 1 + 1 = i
  BY <1>1
<1>6. \A i \in 1..n \ {1} : Tail(events)[i - 1] = events[i - 1 + 1]
  BY <1>3, <1>5
<1> QED BY <1>1, <1>2, <1>3, <1>4, <1>5, <1>6

\* What the remaining events delete.
LEMMA GoneInTail ==
  ASSUME NEW events \in Seq(Event), events # <<>>
  PROVE  Gone(events) = Gone(Tail(events))
                          \cup (IF Head(events).event = "item-deleted" THEN {Head(events).id} ELSE {})
<1> DEFINE rest == Tail(events)
<1>1. /\ Head(events) = events[1] /\ 1 \in DOMAIN events
      /\ \A i \in DOMAIN rest : i + 1 \in DOMAIN events /\ rest[i] = events[i + 1]
      /\ \A i \in DOMAIN events \ {1} : i - 1 \in DOMAIN rest /\ rest[i - 1] = events[i]
  BY TailOfEvents
<1> HIDE DEF rest
<1>2. /\ \A id : id \in Gone(events) <=>
                    \E i \in DOMAIN events : events[i].event = "item-deleted" /\ events[i].id = id
      /\ \A id : id \in Gone(rest) <=>
                    \E i \in DOMAIN rest : rest[i].event = "item-deleted" /\ rest[i].id = id
  BY GoneByIndex
<1>3. ASSUME NEW id \in Gone(events)
      PROVE  id \in Gone(rest) \/ (events[1].event = "item-deleted" /\ id = events[1].id)
  <2>1. PICK i \in DOMAIN events : events[i].event = "item-deleted" /\ events[i].id = id
    BY <1>2, <1>3
  <2>2. CASE i # 1
    <3>1. i - 1 \in DOMAIN rest /\ rest[i - 1] = events[i]
      BY <1>1, <2>2
    <3> QED BY <1>2, <2>1, <3>1
  <2> QED BY <2>1, <2>2
<1>4. ASSUME NEW id \in Gone(rest) PROVE id \in Gone(events)
  <2>1. PICK i \in DOMAIN rest : rest[i].event = "item-deleted" /\ rest[i].id = id
    BY <1>2, <1>4
  <2> QED BY <1>1, <1>2, <2>1
<1>5. events[1].event = "item-deleted" => events[1].id \in Gone(events)
  BY <1>1, <1>2
<1> QED BY <1>1, <1>3, <1>4, <1>5 DEF rest

\* Once holds of the remaining events too.
LEMMA OnceInTail ==
  ASSUME NEW events \in Seq(Event), events # <<>>, Once(events)
  PROVE  Once(Tail(events))
<1> DEFINE rest == Tail(events)
<1>1. /\ \A i \in DOMAIN rest : i + 1 \in DOMAIN events /\ rest[i] = events[i + 1]
      /\ \A i \in DOMAIN rest : i \in Nat
  BY TailOfEvents
<1> HIDE DEF rest
<1> SUFFICES ASSUME NEW i \in DOMAIN rest, NEW j \in DOMAIN rest, i < j, rest[i].id = rest[j].id
             PROVE  rest[i].event = "item-added" /\ rest[j].event = "item-deleted"
  BY DEF Once, rest
<1>2. i + 1 \in DOMAIN events /\ j + 1 \in DOMAIN events /\ i + 1 < j + 1
  BY <1>1
<1> QED BY <1>1, <1>2 DEF Once

\* What an event that is handled leaves to come: without it, and without what it added.
LEMMA ComingAfterEvent ==
  ASSUME NEW ids \in Seq(Nat), NEW events \in Seq(Event), events # <<>>, Once(events),
         NEW shown, ToSet(shown) \cup {Head(events).id} = ToSet(ids) \cup {Head(events).id},
         \/ Head(events).id \notin ToSet(shown) /\ Head(events).event = "item-deleted"
         \/ Head(events).id \in ToSet(shown) /\ Head(events).event = "item-added"
  PROVE  /\ \A i \in Coming(shown, Tail(events)) : i + 1 \in Coming(ids, events)
         /\ \A i \in Coming(ids, events) : i # 1 => i - 1 \in Coming(shown, Tail(events))
<1> DEFINE rest == Tail(events)
           e == Head(events)
<1>1. /\ e = events[1] /\ 1 \in DOMAIN events
      /\ \A i \in DOMAIN rest : i + 1 \in DOMAIN events /\ rest[i] = events[i + 1]
      /\ \A i \in DOMAIN events \ {1} : i - 1 \in DOMAIN rest /\ rest[i - 1] = events[i]
      /\ \A i \in DOMAIN events \cup DOMAIN rest : i \in Nat /\ i > 0
  BY TailOfEvents
<1>2. Gone(events) = Gone(rest) \cup (IF e.event = "item-deleted" THEN {e.id} ELSE {})
  BY GoneInTail
<1>3. \A id : id \in Gone(rest) <=>
                 \E i \in DOMAIN rest : rest[i].event = "item-deleted" /\ rest[i].id = id
  BY GoneByIndex
<1>4. ASSUME NEW i \in DOMAIN rest, rest[i].event = "item-added" PROVE rest[i].id # e.id
  <2> SUFFICES ASSUME rest[i].id = e.id PROVE FALSE
    OBVIOUS
  <2>1. 1 < i + 1 /\ i + 1 \in DOMAIN events /\ events[i + 1].event = "item-added" /\ events[1].id = events[i + 1].id
    BY <1>1, <1>4
  <2>2. events[i + 1].event = "item-deleted"
    BY <1>1, <2>1 DEF Once
  <2> QED BY <2>1, <2>2
<1> HIDE DEF rest, e
<1>5. ASSUME NEW i \in DOMAIN rest
      PROVE  rest[i].event = "item-added" /\ rest[i].id \notin ToSet(shown) \cup Gone(rest)
                 <=> rest[i].event = "item-added" /\ rest[i].id \notin ToSet(ids) \cup Gone(events)
  <2>1. CASE rest[i].event = "item-added"
    <3>1. rest[i].id # e.id
      BY <1>4, <2>1
    <3>2. rest[i].id \in ToSet(shown) <=> rest[i].id \in ToSet(ids)
      BY <3>1 DEF e
    <3>3. rest[i].id \in Gone(rest) <=> rest[i].id \in Gone(events)
      BY <1>2, <3>1
    <3> QED BY <3>2, <3>3
  <2> QED BY <2>1
<1>6. ASSUME NEW i \in Coming(shown, rest) PROVE i + 1 \in Coming(ids, events)
  BY <1>1, <1>5, <1>6 DEF Coming
<1>7. ASSUME NEW i \in Coming(ids, events), i # 1 PROVE i - 1 \in Coming(shown, rest)
  BY <1>1, <1>5, <1>7 DEF Coming
<1> QED BY <1>6, <1>7 DEF rest

\* Once the first event is handled, the list still becomes what it was to become.
LEMMA EventKeepsBecoming ==
  ASSUME NEW ids \in Seq(Nat), NEW events \in Seq(Event), events # <<>>, Once(events),
         NEW target, Becomes(ids, events, target)
  PROVE  Becomes(Applied(ids, Head(events)), Tail(events), target)
<1> DEFINE rest == Tail(events)
           e == Head(events)
           shown == Applied(ids, e)
           gone == Gone(events)
           left == Gone(rest)
           added == {events[i].id : i \in Coming(ids, events)}
           later == {rest[i].id : i \in Coming(shown, rest)}
<1>1. /\ e = events[1] /\ 1 \in DOMAIN events /\ rest \in Seq(Event)
      /\ \A i \in DOMAIN rest : i + 1 \in DOMAIN events /\ rest[i] = events[i + 1]
      /\ \A i \in DOMAIN events \ {1} : i - 1 \in DOMAIN rest /\ rest[i - 1] = events[i]
      /\ \A i \in DOMAIN events \cup DOMAIN rest : i \in Nat /\ i > 0
  BY TailOfEvents
<1>2. gone = left \cup (IF e.event = "item-deleted" THEN {e.id} ELSE {})
  BY GoneInTail
<1>3. e.id \in Nat /\ e.event \in {"item-added", "item-deleted"}
  BY <1>1, EventTypes
<1>4. /\ target = (ToSet(ids) \ gone) \cup added
      /\ \A i, j \in DOMAIN ids : i < j /\ ids[i] \notin gone /\ ids[j] \notin gone => ids[i] < ids[j]
      /\ \A x \in ToSet(ids) \ gone, i \in Coming(ids, events) : x < events[i].id
      /\ \A i, j \in Coming(ids, events) : i < j => events[i].id < events[j].id
  BY DEF Becomes
<1>5. Coming(ids, events) \subseteq DOMAIN events /\ Coming(shown, rest) \subseteq DOMAIN rest
  BY DEF Coming
<1> HIDE DEF rest, e, gone, left
<1>6. ASSUME NEW after, after = shown,
             \A i \in Coming(after, rest) : i + 1 \in Coming(ids, events),
             \A i \in Coming(ids, events) : i # 1 => i - 1 \in Coming(after, rest),
             ToSet(after) \ left = (ToSet(ids) \ gone) \cup (IF 1 \in Coming(ids, events) THEN {e.id} ELSE {}),
             \A i, j \in DOMAIN after : i < j /\ after[i] \notin left /\ after[j] \notin left => after[i] < after[j]
      PROVE  Becomes(after, rest, target)
  <2>1. target = (ToSet(after) \ left) \cup {rest[i].id : i \in Coming(after, rest)}
    <3>1. ASSUME NEW i \in Coming(after, rest) PROVE rest[i].id \in added
      <4>1. i + 1 \in Coming(ids, events) /\ rest[i] = events[i + 1]
        BY <1>1, <1>5, <1>6
      <4> QED BY <4>1
    <3>2. ASSUME NEW i \in Coming(ids, events), i # 1
          PROVE  \E j \in Coming(after, rest) : rest[j].id = events[i].id
      <4>1. i - 1 \in Coming(after, rest) /\ rest[i - 1] = events[i]
        BY <1>1, <1>5, <1>6, <3>2
      <4> QED BY <4>1
    <3>3. 1 \in Coming(ids, events) => e.id \in added
      BY <1>1
    <3>4. ASSUME NEW x \in target PROVE x \in ToSet(after) \ left \/ \E j \in Coming(after, rest) : rest[j].id = x
      <4>1. CASE x \in ToSet(ids) \ gone
        BY <1>6, <4>1
      <4>2. CASE \E i \in Coming(ids, events) : x = events[i].id
        <5>1. PICK i \in Coming(ids, events) : x = events[i].id
          BY <4>2
        <5> QED BY <1>1, <1>6, <3>2, <5>1
      <4> QED BY <1>4, <3>4, <4>1, <4>2
    <3>5. ToSet(after) \ left \subseteq target
      BY <1>4, <1>6, <3>3
    <3>6. {rest[i].id : i \in Coming(after, rest)} \subseteq target
      BY <1>4, <3>1
    <3> HIDE DEF added
    <3> QED BY <3>4, <3>5, <3>6
  <2>2. ASSUME NEW x \in ToSet(after) \ left, NEW i \in Coming(after, rest) PROVE x < rest[i].id
    <3>1. i + 1 \in Coming(ids, events) /\ rest[i] = events[i + 1] /\ 1 < i + 1
      BY <1>1, <1>5, <1>6
    <3>2. CASE x \in ToSet(ids) \ gone
      BY <1>4, <3>1, <3>2
    <3>3. CASE 1 \in Coming(ids, events) /\ x = e.id
      BY <1>1, <1>4, <3>1, <3>3
    <3> QED BY <1>6, <3>2, <3>3
  <2>3. ASSUME NEW i \in Coming(after, rest), NEW j \in Coming(after, rest), i < j
        PROVE  rest[i].id < rest[j].id
    <3>1. /\ i + 1 \in Coming(ids, events) /\ rest[i] = events[i + 1]
          /\ j + 1 \in Coming(ids, events) /\ rest[j] = events[j + 1]
          /\ i + 1 < j + 1
      BY <1>1, <1>5, <1>6, <2>3
    <3> QED BY <1>4, <3>1
  <2> QED BY <1>6, <2>1, <2>2, <2>3 DEF Becomes, left
<1>7. CASE e.event = "item-deleted"
  <2>1. shown = Only(ids, ToSet(ids) \ {e.id})
    BY <1>7 DEF Applied
  <2>2. ToSet(shown) = ToSet(ids) \ {e.id}
    BY <2>1, OnlyProperties
  <2>3. 1 \notin Coming(ids, events)
    BY <1>1, <1>7 DEF Coming
  <2>4. PICK n \in 0..Len(ids) : \E at \in [1..n -> DOMAIN ids] : InPlace(ids, ToSet(ids) \ {e.id}, n, at)
    BY OnlyInOrder
  <2>5. PICK at \in [1..n -> DOMAIN ids] : InPlace(ids, ToSet(ids) \ {e.id}, n, at)
    BY <2>4
  <2>6. shown \in Seq(Nat) /\ DOMAIN shown = 1..n
    <3>1. shown \in Seq(Nat) /\ Len(shown) = n
      BY <2>1, <2>5, OnlyProperties DEF InPlace
    <3> HIDE DEF shown
    <3> QED BY <3>1, LenProperties
  <2>7. /\ \A k \in 1..n : shown[k] = ids[at[k]] /\ ids[at[k]] \in ToSet(ids) \ {e.id}
        /\ \A k, l \in 1..n : k < l => at[k] < at[l]
    BY <2>1, <2>5 DEF InPlace
  <2> HIDE DEF shown
  <2>8. ASSUME NEW i \in DOMAIN shown, NEW j \in DOMAIN shown, i < j, shown[i] \notin left, shown[j] \notin left
        PROVE  shown[i] < shown[j]
    <3>1. /\ at[i] \in DOMAIN ids /\ at[j] \in DOMAIN ids /\ at[i] < at[j]
          /\ shown[i] = ids[at[i]] /\ shown[j] = ids[at[j]] /\ shown[i] # e.id /\ shown[j] # e.id
      BY <2>6, <2>7, <2>8
    <3> QED BY <1>2, <1>4, <2>8, <3>1
  <2>9. ToSet(shown) \ left = ToSet(ids) \ gone
    BY <1>2, <1>7, <2>2
  <2>10. /\ \A i \in Coming(shown, rest) : i + 1 \in Coming(ids, events)
         /\ \A i \in Coming(ids, events) : i # 1 => i - 1 \in Coming(shown, rest)
    <3>1. ToSet(shown) \cup {e.id} = ToSet(ids) \cup {e.id} /\ e.id \notin ToSet(shown)
      BY <2>2
    <3> QED BY <1>7, <3>1, ComingAfterEvent DEF e, rest
  <2>11. Becomes(shown, rest, target)
    BY <1>6, <2>3, <2>8, <2>9, <2>10 DEF shown
  <2> QED BY <2>11 DEF shown, e, rest
<1>8. CASE e.event = "item-added" /\ e.id \in ToSet(ids)
  <2>1. shown = ids
    BY <1>8 DEF Applied
  <2>2. 1 \notin Coming(ids, events)
    BY <1>1, <1>8 DEF Coming
  <2>3. left = gone
    BY <1>2, <1>8
  <2>4. /\ \A i \in Coming(shown, rest) : i + 1 \in Coming(ids, events)
        /\ \A i \in Coming(ids, events) : i # 1 => i - 1 \in Coming(shown, rest)
    <3> HIDE DEF shown
    <3> QED BY <1>8, <2>1, ComingAfterEvent DEF e, rest
  <2>5. Becomes(shown, rest, target)
    <3> HIDE DEF shown
    <3> QED BY <1>4, <1>6, <2>1, <2>2, <2>3, <2>4 DEF shown
  <2> QED BY <2>5 DEF e, rest
<1>9. CASE e.event = "item-added" /\ e.id \notin ToSet(ids)
  <2>1. shown = Append(ids, e.id)
    BY <1>9 DEF Applied
  <2>2. ToSet(shown) = ToSet(ids) \cup {e.id}
    BY <1>3, <2>1, PushProperties
  <2>3. left = gone
    BY <1>2, <1>9
  <2>4. 1 \in Coming(ids, events) <=> e.id \notin gone
    BY <1>1, <1>9 DEF Coming, gone
  <2>5. PICK n \in Nat : n = Len(ids) /\ DOMAIN ids = 1..n
    BY LenProperties
  <2>6. /\ DOMAIN shown = 1..(n + 1)
        /\ \A i \in 1..n : shown[i] = ids[i]
        /\ shown[n + 1] = e.id
    BY <1>3, <2>1, <2>5, AddedEntry
  <2> HIDE DEF shown
  <2>7. ASSUME NEW i \in DOMAIN shown, NEW j \in DOMAIN shown, i < j, shown[i] \notin left, shown[j] \notin left
        PROVE  shown[i] < shown[j]
    <3>1. i \in 1..n /\ shown[i] = ids[i] /\ ids[i] \in ToSet(ids) \ gone
      BY <2>3, <2>5, <2>6, <2>7 DEF ToSet
    <3>2. CASE j \in 1..n
      BY <1>4, <2>3, <2>5, <2>6, <2>7, <3>1, <3>2
    <3>3. CASE j = n + 1
      <4>1. 1 \in Coming(ids, events) /\ shown[j] = events[1].id
        BY <1>1, <2>3, <2>4, <2>6, <2>7, <3>3
      <4> QED BY <1>4, <3>1, <4>1
    <3> QED BY <2>6, <3>2, <3>3
  <2>8. ToSet(shown) \ left = (ToSet(ids) \ gone) \cup (IF 1 \in Coming(ids, events) THEN {e.id} ELSE {})
    BY <2>2, <2>3, <2>4
  <2>9. /\ \A i \in Coming(shown, rest) : i + 1 \in Coming(ids, events)
        /\ \A i \in Coming(ids, events) : i # 1 => i - 1 \in Coming(shown, rest)
    <3>1. ToSet(shown) \cup {e.id} = ToSet(ids) \cup {e.id} /\ e.id \in ToSet(shown)
      BY <2>2
    <3> QED BY <1>9, <3>1, ComingAfterEvent DEF e, rest
  <2>10. Becomes(shown, rest, target)
    BY <1>6, <2>7, <2>8, <2>9 DEF shown
  <2> QED BY <2>10 DEF shown, e, rest
<1> QED BY <1>3, <1>7, <1>8, <1>9

\* Events that are written after others.
LEMMA MoreEvents ==
  ASSUME NEW events \in Seq(Event), NEW more \in Seq(Event)
  PROVE  /\ events \o more \in Seq(Event)
         /\ ToSet(events \o more) = ToSet(events) \cup ToSet(more)
         /\ Gone(events \o more) = Gone(events) \cup Gone(more)
         /\ \A i \in DOMAIN events : i \in DOMAIN (events \o more) /\ (events \o more)[i] = events[i]
         /\ \A k \in DOMAIN more : /\ Len(events) + k \in DOMAIN (events \o more)
                                   /\ (events \o more)[Len(events) + k] = more[k]
         /\ \A i \in DOMAIN (events \o more) :
               i \in DOMAIN events \/ \E k \in DOMAIN more : i = Len(events) + k
         /\ \A i \in DOMAIN events, k \in DOMAIN more : i < Len(events) + k
         /\ \A k, l \in DOMAIN more : Len(events) + k < Len(events) + l => k < l
<1>1. PICK n \in Nat, m \in Nat : n = Len(events) /\ m = Len(more) /\ DOMAIN events = 1..n /\ DOMAIN more = 1..m
  BY LenProperties
<1> DEFINE both == events \o more
<1>2. /\ both \in Seq(Event) /\ Len(both) = n + m
      /\ \A i \in 1..(n + m) : both[i] = IF i <= n THEN events[i] ELSE more[i - n]
  BY <1>1, ConcatProperties
<1>3. ToSet(both) = ToSet(events) \cup ToSet(more)
  BY ConcatEntries
<1> HIDE DEF both
<1>4. DOMAIN both = 1..(n + m)
  BY <1>2, LenProperties
<1>5. Gone(both) = Gone(events) \cup Gone(more)
  BY <1>3 DEF Gone
<1>6. \A i \in 1..n : i \in 1..(n + m) /\ both[i] = events[i]
  BY <1>2
<1>7. ASSUME NEW k \in 1..m PROVE n + k \in 1..(n + m) /\ both[n + k] = more[k]
  <2>1. n + k \in 1..(n + m) /\ ~(n + k <= n) /\ n + k - n = k
    OBVIOUS
  <2> QED BY <1>2, <2>1
<1>8. ASSUME NEW i \in 1..(n + m) PROVE i \in 1..n \/ \E k \in 1..m : i = n + k
  <2>1. i \in 1..n \/ (i - n \in 1..m /\ i = n + (i - n))
    OBVIOUS
  <2> QED BY <2>1
<1>9. (\A i \in 1..n, k \in 1..m : i < n + k) /\ (\A k, l \in 1..m : n + k < n + l => k < l)
  OBVIOUS
<1>10. /\ \A i \in DOMAIN events : i \in DOMAIN both /\ both[i] = events[i]
       /\ \A k \in DOMAIN more : Len(events) + k \in DOMAIN both /\ both[Len(events) + k] = more[k]
  BY <1>1, <1>4, <1>6, <1>7
<1>11. \A i \in DOMAIN both : i \in DOMAIN events \/ \E k \in DOMAIN more : i = Len(events) + k
  BY <1>1, <1>4, <1>8
<1>12. /\ \A i \in DOMAIN events, k \in DOMAIN more : i < Len(events) + k
       /\ \A k, l \in DOMAIN more : Len(events) + k < Len(events) + l => k < l
  BY <1>1, <1>9
<1> QED BY <1>2, <1>3, <1>5, <1>10, <1>11, <1>12 DEF both

\* Events that delete what those before them add, and otherwise tell of other items.
LEMMA OnceAndMore ==
  ASSUME NEW events \in Seq(Event), NEW more \in Seq(Event), Once(events), Once(more),
         \A x \in ToSet(events), y \in ToSet(more) :
            x.id = y.id => x.event = "item-added" /\ y.event = "item-deleted"
  PROVE  Once(events \o more)
<1> DEFINE both == events \o more
<1>1. /\ \A i \in DOMAIN events : both[i] = events[i] /\ events[i] \in ToSet(events)
      /\ \A k \in DOMAIN more : both[Len(events) + k] = more[k] /\ more[k] \in ToSet(more)
      /\ \A i \in DOMAIN both : i \in DOMAIN events \/ \E k \in DOMAIN more : i = Len(events) + k
      /\ \A i \in DOMAIN events, k \in DOMAIN more : i < Len(events) + k
      /\ \A k, l \in DOMAIN more : Len(events) + k < Len(events) + l => k < l
      /\ \A i \in DOMAIN both : i \in Nat
  <2>1. both \in Seq(Event)
    BY MoreEvents
  <2> HIDE DEF both
  <2>2. \A i \in DOMAIN both : i \in Nat
    BY <2>1, EventTypes
  <2>3. /\ \A i \in DOMAIN events : events[i] \in ToSet(events)
        /\ \A k \in DOMAIN more : more[k] \in ToSet(more)
    BY ListEntries
  <2> QED BY <2>2, <2>3, MoreEvents DEF both
<1> HIDE DEF both
<1> SUFFICES ASSUME NEW i \in DOMAIN both, NEW j \in DOMAIN both, i < j, both[i].id = both[j].id
             PROVE  both[i].event = "item-added" /\ both[j].event = "item-deleted"
  BY DEF Once, both
<1>2. CASE i \in DOMAIN events /\ j \in DOMAIN events
  BY <1>1, <1>2 DEF Once
<1>3. CASE i \in DOMAIN events /\ \E k \in DOMAIN more : j = Len(events) + k
  BY <1>1, <1>3
<1>4. CASE \E k \in DOMAIN more : i = Len(events) + k
  <2>1. PICK k \in DOMAIN more : i = Len(events) + k
    BY <1>4
  <2>2. j \notin DOMAIN events
    BY <1>1, <2>1
  <2>3. PICK l \in DOMAIN more : j = Len(events) + l
    BY <1>1, <2>2
  <2> QED BY <1>1, <2>1, <2>3 DEF Once
<1> QED BY <1>1, <1>2, <1>3, <1>4

\* An item that is added after all others comes at the end.
LEMMA OneMoreComes ==
  ASSUME NEW ids \in Seq(Nat), NEW events \in Seq(Event), NEW target, Becomes(ids, events, target),
         NEW e \in Event, e.event = "item-added",
         \A x \in ToSet(ids) : x < e.id, \A x \in ToSet(events) : x.id < e.id
  PROVE  Becomes(ids, events \o <<e>>, target \cup {e.id})
<1> DEFINE one == <<e>>
           both == events \o one
           n == Len(events) + 1
<1>1. one \in Seq(Event) /\ DOMAIN one = {1} /\ one[1] = e /\ ToSet(one) = {e}
  BY DEF ToSet
<1> HIDE DEF one
<1>2. /\ Gone(both) = Gone(events) \cup Gone(one)
      /\ \A i \in DOMAIN events : i \in DOMAIN both /\ both[i] = events[i] /\ i < n /\ i \in Nat
      /\ n \in DOMAIN both /\ both[n] = e
      /\ \A i \in DOMAIN both : i \in DOMAIN events \/ i = n
      /\ n \in Nat
  BY <1>1, MoreEvents, EventTypes
<1>3. Gone(both) = Gone(events)
  BY <1>1, <1>2 DEF Gone
<1> HIDE DEF both, n
<1>4. \A i \in DOMAIN events : events[i].id < e.id /\ events[i] \in ToSet(events)
  BY ListEntries
<1>5. e.id \notin ToSet(ids) /\ e.id \notin Gone(events) /\ e.id \in Nat
  <2>1. e.id \in Nat
    BY DEF Event
  <2> QED BY <2>1 DEF Gone
<1>6. Coming(ids, both) = Coming(ids, events) \cup {n}
  BY <1>2, <1>3, <1>5 DEF Coming
<1>7. /\ target = (ToSet(ids) \ Gone(events)) \cup {events[i].id : i \in Coming(ids, events)}
      /\ \A i, j \in DOMAIN ids : i < j /\ ids[i] \notin Gone(events) /\ ids[j] \notin Gone(events) => ids[i] < ids[j]
      /\ \A x \in ToSet(ids) \ Gone(events), i \in Coming(ids, events) : x < events[i].id
      /\ \A i, j \in Coming(ids, events) : i < j => events[i].id < events[j].id
  BY DEF Becomes
<1>8. \A i \in Coming(ids, events) : i \in DOMAIN events
  BY DEF Coming
<1>9. target \cup {e.id} = (ToSet(ids) \ Gone(both)) \cup {both[i].id : i \in Coming(ids, both)}
  <2>1. {both[i].id : i \in Coming(ids, both)} = {events[i].id : i \in Coming(ids, events)} \cup {e.id}
    BY <1>2, <1>6, <1>8
  <2> QED BY <1>3, <1>7, <2>1
<1>10. \A x \in ToSet(ids) \ Gone(both), i \in Coming(ids, both) : x < both[i].id
  BY <1>2, <1>3, <1>6, <1>7, <1>8
<1>11. ASSUME NEW i \in Coming(ids, both), NEW j \in Coming(ids, both), i < j
       PROVE  both[i].id < both[j].id
  <2>1. i \in Coming(ids, events)
    BY <1>2, <1>6, <1>8, <1>11
  <2>2. CASE j = n
    BY <1>2, <1>4, <1>8, <2>1, <2>2
  <2>3. CASE j \in Coming(ids, events)
    BY <1>2, <1>7, <1>8, <1>11, <2>1, <2>3
  <2> QED BY <1>6, <2>2, <2>3
<1> QED BY <1>3, <1>7, <1>9, <1>10, <1>11 DEF Becomes, both, one

\* Items that are deleted then are not in the list in the end.
LEMMA DeletionsCome ==
  ASSUME NEW ids \in Seq(Nat), NEW events \in Seq(Event), NEW target, Becomes(ids, events, target),
         NEW more \in Seq(Event), \A x \in ToSet(more) : x.event = "item-deleted"
  PROVE  Becomes(ids, events \o more, target \ Gone(more))
<1> DEFINE both == events \o more
<1>1. /\ Gone(both) = Gone(events) \cup Gone(more)
      /\ \A i \in DOMAIN events : i \in DOMAIN both /\ both[i] = events[i]
      /\ \A k \in DOMAIN more : /\ Len(events) + k \in DOMAIN both /\ both[Len(events) + k] = more[k]
                                /\ more[k] \in ToSet(more)
      /\ \A i \in DOMAIN both : i \in DOMAIN events \/ \E k \in DOMAIN more : i = Len(events) + k
  <2>1. \A k \in DOMAIN more : more[k] \in ToSet(more)
    BY ListEntries
  <2> QED BY <2>1, MoreEvents
<1> HIDE DEF both
<1>2. /\ target = (ToSet(ids) \ Gone(events)) \cup {events[i].id : i \in Coming(ids, events)}
      /\ \A i, j \in DOMAIN ids : i < j /\ ids[i] \notin Gone(events) /\ ids[j] \notin Gone(events) => ids[i] < ids[j]
      /\ \A x \in ToSet(ids) \ Gone(events), i \in Coming(ids, events) : x < events[i].id
      /\ \A i, j \in Coming(ids, events) : i < j => events[i].id < events[j].id
  BY DEF Becomes
<1>3. \A i \in Coming(ids, events) : i \in DOMAIN events
  BY DEF Coming
<1>4. \A i \in Coming(ids, both) : /\ i \in Coming(ids, events) /\ both[i] = events[i]
                                   /\ events[i].id \notin Gone(more)
  <2> TAKE i \in Coming(ids, both)
  <2>1. both[i].event = "item-added" /\ both[i].id \notin ToSet(ids) \cup Gone(both) /\ i \in DOMAIN both
    BY DEF Coming
  <2>2. i \in DOMAIN events
    <3>1. \A k \in DOMAIN more : more[k].event # "item-added"
      BY <1>1
    <3> QED BY <1>1, <2>1, <3>1
  <2> QED BY <1>1, <2>1, <2>2 DEF Coming
<1>5. \A i \in Coming(ids, events) : events[i].id \notin Gone(more) => i \in Coming(ids, both)
  BY <1>1, <1>3 DEF Coming
<1>6. target \ Gone(more) = (ToSet(ids) \ Gone(both)) \cup {both[i].id : i \in Coming(ids, both)}
  <2>1. {both[i].id : i \in Coming(ids, both)} = {events[i].id : i \in Coming(ids, events)} \ Gone(more)
    <3>1. {both[i].id : i \in Coming(ids, both)} \subseteq {events[i].id : i \in Coming(ids, events)} \ Gone(more)
      BY <1>4
    <3>2. ASSUME NEW i \in Coming(ids, events), events[i].id \notin Gone(more)
          PROVE  events[i].id \in {both[j].id : j \in Coming(ids, both)}
      BY <1>1, <1>3, <1>5, <3>2
    <3> QED BY <3>1, <3>2
  <2> QED BY <1>1, <1>2, <2>1
<1> QED BY <1>1, <1>2, <1>4, <1>6 DEF Becomes, both

\* Answers that no event contradicts stay the list, however many of the events come.
LEMMA AnswerStays ==
  ASSUME NEW ids \in Seq(Nat), Increasing(ids), NEW events \in Seq(Event), Once(events),
         Gone(events) \cap ToSet(ids) = {}, ~Contradicts(ids, events)
  PROVE  Becomes(ids, events, ToSet(ids))
<1>1. Coming(ids, events) = {}
  <2> SUFFICES ASSUME NEW i \in Coming(ids, events) PROVE FALSE
    OBVIOUS
  <2>1. i \in DOMAIN events /\ events[i].event = "item-added" /\ events[i].id \notin ToSet(ids) \cup Gone(events)
    BY DEF Coming
  <2>2. PICK j \in DOMAIN events : events[j].id = events[i].id /\ ~(j <= i)
    BY <2>1 DEF Contradicts
  <2>3. i < j
    BY <2>1, <2>2, EventTypes
  <2>4. events[j].event = "item-deleted"
    BY <2>1, <2>2, <2>3 DEF Once
  <2> QED BY <2>1, <2>2, <2>4, GoneByIndex
<1>2. ToSet(ids) = (ToSet(ids) \ Gone(events)) \cup {events[i].id : i \in Coming(ids, events)}
  BY <1>1
<1>3. \A i, j \in DOMAIN ids : i < j => ids[i] < ids[j]
  BY DEF Increasing
<1> QED BY <1>1, <1>2, <1>3 DEF Becomes

\* Events that change nothing about a list are not missed when they are dropped.
LEMMA DroppedForGood ==
  ASSUME NEW ids \in Seq(Nat), NEW events \in Seq(Event), NEW target, Becomes(ids, events, target),
         ~NewTo(ids, events)
  PROVE  Becomes(ids, <<>>, target)
<1>1. \A i \in DOMAIN events : /\ Applied(ids, events[i]) = ids /\ events[i].id \in Nat
                               /\ events[i].event \in {"item-added", "item-deleted"}
  <2>1. \A i \in DOMAIN events : events[i] \in ToSet(events)
    BY DEF ToSet
  <2> QED BY <2>1, EventTypes DEF NewTo
<1>2. Gone(events) \cap ToSet(ids) = {}
  <2> SUFFICES ASSUME NEW id \in Gone(events), id \in ToSet(ids) PROVE FALSE
    OBVIOUS
  <2>1. PICK i \in DOMAIN events : events[i].event = "item-deleted" /\ events[i].id = id
    BY GoneByIndex
  <2>2. Only(ids, ToSet(ids) \ {id}) = ids
    BY <1>1, <2>1 DEF Applied
  <2>3. ToSet(ids) = ToSet(ids) \cap (ToSet(ids) \ {id})
    BY <2>2, OnlyProperties
  <2> QED BY <2>3
<1>3. Coming(ids, events) = {}
  <2> SUFFICES ASSUME NEW i \in Coming(ids, events) PROVE FALSE
    OBVIOUS
  <2>1. i \in DOMAIN events /\ events[i].event = "item-added" /\ events[i].id \notin ToSet(ids)
    BY DEF Coming
  <2>2. Append(ids, events[i].id) = ids
    BY <1>1, <2>1 DEF Applied
  <2>3. ToSet(ids) = ToSet(ids) \cup {events[i].id}
    BY <1>1, <2>1, <2>2, PushProperties
  <2> QED BY <2>1, <2>3
<1>4. Gone(<<>>) = {} /\ Coming(ids, <<>>) = {}
  BY DEF Gone, Coming, ToSet
<1>5. \A i, j \in DOMAIN ids : i < j => ids[i] < ids[j]
  BY <1>2 DEF Becomes, ToSet
<1>6. target = ToSet(ids)
  BY <1>2, <1>3 DEF Becomes
<1> QED BY <1>4, <1>5, <1>6 DEF Becomes

\* Nor is the first of them, when it is handled before the list is shown.
LEMMA HandledForGood ==
  ASSUME NEW ids \in Seq(Nat), NEW events \in Seq(Event), events # <<>>, Once(events),
         NEW target, Becomes(ids, events, target), ~NewTo(ids, <<Head(events)>>)
  PROVE  Becomes(ids, Tail(events), target)
<1>1. Head(events) \in ToSet(<<Head(events)>>)
  BY DEF ToSet
<1>2. Applied(ids, Head(events)) = ids
  BY <1>1 DEF NewTo
<1> QED BY <1>2, EventKeepsBecoming

\* When nothing is left to come, the list is what it was to become.
LEMMA NothingLeft ==
  ASSUME NEW ids \in Seq(Nat), NEW other \in Seq(Nat), Increasing(other), Becomes(ids, <<>>, ToSet(other))
  PROVE  ids = other
<1>1. Gone(<<>>) = {} /\ Coming(ids, <<>>) = {}
  BY DEF Gone, Coming, ToSet
<1>2. ToSet(ids) = ToSet(other) /\ Increasing(ids)
  BY <1>1 DEF Becomes, Increasing
<1> QED BY <1>2, SameOrder

\* The entries that filter keeps stay in order.
LEMMA OnlyKeepsOrder ==
  ASSUME NEW entries \in Seq(Item), InOrder(entries), NEW kept
  PROVE  InOrder(Only(entries, kept))
<1> DEFINE some == Only(entries, kept)
<1>1. PICK n \in 0..Len(entries) : \E at \in [1..n -> DOMAIN entries] : InPlace(entries, kept, n, at)
  BY OnlyInOrder
<1>2. PICK at \in [1..n -> DOMAIN entries] : InPlace(entries, kept, n, at)
  BY <1>1
<1>3. some \in Seq(Item) /\ Len(some) = n
  BY <1>2, OnlyProperties DEF InPlace
<1>4. /\ \A k \in 1..n : some[k] = entries[at[k]] /\ at[k] \in DOMAIN entries
      /\ \A k, l \in 1..n : k < l => at[k] < at[l]
  BY <1>2 DEF InPlace
<1> HIDE DEF some
<1>5. DOMAIN some = 1..n
  BY <1>3, LenProperties
<1>6. InOrder(some)
  BY <1>4, <1>5 DEF InOrder
<1> QED BY <1>6 DEF some

\* The ids of the phone's own entries, in their order.
LEMMA OwnProperties ==
  ASSUME NEW entries \in Seq(Item), InOrder(entries)
  PROVE  /\ Own(entries) \in Seq(Nat) /\ Increasing(Own(entries))
         /\ ToSet(Own(entries)) \subseteq Ids(entries)
         /\ \A it \in ToSet(entries) : it.device = Self => it.id \in ToSet(Own(entries))
<1> DEFINE mine == Only(entries, {it \in ToSet(entries) : it.device = Self})
           own == [i \in DOMAIN mine |-> mine[i].id]
<1>1. mine \in Seq(Item) /\ ToSet(mine) = {it \in ToSet(entries) : it.device = Self} /\ InOrder(mine)
  <2>1. PICK kept : kept = {it \in ToSet(entries) : it.device = Self}
    OBVIOUS
  <2>2. Only(entries, kept) \in Seq(Item) /\ ToSet(Only(entries, kept)) = ToSet(entries) \cap kept
    BY OnlyProperties
  <2>3. InOrder(Only(entries, kept))
    BY OnlyKeepsOrder
  <2> QED BY <2>1, <2>2, <2>3
<1>2. Own(entries) = own
  BY DEF Own
<1> HIDE DEF mine
<1>3. PICK n \in Nat : n = Len(mine) /\ DOMAIN mine = 1..n
  BY <1>1, LenProperties
<1>4. \A i \in 1..n : mine[i] \in Item /\ mine[i] \in ToSet(mine)
  BY <1>1, <1>3, ListEntries
<1>5. own \in [1..n -> Nat]
  BY <1>3, <1>4 DEF Item
<1>6. own \in Seq(Nat) /\ DOMAIN own = 1..n /\ \A i \in 1..n : own[i] = mine[i].id
  BY <1>3, <1>5, FunctionIsList
<1> HIDE DEF own
<1>7. Increasing(own)
  BY <1>1, <1>3, <1>6 DEF InOrder, Increasing
<1>8. ToSet(own) \subseteq Ids(entries)
  BY <1>1, <1>4, <1>6 DEF ToSet, Ids
<1>9. ASSUME NEW it \in ToSet(entries), it.device = Self PROVE it.id \in ToSet(own)
  <2>1. PICK i \in 1..n : mine[i] = it
    BY <1>1, <1>3, <1>9 DEF ToSet
  <2> QED BY <1>6, <2>1 DEF ToSet
<1> QED BY <1>2, <1>6, <1>7, <1>8, <1>9

\* add keeps the order: the new id is the highest; and the new entry stays.
LEMMA AddKeepsOrder ==
  ASSUME items \in Seq(Item), InOrder(items), InOrder(saved), NEW item \in Item,
         \A it \in ToSet(items) : it.id < item.id, NEW files, NEW ok \in BOOLEAN, add(item, files, ok)
  PROVE  /\ InOrder(items') /\ InOrder(saved')
         /\ item \in ToSet(items') /\ ToSet(items') \subseteq ToSet(items) \cup {item}
<1> DEFINE all == Append(items, item)
<1>1. PICK n \in Nat : n = Len(items) /\ DOMAIN items = 1..n
  BY LenProperties
<1>2. /\ all \in Seq(Item) /\ Len(all) = n + 1 /\ DOMAIN all = 1..(n + 1)
      /\ \A i \in 1..n : all[i] = items[i]
      /\ all[n + 1] = item
  BY <1>1, AddedEntry
<1>3. PICK m \in 0..n : m = (IF n + 1 > MaxHistory THEN n + 1 - MaxHistory ELSE 0)
  BY <1>1, HistoryAssumption
<1> DEFINE rest == SubSeq(all, m + 1, n + 1)
<1>4. Len(Pruned(all)) = m
  <2>1. CASE n + 1 > MaxHistory
    <3> HIDE DEF all
    <3>1. Pruned(all) = SubSeq(all, 1, m)
      <4>1. m = Len(all) - MaxHistory /\ Len(all) > MaxHistory
        BY <1>1, <1>2, <1>3, <2>1, HistoryAssumption
      <4> QED BY <4>1 DEF Pruned
    <3>2. m \in 0..Len(all)
      BY <1>1, <1>2, <1>3
    <3> QED BY <1>2, <3>1, <3>2, CutProperties
  <2>2. CASE ~(n + 1 > MaxHistory)
    <3>1. Pruned(all) = <<>> /\ m = 0
      BY <1>2, <1>3, <2>2 DEF Pruned
    <3> QED BY <3>1
  <2> QED BY <2>1, <2>2
<1>5. items' = rest /\ (saved' = items' \/ saved' = saved)
  BY <1>2, <1>4 DEF add
<1> HIDE DEF all
<1>6. /\ rest \in Seq(Item) /\ Len(rest) = n + 1 - m
      /\ \A i \in 1..(n + 1 - m) : rest[i] = all[m + i] /\ m + i \in 1..(n + 1)
  <2>1. \A i \in 1..(n + 1) : all[i] \in Item
    BY <1>2, ElementOfSeq
  <2>2. m + 1 \in Int /\ n + 1 \in Int /\ \A i \in (m + 1)..(n + 1) : all[i] \in Item
    BY <1>1, <1>3, <2>1
  <2>3. /\ rest \in Seq(Item) /\ Len(rest) = IF m + 1 <= n + 1 THEN n + 1 - (m + 1) + 1 ELSE 0
        /\ \A i \in 1..(n + 1 - (m + 1) + 1) : rest[i] = all[(m + 1) + i - 1]
    BY <2>2, SubSeqProperties
  <2> HIDE DEF rest
  <2>4. \A i \in 1..(n + 1 - m) : i \in 1..(n + 1 - (m + 1) + 1) /\ (m + 1) + i - 1 = m + i /\ m + i \in 1..(n + 1)
    BY <1>1, <1>3
  <2> QED BY <1>1, <1>3, <2>3, <2>4
<1> HIDE DEF rest
<1>7. DOMAIN rest = 1..(n + 1 - m) /\ n + 1 - m \in 1..(n + 1 - m)
  BY <1>1, <1>3, <1>6, LenProperties
<1>8. \A i, j \in 1..(n + 1) : i < j => all[i].id < all[j].id
  <2> SUFFICES ASSUME NEW i \in 1..(n + 1), NEW j \in 1..(n + 1), i < j PROVE all[i].id < all[j].id
    OBVIOUS
  <2>1. i \in 1..n /\ all[i] = items[i] /\ items[i] \in ToSet(items)
    BY <1>1, <1>2 DEF ToSet
  <2>2. CASE j = n + 1
    BY <1>2, <2>1, <2>2
  <2>3. CASE j \in 1..n
    BY <1>1, <1>2, <2>1, <2>3 DEF InOrder
  <2> QED BY <2>2, <2>3
<1>9. InOrder(rest)
  <2> SUFFICES ASSUME NEW i \in 1..(n + 1 - m), NEW j \in 1..(n + 1 - m), i < j PROVE rest[i].id < rest[j].id
    BY <1>7 DEF InOrder
  <2>1. m + i < m + j
    BY <1>3
  <2> QED BY <1>6, <1>8, <2>1
<1>10. item \in ToSet(rest)
  <2>1. m + (n + 1 - m) = n + 1
    BY <1>1, <1>3
  <2>2. rest[n + 1 - m] = item
    BY <1>2, <1>6, <1>7, <2>1
  <2> QED BY <1>7, <2>2 DEF ToSet
<1>11. ToSet(rest) \subseteq ToSet(items) \cup {item}
  <2>1. \A i \in 1..(n + 1) : all[i] \in ToSet(items) \cup {item}
    <3> TAKE i \in 1..(n + 1)
    <3>1. i \in 1..n \/ i = n + 1
      BY <1>1
    <3> QED BY <1>1, <1>2, <3>1 DEF ToSet
  <2>2. \A i \in DOMAIN rest : rest[i] \in ToSet(items) \cup {item}
    BY <1>6, <1>7, <2>1
  <2> QED BY <2>2 DEF ToSet
<1> QED BY <1>5, <1>9, <1>10, <1>11

\* removeEach keeps it too, and what was removed is gone.
LEMMA RemoveKeepsOrder ==
  ASSUME items \in Seq(Item), IsInjective(items), InOrder(items), InOrder(saved), NEW doomed, NEW n,
         removeEach(doomed, n)
  PROVE  /\ InOrder(items') /\ InOrder(saved') /\ ToSet(items') \subseteq ToSet(items)
         /\ Ids(SubSeq(doomed, 1, n)) \cap Ids(items') = {}
<1> DEFINE done == Ids(SubSeq(doomed, 1, n))
<1>1. PICK thrown : items' = Rest(done \cup thrown)
  BY DEF removeEach
<1>2. saved' = Rest(done) \/ saved' = saved
  BY DEF removeEach, Written
<1> HIDE DEF done
<1>3. \A ids : InOrder(Rest(ids))
  BY OnlyKeepsOrder DEF Rest
<1>4. ToSet(items') = {it \in ToSet(items) : it.id \notin done \cup thrown}
  BY <1>1, RestProperties
<1>5. done \cap Ids(items') = {}
  BY <1>4 DEF Ids
<1> QED BY <1>1, <1>2, <1>3, <1>4, <1>5 DEF done

---------------------------------------------------------------------------------
(* What the laptop tells the phone when its history changes.                     *)

\* An event of any phone, as ItemStore emits it.
Emission == [event : {"item-added", "item-deleted"}, id : Nat, device : Phone]

\* What a step in which these events are for the phone does to what it has.
Told(events) ==
    /\ events \in Seq(Event)
    /\ queue' = IF stream = "open" THEN queue \o events ELSE queue
    /\ list' = list /\ stream' = stream /\ up' = up
    /\ \E untold \in BOOLEAN :
          /\ missed' = (missed \/ untold)
          /\ fetch' = [c \in Call |-> After(fetch[c], <<>>, untold)]
          /\ ~untold => \A id : (id \in ToSet(Own(items))) # (id \in ToSet(Own(items'))) =>
                                    /\ stream = "open"
                                    /\ \E e \in ToSet(events) : e.id = id

\* at tells which of the events emitted are for the phone.
Heard(emitted, events, n, at) ==
    /\ Len(events) = n
    /\ \A i \in 1..n : /\ events[i].event = emitted[at[i]].event /\ events[i].id = emitted[at[i]].id
                       /\ emitted[at[i]].device = Self
    /\ \A i, j \in 1..n : i < j => at[i] < at[j]

\* The phone is told of what concerns it, in the order in which it is emitted.
LEMMA BroadcastEffect ==
  ASSUME NEW emitted \in Seq(Emission), Broadcast(emitted)
  PROVE  \E n \in 0..Len(emitted) : \E at \in [1..n -> DOMAIN emitted] :
            \E events : Told(events) /\ Heard(emitted, events, n, at)
<1> DEFINE kept == {e \in ToSet(emitted) : Concerns(e)}
           mine == Only(emitted, kept)
           events == [i \in DOMAIN mine |-> [event |-> mine[i].event, id |-> mine[i].id]]
           old == ToSet(Own(items))
           new == ToSet(Own(items'))
           changed == (old \ new) \cup (new \ old)
           untold == ~(changed \subseteq IF stream = "open" THEN {e.id : e \in ToSet(events)} ELSE {})
<1>1. PICK n \in 0..Len(emitted) : /\ mine \in Seq(Emission)
                                   /\ \E at \in [1..n -> DOMAIN emitted] : InPlace(emitted, kept, n, at)
  <2> HIDE DEF kept
  <2> QED BY OnlyInOrder
<1>2. PICK at \in [1..n -> DOMAIN emitted] : InPlace(emitted, kept, n, at)
  BY <1>1
<1>3. /\ queue' = IF stream = "open" THEN queue \o events ELSE queue
      /\ missed' = (missed \/ untold)
      /\ fetch' = [c \in Call |-> After(fetch[c], <<>>, untold)]
      /\ UNCHANGED <<list, stream, up>>
  BY DEF Broadcast
<1>4. \A e \in kept : e.device = Self
  BY DEF Concerns
<1> HIDE DEF kept
<1>5. /\ Len(mine) = n
      /\ \A k \in 1..n : mine[k] = emitted[at[k]] /\ emitted[at[k]] \in kept
      /\ \A k, l \in 1..n : k < l => at[k] < at[l]
  BY <1>2 DEF InPlace
<1> HIDE DEF mine
<1>6. DOMAIN mine = 1..n /\ n \in Nat /\ \A k \in 1..n : mine[k] \in Emission
  <2>1. DOMAIN mine = 1..n /\ n \in Nat
    BY <1>1, <1>5, LenProperties
  <2> QED BY <1>1, <1>5, <2>1, ElementOfSeq
<1>7. \A k \in 1..n : events[k] = [event |-> mine[k].event, id |-> mine[k].id]
  BY <1>6
<1>8. events \in Seq(Event) /\ Len(events) = n
  <2>1. events \in [1..n -> Event]
    BY <1>6 DEF Emission, Event
  <2> HIDE DEF events
  <2> QED BY <1>6, <2>1, FunctionIsList
<1>9. Heard(emitted, events, n, at)
  <2> HIDE DEF events
  <2> QED BY <1>4, <1>5, <1>7, <1>8 DEF Heard
<1> HIDE DEF events
<1>10. Told(events)
  <2>1. untold \in BOOLEAN
    OBVIOUS
  <2>2. ASSUME ~untold, NEW id, (id \in old) # (id \in new)
        PROVE  stream = "open" /\ \E e \in ToSet(events) : e.id = id
    <3>1. id \in changed
      BY <2>2
    <3> HIDE DEF changed
    <3> QED BY <2>2, <3>1
  <2> HIDE DEF untold
  <2> QED BY <1>3, <1>8, <2>1, <2>2 DEF Told
<1> QED BY <1>9, <1>10

\* Events that tell of one more item of the phone, which is the newest of all.
Adds(events) == \E e \in Event : /\ events = <<e>> /\ e.event = "item-added"
                                 /\ e.id = lastId' /\ lastId < lastId'
                                 /\ e.id \in ToSet(Own(items'))

\* Events that tell that items of the phone are gone, once of each.
Removes(events) == /\ Once(events)
                   /\ \A e \in ToSet(events) : /\ e.event = "item-deleted"
                                               /\ e.id \in ToSet(Own(items)) /\ e.id \notin Ids(items')

\* What is known of the history's side when it changes.
Changes == /\ lastId' \in Nat /\ lastId <= lastId'
           /\ items' \in Seq(Item) /\ InOrder(items') /\ InOrder(saved')
           /\ \A id \in Ids(items') \ Ids(items) : id > lastId

\* The ids of the history, and the phone's own ones, before and after.
LEMMA OwnBeforeAndAfter ==
  ASSUME ListInv, Changes
  PROVE  /\ Own(items) \in Seq(Nat) /\ Increasing(Own(items))
         /\ Own(items') \in Seq(Nat) /\ Increasing(Own(items'))
         /\ ToSet(Own(items)) \subseteq Ids(items) /\ ToSet(Own(items')) \subseteq Ids(items')
         /\ Ids(items) \subseteq 1..lastId
         /\ lastId \in Nat /\ 1..lastId \subseteq 1..lastId'
<1>1. items \in Seq(Item) /\ InOrder(items) /\ lastId \in Nat
  BY DEF ListInv, HistoryInv, TypeOK, OrderInv
<1>2. Ids(items) \subseteq 1..lastId
  BY DEF ListInv, HistoryInv, IdsInv, Entries, Ids
<1>3. items' \in Seq(Item) /\ InOrder(items') /\ 1..lastId \subseteq 1..lastId'
  BY <1>1 DEF Changes
<1>4. /\ Own(items) \in Seq(Nat) /\ Increasing(Own(items)) /\ ToSet(Own(items)) \subseteq Ids(items)
  BY <1>1, OwnProperties
<1>5. /\ Own(items') \in Seq(Nat) /\ Increasing(Own(items')) /\ ToSet(Own(items')) \subseteq Ids(items')
  BY <1>3, OwnProperties
<1> QED BY <1>1, <1>2, <1>3, <1>4, <1>5

\* The events in the stream stay what they are: each item is added before it is deleted.
LEMMA TellingKeepsEvents ==
  ASSUME ListInv, Changes, NEW events, Told(events), Adds(events) \/ Removes(events)
  PROVE  EventsInv' /\ queue' \in Seq(Event) /\ (stream # "open" => queue' = <<>>)
<1>1. /\ Ids(items) \subseteq 1..lastId /\ ToSet(Own(items)) \subseteq Ids(items)
      /\ lastId \in Nat /\ 1..lastId \subseteq 1..lastId' /\ lastId' \in Nat
  BY OwnBeforeAndAfter DEF Changes
<1>2. /\ queue \in Seq(Event) /\ (stream # "open" => queue = <<>>) /\ events \in Seq(Event)
      /\ \A e \in ToSet(queue) : e.id \in 1..lastId
      /\ Once(queue) /\ Gone(queue) \cap Ids(items) = {}
  BY DEF ListInv, ListTypeOK, EventsInv, Told
<1>3. \A id \in Ids(items') \ Ids(items) : id > lastId
  BY DEF Changes
<1>4. Gone(queue) \subseteq 1..lastId
  BY <1>2 DEF Gone
<1>5. Gone(queue) \cap Ids(items') = {}
  BY <1>1, <1>2, <1>3, <1>4
<1>6. CASE stream # "open"
  <2>1. queue' = queue
    BY <1>6 DEF Told
  <2> QED BY <1>1, <1>2, <1>5, <2>1 DEF EventsInv
<1>7. CASE stream = "open"
  <2>1. PICK both : both = queue \o events
    OBVIOUS
  <2>2. queue' = both
    BY <1>7, <2>1 DEF Told
  <2>3. both \in Seq(Event) /\ ToSet(both) = ToSet(queue) \cup ToSet(events) /\ Gone(both) = Gone(queue) \cup Gone(events)
    BY <1>2, <2>1, MoreEvents
  <2>4. CASE Adds(events)
    <3>1. PICK e \in Event : events = <<e>> /\ e.event = "item-added" /\ e.id = lastId' /\ lastId < lastId'
      BY <2>4 DEF Adds
    <3>2. ToSet(events) = {e} /\ Gone(events) = {}
      BY <3>1 DEF ToSet, Gone
    <3>3. Once(events)
      BY <3>1 DEF Once
    <3>4. \A x \in ToSet(queue), y \in ToSet(events) : x.id # y.id
      BY <1>1, <1>2, <3>1, <3>2
    <3>5. Once(both)
      BY <1>2, <2>1, <3>3, <3>4, OnceAndMore
    <3>6. lastId' \in 1..lastId'
      BY <1>1, <3>1
    <3>7. \A x \in ToSet(both) : x.id \in 1..lastId'
      BY <1>1, <1>2, <2>3, <3>1, <3>2, <3>6
    <3>8. Gone(both) \cap Ids(items') = {}
      BY <1>5, <2>3, <3>2
    <3> QED BY <1>7, <2>2, <2>3, <3>5, <3>7, <3>8 DEF EventsInv
  <2>5. CASE Removes(events)
    <3>1. Once(events) /\ \A e \in ToSet(events) : /\ e.event = "item-deleted"
                                                   /\ e.id \in Ids(items) /\ e.id \notin Ids(items')
      BY <1>1, <2>5 DEF Removes
    <3>2. ASSUME NEW x \in ToSet(queue), NEW y \in ToSet(events), x.id = y.id
          PROVE  x.event = "item-added" /\ y.event = "item-deleted"
      <4>1. x.id \notin Gone(queue) /\ x.event \in {"item-added", "item-deleted"}
        <5>1. x \in Event
          BY <1>2, ListEntries
        <5>2. x.id \notin Gone(queue)
          BY <1>2, <3>1, <3>2
        <5> QED BY <5>1, <5>2 DEF Event
      <4> QED BY <3>1, <4>1 DEF Gone
    <3>3. Once(both)
      BY <1>2, <2>1, <3>1, <3>2, OnceAndMore
    <3>4. Gone(events) \cap Ids(items') = {}
      BY <3>1 DEF Gone
    <3>5. \A x \in ToSet(both) : x.id \in 1..lastId'
      BY <1>1, <1>2, <2>3, <3>1
    <3>6. Gone(both) \cap Ids(items') = {}
      BY <1>5, <2>3, <3>4
    <3> QED BY <1>7, <2>2, <2>3, <3>3, <3>5, <3>6 DEF EventsInv
  <2> QED BY <1>7, <2>2, <2>3, <2>4, <2>5
<1> QED BY <1>6, <1>7

\* A list that misses nothing is told of a change.
LEMMA TellingLeads ==
  ASSUME ListInv, Changes, NEW events, Told(events), Adds(events) \/ Removes(events),
         \A id : (id \in ToSet(Own(items))) # (id \in ToSet(Own(items'))) =>
                    stream = "open" /\ \E e \in ToSet(events) : e.id = id,
         NEW ids \in Seq(Nat), ToSet(ids) \subseteq 1..lastId, Leads(ids)
  PROVE  Becomes(ids, queue', ToSet(Own(items')))
<1>1. /\ Own(items) \in Seq(Nat) /\ Increasing(Own(items))
      /\ Own(items') \in Seq(Nat) /\ Increasing(Own(items'))
      /\ Ids(items) \subseteq 1..lastId /\ ToSet(Own(items)) \subseteq Ids(items)
      /\ ToSet(Own(items')) \subseteq Ids(items')
      /\ lastId \in Nat /\ 1..lastId \subseteq 1..lastId'
  BY OwnBeforeAndAfter
<1> DEFINE old == ToSet(Own(items))
           new == ToSet(Own(items'))
<1>2. /\ events \in Seq(Event)
      /\ queue' = IF stream = "open" THEN queue \o events ELSE queue
  BY DEF Told
<1>3. /\ queue \in Seq(Event)
      /\ \A e \in ToSet(queue) : e.id \in 1..lastId
  BY DEF ListInv, ListTypeOK, EventsInv
<1>4. Becomes(ids, queue, old)
  BY DEF Leads
<1>5. \A id : (id \in old) # (id \in new) => stream = "open" /\ \E e \in ToSet(events) : e.id = id
  OBVIOUS
<1> SUFFICES Becomes(ids, queue', new)
  OBVIOUS
<1> HIDE DEF old, new
<1>6. CASE stream # "open"
  <2>1. \A id : (id \in old) <=> (id \in new)
    BY <1>5, <1>6
  <2>2. old = new
    BY <2>1
  <2> QED BY <1>2, <1>4, <1>6, <2>2
<1>7. CASE stream = "open" /\ Adds(events)
  <2>1. PICK e \in Event : /\ events = <<e>> /\ e.event = "item-added"
                           /\ e.id = lastId' /\ lastId < lastId' /\ e.id \in new
    BY <1>7 DEF Adds, new
  <2>2. ToSet(events) = {e}
    BY <2>1 DEF ToSet
  <2>3. \A id : (id \in old) # (id \in new) => id = e.id
    BY <1>5, <2>2
  <2>4. new = old \cup {e.id}
    BY <2>1, <2>3
  <2>5. (\A x \in ToSet(ids) : x < e.id) /\ (\A x \in ToSet(queue) : x.id < e.id)
    BY <1>1, <1>3, <2>1 DEF Event
  <2>6. Becomes(ids, queue \o <<e>>, old \cup {e.id})
    BY <1>3, <1>4, <2>1, <2>5, OneMoreComes
  <2> QED BY <1>2, <1>7, <2>1, <2>4, <2>6
<1>8. CASE stream = "open" /\ Removes(events)
  <2>1. \A e \in ToSet(events) : e.event = "item-deleted" /\ e.id \in old /\ e.id \notin new
    BY <1>1, <1>8 DEF Removes, old, new
  <2>2. Becomes(ids, queue \o events, old \ Gone(events))
    BY <1>2, <1>3, <1>4, <2>1, DeletionsCome
  <2>3. \A id : (id \in old) # (id \in new) => id \in Gone(events)
    BY <1>5, <2>1 DEF Gone
  <2>4. \A id \in Gone(events) : id \in old /\ id \notin new
    BY <2>1 DEF Gone
  <2>5. new = old \ Gone(events)
    BY <2>3, <2>4
  <2> QED BY <1>2, <1>8, <2>2, <2>5
<1> QED BY <1>6, <1>7, <1>8

\* An answer on its way stays what it is; it is late if it misses something now.
LEMMA AfterProperties ==
  ASSUME NEW f \in Fetch, NEW events, NEW untold \in BOOLEAN
  PROVE  /\ After(f, events, untold) \in Fetch
         /\ After(f, events, untold).status = f.status /\ After(f, events, untold).ids = f.ids
         /\ After(f, events, untold).part = f.part
         /\ f.status = "answered" /\ ~After(f, events, untold).late =>
               ~f.late /\ ~untold /\ ~NewTo(f.ids, events)
<1>1. NewTo(f.ids, events) \in BOOLEAN
  BY DEF NewTo
<1> HIDE DEF NewTo
<1> QED BY <1>1 DEF Fetch, After

\* So a change of the history that the phone is told of keeps all of the invariant.
LEMMA TellingKeeps ==
  ASSUME ListInv, HistoryInv', Changes, NEW events, Told(events), Adds(events) \/ Removes(events)
  PROVE  ListInv'
<1>1. EventsInv' /\ queue' \in Seq(Event) /\ (stream # "open" => queue' = <<>>)
  BY TellingKeepsEvents
<1>2. PICK untold \in BOOLEAN :
          /\ missed' = (missed \/ untold)
          /\ fetch' = [c \in Call |-> After(fetch[c], <<>>, untold)]
          /\ ~untold => \A id : (id \in ToSet(Own(items))) # (id \in ToSet(Own(items'))) =>
                                    /\ stream = "open"
                                    /\ \E e \in ToSet(events) : e.id = id
  BY DEF Told
<1>3. list' = list /\ stream' = stream /\ up' = up
  BY DEF Told
<1>4. /\ list \in Seq(Nat) /\ missed \in BOOLEAN /\ fetch \in [Call -> Fetch]
      /\ ToSet(list) \subseteq 1..lastId /\ \A c \in Call : ToSet(fetch[c].ids) \subseteq 1..lastId
  BY DEF ListInv, ListTypeOK, OrderInv
<1>5. \A c \in Call : /\ fetch'[c] \in Fetch /\ fetch'[c].status = fetch[c].status
                      /\ fetch'[c].ids = fetch[c].ids /\ fetch[c].ids \in Seq(Nat)
                      /\ fetch[c].status = "answered" /\ ~fetch'[c].late => ~fetch[c].late /\ ~untold
  <2> TAKE c \in Call
  <2>1. fetch[c] \in Fetch /\ fetch'[c] = After(fetch[c], <<>>, untold)
    BY <1>2, <1>4
  <2>2. fetch[c].ids \in Seq(Nat)
    BY <2>1 DEF Fetch
  <2> QED BY <2>1, <2>2, AfterProperties
<1>6. ListTypeOK'
  <2>1. fetch' \in [Call -> Fetch]
    BY <1>2, <1>5
  <2> QED BY <1>1, <1>2, <1>3, <1>4, <2>1 DEF ListInv, ListTypeOK
<1>7. OrderInv'
  <2>1. 1..lastId \subseteq 1..lastId'
    BY OwnBeforeAndAfter
  <2> QED BY <1>3, <1>4, <1>5, <2>1 DEF OrderInv, Changes
<1>8. ShownInv'
  <2>1. ASSUME ~untold, NEW ids \in Seq(Nat), ToSet(ids) \subseteq 1..lastId, Leads(ids)
        PROVE  Becomes(ids, queue', ToSet(Own(items')))
    BY <1>2, <2>1, TellingLeads
  <2>2. ~missed' => Becomes(list', queue', ToSet(Own(items')))
    BY <1>2, <1>3, <1>4, <2>1 DEF ListInv, ShownInv
  <2>3. ASSUME NEW c \in Call, fetch'[c].status = "answered", ~fetch'[c].late
        PROVE  Becomes(fetch'[c].ids, queue', ToSet(Own(items')))
    <3>1. ~untold /\ Leads(fetch[c].ids)
      BY <1>5, <2>3 DEF ListInv, ShownInv
    <3> QED BY <1>4, <1>5, <2>1, <3>1
  <2> QED BY <2>2, <2>3 DEF ShownInv, Leads
<1> QED BY <1>1, <1>6, <1>7, <1>8 DEF ListInv

\* Nothing that is emitted for the phone is neither of an item that is new nor of one
\* that is gone.
LEMMA TellingNothing ==
  ASSUME NEW events, events = <<>>
  PROVE  Removes(events)
BY DEF Removes, Once, ToSet

\* The laptop sends a text to a phone.
LEMMA TextKeepsList ==
  ASSUME ListInv, NEW d \in Phone, NEW ok \in BOOLEAN, sendText(d, "laptop", ok),
         Broadcast(IF ok THEN <<[event |-> "item-added", id |-> lastId', device |-> d]>> ELSE <<>>)
  PROVE  ListInv'
<1> DEFINE item == [id |-> lastId', device |-> d, from |-> "laptop", path |-> <<>>]
           emitted == IF ok THEN <<[event |-> "item-added", id |-> lastId', device |-> d]>> ELSE <<>>
<1>1. HistoryInv'
  BY SendTextKeeps DEF ListInv, Side
<1>2. /\ items \in Seq(Item) /\ InOrder(items) /\ InOrder(saved) /\ lastId \in Nat
      /\ \A it \in ToSet(items) : it.id \in 1..lastId
  BY DEF ListInv, HistoryInv, TypeOK, IdsInv, Entries, OrderInv
<1>3. add(item, disk, ok) /\ lastId' = lastId + 1
  BY DEF sendText
<1>4. item \in Item /\ item.id = lastId' /\ item.device = d
  BY <1>2, <1>3 DEF Item, Side
<1> HIDE DEF item
<1>5. \A it \in ToSet(items) : it.id < item.id
  BY <1>2, <1>3, <1>4
<1>6. /\ InOrder(items') /\ InOrder(saved')
      /\ item \in ToSet(items') /\ ToSet(items') \subseteq ToSet(items) \cup {item}
  BY <1>2, <1>3, <1>4, <1>5, AddKeepsOrder
<1>7. items' \in Seq(Item)
  BY <1>1 DEF HistoryInv, TypeOK
<1>8. Changes
  <2>1. \A id \in Ids(items') \ Ids(items) : id = item.id
    BY <1>6 DEF Ids
  <2> QED BY <1>2, <1>3, <1>4, <1>6, <1>7, <2>1 DEF Changes
<1>9. emitted \in Seq(Emission) /\ (ok => Len(emitted) = 1) /\ (~ok => Len(emitted) = 0)
      /\ (ok => emitted[1].event = "item-added" /\ emitted[1].id = lastId' /\ emitted[1].device = d)
  <2>1. PICK e : e = [event |-> "item-added", id |-> lastId', device |-> d]
    OBVIOUS
  <2>2. e \in Emission /\ e.event = "item-added" /\ e.id = lastId' /\ e.device = d
    BY <1>2, <1>3, <2>1 DEF Emission
  <2>3. emitted = IF ok THEN <<e>> ELSE <<>>
    BY <2>1
  <2> HIDE DEF emitted
  <2> QED BY <2>2, <2>3
<1> HIDE DEF emitted
<1>10. PICK n \in 0..Len(emitted) : \E at \in [1..n -> DOMAIN emitted] :
            \E events : Told(events) /\ Heard(emitted, events, n, at)
  BY <1>9, BroadcastEffect DEF emitted
<1>11. PICK at \in [1..n -> DOMAIN emitted] : \E events : Told(events) /\ Heard(emitted, events, n, at)
  BY <1>10
<1>12. PICK events : Told(events) /\ Heard(emitted, events, n, at)
  BY <1>11
<1>13. events \in Seq(Event) /\ Len(events) = n
  BY <1>12 DEF Told, Heard
<1>14. CASE n = 0
  <2>1. events = <<>>
    BY <1>13, <1>14, EmptySeq
  <2> QED BY <1>1, <1>8, <1>12, <2>1, TellingNothing, TellingKeeps
<1>15. CASE n # 0
  <2>1. ok /\ n = 1 /\ DOMAIN emitted = 1..1
    <3>1. ok /\ Len(emitted) = 1
      BY <1>9, <1>15
    <3>2. n = 1
      BY <1>15, <3>1
    <3> QED BY <1>9, <3>1, <3>2, LenProperties
  <2>2. at[1] = 1
    BY <1>11, <2>1
  <2>3. events[1].event = "item-added" /\ events[1].id = lastId' /\ d = Self
    BY <1>9, <1>12, <2>1, <2>2 DEF Heard
  <2>4. events = <<events[1]>> /\ events[1] \in Event
    BY <1>13, <2>1
  <2>5. lastId' \in ToSet(Own(items'))
    BY <1>4, <1>6, <1>7, <2>3, OwnProperties
  <2>6. Adds(events)
    BY <1>2, <1>3, <2>3, <2>4, <2>5 DEF Adds
  <2> QED BY <1>1, <1>8, <1>12, <2>6, TellingKeeps
<1> QED BY <1>14, <1>15

\* Entries are removed, and the phones are told of those whose removal was saved.
LEMMA RemovalKeepsList ==
  ASSUME ListInv, HistoryInv', NEW doomed \in Seq(Item), InOrder(doomed), ToSet(doomed) \subseteq ToSet(items),
         NEW n \in 0..Len(doomed), removeEach(doomed, n), lastId' = lastId,
         NEW emitted \in Seq(Emission), Len(emitted) = n,
         \A i \in 1..n : /\ emitted[i].event = "item-deleted" /\ emitted[i].id = doomed[i].id
                         /\ emitted[i].device = doomed[i].device,
         Broadcast(emitted)
  PROVE  ListInv'
<1>1. /\ items \in Seq(Item) /\ IsInjective(items) /\ InOrder(items) /\ InOrder(saved) /\ lastId \in Nat
  BY DEF ListInv, HistoryInv, TypeOK, OrderInv
<1>2. /\ InOrder(items') /\ InOrder(saved') /\ ToSet(items') \subseteq ToSet(items)
      /\ Ids(SubSeq(doomed, 1, n)) \cap Ids(items') = {}
  BY <1>1, RemoveKeepsOrder
<1>3. Changes
  <2>1. items' \in Seq(Item)
    BY DEF HistoryInv, TypeOK
  <2>2. Ids(items') \subseteq Ids(items)
    BY <1>2 DEF Ids
  <2> QED BY <1>1, <1>2, <2>1, <2>2 DEF Changes
<1>4. PICK k \in 0..Len(emitted) : \E at \in [1..k -> DOMAIN emitted] :
            \E events : Told(events) /\ Heard(emitted, events, k, at)
  BY BroadcastEffect
<1>5. PICK at \in [1..k -> DOMAIN emitted] : \E events : Told(events) /\ Heard(emitted, events, k, at)
  BY <1>4
<1>6. PICK events : Told(events) /\ Heard(emitted, events, k, at)
  BY <1>5
<1>7. events \in Seq(Event) /\ Len(events) = k
  BY <1>6 DEF Told, Heard
<1>8. DOMAIN emitted = 1..n /\ DOMAIN doomed = 1..Len(doomed) /\ Len(doomed) \in Nat /\ DOMAIN events = 1..k
  BY <1>7, LenProperties
<1>9. \A i \in 1..k : /\ at[i] \in 1..n /\ events[i].event = "item-deleted"
                      /\ events[i].id = doomed[at[i]].id /\ doomed[at[i]].device = Self
  <2> TAKE i \in 1..k
  <2>1. at[i] \in 1..n
    BY <1>5, <1>8
  <2>2. events[i].event = emitted[at[i]].event /\ events[i].id = emitted[at[i]].id /\ emitted[at[i]].device = Self
    BY <1>6 DEF Heard
  <2> QED BY <2>1, <2>2
<1>10. \A i, j \in 1..k : i < j => at[i] < at[j]
  BY <1>6 DEF Heard
<1>11. Once(events)
  <2> SUFFICES ASSUME NEW i \in 1..k, NEW j \in 1..k, i < j, events[i].id = events[j].id PROVE FALSE
    BY <1>8 DEF Once
  <2>1. at[i] < at[j] /\ at[i] \in DOMAIN doomed /\ at[j] \in DOMAIN doomed
    BY <1>8, <1>9, <1>10
  <2>2. doomed[at[i]].id < doomed[at[j]].id
    BY <2>1 DEF InOrder
  <2>3. doomed[at[i]].id = doomed[at[j]].id /\ doomed[at[i]].id \in Nat
    <3>1. doomed[at[i]] \in Item
      BY <1>8, <2>1, ElementOfSeq
    <3> QED BY <1>9, <3>1 DEF Item
  <2> QED BY <2>2, <2>3
<1>12. \A m \in 1..n : doomed[m].id \notin Ids(items') /\ doomed[m] \in ToSet(items)
  <2>1. ToSet(SubSeq(doomed, 1, n)) = {doomed[i] : i \in 1..n}
    <3>1. PICK a \in Nat \ {0} : a = 1
      OBVIOUS
    <3>2. n \in Nat /\ a <= n + 1 /\ n <= Len(doomed)
      BY <1>8, <3>1
    <3>3. ToSet(SubSeq(doomed, a, n)) = {doomed[i] : i \in a..n}
      BY <3>2, PartProperties
    <3> QED BY <3>1, <3>3
  <2>2. \A m \in 1..n : doomed[m].id \in Ids(SubSeq(doomed, 1, n))
    BY <2>1 DEF Ids
  <2>3. \A m \in 1..n : doomed[m] \in ToSet(doomed)
    BY <1>8 DEF ToSet
  <2> QED BY <1>2, <2>2, <2>3
<1>13. Removes(events)
  <2>1. ASSUME NEW e \in ToSet(events)
        PROVE  e.event = "item-deleted" /\ e.id \in ToSet(Own(items)) /\ e.id \notin Ids(items')
    <3>1. PICK i \in 1..k : e = events[i]
      BY <1>8 DEF ToSet
    <3>2. /\ doomed[at[i]] \in ToSet(items) /\ doomed[at[i]].device = Self
          /\ doomed[at[i]].id \notin Ids(items')
      BY <1>9, <1>12
    <3>3. doomed[at[i]].id \in ToSet(Own(items))
      BY <1>1, <3>2, OwnProperties
    <3> QED BY <1>9, <3>1, <3>2, <3>3
  <2> QED BY <1>11, <2>1 DEF Removes
<1> QED BY <1>3, <1>6, <1>13, TellingKeeps

\* What is emitted for entries that are removed.
LEMMA DeletionsAreEmissions ==
  ASSUME NEW doomed \in Seq(Item)
  PROVE  /\ Deletions(doomed) \in Seq(Emission) /\ Len(Deletions(doomed)) = Len(doomed)
         /\ \A i \in 1..Len(doomed) : /\ Deletions(doomed)[i].event = "item-deleted"
                                      /\ Deletions(doomed)[i].id = doomed[i].id
                                      /\ Deletions(doomed)[i].device = doomed[i].device
<1>1. PICK n \in Nat : n = Len(doomed) /\ DOMAIN doomed = 1..n
  BY LenProperties
<1>2. \A i \in 1..n : doomed[i] \in Item
  BY <1>1, ElementOfSeq
<1> DEFINE all == Deletions(doomed)
<1>3. all = [i \in 1..n |-> [event |-> "item-deleted", id |-> doomed[i].id, device |-> doomed[i].device]]
  BY <1>1 DEF Deletions
<1>4. all \in [1..n -> Emission]
  BY <1>2, <1>3 DEF Emission, Item
<1> HIDE DEF all
<1>5. all \in Seq(Emission) /\ Len(all) = n
  BY <1>1, <1>4, FunctionIsList
<1> QED BY <1>1, <1>3, <1>5 DEF all

\* The laptop deletes an entry.
LEMMA DeleteKeepsList ==
  ASSUME ListInv, NEW it \in ToSet(items), NEW ok \in BOOLEAN, deleteItem("laptop", it, ok),
         Broadcast(IF ok THEN Deletions(<<it>>) ELSE <<>>)
  PROVE  ListInv'
<1>1. HistoryInv'
  BY DeleteItemKeeps DEF ListInv
<1> DEFINE n == IF ok THEN 1 ELSE 0
           doomed == <<it>>
           emitted == IF ok THEN Deletions(doomed) ELSE <<>>
<1>2. it \in Item
  BY ListEntries DEF ListInv, HistoryInv, TypeOK
<1>3. doomed \in Seq(Item) /\ Len(doomed) = 1 /\ ToSet(doomed) \subseteq ToSet(items) /\ InOrder(doomed)
  BY <1>2 DEF ToSet, InOrder
<1>4. removeEach(doomed, n) /\ lastId' = lastId /\ Broadcast(emitted)
  BY DEF deleteItem
<1> HIDE DEF doomed
<1>5. n \in 0..Len(doomed)
  BY <1>3
<1>6. emitted \in Seq(Emission) /\ Len(emitted) = n
      /\ \A i \in 1..n : /\ emitted[i].event = "item-deleted" /\ emitted[i].id = doomed[i].id
                         /\ emitted[i].device = doomed[i].device
  <2>1. CASE ok
    BY <1>3, <2>1, DeletionsAreEmissions
  <2>2. CASE ~ok
    BY <2>2
  <2> QED BY <2>1, <2>2
<1> HIDE DEF emitted, n
<1> QED BY <1>1, <1>3, <1>4, <1>5, <1>6, RemovalKeepsList

\* The history of one phone, or all of it, is cleared, as far as it can be saved.
LEMMA ClearKeepsList ==
  ASSUME ListInv, NEW whose, NEW n, clearHistory(whose, n),
         Broadcast(SubSeq(Deletions(Doomed(whose)), 1, n))
  PROVE  ListInv'
<1>1. HistoryInv'
  BY ClearHistoryKeeps DEF ListInv
<1> DEFINE chosen == {it \in ToSet(items) : it.device \in whose}
<1>2. PICK doomed : doomed = Doomed(whose)
  OBVIOUS
<1>3. removeEach(doomed, n) /\ n \in 0..Len(doomed) /\ lastId' = lastId
  BY <1>2 DEF clearHistory
<1>4. items \in Seq(Item) /\ InOrder(items)
  BY DEF ListInv, HistoryInv, TypeOK, OrderInv
<1>5. doomed = Only(items, chosen)
  BY <1>2 DEF Doomed
<1> HIDE DEF chosen
<1>6. doomed \in Seq(Item) /\ ToSet(doomed) \subseteq ToSet(items) /\ InOrder(doomed)
  BY <1>4, <1>5, OnlyProperties, OnlyKeepsOrder
<1>7. PICK all : all = Deletions(doomed)
  OBVIOUS
<1>8. /\ all \in Seq(Emission) /\ Len(all) = Len(doomed)
      /\ \A i \in 1..Len(doomed) : /\ all[i].event = "item-deleted" /\ all[i].id = doomed[i].id
                                   /\ all[i].device = doomed[i].device
  BY <1>6, <1>7, DeletionsAreEmissions
<1>9. PICK emitted : emitted = SubSeq(all, 1, n)
  OBVIOUS
<1>10. Len(doomed) \in Nat /\ n \in Nat /\ n <= Len(doomed)
  BY <1>3, <1>6, LenProperties
<1>11. emitted \in Seq(Emission) /\ Len(emitted) = n /\ \A i \in 1..n : emitted[i] = all[i]
  <2>1. 1 \in Int /\ n \in Int /\ \A i \in 1..n : all[i] \in Emission
    BY <1>8, <1>10, ElementOfSeq
  <2>2. /\ SubSeq(all, 1, n) \in Seq(Emission)
        /\ Len(SubSeq(all, 1, n)) = IF 1 <= n THEN n - 1 + 1 ELSE 0
        /\ \A i \in 1..(n - 1 + 1) : SubSeq(all, 1, n)[i] = all[1 + i - 1]
    BY <2>1, SubSeqProperties
  <2> QED BY <1>9, <1>10, <2>2
<1>12. \A i \in 1..n : /\ emitted[i].event = "item-deleted" /\ emitted[i].id = doomed[i].id
                       /\ emitted[i].device = doomed[i].device
  BY <1>8, <1>10, <1>11
<1>13. Broadcast(emitted)
  BY <1>2, <1>7, <1>9
<1> QED BY <1>1, <1>3, <1>6, <1>11, <1>12, <1>13, RemovalKeepsList

\* The history changes, whatever the laptop does.
LEMMA HistoryChangesKeep ==
  ASSUME ListInv, HistoryChanges
  PROVE  ListInv'
<1>1. ASSUME NEW d \in Phone, NEW ok \in BOOLEAN, sendText(d, "laptop", ok),
             Broadcast(IF ok THEN <<[event |-> "item-added", id |-> lastId', device |-> d]>> ELSE <<>>)
      PROVE  ListInv'
  BY <1>1, TextKeepsList
<1>2. ASSUME NEW it \in ToSet(items), NEW ok \in BOOLEAN, deleteItem("laptop", it, ok),
             Broadcast(IF ok THEN Deletions(<<it>>) ELSE <<>>)
      PROVE  ListInv'
  BY <1>2, DeleteKeepsList
<1>3. ASSUME NEW whose \in {{d} : d \in Phone} \cup {Phone}, NEW n \in 0..MaxHistory,
             clearHistory(whose, n), Broadcast(SubSeq(Deletions(Doomed(whose)), 1, n))
      PROVE  ListInv'
  BY <1>3, ClearKeepsList
<1> QED BY <1>1, <1>2, <1>3 DEF HistoryChanges

---------------------------------------------------------------------------------
(* The phone.                                                                    *)

\* A step of the phone's leaves the history alone.
LEMMA HistoryUntouched ==
  ASSUME ListInv, UNCHANGED vars
  PROVE  /\ HistoryInv' /\ items' = items /\ saved' = saved /\ lastId' = lastId
         /\ InOrder(items)' /\ InOrder(saved)' /\ Own(items') = Own(items) /\ Ids(items') = Ids(items)
<1>1. HistoryInv'
  BY EveryStepKeeps DEF ListInv
<1>2. items' = items /\ saved' = saved /\ lastId' = lastId
  BY DEF vars
<1> QED BY <1>1, <1>2 DEF ListInv, OrderInv

\* What an event makes of the list.
LEMMA AppliedProperties ==
  ASSUME NEW ids \in Seq(Nat), NEW e \in Event
  PROVE  Applied(ids, e) \in Seq(Nat) /\ ToSet(Applied(ids, e)) \subseteq ToSet(ids) \cup {e.id}
<1>1. e.id \in Nat
  BY DEF Event
<1>2. CASE e.event = "item-deleted"
  <2>1. Applied(ids, e) = Only(ids, ToSet(ids) \ {e.id})
    BY <1>2 DEF Applied
  <2> QED BY <2>1, OnlyProperties
<1>3. CASE e.event # "item-deleted" /\ e.id \in ToSet(ids)
  BY <1>3 DEF Applied
<1>4. CASE e.event # "item-deleted" /\ e.id \notin ToSet(ids)
  <2>1. Applied(ids, e) = Append(ids, e.id)
    BY <1>4 DEF Applied
  <2> QED BY <1>1, <2>1, PushProperties
<1> QED BY <1>2, <1>3, <1>4

\* A fetch that is not answered yet, or not any more, or that stays as it was.
Stays(old, new) == \/ new.status # "answered" /\ new.ids = <<>>
                   \/ new.status = old.status /\ new.ids = old.ids /\ new.late = old.late

\* An event is handled.
LEMMA OnEventKeeps ==
  ASSUME ListInv, OnEvent
  PROVE  ListInv'
<1>1. /\ queue # <<>> /\ list' = Applied(list, Head(queue)) /\ queue' = Tail(queue)
      /\ fetch' = [c \in Call |-> After(fetch[c], <<Head(queue)>>, FALSE)]
      /\ UNCHANGED <<stream, up, missed>> /\ UNCHANGED vars
  BY DEF OnEvent
<1>2. /\ HistoryInv' /\ items' = items /\ saved' = saved /\ lastId' = lastId
      /\ InOrder(items)' /\ InOrder(saved)' /\ Own(items') = Own(items) /\ Ids(items') = Ids(items)
  BY <1>1, HistoryUntouched
<1>3. /\ queue \in Seq(Event) /\ list \in Seq(Nat) /\ Once(queue) /\ Gone(queue) \cap Ids(items) = {}
      /\ (stream # "open" => queue = <<>>)
      /\ \A e \in ToSet(queue) : e.id \in 1..lastId
      /\ ToSet(list) \subseteq 1..lastId /\ \A c \in Call : ToSet(fetch[c].ids) \subseteq 1..lastId
      /\ fetch \in [Call -> Fetch]
  BY DEF ListInv, ListTypeOK, EventsInv, OrderInv
<1>4. /\ Head(queue) = queue[1] /\ 1 \in DOMAIN queue /\ Tail(queue) \in Seq(Event)
      /\ \A i \in DOMAIN Tail(queue) : i + 1 \in DOMAIN queue /\ Tail(queue)[i] = queue[i + 1]
  BY <1>1, <1>3, TailOfEvents
<1>5. Head(queue) \in Event /\ Head(queue) \in ToSet(queue)
  BY <1>3, <1>4, ListEntries
<1>6. ToSet(Tail(queue)) \subseteq ToSet(queue)
  BY <1>4 DEF ToSet
<1>7. Once(Tail(queue)) /\ Gone(Tail(queue)) \subseteq Gone(queue)
  BY <1>1, <1>3, OnceInTail, GoneInTail
<1>8. list' \in Seq(Nat) /\ ToSet(list') \subseteq ToSet(list) \cup {Head(queue).id}
  BY <1>1, <1>3, <1>5, AppliedProperties
<1>9. \A c \in Call : /\ fetch'[c] \in Fetch /\ fetch'[c].status = fetch[c].status
                      /\ fetch'[c].ids = fetch[c].ids /\ fetch[c].ids \in Seq(Nat)
                      /\ fetch[c].status = "answered" /\ ~fetch'[c].late =>
                            ~fetch[c].late /\ ~NewTo(fetch[c].ids, <<Head(queue)>>)
  <2> TAKE c \in Call
  <2>1. PICK first : first = <<Head(queue)>>
    OBVIOUS
  <2>2. fetch[c] \in Fetch /\ fetch'[c] = After(fetch[c], first, FALSE)
    BY <1>1, <1>3, <2>1
  <2>3. fetch[c].ids \in Seq(Nat)
    BY <2>2 DEF Fetch
  <2>4. PICK g : g = After(fetch[c], first, FALSE)
    OBVIOUS
  <2>5. /\ g \in Fetch /\ g.status = fetch[c].status /\ g.ids = fetch[c].ids
        /\ fetch[c].status = "answered" /\ ~g.late => ~fetch[c].late /\ ~NewTo(fetch[c].ids, first)
    BY <2>2, <2>4, AfterProperties
  <2> QED BY <2>1, <2>2, <2>3, <2>4, <2>5
<1>10. ListTypeOK'
  <2>1. fetch' \in [Call -> Fetch]
    BY <1>1, <1>9
  <2> QED BY <1>1, <1>3, <1>4, <1>8, <2>1 DEF ListInv, ListTypeOK
<1>11. EventsInv'
  BY <1>1, <1>2, <1>3, <1>6, <1>7 DEF EventsInv
<1>12. OrderInv'
  BY <1>1, <1>2, <1>3, <1>5, <1>8, <1>9 DEF OrderInv
<1>13. PICK target : target = ToSet(Own(items))
  OBVIOUS
<1>14. ~missed' => Becomes(list', queue', target)
  <2> SUFFICES ASSUME ~missed PROVE Becomes(Applied(list, Head(queue)), Tail(queue), target)
    BY <1>1
  <2>1. Becomes(list, queue, target)
    BY <1>13 DEF ListInv, ShownInv, Leads
  <2> QED BY <1>1, <1>3, <2>1, EventKeepsBecoming
<1>15. ASSUME NEW c \in Call, fetch'[c].status = "answered", ~fetch'[c].late
       PROVE  Becomes(fetch'[c].ids, queue', target)
  <2>1. Becomes(fetch[c].ids, queue, target) /\ ~NewTo(fetch[c].ids, <<Head(queue)>>)
    BY <1>9, <1>13, <1>15 DEF ListInv, ShownInv, Leads
  <2>2. PICK ids \in Seq(Nat) : ids = fetch[c].ids
    BY <1>9
  <2>3. Becomes(ids, Tail(queue), target)
    BY <1>1, <1>3, <2>1, <2>2, HandledForGood
  <2> QED BY <1>1, <1>9, <2>2, <2>3
<1>16. ShownInv'
  BY <1>2, <1>13, <1>14, <1>15 DEF ShownInv, Leads
<1> QED BY <1>2, <1>10, <1>11, <1>12, <1>16 DEF ListInv

\* A stream in which nothing was written.
LEMMA NoEvents == /\ <<>> \in Seq(Event) /\ <<>> \in Seq(Nat)
                  /\ Once(<<>>) /\ Gone(<<>>) = {} /\ ToSet(<<>>) = {}
BY EmptySeq DEF Once, Gone, ToSet

\* The answer replaces the list, and what the events to come make of it is what they make of
\* the answer.
LEMMA ShowFetchedKeeps ==
  ASSUME ListInv, NEW c \in Call, ShowFetched(c)
  PROVE  ListInv'
<1>1. /\ fetch[c].status = "answered" /\ list' = fetch[c].ids /\ missed' = fetch[c].late
      /\ fetch' = [fetch EXCEPT ![c] = [@ EXCEPT !.status = "shown", !.ids = <<>>, !.late = FALSE]]
      /\ UNCHANGED <<stream, queue, up>> /\ UNCHANGED vars
  BY DEF ShowFetched
<1>2. /\ HistoryInv' /\ items' = items /\ saved' = saved /\ lastId' = lastId
      /\ InOrder(items)' /\ InOrder(saved)' /\ Own(items') = Own(items) /\ Ids(items') = Ids(items)
  BY <1>1, HistoryUntouched
<1>3. fetch \in [Call -> Fetch] /\ fetch[c] \in Fetch
  BY DEF ListInv, ListTypeOK
<1>4. fetch[c].ids \in Seq(Nat) /\ fetch[c].late \in BOOLEAN
  BY <1>3 DEF Fetch
<1>5. /\ fetch'[c] \in Fetch /\ fetch'[c].status = "shown" /\ fetch'[c].ids = <<>>
      /\ \A d \in Call : d # c => fetch'[d] = fetch[d]
      /\ fetch' \in [Call -> Fetch]
  <2>1. PICK f : f = [fetch[c] EXCEPT !.status = "shown", !.ids = <<>>, !.late = FALSE]
    OBVIOUS
  <2>2. f \in Fetch /\ f.status = "shown" /\ f.ids = <<>>
    BY <1>3, <2>1, NoEvents DEF Fetch
  <2>3. fetch' = [fetch EXCEPT ![c] = f]
    BY <1>1, <2>1
  <2> QED BY <1>3, <2>2, <2>3
<1>6. ListTypeOK'
  BY <1>1, <1>4, <1>5 DEF ListInv, ListTypeOK
<1>7. EventsInv'
  BY <1>1, <1>2 DEF ListInv, EventsInv
<1>8. OrderInv'
  <2>1. \A d \in Call : ToSet(fetch'[d].ids) \subseteq 1..lastId
    BY <1>5, NoEvents DEF ListInv, OrderInv
  <2> QED BY <1>1, <1>2, <2>1 DEF ListInv, OrderInv
<1>9. ShownInv'
  <2>1. ~missed' => Becomes(list', queue', ToSet(Own(items')))
    BY <1>1, <1>2 DEF ListInv, ShownInv, Leads
  <2>2. \A d \in Call : fetch'[d].status = "answered" /\ ~fetch'[d].late =>
                           Becomes(fetch'[d].ids, queue', ToSet(Own(items')))
    BY <1>1, <1>2, <1>5 DEF ListInv, ShownInv, Leads
  <2> QED BY <2>1, <2>2 DEF ShownInv, Leads
<1> QED BY <1>2, <1>6, <1>7, <1>8, <1>9 DEF ListInv

\* The fetch is answered with what the history is now.
LEMMA AnswerKeeps ==
  ASSUME ListInv, NEW c \in Call, Answer(c)
  PROVE  ListInv'
<1>1. /\ fetch' = [fetch EXCEPT ![c] = [@ EXCEPT !.status = "answered", !.ids = Own(items),
                                                 !.late = Contradicts(Own(items), queue)]]
      /\ UNCHANGED <<list, stream, queue, up, missed>> /\ UNCHANGED vars
  BY DEF Answer
<1>2. /\ HistoryInv' /\ items' = items /\ saved' = saved /\ lastId' = lastId
      /\ InOrder(items)' /\ InOrder(saved)' /\ Own(items') = Own(items) /\ Ids(items') = Ids(items)
  BY <1>1, HistoryUntouched
<1>3. /\ items \in Seq(Item) /\ InOrder(items)
      /\ Ids(items) \subseteq 1..lastId
  BY DEF ListInv, HistoryInv, TypeOK, OrderInv, IdsInv, Entries, Ids
<1>4. PICK own : own = Own(items)
  OBVIOUS
<1>5. own \in Seq(Nat) /\ Increasing(own) /\ ToSet(own) \subseteq Ids(items)
  BY <1>3, <1>4, OwnProperties
<1>6. PICK late \in BOOLEAN : late = Contradicts(own, queue)
  BY DEF Contradicts
<1>7. fetch \in [Call -> Fetch] /\ fetch[c] \in Fetch /\ queue \in Seq(Event) /\ Once(queue)
      /\ Gone(queue) \cap Ids(items) = {}
  BY DEF ListInv, ListTypeOK, EventsInv
<1>8. /\ fetch'[c] \in Fetch /\ fetch'[c].ids = own /\ fetch'[c].late = late
      /\ \A d \in Call : d # c => fetch'[d] = fetch[d]
      /\ fetch' \in [Call -> Fetch]
  <2>1. PICK f : f = [fetch[c] EXCEPT !.status = "answered", !.ids = own, !.late = late]
    OBVIOUS
  <2>2. f \in Fetch /\ f.ids = own /\ f.late = late
    BY <1>5, <1>7, <2>1 DEF Fetch
  <2>3. fetch' = [fetch EXCEPT ![c] = f]
    BY <1>1, <1>4, <1>6, <2>1
  <2> QED BY <1>7, <2>2, <2>3
<1>9. ListTypeOK'
  BY <1>1, <1>8 DEF ListInv, ListTypeOK
<1>10. EventsInv'
  BY <1>1, <1>2 DEF ListInv, EventsInv
<1>11. OrderInv'
  <2>1. \A d \in Call : ToSet(fetch'[d].ids) \subseteq 1..lastId
    BY <1>3, <1>5, <1>8 DEF ListInv, OrderInv
  <2> QED BY <1>1, <1>2, <2>1 DEF ListInv, OrderInv
<1>12. ShownInv'
  <2>1. ~missed' => Becomes(list', queue', ToSet(Own(items')))
    BY <1>1, <1>2 DEF ListInv, ShownInv, Leads
  <2>2. ~late => Becomes(own, queue, ToSet(own))
    <3>1. Gone(queue) \cap ToSet(own) = {}
      BY <1>5, <1>7
    <3> QED BY <1>5, <1>6, <1>7, <3>1, AnswerStays
  <2>3. ASSUME NEW d \in Call, fetch'[d].status = "answered", ~fetch'[d].late
        PROVE  Becomes(fetch'[d].ids, queue', ToSet(Own(items')))
    <3>1. CASE d = c
      BY <1>1, <1>2, <1>4, <1>8, <2>2, <2>3, <3>1
    <3>2. CASE d # c
      BY <1>1, <1>2, <1>8, <2>3, <3>2 DEF ListInv, ShownInv, Leads
    <3> QED BY <3>1, <3>2
  <2> QED BY <2>1, <2>3 DEF ShownInv, Leads
<1> QED BY <1>2, <1>9, <1>10, <1>11, <1>12 DEF ListInv

\* Steps that leave list and events alone: no answer comes or goes but by being forgotten.
LEMMA NothingNewKeeps ==
  ASSUME ListInv, UNCHANGED <<vars, list, queue, missed>>,
         stream' \in {"closed", "opening", "open"}, stream' = stream \/ stream = "opening",
         up' \in BOOLEAN, fetch' \in [Call -> Fetch], \A d \in Call : Stays(fetch[d], fetch'[d])
  PROVE  ListInv'
<1>1. /\ HistoryInv' /\ items' = items /\ saved' = saved /\ lastId' = lastId
      /\ InOrder(items)' /\ InOrder(saved)' /\ Own(items') = Own(items) /\ Ids(items') = Ids(items)
  BY HistoryUntouched
<1>2. ListTypeOK'
  BY DEF ListInv, ListTypeOK
<1>3. EventsInv'
  BY <1>1 DEF ListInv, EventsInv
<1>4. OrderInv'
  <2>1. \A d \in Call : ToSet(fetch'[d].ids) \subseteq 1..lastId
    BY NoEvents DEF ListInv, OrderInv, Stays
  <2> QED BY <1>1, <2>1 DEF ListInv, OrderInv
<1>5. ShownInv'
  <2>1. ~missed' => Becomes(list', queue', ToSet(Own(items')))
    BY <1>1 DEF ListInv, ShownInv, Leads
  <2>2. \A d \in Call : fetch'[d].status = "answered" /\ ~fetch'[d].late =>
                           Becomes(fetch'[d].ids, queue', ToSet(Own(items')))
    BY <1>1 DEF ListInv, ShownInv, Leads, Stays
  <2> QED BY <2>1, <2>2 DEF ShownInv, Leads
<1> QED BY <1>1, <1>2, <1>3, <1>4, <1>5 DEF ListInv

\* Steps that drop the stream, and with it the events on their way.
LEMMA DroppingKeeps ==
  ASSUME ListInv, UNCHANGED <<vars, list>>, Dropped,
         stream' \in {"closed", "opening"}, up' \in BOOLEAN, fetch' \in [Call -> Fetch],
         \A d \in Call : Stays(After(fetch[d], queue, FALSE), fetch'[d])
  PROVE  ListInv'
<1>1. /\ HistoryInv' /\ items' = items /\ saved' = saved /\ lastId' = lastId
      /\ InOrder(items)' /\ InOrder(saved)' /\ Own(items') = Own(items) /\ Ids(items') = Ids(items)
  BY HistoryUntouched
<1>2. queue' = <<>> /\ missed' = (missed \/ NewTo(list, queue))
  BY DEF Dropped
<1>3. /\ queue \in Seq(Event) /\ list \in Seq(Nat) /\ missed \in BOOLEAN /\ fetch \in [Call -> Fetch]
      /\ ToSet(list) \subseteq 1..lastId /\ \A c \in Call : ToSet(fetch[c].ids) \subseteq 1..lastId
  BY DEF ListInv, ListTypeOK, OrderInv
<1>4. \A d \in Call : LET f == After(fetch[d], queue, FALSE)
                      IN  /\ f.status = fetch[d].status /\ f.ids = fetch[d].ids /\ fetch[d].ids \in Seq(Nat)
                          /\ fetch[d].status = "answered" /\ ~f.late =>
                                ~fetch[d].late /\ ~NewTo(fetch[d].ids, queue)
  <2> TAKE d \in Call
  <2>1. fetch[d] \in Fetch
    BY <1>3
  <2>2. fetch[d].ids \in Seq(Nat)
    BY <2>1 DEF Fetch
  <2> QED BY <2>1, <2>2, AfterProperties
<1>5. ListTypeOK'
  BY <1>2, <1>3, NoEvents DEF ListTypeOK
<1>6. EventsInv'
  BY <1>2, NoEvents DEF EventsInv
<1>7. OrderInv'
  <2>1. \A d \in Call : ToSet(fetch'[d].ids) \subseteq 1..lastId
    <3> TAKE d \in Call
    <3>1. fetch'[d].ids = <<>> \/ fetch'[d].ids = fetch[d].ids
      BY <1>4 DEF Stays
    <3> QED BY <1>3, <3>1, NoEvents
  <2> QED BY <1>1, <1>3, <2>1 DEF OrderInv
<1>8. PICK target : target = ToSet(Own(items))
  OBVIOUS
<1>9. ~missed' => Becomes(list', queue', target)
  <2> SUFFICES ASSUME ~missed, ~NewTo(list, queue) PROVE Becomes(list, <<>>, target)
    BY <1>2
  <2>1. Becomes(list, queue, target)
    BY <1>8 DEF ListInv, ShownInv, Leads
  <2> QED BY <1>3, <2>1, DroppedForGood
<1>10. ASSUME NEW d \in Call, fetch'[d].status = "answered", ~fetch'[d].late
       PROVE  Becomes(fetch'[d].ids, queue', target)
  <2>1. /\ fetch[d].status = "answered" /\ ~fetch[d].late /\ ~NewTo(fetch[d].ids, queue)
        /\ fetch'[d].ids = fetch[d].ids
    BY <1>4, <1>10 DEF Stays
  <2>2. Becomes(fetch[d].ids, queue, target)
    BY <1>8, <2>1 DEF ListInv, ShownInv, Leads
  <2>3. PICK ids \in Seq(Nat) : ids = fetch[d].ids
    BY <1>4
  <2>4. Becomes(ids, <<>>, target)
    BY <1>3, <2>1, <2>2, <2>3, DroppedForGood
  <2> QED BY <1>2, <2>1, <2>3, <2>4
<1>11. ShownInv'
  BY <1>1, <1>8, <1>9, <1>10 DEF ShownInv, Leads
<1> QED BY <1>1, <1>5, <1>6, <1>7, <1>11 DEF ListInv

\* What a fetch is before it is asked for; and when it is.
LEMMA NoFetchProperties ==
  /\ NoFetch \in Fetch /\ NoFetch.status = "none" /\ NoFetch.ids = <<>> /\ ~NoFetch.late
  /\ \A valid \in BOOLEAN :
        LET f == [NoFetch EXCEPT !.status = "asked", !.part = "refresh", !.valid = valid]
        IN  f \in Fetch /\ f.status = "asked" /\ f.ids = <<>>
  /\ \A current, valid \in BOOLEAN :
        LET f == [NoFetch EXCEPT !.status = "asked", !.current = current, !.valid = valid]
        IN  f \in Fetch /\ f.status = "asked" /\ f.ids = <<>>
BY NoEvents DEF NoFetch, Fetch

\* A fetch is asked for over a session that is already there.
LEMMA RefreshKeeps ==
  ASSUME ListInv, NEW c \in Call, NEW valid \in BOOLEAN, Refresh(c, valid)
  PROVE  ListInv'
<1>1. PICK f : f = [NoFetch EXCEPT !.status = "asked", !.part = "refresh", !.valid = valid]
  OBVIOUS
<1>2. f \in Fetch /\ f.status = "asked" /\ f.ids = <<>>
  BY <1>1, NoFetchProperties
<1>3. fetch' = [fetch EXCEPT ![c] = f] /\ UNCHANGED <<vars, list, stream, queue, up, missed>>
  BY <1>1 DEF Refresh
<1>4. /\ fetch \in [Call -> Fetch] /\ stream \in {"closed", "opening", "open"} /\ up \in BOOLEAN
  BY DEF ListInv, ListTypeOK
<1>5. fetch' \in [Call -> Fetch] /\ \A d \in Call : Stays(fetch[d], fetch'[d])
  BY <1>2, <1>3, <1>4 DEF Stays
<1> QED BY <1>3, <1>4, <1>5, NothingNewKeeps

\* An attempt listens, and fetches.
LEMMA ConnectKeeps ==
  ASSUME ListInv, NEW c \in Call, NEW current \in BOOLEAN, NEW valid \in BOOLEAN, Connect(c, current, valid)
  PROVE  ListInv'
<1>1. PICK f : f = [NoFetch EXCEPT !.status = "asked", !.current = current, !.valid = valid]
  OBVIOUS
<1>2. f \in Fetch /\ f.status = "asked" /\ f.ids = <<>>
  BY <1>1, NoFetchProperties
<1>3. /\ fetch' = [d \in Call |-> IF d = c THEN f
                                  ELSE [After(fetch[d], queue, FALSE) EXCEPT !.current = @ /\ ~current,
                                                                             !.valid = @ /\ ~valid]]
      /\ UNCHANGED <<vars, list>> /\ Dropped /\ stream' \in {"closed", "opening"} /\ up' \in BOOLEAN
  BY <1>1 DEF Connect
<1>4. fetch \in [Call -> Fetch]
  BY DEF ListInv, ListTypeOK
<1>5. ASSUME NEW d \in Call PROVE fetch'[d] \in Fetch /\ Stays(After(fetch[d], queue, FALSE), fetch'[d])
  <2>1. CASE d = c
    BY <1>2, <1>3, <2>1 DEF Stays
  <2>2. CASE d # c
    <3>1. PICK g \in Fetch : g = After(fetch[d], queue, FALSE)
      BY <1>4, AfterProperties
    <3>2. fetch'[d] = [g EXCEPT !.current = @ /\ ~current, !.valid = @ /\ ~valid]
      BY <1>3, <2>2, <3>1
    <3>3. fetch'[d] \in Fetch /\ Stays(g, fetch'[d])
      BY <3>2 DEF Fetch, Stays
    <3> QED BY <3>1, <3>3
  <2> QED BY <2>1, <2>2
<1>6. fetch' \in [Call -> Fetch]
  BY <1>3, <1>5
<1> QED BY <1>3, <1>5, <1>6, DroppingKeeps

\* The end of a fetch, or its failure, drops the stream with its events, or nothing.
LEMMA FetchGoes ==
  ASSUME ListInv, NEW c \in Call, UNCHANGED <<vars, list>>, up' \in BOOLEAN,
         \/ /\ stream' \in {"closed", "opening"} /\ Dropped
            /\ fetch' = [d \in Call |-> IF d = c THEN NoFetch ELSE After(fetch[d], queue, FALSE)]
         \/ /\ fetch' = [fetch EXCEPT ![c] = NoFetch]
            /\ UNCHANGED <<stream, queue, missed>>
  PROVE  ListInv'
<1>1. fetch \in [Call -> Fetch] /\ stream \in {"closed", "opening", "open"}
  BY DEF ListInv, ListTypeOK
<1>2. CASE /\ stream' \in {"closed", "opening"} /\ Dropped
           /\ fetch' = [d \in Call |-> IF d = c THEN NoFetch ELSE After(fetch[d], queue, FALSE)]
  <2>1. ASSUME NEW d \in Call PROVE fetch'[d] \in Fetch /\ Stays(After(fetch[d], queue, FALSE), fetch'[d])
    <3>1. CASE d = c
      BY <1>2, <3>1, NoFetchProperties DEF Stays
    <3>2. CASE d # c
      <4>1. fetch'[d] = After(fetch[d], queue, FALSE) /\ fetch[d] \in Fetch
        BY <1>1, <1>2, <3>2
      <4>2. After(fetch[d], queue, FALSE) \in Fetch
        BY <4>1, AfterProperties
      <4> QED BY <4>1, <4>2 DEF Stays
    <3> QED BY <3>1, <3>2
  <2>2. fetch' \in [Call -> Fetch]
    BY <1>2, <2>1
  <2> QED BY <1>2, <2>1, <2>2, DroppingKeeps
<1>3. CASE fetch' = [fetch EXCEPT ![c] = NoFetch] /\ UNCHANGED <<stream, queue, missed>>
  <2>1. fetch' \in [Call -> Fetch] /\ \A d \in Call : Stays(fetch[d], fetch'[d])
    BY <1>1, <1>3, NoFetchProperties DEF Stays
  <2> QED BY <1>1, <1>3, <2>1, NothingNewKeeps
<1> QED BY <1>2, <1>3

\* The answer was saved: a refresh listens, an attempt is over.
LEMMA FetchEndsKeeps ==
  ASSUME ListInv, NEW c \in Call, FetchEnds(c)
  PROVE  ListInv'
<1>1. up \in BOOLEAN
  BY DEF ListInv, ListTypeOK
<1>2. CASE fetch[c].part = "refresh"
  BY <1>1, <1>2, FetchGoes DEF FetchEnds
<1>3. CASE fetch[c].part # "refresh"
  <2>1. up' \in BOOLEAN
    BY <1>3 DEF FetchEnds
  <2> QED BY <1>3, <2>1, FetchGoes DEF FetchEnds
<1> QED BY <1>2, <1>3

\* The fetch fails.
LEMMA FetchFailsKeeps ==
  ASSUME ListInv, NEW c \in Call, FetchFails(c)
  PROVE  ListInv'
<1>1. up \in BOOLEAN
  BY DEF ListInv, ListTypeOK
<1>2. UNCHANGED <<vars, list>> /\ up' \in BOOLEAN
  BY <1>1 DEF FetchFails
<1> QED BY <1>2, FetchGoes DEF FetchFails

\* The app is left, or the link is lost.
LEMMA UnlinkedKeeps ==
  ASSUME ListInv, NEW session \in BOOLEAN, Unlinked(session)
  PROVE  ListInv'
<1>1. /\ fetch' = [c \in Call |-> After(fetch[c], queue, FALSE)] /\ up' \in BOOLEAN
      /\ stream' \in {"closed", "opening"} /\ Dropped /\ UNCHANGED <<vars, list>>
  BY DEF Unlinked
<1>2. fetch \in [Call -> Fetch]
  BY DEF ListInv, ListTypeOK
<1>3. \A d \in Call : fetch'[d] \in Fetch /\ fetch'[d] = After(fetch[d], queue, FALSE)
  BY <1>1, <1>2, AfterProperties
<1>4. fetch' \in [Call -> Fetch] /\ \A d \in Call : Stays(After(fetch[d], queue, FALSE), fetch'[d])
  BY <1>1, <1>3 DEF Stays
<1> QED BY <1>1, <1>4, DroppingKeeps

\* The laptop's process ends: what it had not saved is a change that nobody is told of.
LEMMA RestartKeepsList ==
  ASSUME ListInv, LaptopRestarts
  PROVE  ListInv'
<1>1. PICK untold \in BOOLEAN : untold = (Own(items') # Own(items))
  OBVIOUS
<1>2. /\ Restart /\ up' = FALSE /\ stream' = "closed" /\ queue' = <<>> /\ list' = list
      /\ missed' = (missed \/ untold \/ NewTo(list, queue))
      /\ fetch' = [c \in Call |-> [After(fetch[c], queue, untold) EXCEPT !.valid = FALSE]]
  BY <1>1 DEF LaptopRestarts
<1>3. HistoryInv'
  BY <1>2, EveryStepKeeps DEF ListInv, Next
<1>4. lastId' = lastId /\ saved' = saved /\ items' = load
  BY <1>2 DEF Restart
<1>5. InOrder(items)' /\ InOrder(saved)'
  <2>1. saved \in Seq(Item) /\ InOrder(saved)
    BY DEF ListInv, HistoryInv, TypeOK, OrderInv
  <2>2. InOrder(load)
    BY <2>1, OnlyKeepsOrder DEF load
  <2> QED BY <1>4, <2>1, <2>2
<1>6. /\ queue \in Seq(Event) /\ list \in Seq(Nat) /\ missed \in BOOLEAN /\ fetch \in [Call -> Fetch]
      /\ ToSet(list) \subseteq 1..lastId /\ \A c \in Call : ToSet(fetch[c].ids) \subseteq 1..lastId
  BY DEF ListInv, ListTypeOK, OrderInv
<1>7. \A c \in Call : /\ fetch'[c] \in Fetch /\ fetch'[c].status = fetch[c].status
                      /\ fetch'[c].ids = fetch[c].ids /\ fetch[c].ids \in Seq(Nat)
                      /\ fetch[c].status = "answered" /\ ~fetch'[c].late =>
                            ~fetch[c].late /\ ~untold /\ ~NewTo(fetch[c].ids, queue)
  <2> TAKE c \in Call
  <2>1. fetch[c] \in Fetch
    BY <1>6
  <2>2. PICK g : g = After(fetch[c], queue, untold)
    OBVIOUS
  <2>3. /\ g \in Fetch /\ g.status = fetch[c].status /\ g.ids = fetch[c].ids
        /\ fetch[c].status = "answered" /\ ~g.late => ~fetch[c].late /\ ~untold /\ ~NewTo(fetch[c].ids, queue)
    BY <2>1, <2>2, AfterProperties
  <2>4. fetch'[c] = [g EXCEPT !.valid = FALSE]
    BY <1>2, <2>2
  <2>5. fetch'[c] \in Fetch /\ fetch'[c].status = g.status /\ fetch'[c].ids = g.ids /\ fetch'[c].late = g.late
    BY <2>3, <2>4 DEF Fetch
  <2>6. fetch[c].ids \in Seq(Nat)
    BY <2>1 DEF Fetch
  <2> QED BY <2>3, <2>5, <2>6
<1>8. ListTypeOK'
  <2>1. missed' \in BOOLEAN
    BY <1>2, <1>6 DEF NewTo
  <2>2. fetch' \in [Call -> Fetch]
    BY <1>2, <1>7
  <2> QED BY <1>2, <1>6, <2>1, <2>2, NoEvents DEF ListTypeOK
<1>9. EventsInv'
  BY <1>2, NoEvents DEF EventsInv
<1>10. OrderInv'
  BY <1>2, <1>4, <1>5, <1>6, <1>7 DEF OrderInv
<1>11. PICK target : target = ToSet(Own(items))
  OBVIOUS
<1>12. ~missed' => Becomes(list', queue', ToSet(Own(items')))
  <2> SUFFICES ASSUME ~missed, ~untold, ~NewTo(list, queue) PROVE Becomes(list, <<>>, target)
    BY <1>1, <1>2, <1>11
  <2>1. Becomes(list, queue, target)
    BY <1>11 DEF ListInv, ShownInv, Leads
  <2> QED BY <1>6, <2>1, DroppedForGood
<1>13. ASSUME NEW d \in Call, fetch'[d].status = "answered", ~fetch'[d].late
       PROVE  Becomes(fetch'[d].ids, queue', ToSet(Own(items')))
  <2>1. /\ fetch[d].status = "answered" /\ ~fetch[d].late /\ ~NewTo(fetch[d].ids, queue)
        /\ fetch'[d].ids = fetch[d].ids /\ ~untold
    BY <1>7, <1>13
  <2>2. Becomes(fetch[d].ids, queue, target)
    BY <1>11, <2>1 DEF ListInv, ShownInv, Leads
  <2>3. PICK ids \in Seq(Nat) : ids = fetch[d].ids
    BY <1>7
  <2>4. Becomes(ids, <<>>, target)
    BY <1>6, <2>1, <2>2, <2>3, DroppedForGood
  <2> QED BY <1>1, <1>2, <1>11, <2>1, <2>3, <2>4
<1>14. ShownInv'
  BY <1>12, <1>13 DEF ShownInv, Leads
<1> QED BY <1>3, <1>8, <1>9, <1>10, <1>14 DEF ListInv

\* The stream opens, with nothing in it yet.
LEMMA StreamOpensKeeps ==
  ASSUME ListInv, StreamOpens
  PROVE  ListInv'
<1>1. /\ stream = "opening" /\ stream' = "open"
      /\ UNCHANGED <<vars, list, queue, fetch, up, missed>>
  BY DEF StreamOpens
<1>2. fetch \in [Call -> Fetch] /\ up \in BOOLEAN
  BY DEF ListInv, ListTypeOK
<1>3. \A d \in Call : Stays(fetch[d], fetch'[d])
  BY <1>1 DEF Stays
<1> QED BY <1>1, <1>2, <1>3, NothingNewKeeps

\* At the start nothing is shown, of a history that is empty.
LEMMA InitListKeeps ==
  ASSUME InitList
  PROVE  ListInv
<1>1. HistoryInv
  BY InitKeeps DEF InitList
<1>2. /\ items = <<>> /\ saved = <<>> /\ lastId = 0 /\ list = <<>> /\ queue = <<>>
      /\ fetch = [c \in Call |-> NoFetch]
  BY DEF InitList, Init
<1>3. \A c \in Call : fetch[c] \in Fetch /\ fetch[c].status = "none" /\ fetch[c].ids = <<>>
  BY <1>2, NoFetchProperties
<1>4. ListTypeOK
  BY <1>2, <1>3, NoEvents DEF InitList, ListTypeOK
<1>5. EventsInv /\ OrderInv
  BY <1>2, <1>3, NoEvents DEF EventsInv, OrderInv, InOrder
<1>6. ShownInv
  <2>1. Own(items) = <<>>
    <3>1. Own(items) \in Seq(Nat) /\ ToSet(Own(items)) \subseteq Ids(items) /\ Increasing(Own(items))
      BY <1>1, <1>5, OwnProperties DEF HistoryInv, TypeOK, OrderInv
    <3>2. ToSet(Own(items)) = ToSet(<<>>) /\ Increasing(<<>>)
      BY <1>2, <3>1, NoEvents DEF Ids, Increasing, ToSet
    <3> QED BY <3>1, <3>2, NoEvents, SameOrder
  <2>2. Becomes(<<>>, <<>>, ToSet(<<>>))
    BY DEF Becomes, Gone, Coming, ToSet
  <2> QED BY <1>2, <1>3, <2>1, <2>2 DEF ShownInv, Leads
<1> QED BY <1>1, <1>4, <1>5, <1>6 DEF ListInv

\* Every step of the laptop or the phone keeps it.
LEMMA EveryListStepKeeps ==
  ASSUME ListInv, [NextList]_allVars
  PROVE  ListInv'
<1>1. CASE UNCHANGED allVars
  <2>1. /\ UNCHANGED vars
        /\ UNCHANGED <<list, stream, queue, fetch, up, missed>>
    BY <1>1 DEF allVars, phoneVars
  <2>2. /\ fetch \in [Call -> Fetch] /\ up \in BOOLEAN /\ stream \in {"closed", "opening", "open"}
    BY DEF ListInv, ListTypeOK
  <2>3. \A d \in Call : Stays(fetch[d], fetch'[d])
    BY <2>1 DEF Stays
  <2> QED BY <2>1, <2>2, <2>3, NothingNewKeeps
<1>2. CASE Pause \/ Lost
  <2>1. up \in BOOLEAN /\ FALSE \in BOOLEAN
    BY DEF ListInv, ListTypeOK
  <2> QED BY <1>2, <2>1, UnlinkedKeeps DEF Pause, Lost
<1>3. ASSUME NEW c \in Call, \/ Answer(c) \/ ShowFetched(c) \/ FetchEnds(c) \/ FetchFails(c)
                             \/ \E valid \in BOOLEAN : Refresh(c, valid)
                             \/ \E current, valid \in BOOLEAN : Connect(c, current, valid)
      PROVE  ListInv'
  BY <1>3, AnswerKeeps, ShowFetchedKeeps, FetchEndsKeeps, FetchFailsKeeps, RefreshKeeps, ConnectKeeps
<1> QED BY <1>1, <1>2, <1>3, HistoryChangesKeep, StreamOpensKeeps, OnEventKeeps, RestartKeepsList DEF NextList

\* With no event on its way, the phone shows the laptop's items for it, each once and in its
\* order, however events, answers and late answers of abandoned attempts overtook each other
\* (missed names what it was told in vain, or not at all).
THEOREM ListAlwaysAgrees == SpecList => []ListAgrees
<1>1. ListInv => ListAgrees
  <2> SUFFICES ASSUME ListInv, queue = <<>>, ~missed PROVE list = Own(items)
    BY DEF ListAgrees, ListInv
  <2>1. list \in Seq(Nat) /\ Becomes(list, queue, ToSet(Own(items)))
    BY DEF ListInv, ListTypeOK, ShownInv, Leads
  <2>2. Own(items) \in Seq(Nat) /\ Increasing(Own(items))
    BY OwnProperties DEF ListInv, HistoryInv, TypeOK, OrderInv
  <2> QED BY <2>1, <2>2, NothingLeft
<1> QED BY <1>1, InitListKeeps, EveryListStepKeeps, PTL DEF SpecList

---------------------------------------------------------------------------------
(* The laptop behind the phone's list is the one that History describes.         *)

\* Every step of phone, link and laptop is one of the history, or leaves it as it was.
LEMMA ListStepIsHistory ==
  ASSUME [NextList]_allVars
  PROVE  [Next]_vars
<1>1. HistoryChanges => Next
  BY DEF HistoryChanges, Next, Side
<1>2. StreamOpens \/ OnEvent \/ Pause \/ Lost \/ UNCHANGED allVars => UNCHANGED vars
  BY DEF StreamOpens, OnEvent, Pause, Lost, Unlinked, allVars
<1>3. LaptopRestarts => Next
  BY DEF LaptopRestarts, Next
<1>4. ASSUME NEW c \in Call
      PROVE  /\ Answer(c) \/ ShowFetched(c) \/ FetchEnds(c) \/ FetchFails(c) => UNCHANGED vars
             /\ \A current, valid \in BOOLEAN : Refresh(c, valid) \/ Connect(c, current, valid) => UNCHANGED vars
  BY DEF Answer, ShowFetched, FetchEnds, FetchFails, Refresh, Connect
<1> QED BY <1>1, <1>2, <1>3, <1>4 DEF NextList

\* The list with its stream implements the history: broadcasts, answers and lost links
\* take nothing from what is proved of the history.
THEOREM ListIsOfHistory == SpecList => Spec
<1>1. InitList => Init
  BY DEF InitList
<1>2. [NextList]_allVars => [Next]_vars
  BY ListStepIsHistory
<1> QED BY <1>1, <1>2, PTL DEF SpecList, Spec

\* So while phones are told of changes, what was acknowledged is kept, what was deleted
\* is gone, files and entries belong together, and the outbox is exceeded by overlap alone.
COROLLARY ListKeepsHistory ==
  SpecList => /\ []AcknowledgedIsKept /\ []DeletedIsGone /\ []EntriesHaveTheirFiles
              /\ []QuotaExceededOnlyByOverlap /\ OrphansOnlyByCrash
BY ListIsOfHistory, AcknowledgedIsAlwaysKept, DeletedIsAlwaysGone, EntriesAlwaysHaveTheirFiles,
   QuotaIsExceededOnlyByOverlap, OrphansAreLeftByCrashOnly, PTL
=================================================================================
