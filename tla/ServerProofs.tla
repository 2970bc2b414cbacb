------------------------------ MODULE ServerProofs ------------------------------
(*********************************************************************************)
(* Proofs about three parts of the laptop's server: that the sliding window of   *)
(* ratelimit.js is exact, for any limit, window and number of calls; that the    *)
(* program (App) shows what it is and ends clean, for any number of requests and *)
(* phones; and that the admin page shows what the laptop is, however its fetches *)
(* overlap.  The three share neither state nor names.                            *)
(*********************************************************************************)
EXTENDS App, Limiter, AdminPage, MapTheorems

---------------------------------------------------------------------------------
(* The limiter.                                                                  *)

\* The numbers up to n are n numbers.
LEMMA UpTo ==
  ASSUME NEW n \in Nat
  PROVE  IsFiniteSet(1..n) /\ Cardinality(1..n) = n
<1>1. IsFiniteSet(1..n) /\ Cardinality(1..n) = IF 1 > n THEN 0 ELSE n - 1 + 1
  BY FS_Interval
<1> QED BY <1>1

\* What pruning drops is a prefix: all it drops has left the window, and the first that
\* it keeps, if there is one, has not.
LEMMA PruneProperties ==
  ASSUME NEW limiter, limiter.window \in Nat, NEW list \in Seq(Nat), NEW t \in Nat
  PROVE  \E m \in 0..Len(list) :
            /\ Prune(limiter, list, t) \in Seq(Nat)
            /\ Len(Prune(limiter, list, t)) = Len(list) - m
            /\ \A i \in 1..(Len(list) - m) : Prune(limiter, list, t)[i] = list[m + i]
            /\ \A i \in 1..m : list[i] <= t - limiter.window
            /\ m < Len(list) => list[m + 1] > t - limiter.window
<1> DEFINE dropped == {i \in 1..Len(list) : \A j \in 1..i : list[j] <= t - limiter.window}
           m == Cardinality(dropped)
<1>1. Len(list) \in Nat /\ \A i \in 1..Len(list) : list[i] \in Nat
  BY LenProperties, ElementOfSeq
<1>2. dropped \in SUBSET (1..Len(list)) /\ IsFiniteSet(1..Len(list)) /\ Cardinality(1..Len(list)) = Len(list)
  <2>1. dropped \in SUBSET (1..Len(list))
    OBVIOUS
  <2> HIDE DEF dropped
  <2> QED BY <1>1, <2>1, UpTo
<1>3. ASSUME NEW i \in dropped, NEW k \in 1..i
      PROVE  k \in dropped
  <2>1. k \in 1..Len(list) /\ 1..k \subseteq 1..i
    BY <1>1
  <2> QED BY <2>1
<1>4. \A i \in dropped : \A j \in 1..i : list[j] <= t - limiter.window
  OBVIOUS
<1>5. \A i \in 1..Len(list) : (\A j \in 1..i : list[j] <= t - limiter.window) => i \in dropped
  OBVIOUS
<1>6. Prune(limiter, list, t) = SubSeq(list, m + 1, Len(list))
  BY DEF Prune
<1> HIDE DEF dropped
<1>7. IsFiniteSet(dropped) /\ m \in Nat /\ m <= Len(list)
  BY <1>1, <1>2, FS_Subset, FS_CardinalityType
<1>8. dropped = 1..m
  <2>1. ASSUME NEW i \in dropped
        PROVE  i \in 1..m
    <3>1. i \in 1..Len(list) /\ Cardinality(1..i) = i
      BY <1>1, <1>2, UpTo
    <3>2. 1..i \in SUBSET dropped
      BY <1>3
    <3>3. Cardinality(1..i) <= Cardinality(dropped)
      BY <1>7, <3>2, FS_Subset
    <3> QED BY <1>1, <1>7, <3>1, <3>3 DEF m
  <2>2. IsFiniteSet(1..m) /\ Cardinality(1..m) = m
    BY <1>7, UpTo
  <2>3. dropped \in SUBSET (1..m) /\ Cardinality(dropped) = Cardinality(1..m)
    BY <2>1, <2>2
  <2> HIDE DEF m
  <2> QED BY <2>2, <2>3, FS_Subset
<1> HIDE DEF m
<1>9. \A i \in 1..m : list[i] <= t - limiter.window
  BY <1>4, <1>7, <1>8
<1>10. m < Len(list) => list[m + 1] > t - limiter.window
  <2> SUFFICES ASSUME m < Len(list), ~(list[m + 1] > t - limiter.window)
               PROVE  FALSE
    OBVIOUS
  <2>1. m + 1 \in 1..Len(list) /\ list[m + 1] <= t - limiter.window
    BY <1>1, <1>7
  <2>2. \A j \in 1..(m + 1) : list[j] <= t - limiter.window
    BY <1>7, <1>9, <2>1
  <2>3. m + 1 \in dropped
    BY <1>5, <2>1, <2>2
  <2> QED BY <1>7, <1>8, <2>3
<1>11. /\ Prune(limiter, list, t) \in Seq(Nat)
       /\ Len(Prune(limiter, list, t)) = Len(list) - m
       /\ \A i \in 1..(Len(list) - m) : Prune(limiter, list, t)[i] = list[m + i]
  <2>1. \A i \in (m + 1)..Len(list) : list[i] \in Nat
    BY <1>1, <1>7
  <2>2. m + 1 \in Int /\ Len(list) \in Int
    BY <1>1, <1>7
  <2>3. /\ SubSeq(list, m + 1, Len(list)) \in Seq(Nat)
        /\ Len(SubSeq(list, m + 1, Len(list)))
             = IF m + 1 <= Len(list) THEN Len(list) - (m + 1) + 1 ELSE 0
        /\ \A i \in 1..(Len(list) - (m + 1) + 1) :
             SubSeq(list, m + 1, Len(list))[i] = list[(m + 1) + i - 1]
    BY <2>1, <2>2, SubSeqProperties
  <2> QED BY <1>1, <1>6, <1>7, <2>3
<1>12. m \in 0..Len(list)
  BY <1>1, <1>7
<1> QED BY <1>9, <1>10, <1>11, <1>12

---------------------------------------------------------------------------------
(* The list is the end of the history of admitted calls, and what it no longer    *)
(* has is out of the window.                                                      *)

\* Times are in order: the clock only advances.
InOrder == \A i, j \in 1..Len(admitted) : i <= j => admitted[i] <= admitted[j] /\ admitted[j] <= now

\* list is the end of the history, and the calls before it have left the window at t.
IsRecent(list, t) ==
    /\ Len(list) <= Len(admitted)
    /\ \A i \in 1..Len(list) : list[i] = admitted[Len(admitted) - Len(list) + i]
    /\ \A i \in 1..(Len(admitted) - Len(list)) : admitted[i] <= t - Window

\* A caller was told when the oldest call in the window leaves it, and from then on the
\* wait is over: some call got in after it, or that call is still the oldest of Allowed.
Told == \/ admitted # <<>> /\ admitted[Len(admitted)] >= retryAt
        \/ Len(admitted) >= Allowed /\ admitted[Len(admitted) - Allowed + 1] + Window = retryAt
        \/ retryAt = 0

WindowInv == /\ LimiterTypeOK /\ InOrder /\ IsRecent(hits, now) /\ Len(hits) <= Allowed
             /\ WindowBound /\ Told

\* A pruned list is the end of the history too, and has just the calls in the window.
LEMMA PrunedIsRecent ==
  ASSUME WindowInv
  PROVE  LET pruned == Prune(OneLimiter, hits, now)
         IN  /\ pruned \in Seq(Nat) /\ Len(pruned) <= Allowed
             /\ IsRecent(pruned, now)
             /\ \A i \in 1..Len(pruned) : pruned[i] > now - Window
<1> DEFINE pruned == Prune(OneLimiter, hits, now)
<1>1. OneLimiter.window = Window /\ Window \in Nat /\ Allowed \in Nat
  BY LimiterAssumption DEF OneLimiter
<1>2. PICK m \in 0..Len(hits) :
         /\ pruned \in Seq(Nat)
         /\ Len(pruned) = Len(hits) - m
         /\ \A i \in 1..(Len(hits) - m) : pruned[i] = hits[m + i]
         /\ \A i \in 1..m : hits[i] <= now - Window
         /\ m < Len(hits) => hits[m + 1] > now - Window
  <2> HIDE DEF pruned
  <2> QED BY <1>1, PruneProperties DEF WindowInv, LimiterTypeOK, pruned
<1> HIDE DEF pruned
<1>3. /\ now \in Nat /\ Len(hits) \in Nat /\ Len(admitted) \in Nat
      /\ \A i \in 1..Len(hits) : hits[i] \in Nat
      /\ \A i \in 1..Len(admitted) : admitted[i] \in Nat
  BY LenProperties, ElementOfSeq DEF WindowInv, LimiterTypeOK
<1>4. /\ Len(hits) <= Len(admitted) /\ Len(hits) <= Allowed
      /\ \A i \in 1..Len(hits) : hits[i] = admitted[Len(admitted) - Len(hits) + i]
      /\ \A i \in 1..(Len(admitted) - Len(hits)) : admitted[i] <= now - Window
      /\ \A i, j \in 1..Len(admitted) : i <= j => admitted[i] <= admitted[j]
  BY DEF WindowInv, IsRecent, InOrder
<1>5. Len(pruned) \in Nat /\ Len(pruned) <= Len(hits) /\ m \in Nat /\ m <= Len(hits)
  BY <1>2, <1>3
<1>6. \A i \in 1..Len(pruned) : pruned[i] = admitted[Len(admitted) - Len(pruned) + i]
  <2> TAKE i \in 1..Len(pruned)
  <2>1. pruned[i] = hits[m + i] /\ m + i \in 1..Len(hits)
    BY <1>2, <1>3, <1>5
  <2>2. Len(admitted) - Len(hits) + (m + i) = Len(admitted) - Len(pruned) + i
    BY <1>2, <1>3, <1>5
  <2> QED BY <1>4, <2>1, <2>2
<1>7. \A i \in 1..(Len(admitted) - Len(pruned)) : admitted[i] <= now - Window
  <2> TAKE i \in 1..(Len(admitted) - Len(pruned))
  <2>1. CASE i \in 1..(Len(admitted) - Len(hits))
    BY <1>4, <2>1
  <2>2. CASE i \notin 1..(Len(admitted) - Len(hits))
    <3> DEFINE j == i - (Len(admitted) - Len(hits))
    <3>1. j \in 1..m /\ j \in 1..Len(hits) /\ Len(admitted) - Len(hits) + j = i
      BY <1>2, <1>3, <1>4, <1>5, <2>2
    <3> HIDE DEF j
    <3> QED BY <1>2, <1>4, <3>1
  <2> QED BY <2>1, <2>2
<1>8. \A i \in 1..Len(pruned) : pruned[i] > now - Window
  <2> TAKE i \in 1..Len(pruned)
  <2>1. pruned[1] > now - Window
    <3>1. m < Len(hits) /\ 1 \in 1..(Len(hits) - m)
      BY <1>2, <1>3, <1>5
    <3>2. pruned[1] = hits[m + 1]
      BY <1>2, <3>1
    <3> QED BY <1>2, <3>1, <3>2
  <2>2. pruned[1] <= pruned[i]
    <3> DEFINE a == Len(admitted) - Len(pruned) + 1
               b == Len(admitted) - Len(pruned) + i
    <3>1. a \in 1..Len(admitted) /\ b \in 1..Len(admitted) /\ a <= b
      BY <1>3, <1>4, <1>5
    <3>2. pruned[1] = admitted[a] /\ pruned[i] = admitted[b]
      BY <1>5, <1>6
    <3> HIDE DEF a, b
    <3> QED BY <1>4, <3>1, <3>2
  <2>3. pruned[1] \in Nat /\ pruned[i] \in Nat
    BY <1>2, <1>5, ElementOfSeq
  <2> QED BY <1>1, <1>3, <2>1, <2>2, <2>3
<1> QED BY <1>1, <1>2, <1>3, <1>4, <1>5, <1>6, <1>7, <1>8 DEF IsRecent, pruned

---------------------------------------------------------------------------------
(* Steps.                                                                        *)

\* Nothing known of the histories is lost when the clock advances, or when the list is
\* pruned without a call getting in.
LEMMA PrunedKeepsWindow ==
  ASSUME WindowInv, hits' = Prune(OneLimiter, hits, now), UNCHANGED <<now, admitted>>
  PROVE  /\ hits' \in Seq(Nat) /\ Len(hits') <= Allowed
         /\ InOrder' /\ IsRecent(hits, now)' /\ WindowBound'
BY PrunedIsRecent DEF WindowInv, InOrder, IsRecent, WindowBound

\* A call gets in when the window has room: the call Allowed calls before it has left it.
LEMMA AdmitKeepsWindow ==
  ASSUME WindowInv, Admit
  PROVE  WindowInv'
<1> DEFINE pruned == Prune(OneLimiter, hits, now)
           L == Len(admitted)
<1>1. /\ pruned \in Seq(Nat) /\ Len(pruned) <= Allowed
      /\ IsRecent(pruned, now) /\ \A i \in 1..Len(pruned) : pruned[i] > now - Window
  BY PrunedIsRecent
<1>2. hits' = Append(pruned, now) /\ admitted' = Append(admitted, now)
  BY DEF Admit, Record
<1>3. now' = now /\ retryAt' = retryAt /\ Len(pruned) < Allowed
  <2>1. ~(Len(pruned) >= Allowed)
    BY DEF Admit, Blocked, OneLimiter
  <2>2. Len(pruned) \in Nat /\ Allowed \in Nat
    BY <1>1, LenProperties, LimiterAssumption
  <2> HIDE DEF pruned
  <2> QED BY <2>1, <2>2 DEF Admit
<1> HIDE DEF pruned
<1>4. /\ now \in Nat /\ retryAt \in Nat /\ L \in Nat /\ Len(pruned) \in Nat
      /\ Allowed \in Nat \ {0} /\ Window \in Nat \ {0}
      /\ \A i \in 1..L : admitted[i] \in Nat
  BY <1>1, LenProperties, ElementOfSeq, LimiterAssumption DEF WindowInv, LimiterTypeOK
<1>5. /\ hits' \in Seq(Nat) /\ Len(hits') = Len(pruned) + 1
      /\ \A i \in 1..Len(pruned) : hits'[i] = pruned[i]
      /\ hits'[Len(pruned) + 1] = now
  BY <1>1, <1>2, <1>4, AppendProperties
<1>6. /\ admitted' \in Seq(Nat) /\ Len(admitted') = L + 1 /\ admitted' # <<>>
      /\ \A i \in 1..L : admitted'[i] = admitted[i]
      /\ admitted'[L + 1] = now
  <2>1. admitted \in Seq(Nat) /\ now \in Nat
    BY DEF WindowInv, LimiterTypeOK
  <2> QED BY <1>2, <2>1, AppendProperties
<1>7. /\ Len(pruned) <= L
      /\ \A i \in 1..Len(pruned) : pruned[i] = admitted[L - Len(pruned) + i]
      /\ \A i \in 1..(L - Len(pruned)) : admitted[i] <= now - Window
  BY <1>1 DEF IsRecent
<1>8. LimiterTypeOK'
  BY <1>3, <1>4, <1>5, <1>6 DEF LimiterTypeOK
<1>9. InOrder'
  <2>1. \A i, j \in 1..L : i <= j => admitted[i] <= admitted[j] /\ admitted[j] <= now
    BY DEF WindowInv, InOrder
  <2>2. ASSUME NEW i \in 1..(L + 1), NEW j \in 1..(L + 1), i <= j
        PROVE  admitted'[i] <= admitted'[j] /\ admitted'[j] <= now
    <3>1. CASE j = L + 1 /\ i = L + 1
      BY <1>4, <1>6, <3>1
    <3>2. CASE j = L + 1 /\ i \in 1..L
      BY <1>4, <1>6, <2>1, <3>2
    <3>3. CASE j \in 1..L /\ i \in 1..L
      BY <1>6, <2>1, <2>2, <3>3
    <3> QED BY <1>4, <2>2, <3>1, <3>2, <3>3
  <2> QED BY <1>3, <1>6, <2>2 DEF InOrder
<1>10. IsRecent(hits, now)'
  <2>1. ASSUME NEW i \in 1..(Len(pruned) + 1)
        PROVE  hits'[i] = admitted'[(L + 1) - (Len(pruned) + 1) + i]
    <3>1. CASE i \in 1..Len(pruned)
      <4> DEFINE k == L - Len(pruned) + i
      <4>1. k \in 1..L /\ (L + 1) - (Len(pruned) + 1) + i = k
        BY <1>4, <1>7, <3>1
      <4>2. hits'[i] = admitted[k]
        BY <1>5, <1>7, <3>1
      <4> HIDE DEF k
      <4> QED BY <1>6, <4>1, <4>2
    <3>2. CASE i = Len(pruned) + 1
      <4>1. (L + 1) - (Len(pruned) + 1) + i = L + 1
        BY <1>4, <3>2
      <4> QED BY <1>5, <1>6, <3>2, <4>1
    <3> QED BY <1>4, <3>1, <3>2
  <2>2. ASSUME NEW i \in 1..((L + 1) - (Len(pruned) + 1))
        PROVE  admitted'[i] <= now - Window
    <3>1. i \in 1..L /\ i \in 1..(L - Len(pruned))
      BY <1>4, <1>7
    <3> QED BY <1>6, <1>7, <3>1
  <2>3. Len(pruned) + 1 <= L + 1
    BY <1>4, <1>7
  <2> QED BY <1>3, <1>5, <1>6, <2>1, <2>2, <2>3 DEF IsRecent
<1>11. WindowBound'
  <2>0. Len(admitted') = L + 1
    BY <1>6
  <2> SUFFICES ASSUME NEW i \in 1..(Len(admitted') - Allowed)
               PROVE  admitted'[i + Allowed] - admitted'[i] >= Window
    BY DEF WindowBound
  <2>1. i \in 1..(L + 1 - Allowed) /\ i \in 1..L
    BY <1>4, <2>0
  <2>2. CASE i \in 1..(L - Allowed)
    <3>1. admitted[i + Allowed] - admitted[i] >= Window
      BY <2>2 DEF WindowInv, WindowBound
    <3>2. i + Allowed \in 1..L
      BY <1>4, <2>2
    <3> QED BY <1>6, <2>1, <3>1, <3>2
  <2>3. CASE i \notin 1..(L - Allowed)
    <3>0. Allowed \in Nat /\ L \in Nat /\ Len(pruned) \in Nat /\ Len(pruned) < Allowed /\ i \in Int
      BY <1>3, <1>4
    <3>1. i + Allowed = L + 1 /\ i \in 1..(L - Len(pruned))
      <4> HIDE DEF L
      <4> QED BY <2>1, <2>3, <3>0
    <3>2. admitted[i] <= now - Window
      BY <1>7, <3>1
    <3>3. admitted[i] \in Nat
      BY <1>4, <2>1
    <3>4. admitted'[i + Allowed] = now /\ admitted'[i] = admitted[i]
      BY <1>6, <2>1, <3>1
    <3> QED BY <1>4, <3>2, <3>3, <3>4
  <2> QED BY <2>2, <2>3
<1>12. Told'
  <2>1. CASE now >= retryAt
    BY <1>3, <1>6, <2>1 DEF Told
  <2>2. CASE now < retryAt
    <3>1. L >= Allowed /\ admitted[L - Allowed + 1] + Window = retryAt
      <4>1. ~(admitted # <<>> /\ admitted[L] >= retryAt)
        <5> SUFFICES ASSUME admitted # <<>>, admitted[L] >= retryAt PROVE FALSE
          OBVIOUS
        <5>1. L \in 1..L
          BY <1>4, EmptySeq DEF WindowInv, LimiterTypeOK
        <5>2. admitted[L] <= now /\ admitted[L] \in Nat
          BY <1>4, <5>1 DEF WindowInv, InOrder
        <5> QED BY <1>4, <2>2, <5>2
      <4>2. retryAt # 0
        BY <1>4, <2>2
      <4> QED BY <4>1, <4>2 DEF WindowInv, Told
    <3>2. L - Allowed + 1 \in 1..(L - Len(pruned)) /\ L - Allowed + 1 \in 1..L
      BY <1>3, <1>4, <3>1
    <3>3. admitted[L - Allowed + 1] <= now - Window /\ admitted[L - Allowed + 1] \in Nat
      BY <1>4, <1>7, <3>2
    <3> QED BY <1>4, <2>2, <3>1, <3>3
  <2> QED BY <1>4, <2>1, <2>2
<1>13. Len(hits') <= Allowed
  BY <1>3, <1>4, <1>5
<1> QED BY <1>8, <1>9, <1>10, <1>11, <1>12, <1>13 DEF WindowInv

\* A caller is refused when the window is full: its oldest call says when to come back.
LEMMA RefuseKeepsWindow ==
  ASSUME WindowInv, Refuse
  PROVE  WindowInv'
<1> DEFINE pruned == Prune(OneLimiter, hits, now)
           L == Len(admitted)
<1>1. /\ pruned \in Seq(Nat) /\ Len(pruned) <= Allowed
      /\ IsRecent(pruned, now) /\ \A i \in 1..Len(pruned) : pruned[i] > now - Window
  BY PrunedIsRecent
<1>2. /\ hits' = pruned /\ UNCHANGED <<now, admitted>>
      /\ retryAt' = now + (IF pruned[1] + Window - now > 0 THEN pruned[1] + Window - now ELSE 0)
  BY DEF Refuse, RetryAfter, OneLimiter
<1>3. Len(pruned) >= Allowed
  BY DEF Refuse, Blocked, OneLimiter
<1>4. /\ now \in Nat /\ L \in Nat /\ Len(pruned) \in Nat
      /\ Allowed \in Nat \ {0} /\ Window \in Nat \ {0}
  BY <1>1, LenProperties, LimiterAssumption DEF WindowInv, LimiterTypeOK
<1>5. /\ hits' \in Seq(Nat) /\ Len(hits') <= Allowed
      /\ InOrder' /\ IsRecent(hits, now)' /\ WindowBound'
  BY <1>2, PrunedKeepsWindow
<1> HIDE DEF pruned
<1>6. Len(pruned) = Allowed /\ 1 \in 1..Len(pruned)
  BY <1>1, <1>3, <1>4
<1>7. pruned[1] > now - Window /\ pruned[1] \in Nat
  BY <1>1, <1>6, ElementOfSeq
<1>8. retryAt' = pruned[1] + Window
  BY <1>2, <1>4, <1>7
<1>9. L >= Allowed /\ pruned[1] = admitted[L - Allowed + 1]
  BY <1>1, <1>6 DEF IsRecent
<1>10. Told'
  BY <1>2, <1>8, <1>9 DEF Told
<1>11. LimiterTypeOK'
  BY <1>2, <1>4, <1>5, <1>7, <1>8 DEF WindowInv, LimiterTypeOK
<1> QED BY <1>5, <1>10, <1>11 DEF WindowInv

\* Every step keeps the invariant.
LEMMA NextKeepsWindow ==
  ASSUME WindowInv, [LimiterNext]_limiterVars
  PROVE  WindowInv'
<1>1. CASE UNCHANGED limiterVars
  BY <1>1 DEF limiterVars, WindowInv, LimiterTypeOK, InOrder, IsRecent, WindowBound, Told
<1>2. CASE Admit
  BY <1>2, AdmitKeepsWindow
<1>3. CASE Refuse
  BY <1>3, RefuseKeepsWindow
<1>4. CASE Look
  <2>1. hits' = Prune(OneLimiter, hits, now) /\ UNCHANGED <<now, admitted, retryAt>>
    BY <1>4 DEF Look
  <2>2. /\ hits' \in Seq(Nat) /\ Len(hits') <= Allowed
        /\ InOrder' /\ IsRecent(hits, now)' /\ WindowBound'
    BY <2>1, PrunedKeepsWindow
  <2> QED BY <2>1, <2>2 DEF WindowInv, LimiterTypeOK, Told
<1>5. CASE TimePasses
  <2>1. now' = now + 1 /\ now \in Nat /\ UNCHANGED <<hits, admitted, retryAt>>
    BY <1>5 DEF TimePasses, WindowInv, LimiterTypeOK
  <2>2. LimiterTypeOK' /\ WindowBound' /\ Told' /\ Len(hits') <= Allowed
    BY <2>1 DEF WindowInv, LimiterTypeOK, WindowBound, Told
  <2>3. Window \in Nat /\ Len(hits) \in Nat /\ Len(admitted) \in Nat
        /\ \A i \in 1..Len(admitted) : admitted[i] \in Nat
    BY LenProperties, ElementOfSeq, LimiterAssumption DEF WindowInv, LimiterTypeOK
  <2>4. InOrder'
    BY <2>1, <2>3 DEF WindowInv, InOrder
  <2>5. IsRecent(hits, now)'
    <3>1. ASSUME NEW i \in 1..(Len(admitted) - Len(hits))
          PROVE  admitted[i] <= (now + 1) - Window
      <4>1. admitted[i] <= now - Window /\ i \in 1..Len(admitted)
        BY <2>3 DEF WindowInv, IsRecent
      <4> QED BY <2>1, <2>3, <4>1
    <3> QED BY <2>1, <3>1 DEF WindowInv, IsRecent
  <2> QED BY <2>2, <2>4, <2>5 DEF WindowInv
<1> QED BY <1>1, <1>2, <1>3, <1>4, <1>5 DEF LimiterNext

---------------------------------------------------------------------------------
\* The waits are exact, because the list holds just the calls in the window.
LEMMA WindowIsKnown ==
  ASSUME WindowInv
  PROVE  WindowIsExact
<1> DEFINE pruned == Prune(OneLimiter, hits, now)
           L == Len(admitted)
           k == L - Allowed + 1
<1>1. /\ pruned \in Seq(Nat) /\ Len(pruned) <= Allowed
      /\ IsRecent(pruned, now) /\ \A i \in 1..Len(pruned) : pruned[i] > now - Window
  BY PrunedIsRecent
<1>2. Blocked(OneLimiter, hits, now) <=> Len(pruned) >= Allowed
  BY DEF Blocked, OneLimiter
<1> HIDE DEF pruned
<1>3. /\ now \in Nat /\ retryAt \in Nat /\ L \in Nat /\ Len(pruned) \in Nat
      /\ Allowed \in Nat \ {0} /\ Window \in Nat \ {0}
      /\ \A i \in 1..L : admitted[i] \in Nat
  BY <1>1, LenProperties, ElementOfSeq, LimiterAssumption DEF WindowInv, LimiterTypeOK
<1>4. /\ Len(pruned) <= L
      /\ \A i \in 1..Len(pruned) : pruned[i] = admitted[L - Len(pruned) + i]
      /\ \A i \in 1..(L - Len(pruned)) : admitted[i] <= now - Window
  BY <1>1 DEF IsRecent
<1>5. ASSUME now < retryAt PROVE Len(pruned) >= Allowed
  <2>1. ~(admitted # <<>> /\ admitted[L] >= retryAt)
    <3> SUFFICES ASSUME admitted # <<>>, admitted[L] >= retryAt PROVE FALSE
      OBVIOUS
    <3>1. L \in 1..L
      BY <1>3, EmptySeq DEF WindowInv, LimiterTypeOK
    <3>2. admitted[L] <= now /\ admitted[L] \in Nat
      BY <1>3, <3>1 DEF WindowInv, InOrder
    <3> QED BY <1>3, <1>5, <3>2
  <2>2. L >= Allowed /\ admitted[k] + Window = retryAt
    BY <1>3, <1>5, <2>1 DEF WindowInv, Told
  <2>3. k \in 1..L /\ admitted[k] \in Nat /\ ~(admitted[k] <= now - Window)
    BY <1>3, <1>5, <2>2
  <2>4. k \notin 1..(L - Len(pruned))
    BY <1>4, <2>3
  <2> HIDE DEF L
  <2> QED BY <1>3, <1>4, <2>2, <2>3, <2>4
<1>6. ASSUME Len(pruned) >= Allowed, ~(now < retryAt) PROVE admitted[L] >= retryAt
  <2>1. Len(pruned) = Allowed /\ L \in 1..L /\ L >= Allowed
    BY <1>1, <1>3, <1>4, <1>6
  <2>2. CASE retryAt = 0
    BY <1>3, <2>1, <2>2
  <2>3. CASE admitted[k] + Window = retryAt
    <3>1. 1 \in 1..Len(pruned) /\ L - Len(pruned) + 1 = k
      BY <1>3, <2>1
    <3>2. admitted[k] > now - Window /\ k \in 1..L
      BY <1>1, <1>3, <1>4, <2>1, <3>1
    <3>3. admitted[k] \in Nat
      BY <1>3, <3>2
    <3> QED BY <1>3, <1>6, <2>3, <3>2, <3>3
  <2> QED BY <2>2, <2>3 DEF WindowInv, Told
<1> QED BY <1>2, <1>5, <1>6 DEF WindowInv, WindowIsExact, RetryAfterExact

\* No window holds more than Allowed calls, wherever it begins and whenever the list is
\* pruned, and who is told to wait is refused for just that long.
THEOREM WindowIsAlwaysExact == LimiterSpec => []WindowIsExact
<1>1. LimiterInit => WindowInv
  <2> SUFFICES ASSUME LimiterInit PROVE WindowInv
    OBVIOUS
  <2>1. /\ now = 0 /\ retryAt = 0 /\ hits = <<>> /\ admitted = <<>>
        /\ hits \in Seq(Nat) /\ Len(hits) = 0 /\ Len(admitted) = 0
    BY EmptySeq DEF LimiterInit
  <2>2. Allowed \in Nat \ {0}
    BY LimiterAssumption
  <2> QED BY <2>1, <2>2 DEF WindowInv, LimiterTypeOK, InOrder, IsRecent, WindowBound, Told
<1>2. WindowInv /\ [LimiterNext]_limiterVars => WindowInv'
  BY NextKeepsWindow
<1>3. WindowInv => WindowIsExact
  BY WindowIsKnown
<1> QED BY <1>1, <1>2, <1>3, PTL DEF LimiterSpec

---------------------------------------------------------------------------------
(* The program: what holds while it starts, runs and ends.                       *)

\* What binds start, stop and the requests together: stop comes after start is over; once
\* it has cut the connections nothing is open, and nothing opens again.
StopInv == /\ stopStep # "none" => step \in {"done", "failed"} /\ listeners \subseteq {"discovery"}
           /\ stopStep \in {"closing", "done"} => calls = EmptyMap /\ streams = {}
           /\ stopStep = "done" => listeners = {} /\ status = "stopped"

\* The shell listens to an app that runs, and has a tray then.
TrayInv == /\ tray # "unset" => step = "done"
           /\ attached => tray # "unset" /\ stopStep = "none"
           /\ tray = "unset" /\ step # "failed" => stopStep = "none"
           /\ ~attached => batches = EmptyMap

\* How far shutdown has come.
EndInv == /\ ending # "no" => ~attached /\ tray # "unset" /\ stopStep # "none"
          /\ ending \in {"tray", "exited"} => stopStep = "done"
          /\ ending = "exited" => tray # "running"

\* The inductive invariant.
AppInv == TypeOK /\ IsFiniteSet(DOMAIN calls) /\ MenuFollowsEvents /\ StopInv /\ TrayInv /\ EndInv

---------------------------------------------------------------------------------
(* The tracker of running requests.                                              *)

\* It counts the requests that run, each once.
CallsOK == /\ IsMap(calls, Call, {"running", "answered"})
           /\ IsFiniteSet(DOMAIN calls)
           /\ active = Cardinality(Running)

\* The running requests are finitely many.
LEMMA RunningFinite ==
  ASSUME CallsOK
  PROVE  /\ Running \subseteq DOMAIN calls /\ IsFiniteSet(Running)
         /\ active \in Nat /\ (active = 0 => Running = {})
<1>1. Running \in SUBSET DOMAIN calls /\ IsFiniteSet(DOMAIN calls)
  BY DEF Running, CallsOK
<1>2. IsFiniteSet(Running)
  BY <1>1, FS_Subset
<1> QED BY <1>1, <1>2, FS_CardinalityType, FS_EmptySet DEF CallsOK

\* When every connection is cut, none is left to count.
LEMMA CutCalls ==
  ASSUME CloseAll
  PROVE  CallsOK' /\ calls' = EmptyMap /\ streams' = {} /\ stopStep' = "closing"
<1>1. calls' = EmptyMap /\ active' = 0 /\ streams' = {} /\ stopStep' = "closing"
  BY DEF CloseAll
<1>2. \A K, V : IsMap(EmptyMap, K, V)
  BY EmptyMapIsMap
<1>3. IsMap(calls', Call, {"running", "answered"})
  BY <1>1, <1>2
<1>4. DOMAIN calls' = {} /\ Running' = {}
  BY <1>1 DEF EmptyMap, Running
<1> QED BY <1>1, <1>3, <1>4, FS_EmptySet DEF CallsOK

\* A request that begins is one more.
LEMMA CallBegun ==
  ASSUME CallsOK, NEW c \in Call, CallBegins(c)
  PROVE  CallsOK' /\ DOMAIN calls \subseteq DOMAIN calls'
<1>1. /\ calls' = With(calls, c, "running") /\ active' = active + 1 /\ c \notin DOMAIN calls
  BY DEF CallBegins
<1>2. IsMap(With(calls, c, "running"), Call, {"running", "answered"})
  BY WithProperties DEF CallsOK
<1>3. DOMAIN calls' = DOMAIN calls \cup {c} /\ Running' = Running \cup {c} /\ c \notin Running
  BY <1>1 DEF With, Running
<1>4. IsFiniteSet(DOMAIN calls')
  BY <1>3, FS_AddElement DEF CallsOK
<1>5. Cardinality(Running') = Cardinality(Running) + 1
  BY <1>3, RunningFinite, FS_AddElement
<1> QED BY <1>1, <1>2, <1>3, <1>4, <1>5 DEF CallsOK

\* A request that ends is counted out once, and takes no other with it: the last one
\* wakes stop, which finds none to cut.
LEMMA CallSettled ==
  ASSUME CallsOK, NEW c \in DOMAIN calls, NEW others,
         \/ c \in Running /\ others = [calls EXCEPT ![c] = "answered"]
         \/ others = Without(calls, {c}),
         Settle(others, Done(c))
  PROVE  CallsOK' /\ \A d \in Running : d # c => d \in DOMAIN calls'
<1>1. /\ IsMap(others, Call, {"running", "answered"})
      /\ DOMAIN calls \ {c} \subseteq DOMAIN others /\ DOMAIN others \subseteq DOMAIN calls
      /\ {d \in DOMAIN others : others[d] = "running"} = Running \ {c}
  <2>1. CASE others = [calls EXCEPT ![c] = "answered"]
    BY <2>1 DEF IsMap, CallsOK, Running
  <2>2. CASE others = Without(calls, {c})
    <3>1. IsMap(Without(calls, {c}), Call, {"running", "answered"})
      BY WithoutProperties DEF CallsOK
    <3> QED BY <2>2, <3>1 DEF Without, Restrict, Running
  <2> QED BY <2>1, <2>2
<1>2. Done(c) = Cardinality(Running \ {c})
  <2>1. Cardinality(Running \ {c}) = IF c \in Running THEN Cardinality(Running) - 1 ELSE Cardinality(Running)
    BY RunningFinite, FS_RemoveElement
  <2> QED BY <2>1 DEF Done, Running, CallsOK
<1>3. IsFiniteSet(Running \ {c}) /\ IsFiniteSet(DOMAIN others)
  <2>1. Running \ {c} \in SUBSET Running /\ DOMAIN others \in SUBSET DOMAIN calls
    BY <1>1
  <2> QED BY <2>1, RunningFinite, FS_Subset DEF CallsOK
<1>4. CASE stopStep = "waiting" /\ Done(c) = 0
  <2>1. Running \ {c} = {}
    BY <1>2, <1>3, <1>4, FS_EmptySet
  <2> QED BY <1>4, <2>1, CutCalls DEF Settle
<1>5. CASE ~(stopStep = "waiting" /\ Done(c) = 0)
  <2>1. calls' = others /\ active' = Done(c)
    BY <1>5 DEF Settle
  <2>2. Running' = Running \ {c}
    BY <1>1, <2>1 DEF Running
  <2> QED BY <1>1, <1>2, <1>3, <2>1, <2>2, RunningFinite DEF CallsOK
<1> QED BY <1>4, <1>5

\* stop, the first time, cuts connections only if no request runs.
LEMMA StopSparesCalls ==
  ASSUME CallsOK, Stop
  PROVE  CallsOK' /\ \A d \in Running : d \in DOMAIN calls'
<1>1. CASE active = 0
  BY <1>1, CutCalls, RunningFinite DEF Stop
<1>2. CASE active # 0
  BY <1>2 DEF Stop, CallsOK, Running
<1> QED BY <1>1, <1>2

\* Every other step leaves the requests alone.
LEMMA OtherSteps ==
  ASSUME [Next]_vars
  PROVE  \/ UNCHANGED <<calls, active>>
         \/ GraceEnds /\ UNCHANGED trayVars
         \/ Stop
         \/ \E c \in Call : CallBegins(c) \/ CallFinishes(c) \/ CallCloses(c)
<1>1. ASSUME BindAll PROVE Stop \/ UNCHANGED <<calls, active>>
  BY <1>1 DEF BindAll, Bind
<1>2. Check \/ Started => UNCHANGED <<calls, active>>
  BY DEF Check, Started
<1>3. \A s : StreamOpens(s) \/ StreamCloses(s) => UNCHANGED <<calls, active>>
  BY DEF StreamOpens, StreamCloses
<1>4. CASE Server /\ UNCHANGED trayVars
  BY <1>1, <1>2, <1>3, <1>4 DEF Server
<1>5. CASE UNCHANGED vars
  BY <1>5 DEF vars, lifecycleVars
<1>6. CASE StartTray \/ \E about \in Target : ClickBalloon(about) \/ BalloonHides(about)
  BY <1>6 DEF StartTray, ClickBalloon, BalloonHides, lifecycleVars
<1>7. CASE PairingPending \/ PairingResolved \/ PairingExpires \/ OtherChange
  BY <1>7 DEF PairingPending, PairingResolved, PairingExpires, OtherChange, InCall, lifecycleVars
<1>8. CASE \E p \in Device : Flush(p) \/ \E kind \in {"message", "file"} : ItemArrives(p, kind)
  BY <1>8 DEF Flush, ItemArrives, InCall, lifecycleVars
<1>9. CASE Shutdown \/ ServerStopped \/ TrayExits \/ KillTray
  BY <1>9 DEF Shutdown, ServerStopped, StopCompletes, TrayExits, KillTray, TrayGone, lifecycleVars
<1> QED BY <1>4, <1>5, <1>6, <1>7, <1>8, <1>9 DEF Next

\* The tracker stays right, and a step that is no end of the grace takes no request away
\* but the one that ends.
LEMMA CallsTracked ==
  ASSUME CallsOK, [Next]_vars
  PROVE  /\ CallsOK'
         /\ \A c \in Running : c \in DOMAIN calls' \/ CallFinishes(c) \/ CallCloses(c) \/ GraceEnds
<1>1. CASE UNCHANGED <<calls, active>>
  BY <1>1 DEF CallsOK, Running
<1>2. CASE GraceEnds
  BY <1>2, CutCalls DEF GraceEnds
<1>3. CASE Stop
  BY <1>3, StopSparesCalls
<1>4. ASSUME NEW c \in Call, CallBegins(c)
      PROVE  CallsOK' /\ \A d \in Running : d \in DOMAIN calls'
  BY <1>4, CallBegun, RunningFinite
<1>5. ASSUME NEW c \in Call, CallFinishes(c)
      PROVE  CallsOK' /\ \A d \in Running : d # c => d \in DOMAIN calls'
  <2>1. c \in Running /\ c \in DOMAIN calls /\ Settle([calls EXCEPT ![c] = "answered"], Done(c))
    BY <1>5 DEF CallFinishes, Running
  <2> QED BY <2>1, CallSettled
<1>6. ASSUME NEW c \in Call, CallCloses(c)
      PROVE  CallsOK' /\ \A d \in Running : d # c => d \in DOMAIN calls'
  <2>1. c \in DOMAIN calls /\ Settle(Without(calls, {c}), Done(c))
    BY <1>6 DEF CallCloses
  <2> QED BY <2>1, CallSettled
<1> QED BY <1>1, <1>2, <1>3, <1>4, <1>5, <1>6, OtherSteps


---------------------------------------------------------------------------------
(* The inductive invariant.                                                      *)

\* What the rest of the program relies on when the server moves.
ServerMoves == /\ tray # "unset" => step' = step
               /\ attached => status' = status /\ stopStep' = stopStep
               /\ stopStep # "none" => stopStep' # "none"
               /\ step' # "failed" => step # "failed" /\ (stopStep = "none" => stopStep' = "none")
               /\ stopStep = "done" => stopStep' = "done"

\* The parts of the server's types that are not about requests.
ServerTypes == /\ tolerant \in BOOLEAN
               /\ step \in Listener \cup {"check", "yield", "addresses", "done", "failed"}
               /\ listeners \subseteq Listener /\ failures \subseteq Listener
               /\ status \in Status
               /\ stopStep \in {"none", "waiting", "closing", "done"}
               /\ streams \subseteq {"phone", "page"}

\* The invariant's parts about the server.
LEMMA ServerParts == AppInv => CallsOK /\ ServerTypes /\ StopInv /\ TrayInv
BY DEF AppInv, TypeOK, LifecycleTypeOK, CallsOK, ServerTypes, StopInv

\* Ending the listening, or everything, keeps the order of the end.
LEMMA StopKeepsOrder ==
  ASSUME ServerTypes, Stop, step' \in {"done", "failed"},
         UNCHANGED <<tolerant, status>>, failures' \subseteq Listener
  PROVE  ServerTypes' /\ StopInv' /\ stopStep' # "none"
<1>1. listeners' = listeners \ {"device", "admin"} /\ listeners' \subseteq {"discovery"}
  BY DEF Stop, ServerTypes, Listener
<1>2. CASE active = 0
  BY <1>1, <1>2, CutCalls DEF Stop, ServerTypes, StopInv
<1>3. CASE active # 0
  BY <1>1, <1>3 DEF Stop, ServerTypes, StopInv
<1> QED BY <1>2, <1>3

\* Binding a port.
LEMMA BindKeeps ==
  ASSUME ServerTypes, StopInv, TrayInv,
         NEW key \in Listener, NEW next \in Listener \cup {"addresses"}, Bind(key, next)
  PROVE  ServerTypes' /\ StopInv' /\ ServerMoves
<1>1. step = key /\ UNCHANGED <<tolerant, status>> /\ key # "done" /\ key # "failed"
  BY DEF Bind, Listener
<1>2. stopStep = "none" /\ tray = "unset" /\ ~attached
  BY <1>1 DEF StopInv, TrayInv, ServerTypes
<1>3. CASE ~tolerant /\ Stop /\ step' = "failed" /\ failures' = failures \cup {key}
  <2>1. failures' \subseteq Listener
    BY <1>3 DEF ServerTypes
  <2>2. ServerTypes' /\ StopInv' /\ stopStep' # "none"
    BY <1>1, <1>3, <2>1, StopKeepsOrder
  <2> QED BY <1>1, <1>2, <1>3, <2>2 DEF ServerMoves
<1>4. CASE /\ step' = next /\ UNCHANGED <<stopStep, calls, active, streams>>
           /\ listeners' \subseteq Listener /\ failures' \subseteq Listener
  <2>1. next \notin {"done", "failed"}
    BY DEF Listener
  <2>2. ServerTypes'
    BY <1>1, <1>4 DEF ServerTypes
  <2> QED BY <1>1, <1>2, <1>4, <2>1, <2>2 DEF StopInv, ServerMoves
<1> QED BY <1>3, <1>4 DEF Bind, ServerTypes

\* The last request that ends wakes stop; otherwise only the requests change.
LEMMA SettleKeeps ==
  ASSUME ServerTypes, StopInv, TrayInv, NEW others, NEW left, Settle(others, left),
         stopStep \in {"closing", "done"} => others = EmptyMap
  PROVE  ServerTypes' /\ StopInv' /\ ServerMoves
<1>1. UNCHANGED <<tolerant, step, listeners, failures, status>>
  BY DEF Settle
<1>2. CASE stopStep = "waiting" /\ left = 0
  BY <1>1, <1>2, CutCalls DEF Settle, ServerTypes, StopInv, TrayInv, ServerMoves
<1>3. CASE ~(stopStep = "waiting" /\ left = 0)
  BY <1>1, <1>3 DEF Settle, ServerTypes, StopInv, ServerMoves
<1> QED BY <1>2, <1>3

\* Every step of the server keeps the order of its start and its end.
LEMMA ServerKeeps ==
  ASSUME AppInv, Server
  PROVE  ServerTypes' /\ StopInv' /\ ServerMoves
<1> USE ServerParts
<1>1. CASE Check
  BY <1>1 DEF Check, ServerTypes, StopInv, TrayInv, ServerMoves, Listener
<1>2. CASE BindAll
  <2>1. {"device", "admin", "discovery"} = Listener
    BY DEF Listener
  <2> QED BY <1>2, <2>1, BindKeeps DEF BindAll
<1>3. CASE Started
  BY <1>3 DEF Started, SetStatus, Status, ServerTypes, StopInv, TrayInv, ServerMoves
<1>4. CASE GraceEnds
  BY <1>4, CutCalls DEF GraceEnds, ServerTypes, StopInv, TrayInv, ServerMoves
<1>5. ASSUME NEW c \in Call, CallBegins(c)
      PROVE  ServerTypes' /\ StopInv' /\ ServerMoves
  <2>1. stopStep \notin {"closing", "done"}
    BY <1>5 DEF CallBegins, Reachable, StopInv
  <2> QED BY <1>5, <2>1 DEF CallBegins, ServerTypes, StopInv, ServerMoves
<1>6. ASSUME NEW c \in Call, CallFinishes(c) \/ CallCloses(c)
      PROVE  ServerTypes' /\ StopInv' /\ ServerMoves
  <2>1. c \in DOMAIN calls
    BY <1>6 DEF CallFinishes, CallCloses, Running
  <2>2. stopStep \notin {"closing", "done"}
    BY <2>1 DEF StopInv, EmptyMap
  <2>3. \E others : Settle(others, Done(c))
    BY <1>6 DEF CallFinishes, CallCloses
  <2> QED BY <2>2, <2>3, SettleKeeps
<1>7. ASSUME NEW s \in {"phone", "page"}, StreamOpens(s)
      PROVE  ServerTypes' /\ StopInv' /\ ServerMoves
  <2>1. stopStep = "none"
    BY <1>7 DEF StreamOpens, StopInv
  <2> QED BY <1>7, <2>1 DEF StreamOpens, ServerTypes, StopInv, ServerMoves
<1>8. ASSUME NEW s \in {"phone", "page"}, StreamCloses(s)
      PROVE  ServerTypes' /\ StopInv' /\ ServerMoves
  BY <1>8 DEF StreamCloses, ServerTypes, StopInv, ServerMoves
<1> QED BY <1>1, <1>2, <1>3, <1>4, <1>5, <1>6, <1>7, <1>8 DEF Server

\* The types of the shell and its tray.
TrayTypes ==
  /\ tray \in {"unset", "none", "running", "gone"} /\ attached \in BOOLEAN
  /\ menu \in [state : Status, pending : 0..MaxPending] /\ pending \in 0..MaxPending
  /\ IsMap(batches, Device, [kinds : SUBSET {"message", "file"}, timer : BOOLEAN])
  /\ balloons \subseteq Target /\ lastTarget \in Target /\ opened \in Target \cup {"none"}
  /\ ending \in {"no", "app", "tray", "exited"} /\ quiet \in Nat /\ unseen \subseteq Device

\* The invariant but for the requests.
RestInv == ServerTypes /\ StopInv /\ TrayTypes /\ MenuFollowsEvents /\ TrayInv /\ EndInv

\* The invariant, split into what is about the requests, the server and the tray.
LEMMA Parts == (AppInv <=> CallsOK /\ RestInv) /\ (AppInv' <=> CallsOK' /\ RestInv')
BY DEF AppInv, RestInv, TypeOK, LifecycleTypeOK, CallsOK, ServerTypes, TrayTypes, StopInv

\* A count in the menu's range, with no request run out since.
LEMMA PlusNothing ==
  ASSUME NEW n \in 0..MaxPending, NEW q, q = 0
  PROVE  n + q = n
BY AppAssumption

\* What the shell sends is a menu.
LEMMA RefreshKeeps ==
  ASSUME RestInv, UNCHANGED <<attached, status>>, pending' \in 0..MaxPending, quiet' = 0,
         Refresh(pending')
  PROVE  menu' \in [state : Status, pending : 0..MaxPending] /\ MenuFollowsEvents'
<1>1. CASE attached
  <2>1. menu' = Menu(status', pending') /\ status' \in Status
    BY <1>1 DEF Refresh, RestInv, ServerTypes
  <2>2. pending' + quiet' = pending'
    BY PlusNothing
  <2> QED BY <2>1, <2>2 DEF Menu, MenuFollowsEvents
<1>2. CASE ~attached
  BY <1>2 DEF Refresh, RestInv, TrayTypes, MenuFollowsEvents
<1> QED BY <1>1, <1>2

\* While nothing of the server moves, its parts stay as they are.
LEMMA ServerRests ==
  ASSUME RestInv, UNCHANGED lifecycleVars
  PROVE  ServerTypes' /\ StopInv'
BY DEF RestInv, ServerTypes, StopInv, lifecycleVars

\* The invariants of the tray speak of few variables.
LEMMA TrayRests ==
  ASSUME RestInv, UNCHANGED lifecycleVars, UNCHANGED <<tray, attached, ending>>,
         ~attached => UNCHANGED batches
  PROVE  TrayInv' /\ EndInv'
BY DEF RestInv, TrayInv, EndInv, lifecycleVars

\* The steps of the server.
LEMMA ServerStep ==
  ASSUME AppInv, Server, UNCHANGED trayVars
  PROVE  RestInv'
<1>1. RestInv /\ ServerTypes' /\ StopInv' /\ ServerMoves
  BY Parts, ServerKeeps
<1>2. TrayTypes' /\ MenuFollowsEvents'
  BY <1>1 DEF RestInv, TrayTypes, MenuFollowsEvents, ServerMoves, trayVars, Menu
<1>3. TrayInv' /\ EndInv'
  BY <1>1 DEF RestInv, TrayInv, EndInv, ServerMoves, ServerTypes, trayVars
<1> QED BY <1>1, <1>2, <1>3 DEF RestInv

\* The steps of the tray, while the program runs.
LEMMA TrayStep ==
  ASSUME RestInv, StartTray \/ \E about \in Target : ClickBalloon(about) \/ BalloonHides(about)
  PROVE  RestInv'
<1>1. CASE StartTray
  <2>1. /\ UNCHANGED lifecycleVars /\ step = "done" /\ tray = "unset" /\ ~attached /\ stopStep = "none"
        /\ UNCHANGED <<pending, batches, balloons, lastTarget, opened, ending, unseen>> /\ quiet' = 0
        /\ ending = "no"
    BY <1>1 DEF StartTray, Heard, RestInv, TrayInv, EndInv, TrayTypes
  <2>2. \/ tray' = "running" /\ attached' /\ menu' = Menu(status, pending)
        \/ tray' = "none" /\ ~attached' /\ menu' = menu
    BY <1>1, <2>1 DEF StartTray
  <2>3. TrayTypes'
    <3>1. attached' \in BOOLEAN
      BY <1>1 DEF StartTray, RestInv, TrayTypes
    <3> QED BY <2>1, <2>2, <3>1 DEF RestInv, TrayTypes, ServerTypes, Menu
  <2>4. MenuFollowsEvents'
    BY <2>1, <2>2 DEF MenuFollowsEvents, Menu, lifecycleVars, RestInv, TrayTypes
  <2>5. TrayInv' /\ EndInv'
    BY <2>1, <2>2 DEF TrayInv, EndInv, RestInv, lifecycleVars
  <2> QED BY <2>1, <2>3, <2>4, <2>5, ServerRests DEF RestInv
<1>2. ASSUME NEW about \in Target, ClickBalloon(about) \/ BalloonHides(about)
      PROVE  RestInv'
  <2>1. /\ UNCHANGED lifecycleVars
        /\ UNCHANGED <<tray, attached, menu, pending, batches, lastTarget, ending, quiet, unseen>>
        /\ balloons' \subseteq balloons /\ opened' \in {opened, lastTarget}
    BY <1>2 DEF ClickBalloon, BalloonHides
  <2>2. TrayTypes' /\ MenuFollowsEvents'
    BY <2>1 DEF RestInv, TrayTypes, MenuFollowsEvents, Menu, lifecycleVars
  <2> QED BY <2>1, <2>2, ServerRests, TrayRests DEF RestInv
<1> QED BY <1>1, <1>2

\* What happens in calls, and requests that run out.
LEMMA ShellStep ==
  ASSUME RestInv, PairingPending \/ PairingResolved \/ PairingExpires \/ OtherChange
  PROVE  RestInv'
<1>1. /\ UNCHANGED lifecycleVars
      /\ UNCHANGED <<tray, attached, batches, opened, ending, unseen>>
      /\ pending' \in 0..MaxPending /\ quiet' \in Nat
      /\ balloons' \subseteq Target /\ lastTarget' \in Target
  <2> USE DEF RestInv, TrayTypes, InCall, Heard
  <2>1. CASE PairingPending
    <3>1. pending' \in 0..MaxPending /\ quiet' \in Nat
      BY <2>1, AppAssumption DEF PairingPending
    <3>2. balloons' \subseteq Target /\ lastTarget' \in Target
      BY <2>1 DEF PairingPending, Notify, NoBalloon, Target
    <3> QED BY <2>1, <3>1, <3>2 DEF PairingPending
  <2>2. CASE PairingResolved
    BY <2>2, AppAssumption DEF PairingResolved
  <2>3. CASE PairingExpires
    BY <2>3, AppAssumption DEF PairingExpires
  <2>4. CASE OtherChange
    BY <2>4 DEF OtherChange
  <2> QED BY <2>1, <2>2, <2>3, <2>4
<1>2. menu' \in [state : Status, pending : 0..MaxPending] /\ MenuFollowsEvents'
  <2>1. CASE PairingExpires
    BY <2>1, <1>1 DEF PairingExpires, RestInv, TrayTypes, MenuFollowsEvents, Menu, lifecycleVars
  <2>2. CASE PairingPending \/ PairingResolved \/ OtherChange
    <3>1. Refresh(pending') /\ quiet' = 0
      BY <2>2 DEF PairingPending, PairingResolved, OtherChange, OnResolved, Heard
    <3> QED BY <1>1, <3>1, RefreshKeeps DEF lifecycleVars
  <2> QED BY <2>1, <2>2
<1>3. TrayTypes'
  BY <1>1, <1>2 DEF RestInv, TrayTypes
<1> QED BY <1>1, <1>2, <1>3, ServerRests, TrayRests DEF RestInv

\* Items that arrive, and the balloons about them.
LEMMA ItemStep ==
  ASSUME RestInv, NEW p \in Device,
         Flush(p) \/ \E kind \in {"message", "file"} : ItemArrives(p, kind)
  PROVE  RestInv'
<1> DEFINE Batch == [kinds : SUBSET {"message", "file"}, timer : BOOLEAN]
<1>0. IsMap(batches, Device, Batch)
  BY DEF RestInv, TrayTypes
<1>1. CASE Flush(p)
  <2>1. /\ UNCHANGED lifecycleVars
        /\ UNCHANGED <<tray, attached, menu, pending, opened, ending, quiet>>
        /\ balloons' \subseteq Target /\ lastTarget' \in Target /\ unseen' \subseteq Device
        /\ p \in DOMAIN batches /\ batches' = Without(batches, {p})
    BY <1>1 DEF Flush, Flushed, Notify, NoBalloon, Target, RestInv, TrayTypes
  <2>2. IsMap(Without(batches, {p}), Device, Batch)
    BY <1>0, WithoutProperties
  <2>3. attached
    BY <2>1 DEF RestInv, TrayInv, EmptyMap
  <2>4. TrayTypes' /\ MenuFollowsEvents'
    BY <2>1, <2>2 DEF RestInv, TrayTypes, MenuFollowsEvents, Menu, lifecycleVars
  <2> QED BY <2>1, <2>3, <2>4, ServerRests, TrayRests DEF RestInv
<1>2. ASSUME NEW kind \in {"message", "file"}, ItemArrives(p, kind)
      PROVE  RestInv'
  <2>1. /\ UNCHANGED lifecycleVars
        /\ UNCHANGED <<tray, attached, pending, balloons, lastTarget, opened, ending>>
        /\ unseen' \subseteq Device /\ (~attached => UNCHANGED batches)
        /\ Refresh(pending') /\ quiet' = 0
    BY <1>2 DEF ItemArrives, InCall, Heard, RestInv, TrayTypes
  <2>2. IsMap(batches', Device, Batch)
    <3>1. CASE UNCHANGED batches
      BY <1>0, <3>1
    <3>2. CASE p \in DOMAIN batches /\ batches' = [batches EXCEPT ![p].kinds = @ \cup {kind}]
      BY <1>0, <3>2 DEF IsMap
    <3>3. CASE batches' = With(batches, p, [kinds |-> {kind}, timer |-> TRUE])
      <4>1. [kinds |-> {kind}, timer |-> TRUE] \in Batch
        OBVIOUS
      <4> QED BY <1>0, <3>3, <4>1, WithProperties
    <3> QED BY <1>2, <3>1, <3>2, <3>3 DEF ItemArrives
  <2>3. menu' \in [state : Status, pending : 0..MaxPending] /\ MenuFollowsEvents'
    <3>1. pending' \in 0..MaxPending
      BY <2>1 DEF RestInv, TrayTypes
    <3> QED BY <2>1, <3>1, RefreshKeeps DEF lifecycleVars
  <2>4. TrayTypes'
    BY <2>1, <2>2, <2>3 DEF RestInv, TrayTypes
  <2> QED BY <2>1, <2>3, <2>4, ServerRests, TrayRests DEF RestInv
<1> QED BY <1>1, <1>2

\* The end of the program.
LEMMA EndStep ==
  ASSUME RestInv, Shutdown \/ ServerStopped \/ TrayExits \/ KillTray
  PROVE  RestInv'
<1>1. CASE Shutdown
  <2>1. /\ tray # "unset" /\ step = "done" /\ step' = step /\ Stop
        /\ UNCHANGED <<tolerant, status, failures, tray, menu, pending, balloons, lastTarget, opened>>
        /\ ending' = "app" /\ ~attached' /\ attached' \in BOOLEAN
        /\ batches' = EmptyMap /\ quiet' = 0 /\ unseen' = {}
    BY <1>1 DEF Shutdown, RestInv, TrayInv
  <2>2. ServerTypes' /\ StopInv' /\ stopStep' # "none"
    BY <2>1, StopKeepsOrder DEF RestInv, ServerTypes
  <2>3. \A K, V : IsMap(EmptyMap, K, V)
    BY EmptyMapIsMap
  <2>4. TrayTypes' /\ MenuFollowsEvents'
    BY <2>1, <2>3 DEF RestInv, TrayTypes, MenuFollowsEvents
  <2>5. TrayInv' /\ EndInv'
    BY <2>1, <2>2 DEF RestInv, TrayInv, EndInv
  <2> QED BY <2>2, <2>4, <2>5 DEF RestInv
<1>2. CASE ServerStopped
  <2>1. /\ stopStep = "closing" /\ stopStep' = "done" /\ listeners' = {} /\ status' = "stopped"
        /\ UNCHANGED <<tolerant, step, failures, calls, active, streams>>
        /\ UNCHANGED <<tray, attached, menu, pending, batches, balloons, lastTarget, opened, quiet, unseen>>
        /\ ending' \in {ending, AfterStop} /\ (ending' # ending => ending = "app") /\ ending' # "app"
    BY <1>2 DEF ServerStopped, StopCompletes, SetStatus, AfterStop
  <2>2. ServerTypes' /\ StopInv'
    BY <2>1 DEF RestInv, ServerTypes, StopInv, Status
  <2>3. TrayTypes' /\ MenuFollowsEvents'
    BY <2>1 DEF RestInv, TrayTypes, TrayInv, AfterStop, MenuFollowsEvents
  <2>4. TrayInv' /\ EndInv'
    BY <2>1 DEF RestInv, TrayInv, EndInv, TrayTypes, AfterStop
  <2> QED BY <2>2, <2>3, <2>4 DEF RestInv
<1>3. CASE TrayExits \/ KillTray
  <2>1. /\ UNCHANGED lifecycleVars
        /\ UNCHANGED <<attached, menu, pending, batches, lastTarget, opened, quiet, unseen>>
        /\ tray = "running" /\ tray' = "gone" /\ balloons' = {}
        /\ ending' = IF ending = "tray" THEN "exited" ELSE ending
    BY <1>3 DEF TrayExits, KillTray, TrayGone
  <2>2. TrayTypes' /\ MenuFollowsEvents'
    BY <2>1 DEF RestInv, TrayTypes, MenuFollowsEvents, Menu, lifecycleVars
  <2>3. TrayInv' /\ EndInv'
    BY <2>1 DEF RestInv, TrayInv, EndInv, lifecycleVars
  <2> QED BY <2>1, <2>2, <2>3, ServerRests DEF RestInv
<1> QED BY <1>1, <1>2, <1>3

\* Every step keeps the invariant.
LEMMA AppStep ==
  ASSUME AppInv, [Next]_vars
  PROVE  AppInv'
<1>1. CallsOK /\ RestInv /\ CallsOK'
  BY Parts, CallsTracked
<1>2. RestInv'
  <2>1. CASE UNCHANGED vars
    BY <1>1, <2>1 DEF RestInv, ServerTypes, StopInv, TrayTypes, MenuFollowsEvents, Menu, TrayInv, EndInv,
                      vars, lifecycleVars, trayVars
  <2> QED BY <1>1, <2>1, ServerStep, TrayStep, ShellStep, ItemStep, EndStep DEF Next
<1> QED BY <1>1, <1>2, Parts

\* The program before anything has happened.
LEMMA AppStarts == Init => AppInv
<1> SUFFICES ASSUME Init PROVE AppInv
  OBVIOUS
<1>1. \A K, V : IsMap(EmptyMap, K, V)
  BY EmptyMapIsMap
<1>2. CallsOK
  <2>1. calls = EmptyMap /\ active = 0 /\ DOMAIN calls = {} /\ Running = {}
    BY DEF Init, LifecycleInit, EmptyMap, Running
  <2> QED BY <1>1, <2>1, FS_EmptySet DEF CallsOK
<1>3. ServerTypes /\ StopInv
  BY DEF Init, LifecycleInit, ServerTypes, StopInv, Status
<1>4. TrayTypes
  <2>1. attached \in BOOLEAN
    BY DEF Init
  <2>2. menu \in [state : Status, pending : 0..MaxPending] /\ pending \in 0..MaxPending
    BY AppAssumption DEF Init, Menu, Status
  <2>3. IsMap(batches, Device, [kinds : SUBSET {"message", "file"}, timer : BOOLEAN])
    BY <1>1 DEF Init
  <2> QED BY <2>1, <2>2, <2>3 DEF Init, TrayTypes, Target
<1>5. MenuFollowsEvents /\ TrayInv /\ EndInv
  BY DEF Init, LifecycleInit, MenuFollowsEvents, TrayInv, EndInv
<1> QED BY <1>2, <1>3, <1>4, <1>5, Parts DEF RestInv

\* It follows that what is left at the end is nothing.
LEMMA AppInvSuffices ==
  ASSUME AppInv
  PROVE  AppIsConsistent
<1>1. EndIsClean
  <2> SUFFICES ASSUME ending = "exited" \/ (step = "failed" /\ stopStep = "done")
               PROVE  /\ status = "stopped"
                      /\ listeners = {} /\ streams = {} /\ calls = EmptyMap
                      /\ batches = EmptyMap /\ tray # "running"
    BY DEF EndIsClean
  <2> QED BY DEF AppInv, StopInv, TrayInv, EndInv
<1> QED BY <1>1 DEF AppInv, AppIsConsistent

\* The program's invariant: the menu follows the events, whatever requests begin, end and
\* run out, and whenever it ends, with or without a tray, nothing is left open.
THEOREM AppIsAlwaysConsistent == Spec => []AppIsConsistent
<1>1. Spec => []AppInv
  BY AppStarts, AppStep, PTL DEF Spec
<1> QED BY <1>1, AppInvSuffices, PTL

\* Stopping cuts no request before its grace is over.
THEOREM NothingIsCutWithinGrace == Spec => NoCutWithinGrace
<1>1. Spec => []AppInv
  BY AppStarts, AppStep, PTL DEF Spec
<1>2. AppInv /\ [Next]_vars =>
        [\A c \in Running : c \in DOMAIN calls' \/ CallFinishes(c) \/ CallCloses(c) \/ GraceEnds]_vars
  BY Parts, CallsTracked
<1> QED BY <1>1, <1>2, PTL DEF Spec, NoCutWithinGrace

---------------------------------------------------------------------------------
(* The program: what happens in the end.  Fairness is of steps that stay         *)
(* possible; that they are, TimersCanFire, is a hypothesis here.                 *)

\* Shutdown is at the stage of the server it waits for, or waits for a tray that runs.
Ending == /\ ending = "app" => stopStep \in {"waiting", "closing"}
          /\ ending = "tray" => tray = "running"

\* The phones that are owed a balloon have a batch, and every batch has its timer.
Owed == unseen \subseteq DOMAIN batches /\ \A p \in DOMAIN batches : batches[p].timer

EndsInv == AppInv /\ Ending /\ Owed

\* What the server does meanwhile only takes a stop further.
LEMMA StopGoesOn ==
  ASSUME AppInv, Server, stopStep \in {"waiting", "closing"}
  PROVE  stopStep' \in {"waiting", "closing"} /\ (stopStep = "closing" => stopStep' = "closing")
<1>1. StopInv
  BY ServerParts
<1>2. ~Check /\ ~BindAll /\ ~Started
  BY <1>1 DEF StopInv, Check, BindAll, Bind, Started
<1>3. CASE GraceEnds
  BY <1>3 DEF GraceEnds, CloseAll
<1>4. ASSUME NEW c \in Call, CallBegins(c)
      PROVE  stopStep' = stopStep
  BY <1>4 DEF CallBegins
<1>5. ASSUME NEW c \in Call, CallFinishes(c) \/ CallCloses(c)
      PROVE  stopStep' = stopStep \/ (stopStep = "waiting" /\ stopStep' = "closing")
  BY <1>5 DEF CallFinishes, CallCloses, Settle, CloseAll
<1>6. ASSUME NEW s \in {"phone", "page"}, StreamOpens(s) \/ StreamCloses(s)
      PROVE  stopStep' = stopStep
  BY <1>6 DEF StreamOpens, StreamCloses
<1> QED BY <1>2, <1>3, <1>4, <1>5, <1>6 DEF Server

\* The steps that are neither the server's nor the end's leave both as they are.
LEMMA OthersDoNotEnd ==
  ASSUME \/ StartTray
         \/ \E about \in Target : ClickBalloon(about) \/ BalloonHides(about)
         \/ PairingPending \/ PairingResolved \/ PairingExpires \/ OtherChange
         \/ \E p \in Device : Flush(p) \/ \E kind \in {"message", "file"} : ItemArrives(p, kind)
  PROVE  UNCHANGED <<stopStep, ending>> /\ (tray # "unset" => tray' = tray)
BY DEF StartTray, ClickBalloon, BalloonHides, PairingPending, PairingResolved, PairingExpires, OtherChange,
       Flush, ItemArrives, InCall, lifecycleVars

\* Every step keeps the stages of shutdown.
LEMMA EndingKeeps ==
  ASSUME AppInv, Ending, [Next]_vars
  PROVE  Ending'
<1>0. EndInv
  BY DEF AppInv
<1>1. CASE UNCHANGED vars
  BY <1>1 DEF Ending, vars, lifecycleVars, trayVars
<1>2. CASE Server /\ UNCHANGED trayVars
  BY <1>2, StopGoesOn DEF Ending, trayVars
<1>3. CASE Shutdown
  BY <1>3 DEF Ending, Shutdown, Stop, CloseAll
<1>4. CASE ServerStopped
  BY <1>4 DEF Ending, ServerStopped, AfterStop, StopCompletes
<1>5. CASE TrayExits \/ KillTray
  BY <1>5 DEF Ending, TrayExits, KillTray, TrayGone, lifecycleVars
<1>6. CASE \/ StartTray
           \/ \E about \in Target : ClickBalloon(about) \/ BalloonHides(about)
           \/ PairingPending \/ PairingResolved \/ PairingExpires \/ OtherChange
           \/ \E p \in Device : Flush(p) \/ \E kind \in {"message", "file"} : ItemArrives(p, kind)
  BY <1>0, <1>6, OthersDoNotEnd DEF Ending, EndInv
<1> QED BY <1>1, <1>2, <1>3, <1>4, <1>5, <1>6 DEF Next

\* A batch begins with its timer, and goes with it.
LEMMA OwedKeeps ==
  ASSUME AppInv, Owed, [Next]_vars
  PROVE  Owed'
<1>1. CASE UNCHANGED <<batches, unseen>>
  BY <1>1 DEF Owed
<1>2. ASSUME NEW p \in Device, Flush(p)
      PROVE  Owed'
  <2>1. batches' = Without(batches, {p}) /\ unseen' = unseen \ {p}
    BY <1>2 DEF Flush, Flushed
  <2> QED BY <2>1 DEF Owed, Without, Restrict
<1>3. ASSUME NEW p \in Device, NEW kind \in {"message", "file"}, ItemArrives(p, kind)
      PROVE  Owed'
  <2>1. \A q \in DOMAIN batches : batches[q] \in [kinds : SUBSET {"message", "file"}, timer : BOOLEAN]
    BY DEF AppInv, TypeOK, IsMap
  <2>2. CASE UNCHANGED <<batches, unseen>>
    BY <2>2 DEF Owed
  <2> DEFINE more == [batches EXCEPT ![p].kinds = @ \cup {kind}]
             new == With(batches, p, [kinds |-> {kind}, timer |-> TRUE])
  <2>3. p \in DOMAIN batches => /\ DOMAIN more = DOMAIN batches
                               /\ \A q \in DOMAIN batches : more[q].timer = batches[q].timer
    BY <2>1
  <2>4. DOMAIN new = DOMAIN batches \cup {p} /\ \A q \in DOMAIN batches \cup {p} : batches[q].timer \/ q = p => new[q].timer
    BY DEF With
  <2>5. \/ UNCHANGED <<batches, unseen>>
        \/ /\ batches' = IF p \in DOMAIN batches THEN more ELSE new
           /\ unseen' = unseen \cup {p}
    BY <1>3 DEF ItemArrives
  <2> HIDE DEF more, new
  <2>6. CASE batches' = more /\ p \in DOMAIN batches /\ unseen' = unseen \cup {p}
    BY <2>3, <2>6 DEF Owed
  <2>7. CASE batches' = new /\ unseen' = unseen \cup {p}
    BY <2>4, <2>7 DEF Owed
  <2> QED BY <2>2, <2>5, <2>6, <2>7
<1>4. CASE Shutdown
  BY <1>4, EmptyMapIsMap DEF Shutdown, Owed, EmptyMap
<1>5. CASE UNCHANGED vars \/ (Server /\ UNCHANGED trayVars)
  BY <1>1, <1>5 DEF vars, trayVars
<1>6. CASE StartTray \/ \E about \in Target : ClickBalloon(about) \/ BalloonHides(about)
  BY <1>1, <1>6 DEF StartTray, ClickBalloon, BalloonHides
<1>7. CASE PairingPending \/ PairingResolved \/ PairingExpires \/ OtherChange
  BY <1>1, <1>7 DEF PairingPending, PairingResolved, PairingExpires, OtherChange
<1>8. CASE ServerStopped \/ TrayExits \/ KillTray
  BY <1>1, <1>8 DEF ServerStopped, TrayExits, KillTray, TrayGone
<1> QED BY <1>2, <1>3, <1>4, <1>5, <1>6, <1>7, <1>8 DEF Next

\* The invariant with both.
LEMMA EndsInvariant == Spec => []EndsInv
<1>1. Init => EndsInv
  <2>1. Init => Ending /\ Owed
    BY DEF Init, Ending, Owed, EmptyMap
  <2> QED BY <2>1, AppStarts DEF EndsInv
<1>2. EndsInv /\ [Next]_vars => EndsInv'
  BY AppStep, EndingKeeps, OwedKeeps DEF EndsInv
<1> QED BY <1>1, <1>2, PTL DEF Spec

\* The stages of shutdown come in their order, whatever else happens.
LEMMA StagesInOrder ==
  ASSUME AppInv, Ending, [Next]_vars
  PROVE  /\ ending = "app" /\ stopStep = "waiting" => ending' = "app" /\ stopStep' \in {"waiting", "closing"}
         /\ ending = "app" /\ stopStep = "closing" =>
               \/ ending' = "app" /\ stopStep' = "closing"
               \/ ending' = "tray" /\ tray' = "running"
               \/ ending' = "exited"
         /\ ending = "tray" /\ tray = "running" => (ending' = "tray" /\ tray' = "running") \/ ending' = "exited"
<1>0. EndInv
  BY DEF AppInv
<1>1. CASE UNCHANGED vars
  BY <1>1 DEF vars, lifecycleVars, trayVars
<1>2. CASE Server /\ UNCHANGED trayVars
  BY <1>2, StopGoesOn DEF trayVars
<1>3. CASE Shutdown
  BY <1>3 DEF Shutdown
<1>4. CASE ServerStopped
  BY <1>4 DEF ServerStopped, AfterStop, StopCompletes
<1>5. CASE TrayExits \/ KillTray
  BY <1>5 DEF TrayExits, KillTray, TrayGone, lifecycleVars
<1>6. CASE \/ StartTray
           \/ \E about \in Target : ClickBalloon(about) \/ BalloonHides(about)
           \/ PairingPending \/ PairingResolved \/ PairingExpires \/ OtherChange
           \/ \E p \in Device : Flush(p) \/ \E kind \in {"message", "file"} : ItemArrives(p, kind)
  BY <1>0, <1>6, OthersDoNotEnd DEF EndInv
<1> QED BY <1>1, <1>2, <1>3, <1>4, <1>5, <1>6 DEF Next

\* Once it was asked to stop, the program ends, if the timers and the server that closes can
\* do their steps when these are due: the grace, the closing and the tray's time limit
\* are awaited in this order, and each is over.
THEOREM ShutdownAlwaysEnds == []TimersCanFire => (FairSpec => ShutdownEnds)
<1> DEFINE Waiting == ending = "app" /\ stopStep = "waiting"
           Closing == ending = "app" /\ stopStep = "closing"
           Quitting == ending = "tray" /\ tray = "running"
           Over == ending = "exited"
<1>1. EndsInv => (ending # "no" => Waiting \/ Closing \/ Quitting \/ Over)
  BY DEF EndsInv, Ending, AppInv, TypeOK
<1>2. EndsInv /\ Waiting /\ [Next]_vars => Waiting' \/ Closing'
  BY StagesInOrder DEF EndsInv
<1>3. EndsInv /\ Waiting /\ <<GraceEnds /\ UNCHANGED trayVars>>_vars => Closing'
  BY DEF GraceEnds, CloseAll, trayVars
<1>4. EndsInv /\ Closing /\ [Next]_vars => Closing' \/ (Quitting \/ Over)'
  BY StagesInOrder DEF EndsInv
<1>5. EndsInv /\ Closing /\ <<ServerStopped>>_vars => (Quitting \/ Over)'
  BY DEF ServerStopped, AfterStop
<1>6. EndsInv /\ Quitting /\ [Next]_vars => Quitting' \/ Over'
  BY StagesInOrder DEF EndsInv
<1>7. EndsInv /\ Quitting /\ <<KillTray>>_vars => Over'
  BY DEF KillTray, MustKill, TrayGone
<1>8. /\ TimersCanFire /\ Waiting => ENABLED <<GraceEnds /\ UNCHANGED trayVars>>_vars
      /\ TimersCanFire /\ Closing => ENABLED <<ServerStopped>>_vars
      /\ TimersCanFire /\ Quitting => ENABLED <<KillTray>>_vars
  BY DEF TimersCanFire
<1> HIDE DEF Waiting, Closing, Quitting, Over
<1>9. Spec /\ []TimersCanFire /\ WF_vars(GraceEnds /\ UNCHANGED trayVars) => (Waiting ~> Closing)
  BY <1>2, <1>3, <1>8, EndsInvariant, PTL DEF Spec
<1>10. Spec /\ []TimersCanFire /\ WF_vars(ServerStopped) => (Closing ~> (Quitting \/ Over))
  BY <1>4, <1>5, <1>8, EndsInvariant, PTL DEF Spec
<1>11. Spec /\ []TimersCanFire /\ WF_vars(KillTray) => (Quitting ~> Over)
  BY <1>6, <1>7, <1>8, EndsInvariant, PTL DEF Spec
<1>12. Spec => [](ending # "no" => Waiting \/ Closing \/ Quitting \/ Over)
  BY <1>1, EndsInvariant, PTL
<1>13. []TimersCanFire /\ FairSpec => (ending # "no" ~> Over)
  BY <1>9, <1>10, <1>11, <1>12, PTL DEF FairSpec
<1> QED BY <1>13, PTL DEF ShutdownEnds, Over

\* What a phone sent while no admin page is open is told by a balloon, or a page is opened
\* in time, if the timer of its batch can fire when it is due.
THEOREM ArrivalsAreAlwaysAnnounced == []TimersCanFire => (FairSpec => ArrivalsAreAnnounced)
<1> SUFFICES ASSUME NEW p \in Device
             PROVE  []TimersCanFire /\ FairSpec => (p \in unseen ~> p \notin unseen)
  BY DEF ArrivalsAreAnnounced
<1> DEFINE Unseen == p \in unseen
           Announced == p \notin unseen
<1>1. Unseen /\ <<Flush(p)>>_vars => Announced'
  BY DEF Flush
<1>2. EndsInv /\ TimersCanFire /\ Unseen => ENABLED <<Flush(p)>>_vars
  BY DEF EndsInv, Owed, TimersCanFire
<1>3. FlushesAreFair => FlushIsFair(p)
  BY DEF FlushesAreFair
<1>4. Unseen \/ Announced
  OBVIOUS
<1> HIDE DEF Unseen, Announced
<1>5. Spec /\ []TimersCanFire /\ FlushIsFair(p) => (Unseen ~> Announced)
  BY <1>1, <1>2, <1>4, EndsInvariant, PTL DEF FlushIsFair, Spec
<1>6. []TimersCanFire /\ FairSpec => (Unseen ~> Announced)
  BY <1>3, <1>5, PTL DEF FairSpec
<1> QED BY <1>6, PTL DEF Unseen, Announced

---------------------------------------------------------------------------------
(* The admin page: the parts of its inductive invariant.                         *)

\* A fetch has a state once it is answered, until it fails.
FetchSet == {f \in [status : {"asked", "answered", "failed"}, state : State \cup {None},
                    forSend : BOOLEAN, late : BOOLEAN] :
                f.state \in IF f.status = "answered" THEN State ELSE {None}}

\* What the user asked the laptop for.
Request == [act : {"text", "upload", "approve", "deny", "revoke", "delete", "clear"}, arg : Nat,
            device : Phone \cup {None}, mine : BOOLEAN,
            status : {"asked", "taken", "refused", "failed"}]

\* A view is a record of these fields.
IsView(view) ==
    /\ view = [view |-> view.view, selected |-> view.selected, options |-> view.options, key |-> view.key,
               rows |-> view.rows, draft |-> view.draft, sending |-> view.sending]
    /\ view.view \in ViewName /\ view.selected \in Phone \cup {None}
    /\ view.draft \in Nat /\ view.sending \in BOOLEAN

\* The types of the laptop and of the page.
PageTypes ==
    /\ laptop \in State /\ state \in State \cup {None} /\ Saved \in State
    /\ fetches \in Seq(FetchSet) /\ posts \in Seq(Request)
    /\ IsView(shown)
    /\ clock \in Nat \ {0} /\ {added, heard, unread, typed} \subseteq Nat
    /\ lastSeen \in Nat \cup {None} /\ live \in {"opening", "open", "cut", "browser", "timer"}
    /\ up \in BOOLEAN

\* The states that the page shows or will show are states that the laptop was in, as is what
\* it starts with again: entries of one id are one entry, and ids are drawn once.
Known == {laptop, Saved} \cup (({state} \cup {f.state : f \in ToSet(fetches)}) \ {None})

KnownInv ==
    /\ \A s \in Known :
          /\ IsInjective(s.items) /\ IsInjective(s.pending)
          /\ \A it \in ToSet(s.items) : it.id <= added /\ it.time > 0
          /\ \A r \in ToSet(s.pending) : r.id <= laptop.rev /\ Card(r, s.devices) \in cards
    /\ \A s, t \in Known :
          /\ \A a \in ToSet(s.items), b \in ToSet(t.items) : a.id = b.id => a = b
          /\ \A a \in ToSet(s.pending), b \in ToSet(t.pending) : a.id = b.id => a = b

\* The compose box is busy with one thing at a time.
IsMine(post) == post.act = "text" /\ post.mine

BusyInv ==
    /\ shown.sending <=> \/ \E i \in DOMAIN posts : IsMine(posts[i])
                         \/ \E i \in DOMAIN fetches : fetches[i].forSend
    /\ \A i, j \in DOMAIN posts : IsMine(posts[i]) /\ IsMine(posts[j]) => i = j
    /\ \A i, j \in DOMAIN fetches : fetches[i].forSend /\ fetches[j].forSend => i = j
    /\ \A i \in DOMAIN posts, j \in DOMAIN fetches : ~(IsMine(posts[i]) /\ fetches[j].forSend)

\* No message is under way twice, or again after it was stored, unless that answer was lost.
Repeatable(text) == text \in ToSet(stored) => text \in lost

SendInv ==
    /\ stored \in Seq(1..typed) /\ shown.draft <= typed
    /\ SentOnce
    /\ \A i \in DOMAIN posts : posts[i].act = "text" =>
          /\ posts[i].arg \in 1..typed
          /\ posts[i].status # "taken" => Repeatable(posts[i].arg)
          /\ posts[i].arg = shown.draft => posts[i].mine
    /\ \A i, j \in DOMAIN posts :
          posts[i].act = "text" /\ posts[j].act = "text" /\ posts[i].arg = posts[j].arg => i = j
    /\ (\A i \in DOMAIN posts : posts[i].act = "text" => posts[i].arg # shown.draft)
          => Repeatable(shown.draft)

\* What was told of is shown, or will be: a signal waits, or the fetch that was asked last
\* can tell it.
Tells(fetch) == \/ fetch.status = "asked"
                \/ fetch.status = "answered" /\ fetch.state.rev >= announced

CatchInv ==
    /\ announced \in Nat /\ announced <= laptop.rev
    /\ live = "open" /\ heard = 0 =>
          \/ fetches # <<>> /\ Tells(fetches[Len(fetches)])
          \/ /\ \A i \in DOMAIN fetches : fetches[i].late
             /\ fetches = <<>> /\ ~overtaken => state # None /\ state.rev >= announced /\ ~banner
    /\ live = "open" => up

\* What has been read is known by the time of the newest of it.
ReadInv ==
    /\ state = None => lastSeen = None /\ read = {}
    /\ state # None =>
          /\ lastSeen \in Nat
          /\ \A r \in read : r.time \in Nat /\ r.time <= lastSeen
          /\ lastSeen = 0 \/ \E r \in read : r.time = lastSeen
          /\ unread = unreadCount(state.items, lastSeen)

\* A card of a request.
CardSet == [request : RequestSet, repairOf : Name \cup {OldName, None}]

\* What a view shows of a state, with what it chose.
Shows(view, s) ==
    LET target == chatTarget(s.devices, view.selected)
        flat == groupMessages(s.items, target)
        files == Only(s.items, {it \in ToSet(s.items) : it.kind = "file"})
    IN  CASE view.view = "messages" ->
                /\ view.selected = target.id /\ view.options = s.devices
                /\ view.key = [phone |-> target.id, name |-> target.name, ids |-> Ids(flat)]
                /\ view.rows = flat
          [] view.view = "dashboard" ->
                /\ view.selected = target.id /\ view.options = s.devices
                /\ view.key = itemKey(files, s.devices)
                /\ view.rows = [i \in DOMAIN files |-> itemChip(Reverse(files)[i], s.devices)]
          [] view.view = "approvals" ->
                /\ view.options = None /\ view.key = None
                /\ view.rows \in Seq(CardSet) /\ {c.request : c \in ToSet(view.rows)} = ToSet(s.pending)
          [] view.view = "devices" ->
                /\ view.options = None /\ view.key = s.devices /\ view.rows = s.devices

\* A view that was just opened shows nothing.
Blank(view) == view.options = None /\ view.key = None /\ view.rows = <<>>

\* The view shows the state, once there is one; cards were right at some time.
ShowInv == /\ IF state = None THEN Blank(shown) ELSE Shows(shown, state)
           /\ shown.view = "approvals" => ToSet(shown.rows) \subseteq cards

\* The inductive invariant of the page.
PageInv == PageTypes /\ KnownInv /\ BusyInv /\ SendInv /\ CatchInv /\ ReadInv /\ ShowInv

---------------------------------------------------------------------------------
(* The views.                                                                    *)

\* The phones of a conversation: the chosen one, the first, or none.
Chat == [id : Phone \cup {None}, name : Name \cup {OldName, None}]

\* chatTarget keeps a choice that is there, and repeats itself.
LEMMA ChatTargetProperties ==
  ASSUME NEW devices \in Seq(DeviceSet), NEW selected \in Phone \cup {None}
  PROVE  /\ chatTarget(devices, selected) \in Chat
         /\ selected \in ToSet(Ids(devices)) => chatTarget(devices, selected).id = selected
         /\ chatTarget(devices, chatTarget(devices, selected).id) = chatTarget(devices, selected)
<1> DEFINE match(id) == {d \in ToSet(devices) : d.id = id}
           own(id) == Only(devices, match(id))
<1>1. /\ Len(devices) \in Nat /\ DOMAIN devices = 1..Len(devices)
      /\ \A i \in 1..Len(devices) : devices[i] \in DeviceSet /\ devices[i] \in ToSet(devices)
  BY LenProperties, ElementOfSeq DEF ToSet
<1>2. ASSUME NEW id
      PROVE  /\ own(id) \in Seq(DeviceSet)
             /\ ToSet(own(id)) = ToSet(devices) \cap match(id)
             /\ devices # <<>> /\ devices[1] \in match(id) => own(id) # <<>> /\ own(id)[1] = devices[1]
  <2>1. PICK kept : kept = match(id)
    OBVIOUS
  <2>2. /\ Only(devices, kept) \in Seq(DeviceSet)
        /\ ToSet(Only(devices, kept)) = ToSet(devices) \cap kept
        /\ devices # <<>> /\ devices[1] \in kept =>
              Only(devices, kept) # <<>> /\ Only(devices, kept)[1] = devices[1]
    BY OnlyProperties
  <2> HIDE DEF match
  <2> QED BY <2>1, <2>2
<1>3. \A id : chatTarget(devices, id) = IF own(id) \o devices = <<>> THEN [id |-> None, name |-> None]
                                        ELSE Head(own(id) \o devices)
  BY DEF chatTarget
<1> HIDE DEF own
<1>4. ASSUME NEW id
      PROVE  chatTarget(devices, id) = IF own(id) # <<>> THEN own(id)[1]
                                       ELSE IF devices # <<>> THEN devices[1]
                                       ELSE [id |-> None, name |-> None]
  <2>1. own(id) \o devices \in Seq(DeviceSet) /\ Len(own(id) \o devices) = Len(own(id)) + Len(devices)
    BY <1>2, ConcatProperties
  <2>2. CASE own(id) # <<>>
    <3>1. Len(own(id)) \in Nat \ {0}
      BY <1>2, <2>2, EmptySeq
    <3>2. (own(id) \o devices)[1] = own(id)[1] /\ own(id) \o devices # <<>>
      BY <1>1, <1>2, <2>1, <3>1, ConcatProperties, EmptySeq
    <3>3. Head(own(id) \o devices) = (own(id) \o devices)[1]
      BY <2>1, <3>2, HeadTailProperties
    <3> QED BY <1>3, <2>2, <3>2, <3>3
  <2>3. CASE own(id) = <<>>
    <3>1. own(id) \o devices = devices
      BY <2>3, ConcatEmptySeq
    <3>2. devices # <<>> => Head(devices) = devices[1]
      BY HeadTailProperties
    <3> QED BY <1>3, <2>3, <3>1, <3>2
  <2> QED BY <2>2, <2>3
<1>5. ASSUME NEW id, own(id) # <<>> PROVE own(id)[1] \in ToSet(devices) /\ own(id)[1].id = id
  <2>1. Len(own(id)) \in Nat \ {0} /\ DOMAIN own(id) = 1..Len(own(id))
    BY <1>2, <1>5, EmptySeq, LenProperties
  <2>2. own(id)[1] \in ToSet(own(id))
    BY <2>1 DEF ToSet
  <2> QED BY <1>2, <2>2
<1>6. ASSUME NEW id, NEW d \in ToSet(devices), d.id = id PROVE own(id) # <<>>
  <2>1. d \in ToSet(own(id))
    BY <1>2, <1>6
  <2> QED BY <2>1 DEF ToSet
<1>7. devices # <<>> => Len(devices) # 0 /\ devices[1] \in ToSet(devices) /\ devices[1] \in DeviceSet
  BY <1>1, EmptySeq
<1>8. ToSet(devices) \subseteq DeviceSet
  BY <1>1 DEF ToSet
<1> DEFINE target == chatTarget(devices, selected)
<1>9. target \in Chat
  <2>1. DeviceSet \subseteq Chat /\ [id |-> None, name |-> None] \in Chat
    BY DEF DeviceSet, Chat
  <2> QED BY <1>4, <1>5, <1>7, <1>8, <2>1
<1>10. ASSUME selected \in ToSet(Ids(devices)) PROVE target.id = selected
  <2>1. PICK i \in 1..Len(devices) : devices[i].id = selected
    BY <1>1, <1>10 DEF Ids, ToSet
  <2>2. own(selected) # <<>>
    BY <1>1, <1>6, <2>1
  <2> QED BY <1>4, <1>5, <2>2
<1>11. chatTarget(devices, target.id) = target
  <2>1. CASE own(selected) # <<>>
    BY <1>4, <1>5, <2>1
  <2>2. CASE own(selected) = <<>> /\ devices # <<>>
    <3>1. target = devices[1]
      BY <1>4, <2>2
    <3>2. devices[1] \in match(target.id)
      BY <1>7, <2>2, <3>1
    <3> HIDE DEF match
    <3> QED BY <1>2, <1>4, <2>2, <3>1, <3>2
  <2>3. CASE own(selected) = <<>> /\ devices = <<>>
    <3>1. \A id : own(id) = <<>>
      <4> TAKE id
      <4>1. ToSet(devices) = {}
        BY <2>3 DEF ToSet
      <4> QED BY <1>5, <4>1
    <3> QED BY <1>4, <2>3, <3>1
  <2> QED BY <2>1, <2>2, <2>3
<1> QED BY <1>9, <1>10, <1>11

\* The bubbles of some texts, which are those of a conversation with a phone of a name.
Bubbles(texts, name) ==
    [i \in DOMAIN texts |->
        [id |-> texts[i].id,
         name |-> IF texts[i].from = "phone" /\ (i = 1 \/ texts[i - 1].from # texts[i].from)
                  THEN name ELSE None]]

\* groupMessages draws texts of the history.
LEMMA GroupProperties ==
  ASSUME NEW items \in Seq(ItemSet), NEW target
  PROVE  \E texts \in Seq(ItemSet) : /\ ToSet(texts) \subseteq ToSet(items)
                                     /\ groupMessages(items, target) = Bubbles(texts, target.name)
<1> DEFINE kept == {it \in ToSet(items) : it.kind = "text" /\ it.device = target.id}
           texts == Only(items, kept)
<1>1. texts \in Seq(ItemSet) /\ ToSet(texts) \subseteq ToSet(items)
  <2> HIDE DEF kept
  <2> QED BY OnlyProperties
<1>2. groupMessages(items, target) = Bubbles(texts, target.name)
  BY DEF groupMessages, Bubbles
<1> QED BY <1>1, <1>2

\* Bubbles and their ids, as lists.
LEMMA BubblesAreLists ==
  ASSUME NEW texts \in Seq(ItemSet), NEW name
  PROVE  /\ Bubbles(texts, name) \in Seq([id : Nat, name : {name, None}])
         /\ Ids(Bubbles(texts, name)) \in Seq(Nat)
         /\ DOMAIN Bubbles(texts, name) = 1..Len(texts) /\ Len(Bubbles(texts, name)) = Len(texts)
         /\ DOMAIN Ids(Bubbles(texts, name)) = 1..Len(texts)
         /\ \A i \in 1..Len(texts) : /\ texts[i] \in ItemSet /\ texts[i] \in ToSet(texts)
                                     /\ Ids(Bubbles(texts, name))[i] = texts[i].id
<1>1. PICK n \in Nat : n = Len(texts)
  BY LenProperties
<1>2. DOMAIN texts = 1..n /\ \A i \in 1..n : texts[i] \in ItemSet
  BY <1>1, LenProperties, ElementOfSeq
<1>3. \A i \in 1..n : texts[i].id \in Nat
  BY <1>2 DEF ItemSet
<1>4. Bubbles(texts, name) \in [1..n -> [id : Nat, name : {name, None}]]
  BY <1>2, <1>3 DEF Bubbles
<1>5. Ids(Bubbles(texts, name)) = [i \in 1..n |-> texts[i].id]
  BY <1>2 DEF Bubbles, Ids
<1>6. Ids(Bubbles(texts, name)) \in [1..n -> Nat]
  BY <1>3, <1>5
<1>7. /\ Bubbles(texts, name) \in Seq([id : Nat, name : {name, None}])
      /\ Ids(Bubbles(texts, name)) \in Seq(Nat)
  BY <1>4, <1>6, FunctionIsList
<1>8. DOMAIN Bubbles(texts, name) = 1..n /\ DOMAIN Ids(Bubbles(texts, name)) = 1..n
  BY <1>4, <1>6
<1>9. Len(Bubbles(texts, name)) = n
  BY <1>7, <1>8, LenProperties
<1>10. \A i \in 1..n : texts[i] \in ToSet(texts)
  BY <1>2 DEF ToSet
<1> QED BY <1>1, <1>2, <1>5, <1>7, <1>8, <1>9, <1>10

\* The ids of bubbles tell what the bubbles are, of histories that agree: what is appended
\* where the ids go on is what is missing.
LEMMA IdsTellBubbles ==
  ASSUME NEW old \in Seq(ItemSet), NEW new \in Seq(ItemSet), NEW name,
         \A a \in ToSet(old), b \in ToSet(new) : a.id = b.id => a = b
  PROVE  /\ Ids(Bubbles(old, name)) = Ids(Bubbles(new, name)) => Bubbles(old, name) = Bubbles(new, name)
         /\ IsPrefix(Ids(Bubbles(old, name)), Ids(Bubbles(new, name))) =>
               Bubbles(old, name) \o SubSeq(Bubbles(new, name), Len(Ids(Bubbles(old, name))) + 1,
                                            Len(Bubbles(new, name)))
                  = Bubbles(new, name)
<1> DEFINE B == Bubbles(old, name)
           C == Bubbles(new, name)
           S == [id : Nat, name : {name, None}]
<1>1. PICK n \in Nat, m \in Nat : n = Len(old) /\ m = Len(new)
  BY LenProperties
<1>2. /\ B \in Seq(S) /\ Ids(B) \in Seq(Nat) /\ DOMAIN B = 1..n /\ Len(B) = n /\ DOMAIN Ids(B) = 1..n
      /\ \A i \in 1..n : old[i] \in ItemSet /\ old[i] \in ToSet(old) /\ Ids(B)[i] = old[i].id
  BY <1>1, BubblesAreLists
<1>3. /\ C \in Seq(S) /\ Ids(C) \in Seq(Nat) /\ DOMAIN C = 1..m /\ Len(C) = m /\ DOMAIN Ids(C) = 1..m
      /\ \A i \in 1..m : new[i] \in ItemSet /\ new[i] \in ToSet(new) /\ Ids(C)[i] = new[i].id
  BY <1>1, BubblesAreLists
<1>4. Len(Ids(B)) = n /\ Len(Ids(C)) = m
  BY <1>2, <1>3, LenProperties
<1>5. ASSUME n <= m, \A i \in 1..n : Ids(B)[i] = Ids(C)[i]
      PROVE  \A i \in 1..n : B[i] = C[i]
  <2>1. ASSUME NEW i \in 1..n PROVE old[i] = new[i]
    <3>1. i \in 1..m
      BY <1>5
    <3>2. old[i] \in ToSet(old) /\ new[i] \in ToSet(new)
      BY <1>2, <1>3, <3>1
    <3>3. Ids(B)[i] = old[i].id /\ Ids(C)[i] = new[i].id /\ Ids(B)[i] = Ids(C)[i]
      BY <1>2, <1>3, <1>5, <3>1
    <3> QED BY <3>2, <3>3
  <2>2. /\ \A i \in 1..n : i = 1 \/ i - 1 \in 1..n
        /\ 1..n \subseteq 1..m
    BY <1>5
  <2>3. DOMAIN old = 1..n /\ DOMAIN new = 1..m
    BY <1>1, LenProperties
  <2> QED BY <2>1, <2>2, <2>3 DEF Bubbles
<1>6. ASSUME Ids(B) = Ids(C) PROVE B = C
  <2>1. n = m
    BY <1>4, <1>6
  <2>2. \A i \in 1..n : B[i] = C[i]
    BY <1>5, <1>6, <2>1
  <2> HIDE DEF B, C
  <2> QED BY <1>2, <1>3, <2>1, <2>2, SeqEqual
<1>7. ASSUME IsPrefix(Ids(B), Ids(C)) PROVE B \o SubSeq(C, Len(Ids(B)) + 1, Len(C)) = C
  <2>1. n <= m /\ SubSeq(Ids(B), 1, n) = SubSeq(Ids(C), 1, n)
    BY <1>4, <1>7 DEF IsPrefix
  <2> HIDE DEF B, C, S
  <2>2. /\ \A i \in 1..n : Ids(B)[i] \in Nat /\ Ids(C)[i] \in Nat
        /\ n - 1 + 1 = n
    BY <1>2, <1>3, <2>1, ElementOfSeq
  <2>3. ASSUME NEW i \in 1..n PROVE Ids(B)[i] = Ids(C)[i]
    <3>1. i \in 1..(n - 1 + 1) /\ 1 + i - 1 = i /\ 1 \in Int /\ n \in Int
      OBVIOUS
    <3>2. SubSeq(Ids(B), 1, n)[i] = Ids(B)[i]
      BY <2>2, <3>1, SubSeqProperties
    <3>3. SubSeq(Ids(C), 1, n)[i] = Ids(C)[i]
      BY <2>2, <3>1, SubSeqProperties
    <3> QED BY <2>1, <3>2, <3>3
  <2>4. \A i \in 1..n : B[i] = C[i]
    BY <1>5, <2>1, <2>3
  <2>5. /\ SubSeq(C, 1, n) \in Seq(S) /\ Len(SubSeq(C, 1, n)) = n
        /\ \A i \in 1..n : SubSeq(C, 1, n)[i] = C[i]
    <3>1. \A i \in 1..n : C[i] \in S
      BY <1>3, <2>1, ElementOfSeq
    <3>2. 1 \in Int /\ n \in Int
      OBVIOUS
    <3>3. /\ SubSeq(C, 1, n) \in Seq(S) /\ Len(SubSeq(C, 1, n)) = IF 1 <= n THEN n - 1 + 1 ELSE 0
          /\ \A i \in 1..(n - 1 + 1) : SubSeq(C, 1, n)[i] = C[1 + i - 1]
      BY <3>1, <3>2, SubSeqProperties
    <3> QED BY <3>3
  <2>6. SubSeq(C, 1, n) = B
    BY <1>2, <2>4, <2>5, SeqEqual
  <2>7. SubSeq(C, 1, n) \o SubSeq(C, n + 1, m) = SubSeq(C, 1, m)
    <3>1. PICK c \in Seq(S) : c = C /\ Len(c) = m
      BY <1>3
    <3>2. PICK first : first = 1 /\ first \in 1..(Len(c) + 1) /\ n \in (first - 1)..Len(c) /\ m \in n..Len(c)
      BY <2>1, <3>1
    <3>3. SubSeq(c, first, n) \o SubSeq(c, n + 1, m) = SubSeq(c, first, m)
      BY <3>2, ConcatAdjacentSubSeq
    <3> QED BY <3>1, <3>2, <3>3
  <2>8. SubSeq(C, 1, m) = C
    BY <1>3, SubSeqFull
  <2> QED BY <1>3, <1>4, <2>6, <2>7, <2>8
<1> QED BY <1>6, <1>7

\* The ids of some entries of the history, as a list.
LEMMA IdsAreList ==
  ASSUME NEW list \in Seq(ItemSet)
  PROVE  /\ Ids(list) \in Seq(Nat) /\ DOMAIN Ids(list) = 1..Len(list) /\ DOMAIN list = 1..Len(list)
         /\ Len(list) \in Nat
         /\ \A i \in 1..Len(list) : list[i] \in ToSet(list) /\ Ids(list)[i] = list[i].id
<1>1. PICK n \in Nat : n = Len(list)
  BY LenProperties
<1>2. DOMAIN list = 1..n /\ \A i \in 1..n : list[i] \in ItemSet
  BY <1>1, LenProperties, ElementOfSeq
<1>3. \A i \in 1..n : list[i].id \in Nat
  BY <1>2 DEF ItemSet
<1>4. Ids(list) \in [1..n -> Nat]
  BY <1>2, <1>3 DEF Ids
<1>5. Ids(list) \in Seq(Nat)
  BY <1>4, FunctionIsList
<1> QED BY <1>1, <1>2, <1>4, <1>5 DEF Ids, ToSet

\* They tell which these are, of histories that agree.
LEMMA IdsTellEntries ==
  ASSUME NEW a \in Seq(ItemSet), NEW b \in Seq(ItemSet), Ids(a) = Ids(b),
         \A x \in ToSet(a), y \in ToSet(b) : x.id = y.id => x = y
  PROVE  a = b
<1>1. PICK n \in Nat, m \in Nat : n = Len(a) /\ m = Len(b)
  BY LenProperties
<1>2. 1..n = 1..m
  BY <1>1, IdsAreList
<1>3. n = m
  <2>1. n > 0 => n \in 1..m
    BY <1>2
  <2>2. m > 0 => m \in 1..n
    BY <1>2
  <2> QED BY <2>1, <2>2
<1>4. ASSUME NEW i \in 1..n PROVE a[i] = b[i]
  <2>1. /\ a[i] \in ToSet(a) /\ Ids(a)[i] = a[i].id
        /\ b[i] \in ToSet(b) /\ Ids(b)[i] = b[i].id
    BY <1>1, <1>3, IdsAreList
  <2> QED BY <2>1
<1> QED BY <1>1, <1>3, <1>4, SeqEqual

\* ListEntries of one id are one entry.
Agree(s, t) == /\ \A a \in ToSet(s.items), b \in ToSet(t.items) : a.id = b.id => a = b
               /\ \A a \in ToSet(s.pending), b \in ToSet(t.pending) : a.id = b.id => a = b

\* What a view has drawn of a state, whatever was chosen since.
Drew(view, s) ==
    LET files == Only(s.items, {it \in ToSet(s.items) : it.kind = "file"})
    IN  CASE view.view = "messages" ->
                \E target \in Chat :
                    LET flat == groupMessages(s.items, target)
                    IN  /\ view.key = [phone |-> target.id, name |-> target.name, ids |-> Ids(flat)]
                        /\ view.rows = flat
          [] view.view = "dashboard" ->
                /\ view.options = s.devices
                /\ view.selected = chatTarget(s.devices, view.selected).id
                /\ view.key = itemKey(files, s.devices)
                /\ view.rows = [i \in DOMAIN files |-> itemChip(Reverse(files)[i], s.devices)]
          [] view.view = "approvals" ->
                /\ view.options = None /\ view.key = None
                /\ view.rows \in Seq(CardSet) /\ {c.request : c \in ToSet(view.rows)} = ToSet(s.pending)
          [] view.view = "devices" ->
                /\ view.options = None /\ view.key = s.devices /\ view.rows = s.devices

\* What an update of a view does to the rest of it.
Keeps(view, new) == /\ IsView(new) /\ new.view = view.view
                    /\ new.draft = view.draft /\ new.sending = view.sending

\* createMessages: what was drawn is gone on with, or drawn anew.
LEMMA MessagesShow ==
  ASSUME NEW v, IsView(v), v.view = "messages", NEW s \in State,
         Blank(v) \/ \E old \in State : Agree(old, s) /\ Drew(v, old)
  PROVE  /\ Keeps(v, UpdateMessages(v, s)) /\ Shows(UpdateMessages(v, s), s)
         /\ UpdateMessages(v, s).selected = chatTarget(s.devices, v.selected).id
<1> DEFINE w == UpdateMessages(v, s)
           target == chatTarget(s.devices, v.selected)
           flat == groupMessages(s.items, target)
           key == [phone |-> target.id, name |-> target.name, ids |-> Ids(flat)]
           appendOnly == /\ v.key # None
                         /\ v.key.phone = key.phone /\ v.key.name = key.name
                         /\ v.key.ids # <<>> /\ IsPrefix(v.key.ids, key.ids)
           drawn == IF v.key = key THEN v.rows
                    ELSE IF appendOnly
                         THEN v.rows \o SubSeq(flat, Len(v.key.ids) + 1, Len(flat))
                         ELSE flat
<1>1. s.devices \in Seq(DeviceSet) /\ s.items \in Seq(ItemSet) /\ v.selected \in Phone \cup {None}
  BY DEF State, IsView
<1>2. target \in Chat /\ chatTarget(s.devices, target.id) = target
  BY <1>1, ChatTargetProperties
<1>3. PICK texts \in Seq(ItemSet) : ToSet(texts) \subseteq ToSet(s.items) /\ flat = Bubbles(texts, target.name)
  BY <1>1, GroupProperties
<1>4. key \in MessagesKey
  <2> HIDE DEF target, flat
  <2>1. Ids(flat) \in Seq(Nat)
    BY <1>3, BubblesAreLists
  <2> QED BY <1>2, <2>1 DEF Chat, MessagesKey
<1>5. w = [v EXCEPT !.selected = target.id, !.options = s.devices, !.key = key, !.rows = drawn]
  BY DEF UpdateMessages
<1> HIDE DEF target, flat
<1>6. drawn = flat
  <2>1. CASE v.key = None
    BY <1>4, <2>1, AdminViewsAssumption
  <2>2. CASE \E old \in State : Agree(old, s) /\ Drew(v, old)
    <3>1. PICK old \in State : Agree(old, s) /\ Drew(v, old)
      BY <2>2
    <3>2. PICK chat \in Chat :
             /\ v.key = [phone |-> chat.id, name |-> chat.name, ids |-> Ids(groupMessages(old.items, chat))]
             /\ v.rows = groupMessages(old.items, chat)
      BY <3>1 DEF Drew
    <3>3. old.items \in Seq(ItemSet)
      BY DEF State
    <3>4. PICK before \in Seq(ItemSet) :
             /\ ToSet(before) \subseteq ToSet(old.items)
             /\ groupMessages(old.items, chat) = Bubbles(before, chat.name)
      BY <3>3, GroupProperties
    <3>5. \A a \in ToSet(before), b \in ToSet(texts) : a.id = b.id => a = b
      BY <1>3, <3>1, <3>4 DEF Agree
    <3>6. CASE v.key = key \/ appendOnly
      <4>1. chat.name = target.name
        BY <3>2, <3>6
      <4>2. v.rows = Bubbles(before, target.name) /\ v.key.ids = Ids(Bubbles(before, target.name))
        BY <3>2, <3>4, <4>1
      <4>3. v.key = key => Ids(Bubbles(before, target.name)) = Ids(Bubbles(texts, target.name))
        BY <1>3, <4>2
      <4>4. appendOnly => IsPrefix(Ids(Bubbles(before, target.name)), Ids(Bubbles(texts, target.name)))
        BY <1>3, <4>2
      <4>5. v.key = key => v.rows = flat
        BY <1>3, <3>5, <4>2, <4>3, IdsTellBubbles
      <4> DEFINE B == Bubbles(before, target.name)
                 C == Bubbles(texts, target.name)
      <4>6. appendOnly => v.rows \o SubSeq(flat, Len(v.key.ids) + 1, Len(flat)) = flat
        <5>1. IsPrefix(Ids(B), Ids(C)) => B \o SubSeq(C, Len(Ids(B)) + 1, Len(C)) = C
          BY <3>5, IdsTellBubbles
        <5>2. flat = C /\ v.rows = B /\ v.key.ids = Ids(B) /\ (appendOnly => IsPrefix(Ids(B), Ids(C)))
          BY <1>3, <4>2, <4>4
        <5> HIDE DEF appendOnly, B, C
        <5> QED BY <5>1, <5>2
      <4> HIDE DEF appendOnly, key
      <4> QED BY <4>5, <4>6
    <3>7. CASE ~(v.key = key \/ appendOnly)
      BY <3>7
    <3> QED BY <3>6, <3>7
  <2> QED BY <2>1, <2>2 DEF Blank
<1> HIDE DEF drawn, key
<1>7. /\ w = [view |-> v.view, selected |-> target.id, options |-> s.devices, key |-> key, rows |-> flat,
              draft |-> v.draft, sending |-> v.sending]
  BY <1>5, <1>6 DEF IsView
<1> HIDE DEF w
<1>8. Keeps(v, w)
  BY <1>2, <1>7 DEF Keeps, IsView, Chat
<1>9. w.selected = target.id
  BY <1>7
<1>10. Shows(w, s)
  <2>1. chatTarget(s.devices, w.selected) = target
    BY <1>2, <1>9
  <2> QED BY <1>7, <2>1 DEF Shows, key, flat
<1> QED BY <1>8, <1>9, <1>10 DEF w, target

\* createDashboard.
LEMMA DashboardShows ==
  ASSUME NEW v, IsView(v), v.view = "dashboard", NEW s \in State,
         Blank(v) \/ \E old \in State : Agree(old, s) /\ Drew(v, old)
  PROVE  /\ Keeps(v, UpdateDashboard(v, s)) /\ Shows(UpdateDashboard(v, s), s)
         /\ UpdateDashboard(v, s).selected = chatTarget(s.devices, v.selected).id
<1> DEFINE w == UpdateDashboard(v, s)
           target == chatTarget(s.devices, v.selected)
           isFile(items) == {it \in ToSet(items) : it.kind = "file"}
           files == Only(s.items, isFile(s.items))
           key == itemKey(files, s.devices)
           chips(list) == [i \in DOMAIN list |-> itemChip(Reverse(list)[i], s.devices)]
           chosen == IF v.options = s.devices THEN v.selected ELSE target.id
           drawn == IF v.key = key THEN v.rows ELSE chips(files)
<1>1. s.devices \in Seq(DeviceSet) /\ s.items \in Seq(ItemSet) /\ v.selected \in Phone \cup {None}
  BY DEF State, IsView
<1>2. target \in Chat /\ chatTarget(s.devices, target.id) = target
  BY <1>1, ChatTargetProperties
<1>3. files \in Seq(ItemSet) /\ ToSet(files) \subseteq ToSet(s.items)
  <2> HIDE DEF isFile
  <2> QED BY <1>1, OnlyProperties
<1>4. key \in FilesKey
  <2> HIDE DEF files
  <2> QED BY <1>1, <1>3, IdsAreList DEF itemKey, FilesKey
<1>5. w = [v EXCEPT !.options = s.devices, !.selected = chosen, !.key = key, !.rows = drawn]
  BY DEF UpdateDashboard
<1> HIDE DEF target
<1>6. drawn = chips(files) /\ chosen = target.id
  <2>1. CASE Blank(v)
    <3>1. None # key /\ None # s.devices
      BY <1>1, <1>4, AdminViewsAssumption
    <3> HIDE DEF key, chips
    <3> QED BY <2>1, <3>1 DEF Blank
  <2>2. CASE \E old \in State : Agree(old, s) /\ Drew(v, old)
    <3>1. PICK old \in State : Agree(old, s) /\ Drew(v, old)
      BY <2>2
    <3> DEFINE before == Only(old.items, isFile(old.items))
    <3>2. /\ v.options = old.devices /\ v.selected = chatTarget(old.devices, v.selected).id
          /\ v.key = itemKey(before, old.devices)
          /\ v.rows = [i \in DOMAIN before |-> itemChip(Reverse(before)[i], old.devices)]
      BY <3>1 DEF Drew
    <3>3. before \in Seq(ItemSet) /\ ToSet(before) \subseteq ToSet(old.items)
      <4>1. old.items \in Seq(ItemSet)
        BY DEF State
      <4> HIDE DEF isFile
      <4> QED BY <4>1, OnlyProperties
    <3> HIDE DEF before, files
    <3>4. \A a \in ToSet(before), b \in ToSet(files) : a.id = b.id => a = b
      BY <1>3, <3>1, <3>3 DEF Agree
    <3>5. ASSUME v.key = key PROVE v.rows = chips(files)
      <4>1. Ids(before) = Ids(files) /\ old.devices = s.devices
        BY <3>2, <3>5 DEF itemKey
      <4>2. before = files
        BY <1>3, <3>3, <3>4, <4>1, IdsTellEntries
      <4> QED BY <3>2, <4>1, <4>2
    <3>6. v.options = s.devices => v.selected = target.id
      BY <3>2 DEF target
    <3> HIDE DEF chips, key
    <3> QED BY <3>5, <3>6
  <2> QED BY <2>1, <2>2
<1> HIDE DEF drawn, key, chosen
<1>7. /\ w = [view |-> v.view, selected |-> target.id, options |-> s.devices, key |-> key,
              rows |-> chips(files), draft |-> v.draft, sending |-> v.sending]
  BY <1>5, <1>6 DEF IsView
<1> HIDE DEF w
<1>8. Keeps(v, w)
  BY <1>2, <1>7 DEF Keeps, IsView, Chat
<1>9. w.selected = target.id
  BY <1>7
<1>10. Shows(w, s)
  <2>1. chatTarget(s.devices, w.selected) = target
    BY <1>2, <1>9
  <2>2. w.view = "dashboard" /\ w.options = s.devices /\ w.key = key /\ w.rows = chips(files)
    BY <1>7
  <2> QED BY <1>9, <2>1, <2>2 DEF Shows, key
<1> QED BY <1>8, <1>9, <1>10 DEF w, target

\* The chips of some requests.
LEMMA CardsAreBuilt ==
  ASSUME NEW requests \in Seq(RequestSet), NEW devices \in Seq(DeviceSet)
  PROVE  LET built == [i \in DOMAIN requests |-> Card(requests[i], devices)]
         IN  /\ built \in Seq(CardSet)
             /\ ToSet(built) = {Card(r, devices) : r \in ToSet(requests)}
             /\ {c.request : c \in ToSet(built)} = ToSet(requests)
<1> DEFINE built == [i \in DOMAIN requests |-> Card(requests[i], devices)]
<1>1. PICK n \in Nat : DOMAIN requests = 1..n
  BY LenProperties
<1>2. \A r : Card(r, devices).request = r
  BY DEF Card
<1>3. ASSUME NEW r \in RequestSet PROVE Card(r, devices) \in CardSet
  <2>1. r.phone \in Phone /\ r.name \in Name
    BY DEF RequestSet
  <2>2. chatTarget(devices, r.phone).name \in Name \cup {OldName, None}
    BY <2>1, ChatTargetProperties DEF Chat
  <2> QED BY <2>1, <2>2 DEF Card, CardSet
<1>4. \A i \in 1..n : requests[i] \in RequestSet
  BY <1>1, ListEntries
<1>5. built \in [1..n -> CardSet]
  BY <1>1, <1>3, <1>4
<1>6. built \in Seq(CardSet)
  BY <1>5, FunctionIsList
<1>7. ToSet(built) = {Card(r, devices) : r \in ToSet(requests)}
  BY <1>1 DEF ToSet
<1> HIDE DEF built
<1>8. {c.request : c \in ToSet(built)} = ToSet(requests)
  BY <1>2, <1>7
<1> QED BY <1>6, <1>7, <1>8 DEF built

\* createApprovals: the cards that are still wanted, and new ones for the rest.
LEMMA ApprovalsShow ==
  ASSUME NEW v, IsView(v), v.view = "approvals", NEW s \in State, Agree(s, s),
         Blank(v) \/ \E old \in State : Agree(old, s) /\ Drew(v, old)
  PROVE  /\ Keeps(v, UpdateApprovals(v, s)) /\ Shows(UpdateApprovals(v, s), s)
         /\ UpdateApprovals(v, s).selected = v.selected
         /\ ToSet(UpdateApprovals(v, s).rows)
               \subseteq ToSet(v.rows) \cup {Card(r, s.devices) : r \in ToSet(s.pending)}
<1> DEFINE w == UpdateApprovals(v, s)
           old == {c \in ToSet(v.rows) : c.request.id \in ToSet(Ids(s.pending))}
           newer == {r \in ToSet(s.pending) : r.id \notin {c.request.id : c \in old}}
           kept == Only(v.rows, old)
           requests == Only(s.pending, newer)
           built == [i \in DOMAIN requests |-> Card(requests[i], s.devices)]
<1>1. s.pending \in Seq(RequestSet) /\ s.devices \in Seq(DeviceSet)
  BY DEF State
<1>2. v.options = None /\ v.key = None /\ v.rows \in Seq(CardSet)
  BY EmptySeq DEF Blank, Drew
<1>3. \A c \in old : c.request \in ToSet(s.pending)
  <2> SUFFICES ASSUME NEW c \in old PROVE c.request \in ToSet(s.pending)
    OBVIOUS
  <2>1. c \in ToSet(v.rows)
    OBVIOUS
  <2>2. PICK q \in ToSet(s.pending) : q.id = c.request.id
    BY DEF Ids, ToSet
  <2>3. CASE Blank(v)
    BY <2>1, <2>3 DEF Blank, ToSet
  <2>4. CASE \E before \in State : Agree(before, s) /\ Drew(v, before)
    <3>1. PICK before \in State : Agree(before, s) /\ Drew(v, before)
      BY <2>4
    <3>2. c.request \in ToSet(before.pending)
      BY <2>1, <3>1 DEF Drew
    <3> QED BY <2>2, <3>1, <3>2 DEF Agree
  <2> QED BY <2>3, <2>4
<1>4. \A r \in ToSet(s.pending) : (\E c \in old : c.request = r) \/ r \in newer
  <2> SUFFICES ASSUME NEW r \in ToSet(s.pending), r \notin newer PROVE \E c \in old : c.request = r
    OBVIOUS
  <2>1. PICK c \in old : r.id = c.request.id
    OBVIOUS
  <2> QED BY <1>3, <2>1 DEF Agree
<1>5. old \subseteq ToSet(v.rows) /\ newer \subseteq ToSet(s.pending)
  OBVIOUS
<1>6. w = [v EXCEPT !.rows = kept \o built]
  BY DEF UpdateApprovals
<1> HIDE DEF old, newer
<1>7. /\ kept \in Seq(CardSet) /\ ToSet(kept) = old
      /\ requests \in Seq(RequestSet) /\ ToSet(requests) = newer
  <2>1. kept \in Seq(CardSet) /\ ToSet(kept) = ToSet(v.rows) \cap old
    BY <1>2, OnlyProperties
  <2>2. requests \in Seq(RequestSet) /\ ToSet(requests) = ToSet(s.pending) \cap newer
    BY <1>1, OnlyProperties
  <2> HIDE DEF kept, requests
  <2> QED BY <1>5, <2>1, <2>2
<1> HIDE DEF kept, requests
<1>8. /\ built \in Seq(CardSet) /\ ToSet(built) = {Card(r, s.devices) : r \in newer}
      /\ {c.request : c \in ToSet(built)} = newer
  BY <1>1, <1>7, CardsAreBuilt
<1> HIDE DEF built
<1>9. kept \o built \in Seq(CardSet) /\ ToSet(kept \o built) = old \cup ToSet(built)
  BY <1>7, <1>8, ConcatEntries
<1>10. {c.request : c \in ToSet(kept \o built)} = ToSet(s.pending)
  BY <1>3, <1>4, <1>5, <1>8, <1>9
<1>11. w = [view |-> v.view, selected |-> v.selected, options |-> None, key |-> None,
            rows |-> kept \o built, draft |-> v.draft, sending |-> v.sending]
  BY <1>2, <1>6 DEF IsView
<1> HIDE DEF w
<1>12. Keeps(v, w) /\ w.selected = v.selected
  BY <1>11 DEF Keeps, IsView
<1>13. Shows(w, s)
  BY <1>9, <1>10, <1>11 DEF Shows
<1>14. ToSet(w.rows) \subseteq ToSet(v.rows) \cup {Card(r, s.devices) : r \in ToSet(s.pending)}
  BY <1>5, <1>8, <1>9, <1>11
<1> QED BY <1>12, <1>13, <1>14 DEF w

\* createDevices.
LEMMA DevicesShow ==
  ASSUME NEW v, IsView(v), v.view = "devices", NEW s \in State,
         Blank(v) \/ \E old \in State : Agree(old, s) /\ Drew(v, old)
  PROVE  /\ Keeps(v, UpdateDevices(v, s)) /\ Shows(UpdateDevices(v, s), s)
         /\ UpdateDevices(v, s).selected = v.selected
<1> DEFINE w == UpdateDevices(v, s)
<1>1. s.devices \in Seq(DeviceSet) /\ None # s.devices
  BY AdminViewsAssumption DEF State
<1>2. v.options = None /\ (v.key = s.devices => v.rows = s.devices)
  BY <1>1 DEF Blank, Drew
<1>3. w = [view |-> v.view, selected |-> v.selected, options |-> None, key |-> s.devices,
           rows |-> s.devices, draft |-> v.draft, sending |-> v.sending]
  <2>1. w = [v EXCEPT !.key = s.devices, !.rows = IF v.key = s.devices THEN v.rows ELSE s.devices]
    BY DEF UpdateDevices
  <2>2. w = [v EXCEPT !.key = s.devices, !.rows = s.devices]
    BY <1>2, <2>1
  <2> HIDE DEF w
  <2> QED BY <1>2, <2>2 DEF IsView
<1> HIDE DEF w
<1>4. Keeps(v, w) /\ w.selected = v.selected
  BY <1>3 DEF Keeps, IsView
<1>5. Shows(w, s)
  BY <1>3 DEF Shows
<1> QED BY <1>4, <1>5 DEF w

\* Whatever view is open shows a new state, once it is updated with it.
LEMMA UpdatedShows ==
  ASSUME NEW v, IsView(v), NEW s \in State, Agree(s, s),
         Blank(v) \/ \E old \in State : Agree(old, s) /\ Drew(v, old)
  PROVE  /\ Keeps(v, Updated(v, s)) /\ Shows(Updated(v, s), s)
         /\ Updated(v, s).selected = IF v.view \in {"messages", "dashboard"}
                                     THEN chatTarget(s.devices, v.selected).id ELSE v.selected
         /\ v.view = "approvals" =>
               ToSet(Updated(v, s).rows)
                  \subseteq ToSet(v.rows) \cup {Card(r, s.devices) : r \in ToSet(s.pending)}
<1>1. v.view \in ViewName
  BY DEF IsView
<1>2. CASE v.view = "messages"
  <2>1. Updated(v, s) = UpdateMessages(v, s)
    BY <1>2 DEF Updated
  <2> QED BY <1>2, <2>1, MessagesShow
<1>3. CASE v.view = "dashboard"
  <2>1. Updated(v, s) = UpdateDashboard(v, s)
    BY <1>3 DEF Updated
  <2> QED BY <1>3, <2>1, DashboardShows
<1>4. CASE v.view = "approvals"
  <2>1. Updated(v, s) = UpdateApprovals(v, s)
    BY <1>4 DEF Updated
  <2> QED BY <1>4, <2>1, ApprovalsShow
<1>5. CASE v.view = "devices"
  <2>1. Updated(v, s) = UpdateDevices(v, s)
    BY <1>5 DEF Updated
  <2> QED BY <1>5, <2>1, DevicesShow
<1> QED BY <1>1, <1>2, <1>3, <1>4, <1>5 DEF ViewName

\* What is shown was drawn.
LEMMA ShownIsDrawn ==
  ASSUME NEW v, IsView(v), NEW s \in State, Shows(v, s)
  PROVE  Drew(v, s)
<1>1. s.devices \in Seq(DeviceSet) /\ v.selected \in Phone \cup {None} /\ v.view \in ViewName
  BY DEF State, IsView
<1>2. chatTarget(s.devices, v.selected) \in Chat
  BY <1>1, ChatTargetProperties
<1> QED BY <1>1, <1>2 DEF Shows, Drew, ViewName

\* What a view shows is all there is to it, but for the order of the cards of requests.
LEMMA ShownIsShown ==
  ASSUME NEW v, NEW w, IsView(v), IsView(w), NEW s \in State, Shows(v, s), Shows(w, s),
         v.view = w.view, v.selected = w.selected, v.draft = w.draft, v.sending = w.sending
  PROVE  /\ v.options = w.options /\ v.key = w.key
         /\ v.view # "approvals" => v = w
         /\ v.view = "approvals" => {c.request : c \in ToSet(v.rows)} = {c.request : c \in ToSet(w.rows)}
<1>1. v.view \in ViewName
  BY DEF IsView
<1>2. v.options = w.options /\ v.key = w.key
  <2>1. CASE v.view = "messages"
    BY <2>1 DEF Shows
  <2>2. CASE v.view = "dashboard"
    BY <2>2 DEF Shows
  <2>3. CASE v.view = "approvals"
    BY <2>3 DEF Shows
  <2>4. CASE v.view = "devices"
    BY <2>4 DEF Shows
  <2> QED BY <1>1, <2>1, <2>2, <2>3, <2>4 DEF ViewName
<1>3. v.view # "approvals" => v.rows = w.rows
  BY <1>1 DEF Shows, ViewName
<1>4. v.view = "approvals" => {c.request : c \in ToSet(v.rows)} = {c.request : c \in ToSet(w.rows)}
  BY DEF Shows
<1>5. v.view # "approvals" => v = w
  BY <1>2, <1>3 DEF IsView
<1> QED BY <1>2, <1>4, <1>5

---------------------------------------------------------------------------------
(* What the page's steps are made of.                                            *)

\* Two views that differ in their compose box at most.
Alike(v, w) == /\ IsView(w) /\ w.view = v.view /\ w.selected = v.selected
               /\ w.options = v.options /\ w.key = v.key /\ w.rows = v.rows

\* The compose box is filled, emptied, or busy.
LEMMA BoxChanges ==
  ASSUME NEW v, IsView(v)
  PROVE  /\ \A d \in Nat :
               /\ Alike(v, [v EXCEPT !.draft = d])
               /\ [v EXCEPT !.draft = d].draft = d /\ [v EXCEPT !.draft = d].sending = v.sending
         /\ \A b \in BOOLEAN :
               /\ Alike(v, [v EXCEPT !.sending = b])
               /\ [v EXCEPT !.sending = b].draft = v.draft /\ [v EXCEPT !.sending = b].sending = b
               /\ Alike(v, Sent(v, b))
               /\ Sent(v, b).draft = v.draft /\ Sent(v, b).sending = (v.sending /\ ~b)
<1> SUFFICES ASSUME NEW d \in Nat, NEW b \in BOOLEAN
             PROVE  /\ Alike(v, [v EXCEPT !.draft = d])
                    /\ [v EXCEPT !.draft = d].draft = d /\ [v EXCEPT !.draft = d].sending = v.sending
                    /\ Alike(v, [v EXCEPT !.sending = b])
                    /\ [v EXCEPT !.sending = b].draft = v.draft /\ [v EXCEPT !.sending = b].sending = b
                    /\ Alike(v, Sent(v, b))
                    /\ Sent(v, b).draft = v.draft /\ Sent(v, b).sending = (v.sending /\ ~b)
  OBVIOUS
<1>1. v = [view |-> v.view, selected |-> v.selected, options |-> v.options, key |-> v.key,
           rows |-> v.rows, draft |-> v.draft, sending |-> v.sending]
  BY DEF IsView
<1>2. [v EXCEPT !.draft = d] = [view |-> v.view, selected |-> v.selected, options |-> v.options,
                                key |-> v.key, rows |-> v.rows, draft |-> d, sending |-> v.sending]
  BY <1>1
<1>3. ASSUME NEW c \in BOOLEAN
      PROVE  [v EXCEPT !.sending = c] = [view |-> v.view, selected |-> v.selected, options |-> v.options,
                                         key |-> v.key, rows |-> v.rows, draft |-> v.draft, sending |-> c]
  BY <1>1
<1>4. \A c \in BOOLEAN : /\ Alike(v, [v EXCEPT !.sending = c])
                         /\ [v EXCEPT !.sending = c].draft = v.draft
                         /\ [v EXCEPT !.sending = c].sending = c
  BY <1>3 DEF Alike, IsView
<1>5. /\ Alike(v, [v EXCEPT !.draft = d])
      /\ [v EXCEPT !.draft = d].draft = d /\ [v EXCEPT !.draft = d].sending = v.sending
  BY <1>2 DEF Alike, IsView
<1>6. Alike(v, v)
  BY DEF Alike
<1>7. /\ Alike(v, Sent(v, b))
      /\ Sent(v, b).draft = v.draft /\ Sent(v, b).sending = (v.sending /\ ~b)
  <2>1. CASE b
    BY <1>4, <2>1 DEF Sent
  <2>2. CASE ~b
    BY <1>6, <2>2 DEF Sent, IsView
  <2> QED BY <2>1, <2>2
<1> QED BY <1>4, <1>5, <1>7

\* Alike views show the same.
LEMMA AlikeShow ==
  ASSUME NEW v, NEW w, Alike(v, w), NEW s
  PROVE  (Shows(v, s) <=> Shows(w, s)) /\ (Blank(v) <=> Blank(w))
BY DEF Alike, Shows, Blank

\* A view that was just opened.
LEMMA OpenedIsBlank ==
  ASSUME NEW name \in ViewName
  PROVE  /\ IsView(Opened(name)) /\ Blank(Opened(name)) /\ Opened(name).view = name
         /\ Opened(name).draft = 0 /\ Opened(name).sending = FALSE /\ Opened(name).selected = None
BY DEF Opened, IsView, Blank

\* One more fetch (refresh): it knows nothing yet.
LEMMA AskedProperties ==
  ASSUME PageTypes, NEW b \in BOOLEAN
  PROVE  LET fetch == [status |-> IF up THEN "asked" ELSE "failed", state |-> None, forSend |-> b, late |-> FALSE]
             n == Len(fetches)
         IN  /\ Asked(b) = Append(fetches, fetch) /\ Asked(b) \in Seq(FetchSet)
             /\ n \in Nat /\ DOMAIN fetches = 1..n
             /\ DOMAIN Asked(b) = 1..(n + 1) /\ Len(Asked(b)) = n + 1
             /\ \A i \in 1..n : Asked(b)[i] = fetches[i]
             /\ Asked(b)[n + 1] = fetch
             /\ {f.state : f \in ToSet(Asked(b))} \subseteq {f.state : f \in ToSet(fetches)} \cup {None}
<1> DEFINE fetch == [status |-> IF up THEN "asked" ELSE "failed", state |-> None, forSend |-> b, late |-> FALSE]
<1>1. fetch \in FetchSet
  BY DEF FetchSet
<1>2. fetches \in Seq(FetchSet) /\ fetch.state = None
  BY DEF PageTypes
<1>3. Asked(b) = Append(fetches, fetch)
  BY DEF Asked
<1> HIDE DEF fetch
<1>4. ToSet(Append(fetches, fetch)) = ToSet(fetches) \cup {fetch}
  BY <1>1, <1>2, PushProperties
<1>5. {f.state : f \in ToSet(Asked(b))} \subseteq {f.state : f \in ToSet(fetches)} \cup {None}
  BY <1>2, <1>3, <1>4
<1>6. /\ Asked(b) \in Seq(FetchSet)
      /\ DOMAIN Asked(b) = 1..(Len(fetches) + 1) /\ Len(Asked(b)) = Len(fetches) + 1
      /\ \A i \in DOMAIN fetches : Asked(b)[i] = fetches[i]
      /\ Asked(b)[Len(fetches) + 1] = fetch
      /\ Len(fetches) \in Nat /\ DOMAIN fetches = 1..Len(fetches)
  BY <1>1, <1>2, <1>3, AddedEntry, LenProperties
<1> QED BY <1>3, <1>5, <1>6 DEF fetch

---------------------------------------------------------------------------------
(* What the laptop makes of its state, and what it leaves alone.                 *)

\* Items and requests of a later state: those that were there, and new ones with new ids.
ItemsFollow(items, count) ==
    /\ items \in Seq(ItemSet) /\ IsInjective(items) /\ count \in {added, added + 1}
    /\ \A it \in ToSet(items) : \/ \E s \in Known : it \in ToSet(s.items)
                                \/ it.id = added + 1 /\ count = added + 1 /\ it.time > 0
    /\ \A a, b \in ToSet(items) : a.id = b.id => a = b

PendingFollow(waiting) ==
    /\ waiting \in Seq(RequestSet) /\ IsInjective(waiting)
    /\ \A r \in ToSet(waiting) : r \in ToSet(laptop.pending) \/ r.id = laptop.rev + 1
    /\ \A a, b \in ToSet(waiting) : a.id = b.id => a = b

Follows(next, count) ==
    /\ next \in State /\ next.rev = laptop.rev + 1
    /\ ItemsFollow(next.items, count) /\ PendingFollow(next.pending)
    /\ cards' = cards \cup {Card(r, next.devices) : r \in ToSet(next.pending)}

\* The files hold what the laptop has, or had.
FilesFollow ==
    /\ Saved' \in State /\ Saved'.pending = <<>> /\ IsInjective(Saved'.items)
    /\ \A it \in ToSet(Saved'.items) :
          it \in ToSet(laptop'.items) \/ \E s \in Known : it \in ToSet(s.items)

\* The rest of a list, from some place on.
LEMMA RestOfList ==
  ASSUME NEW S, NEW list \in Seq(S), IsInjective(list), NEW m \in 1..(Len(list) + 1)
  PROVE  LET rest == SubSeq(list, m, Len(list))
         IN  rest \in Seq(S) /\ IsInjective(rest) /\ ToSet(rest) \subseteq ToSet(list)
<1> DEFINE rest == SubSeq(list, m, Len(list))
<1>1. PICK n \in Nat : n = Len(list) /\ DOMAIN list = 1..n
  BY LenProperties
<1>2. \A i \in m..n : list[i] \in S
  BY <1>1, ElementOfSeq
<1>3. m \in Int /\ n \in Int /\ m \in Nat \ {0} /\ m <= n + 1
  BY <1>1
<1>4. /\ rest \in Seq(S) /\ Len(rest) = IF m <= n THEN n - m + 1 ELSE 0
      /\ \A i \in 1..(n - m + 1) : rest[i] = list[m + i - 1]
  BY <1>1, <1>2, <1>3, SubSeqProperties
<1>5. DOMAIN rest = 1..(n - m + 1)
  <2>1. DOMAIN rest = 1..Len(rest) /\ Len(rest) = n - m + 1
    BY <1>3, <1>4, LenProperties
  <2> QED BY <2>1
<1> HIDE DEF rest
<1>6. \A i \in 1..(n - m + 1) : m + i - 1 \in 1..n
  BY <1>3
<1>7. ToSet(rest) \subseteq ToSet(list)
  BY <1>1, <1>4, <1>5, <1>6 DEF ToSet
<1>8. IsInjective(rest)
  <2> SUFFICES ASSUME NEW i \in 1..(n - m + 1), NEW j \in 1..(n - m + 1), rest[i] = rest[j] PROVE i = j
    BY <1>5 DEF IsInjective
  <2>1. list[m + i - 1] = list[m + j - 1]
    BY <1>4
  <2>2. m + i - 1 = m + j - 1
    BY <1>1, <1>6, <2>1 DEF IsInjective
  <2> QED BY <1>3, <2>2
<1> QED BY <1>4, <1>7, <1>8 DEF rest

\* Nothing new, or less.
LEMMA ItemsKeep ==
  ASSUME PageTypes, KnownInv
  PROVE  /\ ItemsFollow(laptop.items, added) /\ ItemsFollow(savedItems, added) /\ ItemsFollow(<<>>, added)
         /\ \A kept : ItemsFollow(Only(laptop.items, kept), added)
         /\ \A m \in 1..(Len(laptop.items) + 1) :
               ItemsFollow(SubSeq(laptop.items, m, Len(laptop.items)), added)
<1>1. /\ laptop.items \in Seq(ItemSet) /\ laptop \in Known /\ added \in Nat
      /\ savedItems \in Seq(ItemSet) /\ Saved \in Known /\ Saved.items = savedItems
  BY DEF PageTypes, State, Known, Saved
<1> HIDE DEF Known
<1>2. /\ IsInjective(laptop.items) /\ IsInjective(savedItems)
      /\ \A a, b \in ToSet(laptop.items) : a.id = b.id => a = b
      /\ \A a, b \in ToSet(savedItems) : a.id = b.id => a = b
  BY <1>1 DEF KnownInv
<1>3. ItemsFollow(laptop.items, added) /\ ItemsFollow(savedItems, added)
  BY <1>1, <1>2 DEF ItemsFollow
<1>4. ItemsFollow(<<>>, added)
  BY EmptySeq DEF ItemsFollow, ToSet, IsInjective
<1>5. ASSUME NEW kept PROVE ItemsFollow(Only(laptop.items, kept), added)
  <2>1. /\ Only(laptop.items, kept) \in Seq(ItemSet) /\ IsInjective(Only(laptop.items, kept))
        /\ ToSet(Only(laptop.items, kept)) = ToSet(laptop.items) \cap kept
    BY <1>1, <1>2, OnlyProperties
  <2> QED BY <1>1, <1>2, <2>1 DEF ItemsFollow
<1>6. ASSUME NEW m \in 1..(Len(laptop.items) + 1)
      PROVE  ItemsFollow(SubSeq(laptop.items, m, Len(laptop.items)), added)
  <2>1. PICK items : items = laptop.items
    OBVIOUS
  <2>2. items \in Seq(ItemSet) /\ IsInjective(items) /\ m \in 1..(Len(items) + 1)
    BY <1>1, <1>2, <2>1
  <2>3. PICK rest : rest = SubSeq(items, m, Len(items))
    OBVIOUS
  <2>4. rest \in Seq(ItemSet) /\ IsInjective(rest) /\ ToSet(rest) \subseteq ToSet(items)
    BY <2>2, <2>3, RestOfList
  <2> QED BY <1>1, <1>2, <2>1, <2>3, <2>4 DEF ItemsFollow
<1> QED BY <1>3, <1>4, <1>5, <1>6

\* One item more.
LEMMA ItemsGrow ==
  ASSUME PageTypes, KnownInv, NEW p \in Phone, NEW kind \in {"text", "file"},
         NEW from \in {"phone", "laptop"}, NEW time \in Nat \ {0}
  PROVE  ItemsFollow(Append(laptop.items, NewItem(p, kind, from, time)), added + 1)
<1> DEFINE item == NewItem(p, kind, from, time)
<1>1. laptop.items \in Seq(ItemSet) /\ laptop \in Known /\ added \in Nat
  BY DEF PageTypes, State, Known
<1>2. /\ IsInjective(laptop.items)
      /\ \A a, b \in ToSet(laptop.items) : a.id = b.id => a = b
      /\ \A it \in ToSet(laptop.items) : it.id <= added
  BY <1>1 DEF KnownInv
<1>3. item \in ItemSet /\ item.id = added + 1 /\ item.time > 0
  BY <1>1 DEF NewItem, ItemSet
<1> HIDE DEF item
<1>4. \A it \in ToSet(laptop.items) : it \in ItemSet /\ it.id # item.id
  <2>1. ASSUME NEW it \in ToSet(laptop.items) PROVE it \in ItemSet /\ it.id # item.id
    <3>1. it \in ItemSet
      BY <1>1, ListEntries
    <3>2. it.id \in Nat
      BY <3>1 DEF ItemSet
    <3> QED BY <1>1, <1>2, <1>3, <3>1, <3>2
  <2> QED BY <2>1
<1>5. item \notin ToSet(laptop.items)
  BY <1>4
<1>6. /\ Append(laptop.items, item) \in Seq(ItemSet) /\ IsInjective(Append(laptop.items, item))
      /\ ToSet(Append(laptop.items, item)) = ToSet(laptop.items) \cup {item}
  BY <1>1, <1>2, <1>3, <1>5, PushProperties
<1>7. \A a, b \in ToSet(laptop.items) \cup {item} : a.id = b.id => a = b
  BY <1>2, <1>4
<1>8. ItemsFollow(Append(laptop.items, item), added + 1)
  <2>1. laptop \in Known
    BY <1>1
  <2> HIDE DEF Known
  <2> QED BY <1>3, <1>6, <1>7, <2>1 DEF ItemsFollow
<1> QED BY <1>8 DEF item

\* No request more, or fewer.
LEMMA PendingKeeps ==
  ASSUME PageTypes, KnownInv
  PROVE  /\ PendingFollow(laptop.pending) /\ PendingFollow(<<>>)
         /\ \A kept : PendingFollow(Only(laptop.pending, kept))
         /\ laptop.pending # <<>> => PendingFollow(Tail(laptop.pending))
<1>1. laptop.pending \in Seq(RequestSet) /\ laptop \in Known
  BY DEF PageTypes, State, Known
<1>2. /\ IsInjective(laptop.pending)
      /\ \A a, b \in ToSet(laptop.pending) : a.id = b.id => a = b
  BY <1>1 DEF KnownInv
<1>3. PendingFollow(laptop.pending)
  BY <1>1, <1>2 DEF PendingFollow
<1>4. PendingFollow(<<>>)
  BY EmptySeq DEF PendingFollow, ToSet, IsInjective
<1>5. ASSUME NEW kept PROVE PendingFollow(Only(laptop.pending, kept))
  <2>1. /\ Only(laptop.pending, kept) \in Seq(RequestSet) /\ IsInjective(Only(laptop.pending, kept))
        /\ ToSet(Only(laptop.pending, kept)) = ToSet(laptop.pending) \cap kept
    BY <1>1, <1>2, OnlyProperties
  <2> QED BY <1>2, <2>1 DEF PendingFollow
<1>6. ASSUME laptop.pending # <<>> PROVE PendingFollow(Tail(laptop.pending))
  <2> DEFINE rest == Tail(laptop.pending)
  <2>1. PICK n \in Nat \ {0} : n = Len(laptop.pending) /\ DOMAIN laptop.pending = 1..n
    BY <1>1, <1>6, EmptySeq, LenProperties
  <2>2. /\ rest \in Seq(RequestSet) /\ Len(rest) = n - 1
        /\ \A i \in 1..(n - 1) : rest[i] = laptop.pending[i + 1]
    BY <1>1, <1>6, <2>1, HeadTailProperties
  <2>3. DOMAIN rest = 1..(n - 1)
    BY <2>2, LenProperties
  <2> HIDE DEF rest
  <2>4. \A i \in 1..(n - 1) : i + 1 \in 1..n
    BY <2>1
  <2>5. ToSet(rest) \subseteq ToSet(laptop.pending)
    BY <2>1, <2>2, <2>3, <2>4 DEF ToSet
  <2>6. IsInjective(rest)
    <3> SUFFICES ASSUME NEW i \in 1..(n - 1), NEW j \in 1..(n - 1), rest[i] = rest[j] PROVE i = j
      BY <2>3 DEF IsInjective
    <3>1. laptop.pending[i + 1] = laptop.pending[j + 1]
      BY <2>2
    <3>2. i + 1 = j + 1
      BY <1>2, <2>1, <2>4, <3>1 DEF IsInjective
    <3> QED BY <3>2
  <2>7. PendingFollow(rest)
    BY <1>2, <2>2, <2>5, <2>6 DEF PendingFollow
  <2> QED BY <2>7 DEF rest
<1> QED BY <1>3, <1>4, <1>5, <1>6

\* A request more.
LEMMA PendingGrows ==
  ASSUME PageTypes, KnownInv, NEW p \in Phone, NEW name \in Name, NEW repair \in BOOLEAN
  PROVE  PendingFollow(Append(laptop.pending, [id |-> laptop.rev + 1, phone |-> p, name |-> name,
                                               isRepair |-> repair]))
<1> DEFINE r == [id |-> laptop.rev + 1, phone |-> p, name |-> name, isRepair |-> repair]
<1>1. laptop.pending \in Seq(RequestSet) /\ laptop \in Known /\ laptop.rev \in Nat
  BY DEF PageTypes, State, Known
<1>2. /\ IsInjective(laptop.pending)
      /\ \A a, b \in ToSet(laptop.pending) : a.id = b.id => a = b
      /\ \A q \in ToSet(laptop.pending) : q.id <= laptop.rev
  BY <1>1 DEF KnownInv
<1>3. r \in RequestSet /\ r.id = laptop.rev + 1
  BY <1>1 DEF RequestSet
<1> HIDE DEF r
<1>4. \A q \in ToSet(laptop.pending) : q.id # r.id
  <2>1. ASSUME NEW q \in ToSet(laptop.pending) PROVE q.id # r.id
    <3>1. q \in RequestSet
      BY <1>1, ListEntries
    <3>2. q.id \in Nat
      BY <3>1 DEF RequestSet
    <3> QED BY <1>1, <1>2, <1>3, <3>2
  <2> QED BY <2>1
<1>5. r \notin ToSet(laptop.pending)
  BY <1>4
<1>6. /\ Append(laptop.pending, r) \in Seq(RequestSet) /\ IsInjective(Append(laptop.pending, r))
      /\ ToSet(Append(laptop.pending, r)) = ToSet(laptop.pending) \cup {r}
  BY <1>1, <1>2, <1>3, <1>5, PushProperties
<1>7. \A a, b \in ToSet(laptop.pending) \cup {r} : a.id = b.id => a = b
  BY <1>2, <1>4
<1>8. PendingFollow(Append(laptop.pending, r))
  BY <1>3, <1>6, <1>7 DEF PendingFollow
<1> QED BY <1>8 DEF r

\* A change of the laptop.
LEMMA ChangeFollows ==
  ASSUME PageTypes, NEW next \in State, NEW count, ItemsFollow(next.items, count),
         PendingFollow(next.pending), Changed(next)
  PROVE  Follows(laptop', count)
<1>1. laptop.rev \in Nat
  BY DEF PageTypes, State
<1>2. laptop' = [rev |-> laptop.rev + 1, devices |-> next.devices, items |-> next.items,
                 pending |-> next.pending]
  BY DEF State, Changed
<1>3. laptop' \in State
  BY <1>1, <1>2 DEF State
<1>4. cards' = cards \cup {Card(r, laptop'.devices) : r \in ToSet(laptop'.pending)}
  BY <1>2 DEF Changed
<1> QED BY <1>2, <1>3, <1>4 DEF Follows

\* A change of the laptop, part by part.
LEMMA LaptopFollows ==
  ASSUME PageTypes, NEW devices \in Seq(DeviceSet), NEW items, NEW count, ItemsFollow(items, count),
         NEW waiting, PendingFollow(waiting), NEW next,
         next = [laptop EXCEPT !.devices = devices, !.items = items, !.pending = waiting],
         Changed(next)
  PROVE  Follows(laptop', count)
<1>1. laptop \in State
  BY DEF PageTypes
<1>2. next = [rev |-> laptop.rev, devices |-> devices, items |-> items, pending |-> waiting]
  BY <1>1 DEF State
<1>3. items \in Seq(ItemSet) /\ waiting \in Seq(RequestSet)
  BY DEF ItemsFollow, PendingFollow
<1>4. next \in State /\ next.items = items /\ next.pending = waiting
  BY <1>1, <1>2, <1>3 DEF State
<1> QED BY <1>4, ChangeFollows

\* The files stay, or take what the laptop has now.
LEMMA FilesKeep ==
  ASSUME PageTypes, KnownInv
  PROVE  /\ UNCHANGED <<savedDevices, savedItems>> => FilesFollow /\ Saved' = Saved
         /\ \A count : Follows(laptop', count) /\ (SaveItems \/ SaveDevices) => FilesFollow
         /\ \A m \in 1..(Len(laptop.items) + 1) :
               /\ savedItems' = SubSeq(laptop.items, m, Len(laptop.items)) /\ savedDevices' = savedDevices
               => FilesFollow
<1>1. Saved \in State /\ Saved \in Known
  BY DEF PageTypes, Known
<1>2. savedDevices \in Seq(DeviceSet) /\ savedItems \in Seq(ItemSet) /\ IsInjective(savedItems)
  <2>1. IsInjective(Saved.items)
    BY <1>1 DEF KnownInv
  <2> QED BY <1>1, <2>1 DEF State, Saved
<1>3. Saved.items = savedItems
  BY DEF Saved
<1>4. Saved' = [rev |-> 0, devices |-> savedDevices', items |-> savedItems', pending |-> <<>>]
  BY DEF Saved
<1> HIDE DEF Known
<1>5. ASSUME savedDevices' \in Seq(DeviceSet), savedItems' \in Seq(ItemSet), IsInjective(savedItems'),
             \A it \in ToSet(savedItems') :
                it \in ToSet(laptop'.items) \/ \E s \in Known : it \in ToSet(s.items)
      PROVE  FilesFollow
  <2>1. Saved' \in State /\ Saved'.pending = <<>> /\ Saved'.items = savedItems'
    BY <1>4, <1>5, EmptySeq DEF State
  <2> QED BY <1>5, <2>1 DEF FilesFollow
<1>6. ASSUME UNCHANGED <<savedDevices, savedItems>> PROVE FilesFollow /\ Saved' = Saved
  <2>1. \A it \in ToSet(savedItems') : \E s \in Known : it \in ToSet(s.items)
    BY <1>1, <1>3, <1>6
  <2>2. FilesFollow
    BY <1>2, <1>5, <1>6, <2>1
  <2> QED BY <1>4, <1>6, <2>2 DEF Saved
<1>7. ASSUME NEW count, Follows(laptop', count), SaveItems \/ SaveDevices PROVE FilesFollow
  <2>1. laptop' \in State /\ IsInjective(laptop'.items)
    BY <1>7 DEF Follows, ItemsFollow
  <2>2. laptop'.devices \in Seq(DeviceSet) /\ laptop'.items \in Seq(ItemSet)
    BY <2>1 DEF State
  <2>3. CASE SaveItems
    BY <1>2, <1>5, <2>1, <2>2, <2>3 DEF SaveItems
  <2>4. CASE SaveDevices
    BY <1>1, <1>2, <1>3, <1>5, <2>2, <2>4 DEF SaveDevices
  <2> QED BY <1>7, <2>3, <2>4
<1>8. ASSUME NEW m \in 1..(Len(laptop.items) + 1), savedDevices' = savedDevices,
             savedItems' = SubSeq(laptop.items, m, Len(laptop.items))
      PROVE  FilesFollow
  <2>1. PICK items : items = laptop.items
    OBVIOUS
  <2>2. items \in Seq(ItemSet) /\ IsInjective(items) /\ laptop \in Known
    BY <2>1 DEF PageTypes, State, Known, KnownInv
  <2>3. PICK rest : rest = SubSeq(items, m, Len(items))
    OBVIOUS
  <2>4. rest \in Seq(ItemSet) /\ IsInjective(rest) /\ ToSet(rest) \subseteq ToSet(items)
    BY <2>1, <2>2, <2>3, RestOfList
  <2> QED BY <1>2, <1>5, <1>8, <2>1, <2>2, <2>3, <2>4
<1> QED BY <1>6, <1>7, <1>8

---------------------------------------------------------------------------------
(* What leaves the parts of the invariant alone.                                 *)

\* Known states stay true while the laptop does nothing.
LEMMA KnownStays ==
  ASSUME KnownInv, laptop' = laptop, added' = added, cards' = cards, Known' \subseteq Known
  PROVE  KnownInv'
<1> HIDE DEF Known
<1> QED BY DEF KnownInv

\* And when it does something.
LEMMA KnownGrows ==
  ASSUME PageTypes, KnownInv, Follows(laptop', added'), FilesFollow,
         Known' \subseteq Known \cup {laptop', Saved'}
  PROVE  KnownInv'
<1> DEFINE Now == Known \cup {laptop'}
<1>1. laptop \in Known /\ added \in Nat /\ laptop.rev \in Nat
  BY DEF Known, PageTypes, State
<1>2. /\ added' \in {added, added + 1} /\ laptop'.rev = laptop.rev + 1
      /\ IsInjective(laptop'.items) /\ IsInjective(laptop'.pending)
      /\ \A it \in ToSet(laptop'.items) : \/ \E s \in Known : it \in ToSet(s.items)
                                          \/ it.id = added + 1 /\ added' = added + 1 /\ it.time > 0
      /\ \A r \in ToSet(laptop'.pending) : r \in ToSet(laptop.pending) \/ r.id = laptop.rev + 1
      /\ \A a, b \in ToSet(laptop'.items) : a.id = b.id => a = b
      /\ \A a, b \in ToSet(laptop'.pending) : a.id = b.id => a = b
      /\ cards \subseteq cards' /\ \A r \in ToSet(laptop'.pending) : Card(r, laptop'.devices) \in cards'
  BY DEF Follows, ItemsFollow, PendingFollow
<1>3. \A s \in Known : s \in State
  BY DEF Known, PageTypes, FetchSet, ToSet
<1> HIDE DEF Known
<1>4. \A s \in Known : /\ \A it \in ToSet(s.items) : it.id \in Nat /\ it.id <= added /\ it.time > 0
                       /\ \A r \in ToSet(s.pending) : /\ r.id \in Nat /\ r.id <= laptop.rev
                                                       /\ Card(r, s.devices) \in cards
  <2> SUFFICES ASSUME NEW s \in Known
               PROVE  /\ \A it \in ToSet(s.items) : it.id \in Nat
                      /\ \A r \in ToSet(s.pending) : r.id \in Nat
    BY DEF KnownInv
  <2>1. s.items \in Seq(ItemSet) /\ s.pending \in Seq(RequestSet)
    BY <1>3 DEF State
  <2>2. (\A it \in ToSet(s.items) : it \in ItemSet) /\ \A r \in ToSet(s.pending) : r \in RequestSet
    BY <2>1, ListEntries
  <2> QED BY <2>2 DEF ItemSet, RequestSet
<1>5. \A s \in Known : /\ IsInjective(s.items) /\ IsInjective(s.pending)
                       /\ \A t \in Known :
                             /\ \A a \in ToSet(s.items), b \in ToSet(t.items) : a.id = b.id => a = b
                             /\ \A a \in ToSet(s.pending), b \in ToSet(t.pending) : a.id = b.id => a = b
  BY DEF KnownInv
<1>6. \A s \in Now : /\ IsInjective(s.items) /\ IsInjective(s.pending)
                     /\ \A it \in ToSet(s.items) : it.id <= added' /\ it.time > 0
                     /\ \A r \in ToSet(s.pending) : r.id <= laptop'.rev /\ Card(r, s.devices) \in cards'
  BY <1>1, <1>2, <1>4, <1>5
<1>7. ASSUME NEW s \in Known
      PROVE  /\ \A a \in ToSet(s.items), b \in ToSet(laptop'.items) : a.id = b.id => a = b
             /\ \A a \in ToSet(s.pending), b \in ToSet(laptop'.pending) : a.id = b.id => a = b
  BY <1>1, <1>2, <1>4, <1>5
<1>8. ASSUME NEW s \in Now, NEW t \in Now
      PROVE  /\ \A a \in ToSet(s.items), b \in ToSet(t.items) : a.id = b.id => a = b
             /\ \A a \in ToSet(s.pending), b \in ToSet(t.pending) : a.id = b.id => a = b
  <2>1. CASE s \in Known /\ t \in Known
    BY <1>5, <2>1
  <2>2. CASE s \in Known /\ t = laptop'
    BY <1>7, <2>2
  <2>3. CASE s = laptop' /\ t \in Known
    BY <1>7, <2>3
  <2>4. CASE s = laptop' /\ t = laptop'
    BY <1>2, <2>4
  <2> QED BY <2>1, <2>2, <2>3, <2>4
<1>9. \A s \in Known' :
         /\ IsInjective(s.items) /\ IsInjective(s.pending)
         /\ \A it \in ToSet(s.items) : \E t \in Now : it \in ToSet(t.items)
         /\ \A r \in ToSet(s.pending) : /\ \E t \in Now : r \in ToSet(t.pending)
                                         /\ r.id <= laptop'.rev /\ Card(r, s.devices) \in cards'
  <2> SUFFICES ASSUME NEW s \in Now \cup {Saved'}
               PROVE  /\ IsInjective(s.items) /\ IsInjective(s.pending)
                      /\ \A it \in ToSet(s.items) : \E t \in Now : it \in ToSet(t.items)
                      /\ \A r \in ToSet(s.pending) : /\ \E t \in Now : r \in ToSet(t.pending)
                                                      /\ r.id <= laptop'.rev /\ Card(r, s.devices) \in cards'
    OBVIOUS
  <2>1. CASE s \in Now
    BY <1>6, <2>1
  <2>2. CASE s = Saved'
    <3>1. IsInjective(s.pending) /\ ToSet(s.pending) = {}
      BY <2>2 DEF FilesFollow, IsInjective, ToSet
    <3> QED BY <2>2, <3>1 DEF FilesFollow
  <2> QED BY <2>1, <2>2
<1> HIDE DEF Now
<1>10. \A s \in Known' : \A it \in ToSet(s.items) : it.id <= added' /\ it.time > 0
  BY <1>6, <1>9
<1>11. ASSUME NEW s \in Known', NEW t \in Known'
       PROVE  /\ \A a \in ToSet(s.items), b \in ToSet(t.items) : a.id = b.id => a = b
              /\ \A a \in ToSet(s.pending), b \in ToSet(t.pending) : a.id = b.id => a = b
  BY <1>8, <1>9
<1> QED BY <1>9, <1>10, <1>11 DEF KnownInv

\* The compose box is where it was.
LEMMA BusyStays ==
  ASSUME BusyInv, UNCHANGED <<fetches, posts>>, shown'.sending = shown.sending
  PROVE  BusyInv'
BY DEF BusyInv

\* So are the messages.
LEMMA SendStays ==
  ASSUME SendInv, UNCHANGED <<stored, typed, posts, lost>>, shown'.draft = shown.draft
  PROVE  SendInv'
BY DEF SendInv, SentOnce, Repeatable

\* The page has not heard of anything.
LEMMA CatchStays ==
  ASSUME CatchInv, UNCHANGED <<laptop, up, live, heard, announced, fetches, state, banner, overtaken>>
  PROVE  CatchInv'
BY DEF CatchInv, Tells

\* The badge stays.
LEMMA ReadStays ==
  ASSUME ReadInv, UNCHANGED <<state, lastSeen, unread, read>>
  PROVE  ReadInv'
BY DEF ReadInv

\* The view stays, but for its compose box.
LEMMA ShowStays ==
  ASSUME ShowInv, state' = state, Alike(shown, shown'), cards \subseteq cards'
  PROVE  ShowInv'
<1>1. \A s : (Shows(shown, s) <=> Shows(shown', s)) /\ (Blank(shown) <=> Blank(shown'))
  BY AlikeShow
<1>2. state = None => Blank(shown) /\ Blank(shown')
  BY <1>1 DEF ShowInv
<1>3. state # None => Shows(shown, state) /\ Shows(shown', state)
  BY <1>1 DEF ShowInv
<1>4. Blank(shown)' = Blank(shown') /\ Shows(shown, state)' = Shows(shown', state')
  BY DEF Blank, Shows
<1>5. shown'.view = "approvals" => ToSet(shown'.rows) \subseteq cards'
  BY DEF ShowInv, Alike
<1> QED BY <1>2, <1>3, <1>4, <1>5 DEF ShowInv

\* Nothing happens.
LEMMA PageStutters ==
  ASSUME PageInv, UNCHANGED adminVars
  PROVE  PageInv'
<1> USE DEF adminVars, laptopVars, savedVars, pageVars, liveVars, Saved
<1>1. PageTypes'
  BY DEF PageInv, PageTypes
<1>2. KnownInv'
  BY DEF PageInv, KnownInv, Known
<1>3. BusyInv' /\ SendInv' /\ CatchInv' /\ ReadInv'
  BY BusyStays, SendStays, CatchStays, ReadStays DEF PageInv
<1>4. ShowInv'
  BY ShowStays DEF PageInv, PageTypes, Alike
<1> QED BY <1>1, <1>2, <1>3, <1>4 DEF PageInv

---------------------------------------------------------------------------------
(* The laptop's steps.                                                           *)

\* What has no part in the page's own state.
LEMMA LaptopMoves ==
  ASSUME PageInv, Follows(laptop', added'), FilesFollow, clock' \in Nat \ {0}, Phones,
         Announce \/ UNCHANGED <<announced, heard>>
  PROVE  PageInv'
<1> USE DEF Phones, pageVars
<1>1. PageTypes /\ KnownInv /\ BusyInv /\ SendInv /\ CatchInv /\ ReadInv /\ ShowInv
  BY DEF PageInv
<1>2. /\ laptop' \in State /\ laptop'.rev = laptop.rev + 1 /\ added' \in {added, added + 1} /\ laptop.rev \in Nat
      /\ Saved' \in State /\ cards \subseteq cards'
  BY <1>1 DEF Follows, FilesFollow, ItemsFollow, PageTypes, State
<1>3. PageTypes'
  <2>1. heard' \in Nat /\ added' \in Nat
    BY <1>1, <1>2 DEF PageTypes, Announce
  <2> QED BY <1>1, <1>2, <2>1 DEF PageTypes
<1>4. KnownInv'
  <2>1. Known' \subseteq Known \cup {laptop', Saved'}
    BY DEF Known
  <2> QED BY <1>1, <2>1, KnownGrows
<1>5. BusyInv' /\ SendInv' /\ ReadInv'
  BY <1>1, BusyStays, SendStays, ReadStays
<1>6. CatchInv'
  <2>1. CASE Announce
    <3>1. live' = "open" => heard' # 0
      BY <1>1, <2>1 DEF Announce, PageTypes
    <3> QED BY <1>1, <1>2, <2>1, <3>1 DEF CatchInv, Announce
  <2>2. CASE UNCHANGED <<announced, heard>>
    <3>1. announced' \in Nat /\ announced' <= laptop'.rev
      BY <1>1, <1>2, <2>2 DEF CatchInv
    <3> QED BY <1>1, <2>2, <3>1 DEF CatchInv, Tells
  <2> QED BY <2>1, <2>2
<1>7. ShowInv'
  BY <1>1, <1>2, ShowStays DEF PageTypes, Alike
<1> QED BY <1>3, <1>4, <1>5, <1>6, <1>7 DEF PageInv

\* A phone sends a message or a file.
LEMMA PhoneSendsKeeps ==
  ASSUME PageInv, NEW p \in Phone, NEW kind \in {"text", "file"}, NEW time \in {clock, clock + 1},
         PhoneSends(p, kind, time)
  PROVE  PageInv'
<1>1. PageTypes /\ KnownInv /\ laptop \in State /\ laptop.devices \in Seq(DeviceSet)
  BY DEF PageInv, PageTypes, State
<1>2. time \in Nat \ {0}
  BY <1>1 DEF PageTypes
<1> DEFINE items == Append(laptop.items, NewItem(p, kind, "phone", time))
<1>3. ItemsFollow(items, added + 1) /\ PendingFollow(laptop.pending)
  BY <1>1, <1>2, ItemsGrow, PendingKeeps
<1>4. /\ Changed(WithItem(NewItem(p, kind, "phone", time)))
      /\ added' = added + 1 /\ clock' = time /\ Phones
      /\ (SaveItems /\ Announce) \/ NotSaved
  BY DEF PhoneSends
<1>5. WithItem(NewItem(p, kind, "phone", time))
         = [laptop EXCEPT !.devices = laptop.devices, !.items = items, !.pending = laptop.pending]
  BY <1>1 DEF WithItem, State
<1> HIDE DEF items
<1>6. Follows(laptop', added')
  BY <1>1, <1>3, <1>4, <1>5, LaptopFollows
<1>7. FilesFollow /\ (Announce \/ UNCHANGED <<announced, heard>>)
  BY <1>1, <1>4, <1>6, FilesKeep DEF NotSaved
<1> QED BY <1>2, <1>4, <1>6, <1>7, LaptopMoves

\* A request waits.
LEMMA RequestWaitsKeeps ==
  ASSUME PageInv, NEW p \in Phone, NEW name \in Name, NEW b \in BOOLEAN, RequestWaits(p, name, b)
  PROVE  PageInv'
<1>1. PageTypes /\ KnownInv /\ laptop \in State /\ laptop.devices \in Seq(DeviceSet) /\ clock \in Nat \ {0}
  BY DEF PageInv, PageTypes, State
<1> DEFINE waiting == Append(laptop.pending, [id |-> laptop.rev + 1, phone |-> p, name |-> name,
                                               isRepair |-> b])
<1>2. ItemsFollow(laptop.items, added) /\ PendingFollow(waiting)
  BY <1>1, ItemsKeep, PendingGrows
<1>3. /\ Changed([laptop EXCEPT !.pending = waiting]) /\ added' = added /\ clock' = clock /\ Announce /\ Phones
      /\ UNCHANGED <<savedDevices, savedItems>>
  BY DEF RequestWaits, savedVars
<1> HIDE DEF waiting
<1>4. [laptop EXCEPT !.pending = waiting]
         = [laptop EXCEPT !.devices = laptop.devices, !.items = laptop.items, !.pending = waiting]
  BY <1>1 DEF State
<1>5. Follows(laptop', added')
  BY <1>1, <1>2, <1>3, <1>4, LaptopFollows
<1>6. FilesFollow
  BY <1>1, <1>3, FilesKeep
<1> QED BY <1>1, <1>3, <1>5, <1>6, LaptopMoves

\* A request runs out.
LEMMA RequestRunsOutKeeps ==
  ASSUME PageInv, RequestRunsOut
  PROVE  PageInv'
<1>1. PageTypes /\ KnownInv /\ laptop \in State /\ laptop.devices \in Seq(DeviceSet) /\ clock \in Nat \ {0}
  BY DEF PageInv, PageTypes, State
<1>2. /\ laptop.pending # <<>> /\ Changed([laptop EXCEPT !.pending = Tail(laptop.pending)])
      /\ added' = added /\ clock' = clock /\ UNCHANGED <<savedDevices, savedItems, announced, heard>> /\ Phones
  BY DEF RequestRunsOut, savedVars
<1>3. ItemsFollow(laptop.items, added) /\ PendingFollow(Tail(laptop.pending))
  BY <1>1, <1>2, ItemsKeep, PendingKeeps
<1>4. [laptop EXCEPT !.pending = Tail(laptop.pending)]
         = [laptop EXCEPT !.devices = laptop.devices, !.items = laptop.items, !.pending = Tail(laptop.pending)]
  BY <1>1 DEF State
<1>5. Follows(laptop', added')
  BY <1>1, <1>2, <1>3, <1>4, LaptopFollows
<1>6. FilesFollow
  BY <1>1, <1>2, FilesKeep
<1> QED BY <1>1, <1>2, <1>5, <1>6, LaptopMoves

\* What the page has posted is what it was, but for what came of it.
LEMMA PostAnswered ==
  ASSUME PageTypes, NEW i \in DOMAIN posts, NEW s \in {"asked", "taken", "refused", "failed"}
  PROVE  LET new == [posts EXCEPT ![i].status = s]
         IN  /\ new \in Seq(Request) /\ DOMAIN new = DOMAIN posts
             /\ \A j \in DOMAIN posts :
                   /\ new[j].act = posts[j].act /\ new[j].arg = posts[j].arg /\ new[j].mine = posts[j].mine
                   /\ new[j].status = IF j = i THEN s ELSE posts[j].status
<1> DEFINE e == [posts[i] EXCEPT !.status = s]
           new == [posts EXCEPT ![i] = e]
<1>1. posts \in Seq(Request) /\ posts[i] \in Request
  BY ListEntries DEF PageTypes
<1>2. /\ e \in Request /\ e.act = posts[i].act /\ e.arg = posts[i].arg /\ e.mine = posts[i].mine
      /\ e.status = s
  BY <1>1 DEF Request
<1>3. [posts EXCEPT ![i].status = s] = new
  OBVIOUS
<1> HIDE DEF e
<1>4. /\ new \in Seq(Request) /\ DOMAIN new = DOMAIN posts
      /\ \A j \in DOMAIN posts : new[j] = IF j = i THEN e ELSE posts[j]
  BY <1>1, <1>2, ReplacedEntry
<1> HIDE DEF new
<1> QED BY <1>2, <1>3, <1>4

\* The ids of a list are the ids of its entries.
LEMMA IdsOfEntries ==
  ASSUME NEW list, NEW id
  PROVE  id \in ToSet(Ids(list)) <=> \E e \in ToSet(list) : e.id = id
BY DEF Ids, ToSet

\* An approved phone is among the phones.
LEMMA ApprovedFollows ==
  ASSUME PageTypes, NEW id, id \in ToSet(Ids(laptop.pending))
  PROVE  \E devices \in Seq(DeviceSet) : Approved(id) = [laptop EXCEPT !.devices = devices]
<1>1. laptop.devices \in Seq(DeviceSet) /\ laptop.pending \in Seq(RequestSet)
  BY DEF PageTypes, State
<1> DEFINE r == CHOOSE r \in ToSet(laptop.pending) : r.id = id
           devices == Replaced(laptop.devices, r)
<1>2. r \in ToSet(laptop.pending)
  BY IdsOfEntries
<1>3. r \in RequestSet
  BY <1>1, <1>2, ListEntries
<1>4. Approved(id) = [laptop EXCEPT !.devices = devices]
  BY DEF Approved
<1> HIDE DEF r
<1> DEFINE d == [id |-> r.phone, name |-> r.name]
<1>5. d \in DeviceSet
  BY <1>3 DEF DeviceSet, RequestSet
<1>6. devices \in Seq(DeviceSet)
  <2> HIDE DEF d
  <2>1. CASE r.phone \in ToSet(Ids(laptop.devices))
    <3> DEFINE new == [j \in DOMAIN laptop.devices |-> IF laptop.devices[j].id = r.phone THEN d
                                                       ELSE laptop.devices[j]]
    <3>1. devices = new
      BY <2>1 DEF Replaced, d
    <3>2. \A j \in DOMAIN laptop.devices : new[j] \in DeviceSet
      BY <1>1, <1>5, ListEntries
    <3>3. new \in Seq(DeviceSet)
      <4>1. DOMAIN new = DOMAIN laptop.devices /\ new = [j \in DOMAIN laptop.devices |-> new[j]]
        OBVIOUS
      <4> HIDE DEF new
      <4> QED BY <1>1, <3>2, <4>1, ChangedEntries
    <3> QED BY <3>1, <3>3
  <2>2. CASE r.phone \notin ToSet(Ids(laptop.devices))
    <3>1. devices = Append(laptop.devices, d)
      BY <2>2 DEF Replaced, d
    <3> QED BY <1>1, <1>5, <3>1, PushProperties
  <2> QED BY <2>1, <2>2
<1> QED BY <1>4, <1>6

\* What the laptop makes of a request that it takes, saved or not.
LEMMA OutcomeFollows ==
  ASSUME PageTypes, KnownInv, NEW post \in Request, Taken(post),
         NEW next \in {Outcome(post), Unsaved(post)}, Changed(next),
         added' = IF post.act \in {"text", "upload"} THEN added + 1 ELSE added
  PROVE  Follows(laptop', added')
<1> USE DEF Taken, Outcome, Unsaved
<1>1. /\ laptop \in State /\ laptop.devices \in Seq(DeviceSet) /\ laptop.pending \in Seq(RequestSet)
      /\ clock \in Nat \ {0}
  BY DEF PageTypes, State
<1>2. /\ ItemsFollow(laptop.items, added) /\ ItemsFollow(<<>>, added)
      /\ \A id : ItemsFollow(WithoutId(laptop.items, id), added)
      /\ PendingFollow(laptop.pending) /\ \A id : PendingFollow(WithoutId(laptop.pending, id))
  BY ItemsKeep, PendingKeeps DEF WithoutId
<1>3. \A d \in ToSet(laptop.devices) : d.id \in Phone
  <2>1. \A d \in ToSet(laptop.devices) : d \in DeviceSet
    BY <1>1, ListEntries
  <2> QED BY <2>1 DEF DeviceSet
<1>4. ASSUME NEW kind \in {"text", "file"}, post.device \in Paired,
             next = WithItem(NewItem(post.device, kind, "laptop", clock)), added' = added + 1
      PROVE  Follows(laptop', added')
  <2> DEFINE items == Append(laptop.items, NewItem(post.device, kind, "laptop", clock))
  <2>1. post.device \in Phone
    BY <1>3, <1>4, IdsOfEntries DEF Paired
  <2>2. ItemsFollow(items, added + 1)
    BY <1>1, <2>1, ItemsGrow
  <2>3. next = [laptop EXCEPT !.devices = laptop.devices, !.items = items, !.pending = laptop.pending]
    BY <1>1, <1>4 DEF WithItem, State
  <2> HIDE DEF items, Outcome, Unsaved
  <2> QED BY <1>1, <1>2, <1>4, <2>2, <2>3, LaptopFollows
<1>5. CASE post.act \in {"text", "upload"}
  <2>1. \E kind \in {"text", "file"} : next = WithItem(NewItem(post.device, kind, "laptop", clock))
    BY <1>5
  <2> QED BY <1>4, <1>5, <2>1
<1>6. CASE post.act = "approve"
  <2>1. PICK devices \in Seq(DeviceSet) : Approved(post.arg) = [laptop EXCEPT !.devices = devices]
    BY <1>6, ApprovedFollows
  <2>2. \E waiting : /\ PendingFollow(waiting)
                    /\ next = [laptop EXCEPT !.devices = devices, !.items = laptop.items, !.pending = waiting]
    <3>1. CASE next = Approved(post.arg)
      <4>1. next = [laptop EXCEPT !.devices = devices, !.items = laptop.items, !.pending = laptop.pending]
        BY <1>1, <2>1, <3>1 DEF State
      <4> QED BY <1>2, <4>1
    <3>2. CASE next = [Approved(post.arg) EXCEPT !.pending = WithoutId(Approved(post.arg).pending, post.arg)]
      <4>1. next = [laptop EXCEPT !.devices = devices, !.items = laptop.items,
                                  !.pending = WithoutId(laptop.pending, post.arg)]
        BY <1>1, <2>1, <3>2 DEF State
      <4> QED BY <1>2, <4>1
    <3> QED BY <1>6, <3>1, <3>2
  <2>3. added' = added
    BY <1>6
  <2> HIDE DEF Outcome, Unsaved
  <2> QED BY <1>2, <2>2, <2>3, LaptopFollows
<1>7. CASE post.act = "deny"
  <2>1. next = [laptop EXCEPT !.devices = laptop.devices, !.items = laptop.items,
                              !.pending = WithoutId(laptop.pending, post.arg)]
    BY <1>1, <1>7 DEF State
  <2> QED BY <1>1, <1>2, <1>7, <2>1, LaptopFollows
<1>8. CASE post.act = "revoke"
  <2> DEFINE devices == WithoutId(laptop.devices, post.device)
  <2>1. devices \in Seq(DeviceSet)
    BY <1>1, OnlyProperties DEF WithoutId
  <2>2. next = [laptop EXCEPT !.devices = devices, !.items = laptop.items, !.pending = laptop.pending]
    BY <1>1, <1>8 DEF State
  <2> HIDE DEF devices, Outcome, Unsaved
  <2> QED BY <1>2, <1>8, <2>1, <2>2, LaptopFollows
<1>9. CASE post.act = "delete"
  <2>1. next = [laptop EXCEPT !.devices = laptop.devices, !.items = WithoutId(laptop.items, post.arg),
                              !.pending = laptop.pending]
    BY <1>1, <1>9 DEF State
  <2> QED BY <1>1, <1>2, <1>9, <2>1, LaptopFollows
<1>10. CASE post.act = "clear"
  <2>1. next = [laptop EXCEPT !.devices = laptop.devices, !.items = <<>>, !.pending = laptop.pending]
    BY <1>1, <1>10 DEF State
  <2> QED BY <1>1, <1>2, <1>10, <2>1, LaptopFollows
<1> QED BY <1>5, <1>6, <1>7, <1>8, <1>9, <1>10 DEF Request

StillRepeatable(text) == text \in ToSet(stored') => text \in lost'

\* A message that the laptop takes was not stored yet, or its sender does not know.
LEMMA AnswerSends ==
  ASSUME PageTypes, SendInv, NEW i \in DOMAIN posts, NEW s \in {"taken", "refused"},
         posts[i].status = "asked", posts' = [posts EXCEPT ![i].status = s], UNCHANGED <<shown, typed>>,
         \/ UNCHANGED <<stored, lost>> /\ ~(posts[i].act = "text" /\ s = "taken")
         \/ /\ posts[i].act = "text" /\ stored' = Append(stored, posts[i].arg)
            /\ \/ s = "taken" /\ lost' = lost
               \/ lost' = lost \cup {posts[i].arg}
  PROVE  SendInv'
<1> DEFINE post == posts[i]
<1>1. post \in Request /\ post.status = "asked" /\ stored \in Seq(1..typed) /\ typed \in Nat
  BY ListEntries DEF PageTypes, SendInv
<1>2. PICK arg : arg = post.arg
  OBVIOUS
<1> HIDE DEF post
<1>3. /\ DOMAIN posts' = DOMAIN posts
      /\ \A j \in DOMAIN posts :
            /\ posts'[j].act = posts[j].act /\ posts'[j].arg = posts[j].arg /\ posts'[j].mine = posts[j].mine
            /\ posts'[j].status = IF j = i THEN s ELSE posts[j].status
  BY PostAnswered
<1>4. CASE UNCHANGED <<stored, lost>> /\ ~(posts[i].act = "text" /\ s = "taken")
  <2>1. \A j \in DOMAIN posts : posts'[j].act = "text" /\ posts'[j].status # "taken" => posts[j].status # "taken"
    BY <1>1, <1>3, <1>4 DEF post
  <2> QED BY <1>3, <1>4, <2>1 DEF SendInv, SentOnce, Repeatable
<1>5. CASE /\ posts[i].act = "text" /\ stored' = Append(stored, posts[i].arg)
           /\ (s = "taken" /\ lost' = lost) \/ lost' = lost \cup {posts[i].arg}
  <2>1. arg \in 1..typed /\ Repeatable(arg) /\ lost \subseteq lost' /\ (s = "taken" \/ arg \in lost')
    BY <1>1, <1>2, <1>5 DEF SendInv, post
  <2>2. /\ stored' \in Seq(1..typed) /\ DOMAIN stored' = 1..(Len(stored) + 1)
        /\ DOMAIN stored = 1..Len(stored) /\ Len(stored) \in Nat
        /\ \A j \in DOMAIN stored : stored'[j] = stored[j] /\ stored[j] \in ToSet(stored)
        /\ stored'[Len(stored) + 1] = arg
        /\ ToSet(stored') = ToSet(stored) \cup {arg}
    <3>1. stored' = Append(stored, arg)
      BY <1>2, <1>5 DEF post
    <3> QED BY <1>1, <2>1, <3>1, AddedEntry, PushProperties, ListEntries
  <2>3. SentOnce'
    <3> SUFFICES ASSUME NEW j \in DOMAIN stored', NEW k \in DOMAIN stored', stored'[j] = stored'[k], j # k
                 PROVE  stored'[j] \in lost
      BY <2>1 DEF SentOnce
    <3>1. CASE j \in DOMAIN stored /\ k \in DOMAIN stored
      BY <2>2, <3>1 DEF SendInv, SentOnce
    <3>2. CASE j \notin DOMAIN stored \/ k \notin DOMAIN stored
      <4>1. /\ stored'[j] = arg /\ (j \in DOMAIN stored \/ k \in DOMAIN stored)
        BY <2>2, <3>2
      <4>2. arg \in ToSet(stored)
        BY <2>2, <4>1
      <4> QED BY <2>1, <4>1, <4>2 DEF Repeatable
    <3> QED BY <3>1, <3>2
  <2>4. \A text : text # arg /\ Repeatable(text) => StillRepeatable(text)
    BY <2>1, <2>2 DEF Repeatable, StillRepeatable
  <2>5. \A j \in DOMAIN posts : posts[j].act = "text" /\ j # i => posts[j].arg # arg
    BY <1>2, <1>5 DEF SendInv, post
  <2>6. \A j \in DOMAIN posts' : posts'[j].act = "text" =>
           /\ posts'[j].arg \in 1..typed /\ (posts'[j].arg = shown.draft => posts'[j].mine)
           /\ posts'[j].status # "taken" => StillRepeatable(posts'[j].arg)
    <3> SUFFICES ASSUME NEW j \in DOMAIN posts, posts[j].act = "text"
                 PROVE  /\ posts[j].arg \in 1..typed /\ (posts[j].arg = shown.draft => posts[j].mine)
                        /\ posts'[j].status # "taken" => StillRepeatable(posts[j].arg)
      BY <1>3
    <3>1. CASE j = i
      <4>1. posts[j].arg = arg /\ posts'[j].status = s
        BY <1>2, <1>3, <3>1 DEF post
      <4> QED BY <2>1, <4>1 DEF SendInv, StillRepeatable
    <3>2. CASE j # i
      <4>1. posts'[j].status = posts[j].status
        BY <1>3, <3>2
      <4> QED BY <2>4, <2>5, <3>2, <4>1 DEF SendInv
    <3> QED BY <3>1, <3>2
  <2>7. \A j, k \in DOMAIN posts' :
           posts'[j].act = "text" /\ posts'[k].act = "text" /\ posts'[j].arg = posts'[k].arg => j = k
    BY <1>3 DEF SendInv
  <2>8. (\A j \in DOMAIN posts' : posts'[j].act = "text" => posts'[j].arg # shown.draft)
           => StillRepeatable(shown.draft)
    <3> SUFFICES ASSUME \A j \in DOMAIN posts : posts[j].act = "text" => posts[j].arg # shown.draft
                 PROVE  StillRepeatable(shown.draft)
      BY <1>3
    <3>1. Repeatable(shown.draft) /\ shown.draft # arg
      BY <1>2, <1>5 DEF SendInv, post
    <3> QED BY <2>4, <3>1
  <2> QED BY <2>2, <2>3, <2>6, <2>7, <2>8 DEF SendInv, Repeatable, StillRepeatable
<1> QED BY <1>4, <1>5

\* An answer of the laptop to a request of the page.
LEMMA AnswerKeeps ==
  ASSUME PageInv, NEW i \in DOMAIN posts, NEW s \in {"taken", "refused"}, Answers(i, s), SendInv',
         \/ UNCHANGED <<laptop, cards, added, savedDevices, savedItems, announced, heard>>
         \/ /\ Follows(laptop', added') /\ FilesFollow
            /\ Announce \/ UNCHANGED <<announced, heard>>
  PROVE  PageInv'
<1>1. PageTypes /\ KnownInv /\ BusyInv /\ SendInv /\ CatchInv /\ ReadInv /\ ShowInv
  BY DEF PageInv
<1>2. /\ posts' = [posts EXCEPT ![i].status = s]
      /\ UNCHANGED <<up, clock, state, shown, lastSeen, unread, read, live, offline, fetches, banner, typed,
                     overtaken>>
  BY DEF Answers, pageVars
<1>3. /\ posts' \in Seq(Request) /\ DOMAIN posts' = DOMAIN posts
      /\ \A j \in DOMAIN posts :
            /\ posts'[j].act = posts[j].act /\ posts'[j].arg = posts[j].arg /\ posts'[j].mine = posts[j].mine
            /\ posts'[j].status = IF j = i THEN s ELSE posts[j].status
  <2>1. posts' \in Seq(Request)
    BY <1>1, <1>2, PostAnswered
  <2>2. DOMAIN posts' = DOMAIN posts
    BY <1>1, <1>2, PostAnswered
  <2>3. \A j \in DOMAIN posts :
            /\ posts'[j].act = posts[j].act /\ posts'[j].arg = posts[j].arg /\ posts'[j].mine = posts[j].mine
            /\ posts'[j].status = IF j = i THEN s ELSE posts[j].status
    BY <1>1, <1>2, PostAnswered
  <2> QED BY <2>1, <2>2, <2>3
<1>4. ASSUME Follows(laptop', added'), FilesFollow, Announce \/ UNCHANGED <<announced, heard>>
      PROVE  PageTypes' /\ KnownInv' /\ CatchInv' /\ cards \subseteq cards'
  <2>1. /\ laptop' \in State /\ laptop'.rev \in Nat /\ added' \in Nat /\ heard' \in Nat /\ Saved' \in State
        /\ cards \subseteq cards' /\ laptop'.rev = laptop.rev + 1 /\ laptop.rev \in Nat
    <3>1. laptop \in State /\ {added, heard} \subseteq Nat
      BY <1>1 DEF PageTypes
    <3>2. /\ laptop' \in State /\ laptop'.rev = laptop.rev + 1 /\ added' \in {added, added + 1}
          /\ cards \subseteq cards'
      BY <1>4 DEF Follows, ItemsFollow
    <3>3. Saved' \in State
      BY <1>4 DEF FilesFollow
    <3>4. heard' \in {heard, heard + 1}
      BY <1>4 DEF Announce
    <3>5. laptop.rev \in Nat /\ laptop'.rev \in Nat
      BY <3>1, <3>2 DEF State
    <3> QED BY <3>1, <3>2, <3>3, <3>4, <3>5
  <2>2. PageTypes'
    BY <1>1, <1>2, <1>3, <2>1 DEF PageTypes
  <2>3. KnownInv'
    <3>1. Known' \subseteq Known \cup {laptop', Saved'}
      BY <1>2 DEF Known
    <3> QED BY <1>1, <1>4, <3>1, KnownGrows
  <2>4. CASE Announce
    <3>1. live' = "open" => heard' # 0
      BY <1>1, <1>2, <2>4 DEF Announce, PageTypes
    <3>2. CatchInv'
      BY <1>1, <1>2, <2>1, <2>4, <3>1 DEF CatchInv, Announce
    <3> QED BY <2>1, <2>2, <2>3, <3>2
  <2>5. CASE UNCHANGED <<announced, heard>>
    <3>1. announced' \in Nat /\ announced' <= laptop'.rev
      BY <1>1, <2>1, <2>5 DEF CatchInv
    <3>2. CatchInv'
      BY <1>1, <1>2, <2>5, <3>1 DEF CatchInv, Tells
    <3> QED BY <2>1, <2>2, <2>3, <3>2
  <2> QED BY <1>4, <2>4, <2>5
<1>5. ASSUME UNCHANGED <<laptop, cards, added, savedDevices, savedItems, announced, heard>>
      PROVE  PageTypes' /\ KnownInv' /\ CatchInv' /\ cards \subseteq cards'
  <2>1. Saved' = Saved
    BY <1>5 DEF Saved
  <2>2. PageTypes'
    BY <1>1, <1>2, <1>3, <1>5, <2>1 DEF PageTypes
  <2>3. KnownInv'
    <3>1. Known' \subseteq Known
      BY <1>2, <1>5, <2>1 DEF Known
    <3> QED BY <1>1, <1>5, <3>1, KnownStays
  <2>4. CatchInv'
    BY <1>1, <1>2, <1>5, CatchStays
  <2> QED BY <1>5, <2>2, <2>3, <2>4
<1>6. PageTypes' /\ KnownInv' /\ CatchInv' /\ cards \subseteq cards'
  BY <1>4, <1>5
<1>7. BusyInv'
  BY <1>1, <1>2, <1>3 DEF BusyInv, IsMine
<1>8. ReadInv' /\ ShowInv'
  BY <1>1, <1>2, <1>6, ReadStays, ShowStays DEF PageTypes, Alike
<1> QED BY <1>6, <1>7, <1>8 DEF PageInv

\* The laptop refuses a request.
LEMMA HandleRefusesKeeps ==
  ASSUME PageInv, NEW i \in DOMAIN posts, HandleRefuses(i)
  PROVE  PageInv'
<1>1. PageTypes /\ SendInv
  BY DEF PageInv
<1>2. /\ Answers(i, "refused") /\ posts[i].status = "asked"
      /\ posts' = [posts EXCEPT ![i].status = "refused"] /\ UNCHANGED <<shown, typed, stored, lost>>
      /\ UNCHANGED <<laptop, cards, added, savedDevices, savedItems, announced, heard>>
  BY DEF HandleRefuses, Answers, pageVars, savedVars
<1>3. SendInv'
  BY <1>1, <1>2, AnswerSends
<1> QED BY <1>2, <1>3, AnswerKeeps

\* It takes a request, and saves what came of it.
LEMMA HandleKeeps ==
  ASSUME PageInv, NEW i \in DOMAIN posts, Handle(i)
  PROVE  PageInv'
<1> DEFINE post == posts[i]
<1>1. PageTypes /\ KnownInv /\ SendInv
  BY DEF PageInv
<1>2. post \in Request
  BY <1>1, ListEntries DEF PageTypes
<1>3. /\ Taken(post) /\ Answers(i, "taken") /\ post.status = "asked"
      /\ posts' = [posts EXCEPT ![i].status = "taken"] /\ UNCHANGED <<shown, typed, lost>>
      /\ added' = IF post.act \in {"text", "upload"} THEN added + 1 ELSE added
      /\ stored' = IF post.act = "text" THEN Append(stored, post.arg) ELSE stored
  BY DEF Handle, Answers, Counts, pageVars
<1>4. SendInv'
  BY <1>1, <1>3, AnswerSends
<1>5. CASE post.act \in {"delete", "clear"} /\ Outcome(post) = laptop
  <2>1. UNCHANGED <<laptop, cards, savedDevices, savedItems, announced, heard>> /\ added' = added
    BY <1>3, <1>5 DEF Handle, savedVars
  <2> QED BY <1>3, <1>4, <2>1, AnswerKeeps
<1>6. CASE ~(post.act \in {"delete", "clear"} /\ Outcome(post) = laptop)
  <2>1. /\ Changed(Outcome(post)) /\ Announce
        /\ SaveDevices \/ UNCHANGED <<savedDevices, savedItems>> \/ SaveItems
    BY <1>6 DEF Handle, savedVars
  <2>2. Follows(laptop', added')
    BY <1>1, <1>2, <1>3, <2>1, OutcomeFollows
  <2>3. FilesFollow
    BY <1>1, <2>1, <2>2, FilesKeep
  <2> QED BY <1>3, <1>4, <2>1, <2>2, <2>3, AnswerKeeps
<1> QED BY <1>5, <1>6

\* It takes a request, and cannot save what came of it.
LEMMA HandleFailsKeeps ==
  ASSUME PageInv, NEW i \in DOMAIN posts, HandleFails(i)
  PROVE  PageInv'
<1> DEFINE post == posts[i]
<1>1. PageTypes /\ KnownInv /\ SendInv
  BY DEF PageInv
<1>2. post \in Request
  BY <1>1, ListEntries DEF PageTypes
<1>3. /\ Taken(post) /\ Answers(i, "refused") /\ post.status = "asked"
      /\ posts' = [posts EXCEPT ![i].status = "refused"] /\ UNCHANGED <<shown, typed>>
      /\ added' = IF post.act \in {"text", "upload"} THEN added + 1 ELSE added
      /\ stored' = IF post.act = "text" THEN Append(stored, post.arg) ELSE stored
      /\ lost' = IF post.act = "text" THEN lost \cup {post.arg} ELSE lost
  BY DEF HandleFails, Answers, Counts, pageVars
<1>4. SendInv'
  BY <1>1, <1>3, AnswerSends
<1>5. \/ Changed(Unsaved(post)) /\ NotSaved
      \/ post.act = "clear" /\ \E n \in DOMAIN laptop.items : ClearFails(n)
  BY DEF HandleFails
<1>6. CASE Changed(Unsaved(post)) /\ NotSaved
  <2>1. Follows(laptop', added')
    BY <1>1, <1>2, <1>3, <1>6, OutcomeFollows
  <2>2. FilesFollow
    BY <1>1, <1>6, FilesKeep DEF NotSaved
  <2> QED BY <1>3, <1>4, <1>6, <2>1, <2>2, AnswerKeeps DEF NotSaved
<1>7. ASSUME post.act = "clear", NEW n \in DOMAIN laptop.items, ClearFails(n) PROVE PageInv'
  <2>1. /\ laptop \in State /\ laptop.items \in Seq(ItemSet) /\ laptop.devices \in Seq(DeviceSet)
        /\ laptop.pending \in Seq(RequestSet)
    BY <1>1 DEF PageTypes, State
  <2>2. n \in 1..(Len(laptop.items) + 1) /\ n + 1 \in 1..(Len(laptop.items) + 1)
    <3>1. DOMAIN laptop.items = 1..Len(laptop.items) /\ Len(laptop.items) \in Nat
      BY <2>1, LenProperties
    <3> QED BY <3>1
  <2> DEFINE rest == SubSeq(laptop.items, n + 1, Len(laptop.items))
  <2>3. /\ Changed([laptop EXCEPT !.items = rest])
        /\ \/ NotSaved
           \/ /\ savedItems' = SubSeq(laptop.items, n, Len(laptop.items)) /\ savedDevices' = savedDevices
              /\ Announce
    BY <1>7 DEF ClearFails
  <2>4. ItemsFollow(rest, added) /\ PendingFollow(laptop.pending)
    BY <1>1, <2>2, ItemsKeep, PendingKeeps
  <2> HIDE DEF rest
  <2>5. [laptop EXCEPT !.items = rest]
           = [laptop EXCEPT !.devices = laptop.devices, !.items = rest, !.pending = laptop.pending]
    BY <2>1 DEF State
  <2>6. added' = added
    BY <1>3, <1>7
  <2>7. Follows(laptop', added')
    BY <1>1, <2>1, <2>3, <2>4, <2>5, <2>6, LaptopFollows
  <2>8. FilesFollow /\ (Announce \/ UNCHANGED <<announced, heard>>)
    BY <1>1, <2>2, <2>3, FilesKeep DEF NotSaved
  <2> QED BY <1>3, <1>4, <2>7, <2>8, AnswerKeeps
<1> QED BY <1>5, <1>6, <1>7

\* The laptop ends: what was under way fails.
LEMMA EndsKeeps ==
  ASSUME PageInv, Ends
  PROVE  PageInv'
<1>1. PageTypes /\ KnownInv /\ BusyInv /\ SendInv /\ CatchInv /\ ReadInv /\ ShowInv
  BY DEF PageInv
<1> DEFINE Fails(answer, cut) == answer = "asked" \/ cut
<1>2. PICK cut \in BOOLEAN :
         /\ fetches' = [i \in DOMAIN fetches |->
                           IF Fails(fetches[i].status, cut)
                           THEN [fetches[i] EXCEPT !.status = "failed", !.state = None] ELSE fetches[i]]
         /\ posts' = [i \in DOMAIN posts |->
                         IF Fails(posts[i].status, cut) THEN [posts[i] EXCEPT !.status = "failed"]
                         ELSE posts[i]]
         /\ lost' = lost \cup {p.arg : p \in {q \in ToSet(posts) :
                                   cut /\ q.act = "text" /\ q.status = "taken"}}
  BY DEF Ends
<1>3. /\ up' = FALSE /\ Changed(Saved)
      /\ live' = IF live = "open" THEN "cut" ELSE live
      /\ UNCHANGED <<clock, added, savedDevices, savedItems, announced, stored, state, shown, lastSeen, unread, read, offline, heard,
                     banner, typed, overtaken>>
  BY DEF Ends, pageVars, savedVars
<1>4. /\ fetches \in Seq(FetchSet) /\ posts \in Seq(Request)
      /\ laptop \in State /\ laptop.devices \in Seq(DeviceSet)
  BY <1>1 DEF PageTypes, State
<1>5. \A i \in DOMAIN fetches : /\ fetches'[i] \in FetchSet /\ fetches'[i].forSend = fetches[i].forSend
                                /\ fetches'[i].state \in {fetches[i].state, None}
  <2> SUFFICES ASSUME NEW i \in DOMAIN fetches
               PROVE  /\ fetches'[i] \in FetchSet /\ fetches'[i].forSend = fetches[i].forSend
                      /\ fetches'[i].state \in {fetches[i].state, None}
    OBVIOUS
  <2>1. fetches[i] \in FetchSet
    BY <1>4, ListEntries
  <2>2. fetches'[i] \in {fetches[i], [fetches[i] EXCEPT !.status = "failed", !.state = None]}
    BY <1>2
  <2> QED BY <2>1, <2>2 DEF FetchSet
<1>6. fetches' \in Seq(FetchSet) /\ DOMAIN fetches' = DOMAIN fetches
  <2>1. DOMAIN fetches' = DOMAIN fetches /\ fetches' = [i \in DOMAIN fetches |-> fetches'[i]]
    BY <1>2
  <2> QED BY <1>4, <1>5, <2>1, ChangedEntries
<1>7. \A i \in DOMAIN posts :
         /\ posts'[i] \in Request /\ posts'[i].act = posts[i].act /\ posts'[i].arg = posts[i].arg
         /\ posts'[i].mine = posts[i].mine
         /\ posts'[i].status \in {posts[i].status, "failed"}
         /\ posts[i].status = "taken" /\ ~cut => posts'[i].status = "taken"
  <2> SUFFICES ASSUME NEW i \in DOMAIN posts
               PROVE  /\ posts'[i] \in Request /\ posts'[i].act = posts[i].act /\ posts'[i].arg = posts[i].arg
                      /\ posts'[i].mine = posts[i].mine
                      /\ posts'[i].status \in {posts[i].status, "failed"}
                      /\ posts[i].status = "taken" /\ ~cut => posts'[i].status = "taken"
    OBVIOUS
  <2>1. posts[i] \in Request
    BY <1>4, ListEntries
  <2>2. posts'[i] = IF Fails(posts[i].status, cut) THEN [posts[i] EXCEPT !.status = "failed"] ELSE posts[i]
    BY <1>2
  <2> QED BY <2>1, <2>2 DEF Request
<1>8. posts' \in Seq(Request) /\ DOMAIN posts' = DOMAIN posts
  <2>1. DOMAIN posts' = DOMAIN posts /\ posts' = [i \in DOMAIN posts |-> posts'[i]]
    BY <1>2
  <2> QED BY <1>4, <1>7, <2>1, ChangedEntries
<1>9. Follows(laptop', added')
  <2>1. ItemsFollow(savedItems, added) /\ PendingFollow(<<>>)
    BY <1>1, ItemsKeep, PendingKeeps
  <2>2. Saved \in State /\ Saved.items = savedItems /\ Saved.pending = <<>>
    BY <1>1 DEF PageTypes, Saved
  <2> QED BY <1>1, <1>3, <2>1, <2>2, ChangeFollows
<1>10. /\ laptop' \in State /\ laptop'.rev = laptop.rev + 1 /\ laptop.rev \in Nat
       /\ FilesFollow /\ Saved' = Saved /\ cards \subseteq cards'
  BY <1>1, <1>3, <1>4, <1>9, FilesKeep DEF Follows, State
<1>11. PageTypes'
  BY <1>1, <1>3, <1>6, <1>8, <1>10 DEF PageTypes
<1>12. KnownInv'
  <2>1. {f.state : f \in ToSet(fetches')} \subseteq {f.state : f \in ToSet(fetches)} \cup {None}
    BY <1>5, <1>6 DEF ToSet
  <2>2. Known' \subseteq Known \cup {laptop', Saved'}
    BY <1>3, <2>1 DEF Known
  <2> QED BY <1>1, <1>9, <1>10, <2>2, KnownGrows
<1>13. BusyInv'
  BY <1>1, <1>3, <1>5, <1>6, <1>7, <1>8 DEF BusyInv, IsMine
<1>14. SendInv'
  <2>1. \A text : Repeatable(text) => StillRepeatable(text)
    BY <1>2, <1>3 DEF Repeatable, StillRepeatable
  <2>2. \A i \in DOMAIN posts : posts[i].act = "text" /\ posts'[i].status # "taken" => StillRepeatable(posts[i].arg)
    <3> SUFFICES ASSUME NEW i \in DOMAIN posts, posts[i].act = "text", posts'[i].status # "taken"
                 PROVE  StillRepeatable(posts[i].arg)
      OBVIOUS
    <3>1. CASE posts[i].status # "taken"
      BY <1>1, <2>1, <3>1 DEF SendInv
    <3>2. CASE posts[i].status = "taken"
      <4>1. cut /\ posts[i] \in ToSet(posts)
        BY <1>4, <1>7, <3>2, ListEntries
      <4>2. posts[i].arg \in lost'
        BY <1>2, <3>2, <4>1
      <4> QED BY <4>2 DEF StillRepeatable
    <3> QED BY <3>1, <3>2
  <2>3. SentOnce'
    BY <1>1, <1>2, <1>3 DEF SendInv, SentOnce
  <2>4. \A i \in DOMAIN posts' : posts'[i].act = "text" =>
           /\ posts'[i].arg \in 1..typed /\ (posts'[i].arg = shown.draft => posts'[i].mine)
           /\ posts'[i].status # "taken" => StillRepeatable(posts'[i].arg)
    BY <1>1, <1>7, <1>8, <2>2 DEF SendInv
  <2>5. (\A i \in DOMAIN posts' : posts'[i].act = "text" => posts'[i].arg # shown.draft)
           => StillRepeatable(shown.draft)
    BY <1>1, <1>3, <1>7, <1>8, <2>1 DEF SendInv
  <2>6. \A i, j \in DOMAIN posts' :
           posts'[i].act = "text" /\ posts'[j].act = "text" /\ posts'[i].arg = posts'[j].arg => i = j
    BY <1>1, <1>7, <1>8 DEF SendInv
  <2> QED BY <1>1, <1>3, <2>3, <2>4, <2>5, <2>6 DEF SendInv, Repeatable, StillRepeatable
<1>15. CatchInv'
  <2>1. live' # "open"
    BY <1>3
  <2> QED BY <1>1, <1>3, <1>10, <2>1 DEF CatchInv
<1>16. ReadInv' /\ ShowInv'
  BY <1>1, <1>3, <1>10, ReadStays, ShowStays DEF PageTypes, Alike
<1> QED BY <1>11, <1>12, <1>13, <1>14, <1>15, <1>16 DEF PageInv

\* It starts again.
LEMMA RestartsKeeps ==
  ASSUME PageInv, Restarts
  PROVE  PageInv'
<1>1. PageTypes /\ KnownInv /\ BusyInv /\ SendInv /\ CatchInv /\ ReadInv /\ ShowInv
  BY DEF PageInv
<1>2. /\ ~up /\ up' = TRUE
      /\ UNCHANGED <<laptop, clock, added, announced, stored, state, shown, lastSeen, unread, read,
                     live, offline, heard, fetches, posts, banner, typed, overtaken, lost, cards>>
      /\ Saved' = Saved
  BY DEF Restarts, pageVars, liveVars, savedVars, Saved
<1>3. PageTypes'
  BY <1>1, <1>2 DEF PageTypes
<1>4. KnownInv'
  <2>1. Known' \subseteq Known
    BY <1>2 DEF Known
  <2> QED BY <1>1, <1>2, <2>1, KnownStays
<1>5. BusyInv' /\ SendInv' /\ ReadInv' /\ ShowInv'
  BY <1>1, <1>2, BusyStays, SendStays, ReadStays, ShowStays DEF PageTypes, Alike
<1>6. CatchInv'
  BY <1>1, <1>2 DEF CatchInv
<1> QED BY <1>3, <1>4, <1>5, <1>6 DEF PageInv

---------------------------------------------------------------------------------
(* The stream, and the answers.                                                  *)

\* A fetch that was just asked for.
LEMMA FetchIsAsked ==
  ASSUME PageTypes, KnownInv, NEW b \in BOOLEAN, fetches' = Asked(b), UNCHANGED <<laptop, added, state, cards>>,
         Saved' = Saved
  PROVE  /\ fetches' \in Seq(FetchSet) /\ KnownInv'
         /\ Len(fetches) \in Nat /\ DOMAIN fetches = 1..Len(fetches)
         /\ DOMAIN fetches' = 1..(Len(fetches) + 1)
         /\ \A i \in DOMAIN fetches : fetches'[i] = fetches[i]
         /\ fetches'[Len(fetches) + 1].forSend = b
         /\ fetches' # <<>> /\ (up => fetches'[Len(fetches')].status = "asked")
<1> DEFINE n == Len(fetches)
           fetch == [status |-> IF up THEN "asked" ELSE "failed", state |-> None, forSend |-> b, late |-> FALSE]
<1>1. /\ fetches' \in Seq(FetchSet) /\ n \in Nat /\ DOMAIN fetches = 1..n
      /\ DOMAIN fetches' = 1..(n + 1) /\ Len(fetches') = n + 1
      /\ \A i \in 1..n : fetches'[i] = fetches[i]
      /\ fetches'[n + 1] = fetch
      /\ {f.state : f \in ToSet(fetches')} \subseteq {f.state : f \in ToSet(fetches)} \cup {None}
  BY AskedProperties
<1>2. KnownInv'
  <2>1. Known' \subseteq Known
    BY <1>1 DEF Known
  <2> QED BY <2>1, KnownStays
<1>3. fetches' # <<>>
  BY <1>1, EmptySeq
<1>4. fetch.forSend = b /\ (up => fetch.status = "asked")
  OBVIOUS
<1> HIDE DEF fetch
<1> QED BY <1>1, <1>2, <1>3, <1>4

\* A fetch that no compose box waits for.
LEMMA BusyAsks ==
  ASSUME BusyInv, Len(fetches) \in Nat, DOMAIN fetches = 1..Len(fetches),
         DOMAIN fetches' = 1..(Len(fetches) + 1), \A i \in DOMAIN fetches : fetches'[i] = fetches[i],
         fetches'[Len(fetches) + 1].forSend = FALSE, posts' = posts, shown'.sending = shown.sending
  PROVE  BusyInv'
<1> DEFINE n == Len(fetches)
<1>1. \A i \in 1..(n + 1) : i \in 1..n \/ i = n + 1
  OBVIOUS
<1>2. \A i \in 1..n : i \in 1..(n + 1)
  OBVIOUS
<1>3. \A i \in DOMAIN fetches' : fetches'[i].forSend => i \in DOMAIN fetches /\ fetches[i].forSend
  BY <1>1
<1>4. \A i \in DOMAIN fetches : i \in DOMAIN fetches' /\ fetches'[i] = fetches[i]
  BY <1>2
<1> QED BY <1>3, <1>4 DEF BusyInv, IsMine

\* The stream opens: the page asks for what it was not told.
LEMMA SourceOpensKeeps ==
  ASSUME PageInv, SourceOpens
  PROVE  PageInv'
<1>1. PageTypes /\ KnownInv /\ BusyInv /\ SendInv /\ CatchInv /\ ReadInv /\ ShowInv
  BY DEF PageInv
<1>2. /\ up /\ live' = "open" /\ announced' = laptop.rev /\ heard' = 0 /\ fetches' = Asked(FALSE)
      /\ UNCHANGED <<up, laptop, clock, added, stored, state, shown, lastSeen, unread, read, posts, typed,
                     overtaken, lost, cards>>
      /\ Saved' = Saved
  BY DEF SourceOpens, OnOpen, Rest, pageVars, savedVars, Saved
<1>3. /\ fetches' \in Seq(FetchSet) /\ KnownInv'
      /\ Len(fetches) \in Nat /\ DOMAIN fetches = 1..Len(fetches)
      /\ DOMAIN fetches' = 1..(Len(fetches) + 1)
      /\ \A i \in DOMAIN fetches : fetches'[i] = fetches[i]
      /\ fetches'[Len(fetches) + 1].forSend = FALSE
      /\ fetches' # <<>> /\ fetches'[Len(fetches')].status = "asked"
  BY <1>1, <1>2, FetchIsAsked
<1>4. PageTypes'
  <2>1. fetches' \in Seq(FetchSet)
    BY <1>3
  <2>2. up' \in BOOLEAN /\ live' = "open" /\ heard' \in Nat
    BY <1>1, <1>2 DEF PageTypes
  <2>3. UNCHANGED <<laptop, clock, added, state, shown, lastSeen, unread, posts, typed>> /\ Saved' = Saved
    BY <1>2
  <2> QED BY <1>1, <2>1, <2>2, <2>3 DEF PageTypes
<1>5. BusyInv'
  BY <1>1, <1>2, <1>3, BusyAsks
<1>6. SendInv' /\ ReadInv' /\ ShowInv'
  BY <1>1, <1>2, SendStays, ReadStays, ShowStays DEF PageTypes, Alike
<1>7. CatchInv'
  <2>1. laptop.rev \in Nat /\ laptop.rev <= laptop.rev
    BY <1>1 DEF PageTypes, State
  <2> QED BY <1>2, <1>3, <2>1 DEF CatchInv, Tells
<1> QED BY <1>3, <1>4, <1>5, <1>6, <1>7 DEF PageInv

\* The page is told of a change: it asks.
LEMMA OnChangedKeeps ==
  ASSUME PageInv, OnChanged
  PROVE  PageInv'
<1>1. PageTypes /\ KnownInv /\ BusyInv /\ SendInv /\ CatchInv /\ ReadInv /\ ShowInv
  BY DEF PageInv
<1>2. /\ heard > 0 /\ heard' = heard - 1 /\ fetches' = Asked(FALSE)
      /\ UNCHANGED <<up, laptop, clock, added, stored, state, shown, lastSeen, unread, read, posts, typed,
                     overtaken, lost, live, banner, announced, cards>>
      /\ Saved' = Saved
  BY DEF OnChanged, Rest, pageVars, savedVars, Saved
<1>3. /\ fetches' \in Seq(FetchSet) /\ KnownInv'
      /\ Len(fetches) \in Nat /\ DOMAIN fetches = 1..Len(fetches)
      /\ DOMAIN fetches' = 1..(Len(fetches) + 1)
      /\ \A i \in DOMAIN fetches : fetches'[i] = fetches[i]
      /\ fetches'[Len(fetches) + 1].forSend = FALSE
      /\ fetches' # <<>> /\ (up => fetches'[Len(fetches')].status = "asked")
  BY <1>1, <1>2, FetchIsAsked
<1>4. PageTypes'
  <2>1. heard' \in Nat
    BY <1>1, <1>2 DEF PageTypes
  <2>2. fetches' \in Seq(FetchSet)
    BY <1>3
  <2> QED BY <1>1, <1>2, <2>1, <2>2 DEF PageTypes
<1>5. BusyInv'
  BY <1>1, <1>2, <1>3, BusyAsks
<1>6. SendInv' /\ ReadInv' /\ ShowInv'
  BY <1>1, <1>2, SendStays, ReadStays, ShowStays DEF PageTypes, Alike
<1>7. CatchInv'
  BY <1>1, <1>2, <1>3 DEF CatchInv, Tells
<1> QED BY <1>3, <1>4, <1>5, <1>6, <1>7 DEF PageInv

\* The stream fails, or is tried again.
LEMMA SourceStopsKeeps ==
  ASSUME PageInv, SourceFails \/ SourceRetries
  PROVE  PageInv'
<1>1. PageTypes /\ KnownInv /\ BusyInv /\ SendInv /\ CatchInv /\ ReadInv /\ ShowInv
  BY DEF PageInv
<1>2. /\ live' \in {"opening", "browser", "timer"} /\ heard' \in {0, heard}
      /\ UNCHANGED <<up, laptop, clock, added, stored, state, shown, lastSeen, unread, read, posts, typed,
                     overtaken, lost, fetches, announced, cards>>
      /\ Saved' = Saved
  BY DEF SourceFails, SourceRetries, Rest, pageVars, savedVars, Saved
<1>3. PageTypes'
  BY <1>1, <1>2 DEF PageTypes
<1>4. KnownInv'
  <2>1. Known' \subseteq Known
    BY <1>2 DEF Known
  <2> QED BY <1>1, <1>2, <2>1, KnownStays
<1>5. BusyInv' /\ SendInv' /\ ReadInv' /\ ShowInv'
  BY <1>1, <1>2, BusyStays, SendStays, ReadStays, ShowStays DEF PageTypes, Alike
<1>6. CatchInv'
  BY <1>1, <1>2 DEF CatchInv
<1> QED BY <1>3, <1>4, <1>5, <1>6 DEF PageInv

\* A state is on its way to the page.
LEMMA AnswerStateKeeps ==
  ASSUME PageInv, NEW i \in DOMAIN fetches, AnswerState(i)
  PROVE  PageInv'
<1>1. PageTypes /\ KnownInv /\ BusyInv /\ SendInv /\ CatchInv /\ ReadInv /\ ShowInv
  BY DEF PageInv
<1> DEFINE e == [fetches[i] EXCEPT !.status = "answered", !.state = laptop]
<1>2. /\ fetches' = [fetches EXCEPT ![i] = e]
      /\ UNCHANGED <<up, laptop, clock, added, announced, stored, state, shown, lastSeen, unread, read, posts,
                     typed, overtaken, lost, live, heard, banner, cards>>
      /\ Saved' = Saved
  BY DEF AnswerState, laptopVars, pageVars, liveVars, savedVars, Saved
<1>3. fetches \in Seq(FetchSet) /\ laptop \in State /\ laptop.rev \in Nat
  BY <1>1 DEF PageTypes, State
<1>4. /\ e \in FetchSet /\ e.forSend = fetches[i].forSend /\ e.late = fetches[i].late
      /\ e.status = "answered" /\ e.state = laptop
  <2>1. fetches[i] \in FetchSet
    BY <1>3, ListEntries
  <2> QED BY <1>3, <2>1 DEF FetchSet
<1> HIDE DEF e
<1>5. /\ fetches' \in Seq(FetchSet) /\ Len(fetches') = Len(fetches) /\ DOMAIN fetches' = DOMAIN fetches
      /\ \A j \in DOMAIN fetches : fetches'[j] = IF j = i THEN e ELSE fetches[j]
  BY <1>2, <1>3, <1>4, ReplacedEntry
<1>6. PageTypes'
  BY <1>1, <1>2, <1>5 DEF PageTypes
<1>7. KnownInv'
  <2>1. Known' \subseteq Known
    BY <1>2, <1>4, <1>5 DEF Known, ToSet
  <2> QED BY <1>1, <1>2, <2>1, KnownStays
<1>8. BusyInv'
  BY <1>1, <1>2, <1>4, <1>5 DEF BusyInv, IsMine
<1>9. SendInv' /\ ReadInv' /\ ShowInv'
  BY <1>1, <1>2, SendStays, ReadStays, ShowStays DEF PageTypes, Alike
<1>10. CatchInv'
  <2>1. announced \in Nat /\ announced <= laptop.rev /\ (live = "open" => up)
    BY <1>1 DEF CatchInv
  <2>2. fetches' # <<>> /\ fetches # <<>>
    BY <1>3, <1>5, EmptySeq, LenProperties
  <2>3. ASSUME live = "open", heard = 0
        PROVE  Tells(fetches'[Len(fetches')]) \/ \A j \in DOMAIN fetches' : fetches'[j].late
    <3>1. CASE Tells(fetches[Len(fetches)])
      <4>1. Len(fetches) \in DOMAIN fetches
        BY <1>3, <2>2, EmptySeq, LenProperties
      <4> QED BY <1>4, <1>5, <2>1, <3>1, <4>1 DEF Tells
    <3>2. CASE \A j \in DOMAIN fetches : fetches[j].late
      BY <1>4, <1>5, <3>2
    <3> QED BY <1>1, <2>3, <3>1, <3>2 DEF CatchInv
  <2> QED BY <1>2, <2>1, <2>2, <2>3 DEF CatchInv, Tells
<1> QED BY <1>6, <1>7, <1>8, <1>9, <1>10 DEF PageInv

\* A message that is answered leaves the others alone, and may be sent again if it was not taken.
LEMMA SendDrops ==
  ASSUME PageTypes, SendInv, NEW i \in DOMAIN posts, posts' = RemoveAt(posts, i),
         UNCHANGED <<stored, typed, lost>>, shown'.draft \in {shown.draft, 0},
         posts[i].act = "text" /\ posts[i].arg = shown'.draft => Repeatable(posts[i].arg)
  PROVE  SendInv'
<1>1. posts \in Seq(Request)
  BY DEF PageTypes
<1>2. PICK at :
         /\ \A k \in DOMAIN posts' : at[k] \in DOMAIN posts \ {i} /\ posts'[k] = posts[at[k]]
         /\ \A j, k \in DOMAIN posts' : at[j] = at[k] => j = k
         /\ \A j \in DOMAIN posts \ {i} : \E k \in DOMAIN posts' : at[k] = j
  <2>1. PICK at : Lacks(posts', posts, i, at)
    BY <1>1, RemovedEntry
  <2> QED BY <2>1 DEF Lacks
<1>3. /\ stored \in Seq(1..typed) /\ shown.draft <= typed /\ SentOnce /\ typed \in Nat /\ shown.draft \in Nat
      /\ \A j \in DOMAIN posts : posts[j].act = "text" =>
            /\ posts[j].arg \in 1..typed
            /\ posts[j].status # "taken" => Repeatable(posts[j].arg)
            /\ posts[j].arg = shown.draft => posts[j].mine
      /\ \A j, k \in DOMAIN posts :
            posts[j].act = "text" /\ posts[k].act = "text" /\ posts[j].arg = posts[k].arg => j = k
      /\ (\A j \in DOMAIN posts : posts[j].act = "text" => posts[j].arg # shown.draft)
            => Repeatable(shown.draft)
  BY DEF SendInv, PageTypes, IsView
<1>4. \A text : Repeatable(text) => StillRepeatable(text)
  BY DEF Repeatable, StillRepeatable
<1>5. SentOnce' /\ stored' \in Seq(1..typed') /\ shown'.draft <= typed'
  BY <1>3 DEF SentOnce
<1>6. \A k \in DOMAIN posts' : posts'[k].act = "text" =>
         /\ posts'[k].arg \in 1..typed'
         /\ posts'[k].status # "taken" => StillRepeatable(posts'[k].arg)
         /\ posts'[k].arg = shown'.draft => posts'[k].mine
  <2> SUFFICES ASSUME NEW k \in DOMAIN posts', posts'[k].act = "text"
               PROVE  /\ posts'[k].arg \in 1..typed'
                      /\ posts'[k].status # "taken" => StillRepeatable(posts'[k].arg)
                      /\ posts'[k].arg = shown'.draft => posts'[k].mine
    OBVIOUS
  <2>1. at[k] \in DOMAIN posts /\ posts'[k] = posts[at[k]]
    BY <1>2
  <2> QED BY <1>3, <1>4, <2>1
<1>7. \A j, k \in DOMAIN posts' :
         posts'[j].act = "text" /\ posts'[k].act = "text" /\ posts'[j].arg = posts'[k].arg => j = k
  <2> SUFFICES ASSUME NEW j \in DOMAIN posts', NEW k \in DOMAIN posts', posts'[j].act = "text",
                      posts'[k].act = "text", posts'[j].arg = posts'[k].arg
               PROVE  j = k
    OBVIOUS
  <2>1. /\ at[j] \in DOMAIN posts /\ posts'[j] = posts[at[j]]
        /\ at[k] \in DOMAIN posts /\ posts'[k] = posts[at[k]]
    BY <1>2
  <2> QED BY <1>2, <1>3, <2>1
<1>8. ASSUME \A k \in DOMAIN posts' : posts'[k].act = "text" => posts'[k].arg # shown'.draft
      PROVE  StillRepeatable(shown'.draft)
  <2>1. CASE shown'.draft = 0
    <3>1. 0 \notin ToSet(stored)
      BY <1>3, ListEntries
    <3> QED BY <2>1, <3>1 DEF StillRepeatable
  <2>2. CASE shown'.draft = shown.draft
    <3>1. \A j \in DOMAIN posts \ {i} : posts[j].act = "text" => posts[j].arg # shown.draft
      <4> SUFFICES ASSUME NEW j \in DOMAIN posts \ {i}, posts[j].act = "text"
                   PROVE  posts[j].arg # shown.draft
        OBVIOUS
      <4>1. PICK k \in DOMAIN posts' : at[k] = j
        BY <1>2
      <4> QED BY <1>2, <1>8, <2>2, <4>1
    <3>2. CASE posts[i].act = "text" /\ posts[i].arg = shown.draft
      BY <1>4, <2>2, <3>2
    <3>3. CASE ~(posts[i].act = "text" /\ posts[i].arg = shown.draft)
      <4>1. Repeatable(shown.draft)
        BY <1>3, <3>1, <3>3
      <4> QED BY <1>4, <2>2, <4>1
    <3> QED BY <3>2, <3>3
  <2> QED BY <2>1, <2>2
<1> QED BY <1>5, <1>6, <1>7, <1>8 DEF SendInv, Repeatable, StillRepeatable

\* A request was taken: the box is emptied, and waits for the state.
LEMMA PostTakenKeeps ==
  ASSUME PageInv, NEW i \in DOMAIN posts, PostTaken(i)
  PROVE  PageInv'
<1>1. PageTypes /\ KnownInv /\ BusyInv /\ SendInv /\ CatchInv /\ ReadInv /\ ShowInv
  BY DEF PageInv
<1> DEFINE composed == IsMine(posts[i])
<1>2. /\ posts[i].status = "taken" /\ fetches' = Asked(composed) /\ posts' = RemoveAt(posts, i)
      /\ shown' = IF composed THEN [shown EXCEPT !.draft = 0] ELSE shown
      /\ UNCHANGED <<up, laptop, clock, added, announced, stored, state, lastSeen, unread, read, live, heard,
                     banner, typed, overtaken, lost, cards>>
      /\ Saved' = Saved
  BY DEF PostTaken, IsMine, laptopVars, liveVars, savedVars, Saved
<1>3. posts \in Seq(Request) /\ posts[i] \in Request /\ IsView(shown)
  BY <1>1, ListEntries DEF PageTypes
<1>4. composed \in BOOLEAN
  BY DEF IsMine
<1>5. /\ Alike(shown, shown') /\ shown'.sending = shown.sending
      /\ shown'.draft = IF composed THEN 0 ELSE shown.draft
  <2>1. Alike(shown, shown)
    BY <1>3 DEF Alike
  <2>2. LET w == [shown EXCEPT !.draft = 0]
        IN  Alike(shown, w) /\ w.draft = 0 /\ w.sending = shown.sending
    <3>1. IsView(shown) /\ 0 \in Nat
      BY <1>3
    <3> QED BY ONLY <3>1, BoxChanges
  <2> HIDE DEF composed
  <2>3. CASE composed
    BY <1>2, <2>2, <2>3
  <2>4. CASE ~composed
    BY <1>2, <2>1, <2>4
  <2> QED BY <2>3, <2>4
<1> HIDE DEF composed
<1>6. /\ fetches' \in Seq(FetchSet) /\ KnownInv'
      /\ Len(fetches) \in Nat /\ DOMAIN fetches = 1..Len(fetches)
      /\ DOMAIN fetches' = 1..(Len(fetches) + 1)
      /\ \A j \in DOMAIN fetches : fetches'[j] = fetches[j]
      /\ fetches'[Len(fetches) + 1].forSend = composed
      /\ fetches' # <<>> /\ (up => fetches'[Len(fetches')].status = "asked")
  BY <1>1, <1>2, <1>4, FetchIsAsked
<1>7. posts' \in Seq(Request)
  BY <1>2, <1>3, RemovedEntry
<1>8. PICK at :
         /\ \A k \in DOMAIN posts' : at[k] \in DOMAIN posts \ {i} /\ posts'[k] = posts[at[k]]
         /\ \A j, k \in DOMAIN posts' : at[j] = at[k] => j = k
         /\ \A j \in DOMAIN posts \ {i} : \E k \in DOMAIN posts' : at[k] = j
  <2>1. PICK at : Lacks(posts', posts, i, at)
    BY <1>2, <1>3, RemovedEntry
  <2> QED BY <2>1 DEF Lacks
<1>9. PageTypes'
  <2>1. fetches' \in Seq(FetchSet) /\ IsView(shown')
    BY <1>5, <1>6 DEF Alike
  <2>2. IsView(shown)'
    BY <2>1 DEF IsView
  <2> QED BY <1>1, <1>2, <1>7, <2>1, <2>2 DEF PageTypes
<1>10. BusyInv'
  <2> DEFINE n == Len(fetches)
             Mine(list) == \E j \in DOMAIN list : IsMine(list[j])
             Waits(list) == \E j \in DOMAIN list : list[j].forSend
  <2>1. \A j \in 1..(n + 1) : j \in 1..n \/ j = n + 1
    BY <1>6
  <2>2. \A j \in 1..n : j \in 1..(n + 1)
    BY <1>6
  <2>3. n + 1 \in 1..(n + 1)
    BY <1>6
  <2>4. CASE composed
    <3>1. /\ shown.sending
          /\ \A j \in DOMAIN posts \ {i} : ~IsMine(posts[j])
          /\ \A j \in DOMAIN fetches : ~fetches[j].forSend
      BY <1>1, <2>4 DEF BusyInv, composed
    <3>2. \A k \in DOMAIN posts' : ~IsMine(posts'[k])
      BY <1>8, <3>1
    <3>3. \A j \in DOMAIN fetches' : fetches'[j].forSend <=> j = n + 1
      BY <1>6, <2>1, <2>4, <3>1
    <3> QED BY <1>5, <1>6, <2>3, <3>1, <3>2, <3>3 DEF BusyInv, IsMine
  <2>5. CASE ~composed
    <3>1. \A j \in DOMAIN fetches' : fetches'[j].forSend => j \in DOMAIN fetches /\ fetches[j].forSend
      BY <1>6, <2>1, <2>5
    <3>2. \A j \in DOMAIN fetches : j \in DOMAIN fetches' /\ fetches'[j] = fetches[j]
      BY <1>6, <2>2
    <3>3. \A j \in DOMAIN posts : IsMine(posts[j]) => \E k \in DOMAIN posts' : IsMine(posts'[k])
      BY <1>8, <2>5 DEF composed
    <3>4. \A k \in DOMAIN posts' : IsMine(posts'[k]) => at[k] \in DOMAIN posts /\ IsMine(posts[at[k]])
      BY <1>8
    <3>5. shown'.sending <=> Mine(posts') \/ Waits(fetches')
      <4>1. shown.sending <=> Mine(posts) \/ Waits(fetches)
        BY <1>1 DEF BusyInv
      <4>2. Mine(posts) <=> Mine(posts')
        BY <3>3, <3>4
      <4>3. Waits(fetches) <=> Waits(fetches')
        BY <3>1, <3>2
      <4> QED BY <1>5, <4>1, <4>2, <4>3
    <3>6. \A j, k \in DOMAIN posts' : IsMine(posts'[j]) /\ IsMine(posts'[k]) => j = k
      BY <1>1, <1>8, <3>4 DEF BusyInv
    <3>7. \A j, k \in DOMAIN fetches' : fetches'[j].forSend /\ fetches'[k].forSend => j = k
      BY <1>1, <3>1 DEF BusyInv
    <3>8. \A j \in DOMAIN posts', k \in DOMAIN fetches' : ~(IsMine(posts'[j]) /\ fetches'[k].forSend)
      BY <1>1, <3>1, <3>4 DEF BusyInv
    <3> QED BY <3>5, <3>6, <3>7, <3>8 DEF BusyInv, IsMine
  <2> QED BY <2>4, <2>5
<1>11. SendInv'
  <2>1. shown'.draft \in {shown.draft, 0}
    BY <1>5
  <2>2. ~(posts[i].act = "text" /\ posts[i].arg = shown'.draft)
    <3>1. posts[i].act = "text" => posts[i].arg # 0
      BY <1>1 DEF SendInv
    <3>2. posts[i].act = "text" /\ ~composed => posts[i].arg # shown.draft
      BY <1>1 DEF SendInv, composed, IsMine
    <3> QED BY <1>5, <3>1, <3>2
  <2> QED BY <1>1, <1>2, <2>1, <2>2, SendDrops
<1>12. CatchInv'
  BY <1>1, <1>2, <1>6 DEF CatchInv, Tells
<1>13. ReadInv' /\ ShowInv'
  BY <1>1, <1>2, <1>5, ReadStays, ShowStays
<1> QED BY <1>6, <1>9, <1>10, <1>11, <1>12, <1>13 DEF PageInv

\* A request failed: the box keeps its text.
LEMMA PostFailsKeeps ==
  ASSUME PageInv, NEW i \in DOMAIN posts, PostFails(i)
  PROVE  PageInv'
<1>1. PageTypes /\ KnownInv /\ BusyInv /\ SendInv /\ CatchInv /\ ReadInv /\ ShowInv
  BY DEF PageInv
<1> DEFINE composed == IsMine(posts[i])
<1>2. /\ posts[i].status \in {"refused", "failed"} /\ posts' = RemoveAt(posts, i)
      /\ shown' = IF composed THEN [shown EXCEPT !.sending = FALSE] ELSE shown
      /\ UNCHANGED <<up, laptop, clock, added, announced, stored, state, lastSeen, unread, read, live, heard,
                     fetches, banner, typed, overtaken, lost, cards>>
      /\ Saved' = Saved
  BY DEF PostFails, Freed, Sent, IsMine, laptopVars, liveVars, savedVars, Saved
<1>3. posts \in Seq(Request) /\ posts[i] \in Request /\ IsView(shown)
  BY <1>1, ListEntries DEF PageTypes
<1> HIDE DEF composed
<1>4. /\ Alike(shown, shown') /\ shown'.draft = shown.draft
      /\ shown'.sending = IF composed THEN FALSE ELSE shown.sending
  <2>1. Alike(shown, shown)
    BY <1>3 DEF Alike
  <2>2. LET w == [shown EXCEPT !.sending = FALSE]
        IN  Alike(shown, w) /\ w.draft = shown.draft /\ w.sending = FALSE
    BY <1>3, BoxChanges
  <2>3. CASE composed
    BY <1>2, <2>2, <2>3
  <2>4. CASE ~composed
    BY <1>2, <2>1, <2>4
  <2> QED BY <2>3, <2>4
<1>5. posts' \in Seq(Request)
  BY <1>2, <1>3, RemovedEntry
<1>6. PICK at :
         /\ \A k \in DOMAIN posts' : at[k] \in DOMAIN posts \ {i} /\ posts'[k] = posts[at[k]]
         /\ \A j, k \in DOMAIN posts' : at[j] = at[k] => j = k
         /\ \A j \in DOMAIN posts \ {i} : \E k \in DOMAIN posts' : at[k] = j
  <2>1. PICK at : Lacks(posts', posts, i, at)
    BY <1>2, <1>3, RemovedEntry
  <2> QED BY <2>1 DEF Lacks
<1>7. PageTypes'
  <2>1. IsView(shown)'
    BY <1>4 DEF Alike, IsView
  <2> QED BY <1>1, <1>2, <1>5, <2>1 DEF PageTypes
<1>8. KnownInv'
  <2>1. Known' \subseteq Known
    BY <1>2 DEF Known
  <2> QED BY <1>1, <1>2, <2>1, KnownStays
<1>9. BusyInv'
  <2>1. \A k \in DOMAIN posts' : IsMine(posts'[k]) => /\ at[k] \in DOMAIN posts \ {i}
                                                       /\ IsMine(posts[at[k]])
    BY <1>6
  <2>2. shown'.sending <=> \/ \E k \in DOMAIN posts' : IsMine(posts'[k])
                           \/ \E k \in DOMAIN fetches' : fetches'[k].forSend
    <3>1. CASE composed
      <4>1. \A j \in DOMAIN posts \ {i} : ~IsMine(posts[j])
        BY <1>1, <3>1 DEF BusyInv, composed
      <4>2. \A j \in DOMAIN fetches : ~fetches[j].forSend
        BY <1>1, <3>1 DEF BusyInv, composed
      <4> QED BY <1>2, <1>4, <2>1, <3>1, <4>1, <4>2
    <3>2. CASE ~composed
      <4>1. (\E j \in DOMAIN posts : IsMine(posts[j])) <=> \E k \in DOMAIN posts' : IsMine(posts'[k])
        BY <1>6, <2>1, <3>2 DEF composed
      <4> QED BY <1>1, <1>2, <1>4, <3>2, <4>1 DEF BusyInv
    <3> QED BY <3>1, <3>2
  <2>3. \A j, k \in DOMAIN posts' : IsMine(posts'[j]) /\ IsMine(posts'[k]) => j = k
    BY <1>1, <1>6, <2>1 DEF BusyInv
  <2>4. \A j \in DOMAIN posts', k \in DOMAIN fetches' : ~(IsMine(posts'[j]) /\ fetches'[k].forSend)
    BY <1>1, <1>2, <2>1 DEF BusyInv
  <2>5. \A j, k \in DOMAIN fetches' : fetches'[j].forSend /\ fetches'[k].forSend => j = k
    BY <1>1, <1>2 DEF BusyInv
  <2> QED BY <2>2, <2>3, <2>4, <2>5 DEF BusyInv, IsMine
<1>10. SendInv'
  <2>1. posts[i].act = "text" => Repeatable(posts[i].arg)
    BY <1>1, <1>2 DEF SendInv
  <2> QED BY <1>1, <1>2, <1>4, <2>1, SendDrops
<1>11. CatchInv' /\ ReadInv' /\ ShowInv'
  BY <1>1, <1>2, <1>4, CatchStays, ReadStays, ShowStays
<1> QED BY <1>7, <1>8, <1>9, <1>10, <1>11 DEF PageInv

---------------------------------------------------------------------------------
(* The page applies a state.                                                     *)

\* Known states agree.
LEMMA KnownAgree ==
  ASSUME KnownInv, NEW s \in Known, NEW t \in Known
  PROVE  Agree(s, t)
<1> HIDE DEF Known
<1> QED BY DEF KnownInv, Agree

\* refreshUnread: everything is read, or as before.
LEMMA UnreadIsCounted ==
  ASSUME PageTypes, ReadInv, NEW next \in State, NEW name, RefreshUnread(next, name)
  PROVE  /\ lastSeen' \in Nat /\ unread' \in Nat
         /\ \A r \in read' : r.time \in Nat /\ r.time <= lastSeen'
         /\ lastSeen' = 0 \/ \E r \in read' : r.time = lastSeen'
         /\ unread' = unreadCount(next.items, lastSeen')
<1> DEFINE texts == {it \in ToSet(next.items) : IsIncomingText(it)}
           times == {it.time : it \in texts}
           before == IF lastSeen = None THEN 0 ELSE lastSeen
           all == {0, before} \cup times
<1>1. next.items \in Seq(ItemSet) /\ lastSeen \in Nat \cup {None} /\ None \notin Nat
  BY AdminViewsAssumption DEF State, PageTypes
<1>2. \A it \in texts : it.time \in Nat
  <2>1. \A it \in ToSet(next.items) : it \in ItemSet
    BY <1>1, ListEntries
  <2> QED BY <2>1 DEF ItemSet
<1>3. /\ \A r \in read : r.time \in Nat /\ r.time <= before
      /\ before = 0 \/ \E r \in read : r.time = before
      /\ before \in Nat
  BY <1>1 DEF ReadInv
<1>4. /\ lastSeen' = IF lastSeen # None /\ name # "messages" THEN lastSeen ELSE Max(all)
      /\ unread' = unreadCount(next.items, lastSeen')
      /\ read' = IF name = "messages" \/ lastSeen = None THEN read \cup texts ELSE read
  BY DEF RefreshUnread, nextLastSeen
<1>5. unreadCount(next.items, lastSeen') \in Nat
  <2> DEFINE new == {it \in ToSet(next.items) : IsIncomingText(it) /\ it.time > lastSeen'}
  <2>1. Only(next.items, new) \in Seq(ItemSet)
    <3> HIDE DEF new
    <3> QED BY <1>1, OnlyProperties
  <2> QED BY <2>1, LenProperties DEF unreadCount
<1>6. Max(all) \in all /\ \A x \in all : x <= Max(all)
  <2>1. IsFiniteSet(ToSet(next.items))
    BY <1>1, ListFinite
  <2>2. IsFiniteSet(times)
    <3>1. IsFiniteSet(texts)
      BY <2>1, FS_Subset
    <3>2. [it \in texts |-> it.time] \in Surjection(texts, times)
      BY DEF Surjection
    <3> HIDE DEF texts
    <3> QED BY <3>1, <3>2, FS_Surjection
  <2>3. IsFiniteSet({0, before})
    <3>1. IsFiniteSet({before}) /\ IsFiniteSet({before} \cup {0})
      BY FS_Singleton, FS_AddElement
    <3>2. {0, before} = {before} \cup {0}
      OBVIOUS
    <3> QED BY <3>1, <3>2
  <2>4. IsFiniteSet(all)
    <3> HIDE DEF times
    <3> QED BY <2>2, <2>3, FS_Union
  <2>5. all \in SUBSET Nat /\ all # {}
    BY <1>2, <1>3
  <2> HIDE DEF all
  <2> QED BY <2>4, <2>5, MaxProperties
<1> HIDE DEF all
<1>7. CASE lastSeen # None /\ name # "messages"
  BY <1>1, <1>3, <1>4, <1>5, <1>7
<1>8. CASE ~(lastSeen # None /\ name # "messages")
  <2>1. lastSeen' = Max(all) /\ read' = read \cup texts
    BY <1>4, <1>8
  <2>2. lastSeen' \in Nat
    BY <1>2, <1>3, <1>6, <2>1 DEF all
  <2>3. before <= lastSeen' /\ \A it \in texts : it.time <= lastSeen'
    BY <1>6, <2>1 DEF all
  <2>4. \A r \in read' : r.time \in Nat /\ r.time <= lastSeen'
    BY <1>2, <1>3, <2>1, <2>2, <2>3
  <2>5. lastSeen' = 0 \/ \E r \in read' : r.time = lastSeen'
    BY <1>3, <1>6, <2>1 DEF all
  <2> QED BY <1>4, <1>5, <2>2, <2>4, <2>5
<1> QED BY <1>7, <1>8

\* The view that is open is updated, or a new one is.
LEMMA ViewUpdates ==
  ASSUME PageTypes, KnownInv, ShowInv, NEW s \in State, s \in Known
  PROVE  /\ Keeps(shown, Updated(shown, s)) /\ Shows(Updated(shown, s), s)
         /\ Updated(shown, s).selected = IF shown.view \in {"messages", "dashboard"}
                                         THEN chatTarget(s.devices, shown.selected).id ELSE shown.selected
         /\ shown.view = "approvals" => ToSet(Updated(shown, s).rows) \subseteq cards
<1>1. IsView(shown) /\ Agree(s, s)
  BY KnownAgree DEF PageTypes
<1>2. Blank(shown) \/ \E old \in State : Agree(old, s) /\ Drew(shown, old)
  <2>1. CASE state = None
    BY <2>1 DEF ShowInv
  <2>2. CASE state # None
    <3>1. state \in State /\ state \in Known /\ Shows(shown, state)
      BY <2>2 DEF ShowInv, PageTypes, Known
    <3>2. Drew(shown, state)
      BY <1>1, <3>1, ShownIsDrawn
    <3> QED BY <3>1, <3>2, KnownAgree
  <2> QED BY <2>1, <2>2
<1>3. {Card(r, s.devices) : r \in ToSet(s.pending)} \subseteq cards
  BY DEF KnownInv
<1>4. shown.view = "approvals" => ToSet(shown.rows) \subseteq cards
  BY DEF ShowInv
<1> QED BY <1>1, <1>2, <1>3, <1>4, UpdatedShows

\* A view that was just opened is updated.
LEMMA OpenedUpdates ==
  ASSUME KnownInv, NEW s \in State, s \in Known, NEW name \in ViewName
  PROVE  /\ Keeps(Opened(name), Updated(Opened(name), s)) /\ Shows(Updated(Opened(name), s), s)
         /\ name = "approvals" => ToSet(Updated(Opened(name), s).rows) \subseteq cards
<1>1. IsView(Opened(name)) /\ Blank(Opened(name)) /\ Agree(s, s) /\ Opened(name).view = name
  BY KnownAgree, OpenedIsBlank
<1>2. {Card(r, s.devices) : r \in ToSet(s.pending)} \subseteq cards
  BY DEF KnownInv
<1>3. ToSet(Opened(name).rows) = {}
  BY <1>1 DEF Blank, ToSet
<1> QED BY <1>1, <1>2, <1>3, UpdatedShows

\* What the page knows of what it was told, when a fetch ends.
LEMMA RefreshCatches ==
  ASSUME PageTypes, CatchInv, NEW i \in DOMAIN fetches, RefreshEnds(i),
         NEW at, Lacks(fetches', [j \in DOMAIN fetches |-> [fetches[j] EXCEPT !.late = @ \/ j < i]], i, at)
  PROVE  CatchInv'
<1> DEFINE n == Len(fetches)
           fetch == fetches[i]
           marked == [j \in DOMAIN fetches |-> [fetches[j] EXCEPT !.late = @ \/ j < i]]
<1>1. n \in Nat /\ DOMAIN fetches = 1..n /\ i \in 1..n /\ n \in 1..n /\ \A j \in 1..n : fetches[j] \in FetchSet
  <2>1. fetches \in Seq(FetchSet)
    BY DEF PageTypes
  <2>2. n \in Nat /\ DOMAIN fetches = 1..n /\ \A j \in 1..n : fetches[j] \in FetchSet
    BY <2>1, ListEntries
  <2> QED BY <2>2
<1>2. Len(marked) = n /\ DOMAIN marked = 1..n
  <2>1. marked \in [1..n -> {marked[j] : j \in 1..n}]
    BY <1>1
  <2> HIDE DEF marked
  <2> QED BY <1>1, <2>1, FunctionIsList
<1>3. \A j \in 1..n : /\ marked[j].status = fetches[j].status /\ marked[j].state = fetches[j].state
                      /\ marked[j].late = (fetches[j].late \/ j < i)
  BY <1>1 DEF FetchSet
<1> HIDE DEF marked
<1>4. /\ \A k \in DOMAIN fetches' : at[k] \in (1..n) \ {i} /\ fetches'[k] = marked[at[k]]
      /\ i # n => fetches' # <<>> /\ at[Len(fetches')] = n
  BY <1>2 DEF Lacks, marked
<1>5. /\ fetch.status # "asked" /\ overtaken' = fetch.late /\ banner' = (fetch.status = "failed")
      /\ UNCHANGED <<laptop, up, announced, live, heard>>
      /\ fetch.status = "answered" => state' = fetch.state
  BY DEF RefreshEnds, laptopVars, liveVars
<1>6. fetches' \in Seq({marked[j] : j \in 1..n})
  <2>1. marked \in Seq({marked[j] : j \in 1..n})
    <3>1. marked \in [1..n -> {marked[j] : j \in 1..n}]
      BY <1>2 DEF marked
    <3> QED BY <1>1, <3>1, FunctionIsList
  <2>2. fetches' = RemoveAt(marked, i)
    BY DEF RefreshEnds, marked
  <2> QED BY <1>1, <1>2, <2>1, <2>2, RemovedEntry
<1>7. ASSUME live = "open", heard = 0
      PROVE  \/ fetches' # <<>> /\ \/ fetches'[Len(fetches')].status = "asked"
                                   \/ /\ fetches'[Len(fetches')].status = "answered"
                                      /\ fetches'[Len(fetches')].state.rev >= announced
             \/ /\ \A k \in DOMAIN fetches' : fetches'[k].late
                /\ fetches' = <<>> /\ ~overtaken' => state' # None /\ state'.rev >= announced /\ ~banner'
  <2>1. CASE Tells(fetches[n]) /\ i # n
    <3>1. Len(fetches') \in DOMAIN fetches'
      BY <1>4, <1>6, <2>1, EmptySeq, LenProperties
    <3>2. fetches'[Len(fetches')] = marked[n]
      BY <1>4, <2>1, <3>1
    <3> QED BY <1>1, <1>3, <1>4, <2>1, <3>2 DEF Tells
  <2>2. CASE Tells(fetches[n]) /\ i = n
    <3>1. fetch.status = "answered" /\ fetch.state.rev >= announced
      BY <1>5, <2>2 DEF Tells
    <3>2. fetch.state \in State /\ None \notin State
      <4>1. fetch \in FetchSet
        BY <1>1
      <4>2. fetch.state \in State
        BY <3>1, <4>1 DEF FetchSet
      <4> QED BY <4>2, AdminPageAssumption
    <3>3. \A k \in DOMAIN fetches' : fetches'[k].late
      <4>1. \A k \in DOMAIN fetches' : at[k] \in 1..n /\ at[k] < i
        BY <1>1, <1>4, <2>2
      <4> QED BY <1>3, <1>4, <4>1
    <3> QED BY <1>5, <3>1, <3>2, <3>3
  <2>3. CASE \A j \in DOMAIN fetches : fetches[j].late
    <3>1. \A k \in DOMAIN fetches' : fetches'[k].late
      BY <1>1, <1>3, <1>4, <2>3
    <3> QED BY <1>1, <1>5, <2>3, <3>1
  <2> QED BY <1>7, <2>1, <2>2, <2>3 DEF CatchInv
<1> QED BY <1>5, <1>7 DEF CatchInv, Tells

\* The compose box no longer waits for the fetch that ends.
LEMMA BusyRefreshes ==
  ASSUME BusyInv, NEW i \in DOMAIN fetches, NEW marked, DOMAIN marked = DOMAIN fetches,
         \A j \in DOMAIN fetches : marked[j].forSend = fetches[j].forSend,
         NEW at, Lacks(fetches', marked, i, at), posts' = posts,
         shown'.sending = IF fetches[i].forSend THEN FALSE ELSE shown.sending
  PROVE  BusyInv'
<1>1. /\ \A k \in DOMAIN fetches' : at[k] \in DOMAIN fetches \ {i} /\ fetches'[k].forSend = fetches[at[k]].forSend
      /\ \A j, k \in DOMAIN fetches' : at[j] = at[k] => j = k
      /\ \A j \in DOMAIN fetches \ {i} : \E k \in DOMAIN fetches' : at[k] = j
  BY DEF Lacks
<1>2. shown'.sending <=> \/ \E k \in DOMAIN posts' : IsMine(posts'[k])
                         \/ \E k \in DOMAIN fetches' : fetches'[k].forSend
  <2>1. CASE fetches[i].forSend
    <3>1. \A j \in DOMAIN fetches \ {i} : ~fetches[j].forSend
      BY <2>1 DEF BusyInv
    <3>2. \A k \in DOMAIN posts : ~IsMine(posts[k])
      BY <2>1 DEF BusyInv
    <3> QED BY <1>1, <2>1, <3>1, <3>2
  <2>2. CASE ~fetches[i].forSend
    <3>1. (\E j \in DOMAIN fetches : fetches[j].forSend) <=> \E k \in DOMAIN fetches' : fetches'[k].forSend
      BY <1>1, <2>2
    <3> QED BY <2>2, <3>1 DEF BusyInv
  <2> QED BY <2>1, <2>2
<1>3. \A j, k \in DOMAIN fetches' : fetches'[j].forSend /\ fetches'[k].forSend => j = k
  BY <1>1 DEF BusyInv
<1>4. \A j \in DOMAIN posts', k \in DOMAIN fetches' : ~(IsMine(posts'[j]) /\ fetches'[k].forSend)
  BY <1>1 DEF BusyInv
<1>5. \A j, k \in DOMAIN posts' : IsMine(posts'[j]) /\ IsMine(posts'[k]) => j = k
  BY DEF BusyInv
<1> QED BY <1>2, <1>3, <1>4, <1>5 DEF BusyInv, IsMine

\* A fetch ends: its state is shown, if it brought one.
LEMMA RefreshEndsKeeps ==
  ASSUME PageInv, NEW i \in DOMAIN fetches, RefreshEnds(i)
  PROVE  PageInv'
<1>1. PageTypes /\ KnownInv /\ BusyInv /\ SendInv /\ CatchInv /\ ReadInv /\ ShowInv
  BY DEF PageInv
<1> DEFINE fetch == fetches[i]
           marked == [j \in DOMAIN fetches |-> [fetches[j] EXCEPT !.late = @ \/ j < i]]
           view == IF fetch.status = "answered" THEN Updated(shown, fetch.state) ELSE shown
<1>2. /\ fetch.status # "asked" /\ fetches' = RemoveAt(marked, i)
      /\ shown' = Sent(view, fetch.forSend)
      /\ UNCHANGED <<laptop, up, clock, added, announced, stored, live, heard, posts, typed, lost, cards>>
      /\ Saved' = Saved
  BY DEF RefreshEnds, laptopVars, liveVars, savedVars, Saved
<1>3. \/ /\ fetch.status = "answered" /\ state' = fetch.state /\ RefreshUnread(fetch.state, shown.view)
      \/ /\ fetch.status # "answered" /\ UNCHANGED <<state, lastSeen, unread, read>>
  BY DEF RefreshEnds
<1>4. fetches \in Seq(FetchSet) /\ fetch \in FetchSet /\ fetch \in ToSet(fetches)
  BY <1>1, ListEntries DEF PageTypes
<1>5. /\ \A j \in DOMAIN fetches : /\ marked[j] \in FetchSet /\ marked[j].forSend = fetches[j].forSend
                                   /\ marked[j].state = fetches[j].state
      /\ DOMAIN marked = DOMAIN fetches /\ marked = [j \in DOMAIN fetches |-> marked[j]]
  <2>1. \A j \in DOMAIN fetches : fetches[j] \in FetchSet
    BY <1>4, ListEntries
  <2> QED BY <2>1 DEF FetchSet
<1>6. marked \in Seq(FetchSet)
  <2> HIDE DEF marked
  <2> QED BY <1>4, <1>5, ChangedEntries
<1>7. fetches' \in Seq(FetchSet) /\ \E at : Lacks(fetches', marked, i, at)
  <2> HIDE DEF marked
  <2> QED BY <1>2, <1>5, <1>6, RemovedEntry
<1>8. PICK at : Lacks(fetches', marked, i, at)
  BY <1>7
<1>9. fetch.status = "answered" => fetch.state \in State /\ fetch.state \in Known /\ fetch.state # None
  <2>1. fetch.status = "answered" => fetch.state \in State
    BY <1>4 DEF FetchSet
  <2>2. fetch.status = "answered" => fetch.state # None
    BY <2>1, AdminPageAssumption
  <2> QED BY <1>4, <2>1, <2>2 DEF Known
<1>10. /\ Keeps(shown, view) /\ (fetch.status = "answered" => Shows(view, fetch.state))
       /\ shown.view = "approvals" => ToSet(view.rows) \subseteq cards
  <2>1. CASE fetch.status = "answered"
    BY <1>1, <1>9, <2>1, ViewUpdates
  <2>2. CASE fetch.status # "answered"
    BY <1>1, <2>2 DEF Keeps, PageTypes, ShowInv
  <2> QED BY <2>1, <2>2
<1>11. /\ Alike(view, shown') /\ shown'.draft = shown.draft
       /\ shown'.sending = IF fetch.forSend THEN FALSE ELSE shown.sending
  <2>1. IsView(view) /\ view.draft = shown.draft /\ view.sending = shown.sending
    BY <1>10 DEF Keeps
  <2> HIDE DEF view
  <2>2. shown' = IF fetch.forSend THEN [view EXCEPT !.sending = FALSE] ELSE view
    BY <1>2 DEF Sent
  <2>3. LET w == [view EXCEPT !.sending = FALSE]
        IN  Alike(view, w) /\ w.draft = view.draft /\ w.sending = FALSE
    BY <2>1, BoxChanges
  <2>4. Alike(view, view)
    BY <2>1 DEF Alike
  <2>5. CASE fetch.forSend
    BY <2>1, <2>2, <2>3, <2>5
  <2>6. CASE ~fetch.forSend
    BY <2>1, <2>2, <2>4, <2>6
  <2> QED BY <2>5, <2>6
<1>12. ReadInv' /\ unread' \in Nat /\ lastSeen' \in Nat \cup {None} /\ state' \in State \cup {None}
  <2>1. CASE fetch.status = "answered"
    <3>1. /\ lastSeen' \in Nat /\ unread' \in Nat
          /\ \A r \in read' : r.time \in Nat /\ r.time <= lastSeen'
          /\ lastSeen' = 0 \/ \E r \in read' : r.time = lastSeen'
          /\ unread' = unreadCount(fetch.state.items, lastSeen')
      BY <1>1, <1>3, <1>9, <2>1, UnreadIsCounted
    <3>2. state' = fetch.state /\ state' \in State /\ state' # None
      BY <1>3, <1>9, <2>1
    <3> QED BY <3>1, <3>2 DEF ReadInv
  <2>2. CASE fetch.status # "answered"
    BY <1>1, <1>3, <2>2, ReadStays DEF PageTypes
  <2> QED BY <2>1, <2>2
<1>13. PageTypes'
  <2>1. IsView(shown)'
    BY <1>11 DEF Alike, IsView
  <2> QED BY <1>1, <1>2, <1>7, <1>12, <2>1 DEF PageTypes
<1>14. KnownInv'
  <2>1. \A k \in DOMAIN fetches' : fetches'[k].state \in {f.state : f \in ToSet(fetches)}
    <3> SUFFICES ASSUME NEW k \in DOMAIN fetches' PROVE fetches'[k].state \in {f.state : f \in ToSet(fetches)}
      OBVIOUS
    <3>1. at[k] \in DOMAIN fetches /\ fetches'[k] = marked[at[k]]
      BY <1>5, <1>8 DEF Lacks
    <3>2. fetches'[k].state = fetches[at[k]].state
      BY <1>5, <3>1
    <3>3. fetches[at[k]] \in ToSet(fetches)
      BY <1>4, <3>1, ListEntries
    <3> QED BY <3>2, <3>3
  <2>2. {f.state : f \in ToSet(fetches')} \subseteq {f.state : f \in ToSet(fetches)}
    BY <2>1 DEF ToSet
  <2>3. state' = state \/ state' \in Known
    BY <1>3, <1>9
  <2>4. Known' \subseteq Known
    BY <1>2, <2>2, <2>3 DEF Known
  <2> QED BY <1>1, <1>2, <2>4, KnownStays
<1>15. BusyInv'
  <2> HIDE DEF marked
  <2> QED BY <1>1, <1>2, <1>5, <1>8, <1>11, BusyRefreshes
<1>16. SendInv' /\ CatchInv'
  <2>1. CatchInv'
    BY <1>1, <1>8, RefreshCatches
  <2> QED BY <1>1, <1>2, <1>11, <2>1, SendStays
<1>17. ShowInv'
  <2>1. CASE fetch.status = "answered"
    <3>1. Shows(view, fetch.state) /\ state' = fetch.state /\ state' # None
      BY <1>3, <1>9, <1>10, <2>1
    <3>2. Shows(shown', fetch.state)
      BY <1>11, <3>1, AlikeShow
    <3>3. Shows(shown, state)' = Shows(shown', state')
      BY DEF Shows
    <3>4. shown'.view = shown.view /\ shown'.rows = view.rows /\ cards' = cards
      BY <1>2, <1>10, <1>11 DEF Alike, Keeps
    <3> QED BY <1>10, <3>1, <3>2, <3>3, <3>4 DEF ShowInv
  <2>2. CASE fetch.status # "answered"
    BY <1>1, <1>2, <1>3, <1>11, <2>2, ShowStays
  <2> QED BY <2>1, <2>2
<1> QED BY <1>12, <1>13, <1>14, <1>15, <1>16, <1>17 DEF PageInv

---------------------------------------------------------------------------------
(* The user.                                                                     *)

\* Another view is opened: what is under way is nobody's now.
LEMMA RouteKeeps ==
  ASSUME PageInv, NEW name \in ViewName, Route(name)
  PROVE  PageInv'
<1>1. PageTypes /\ KnownInv /\ BusyInv /\ SendInv /\ CatchInv /\ ReadInv /\ ShowInv
  BY DEF PageInv
<1>2. /\ posts' = [i \in DOMAIN posts |-> [posts[i] EXCEPT !.mine = FALSE]]
      /\ fetches' = [i \in DOMAIN fetches |-> [fetches[i] EXCEPT !.forSend = FALSE]]
      /\ UNCHANGED <<laptop, up, clock, added, announced, stored, state, live, heard, banner, typed, overtaken,
                     lost, cards>>
      /\ Saved' = Saved
  BY DEF Route, laptopVars, liveVars, savedVars, Saved
<1>3. \/ state = None /\ shown' = Opened(name) /\ UNCHANGED <<lastSeen, unread, read>>
      \/ state # None /\ shown' = Updated(Opened(name), state) /\ RefreshUnread(state, name)
  BY DEF Route
<1>4. fetches \in Seq(FetchSet) /\ posts \in Seq(Request) /\ state \in State \cup {None}
  BY <1>1 DEF PageTypes
<1>5. \A i \in DOMAIN posts :
         /\ posts'[i] \in Request /\ posts'[i].act = posts[i].act /\ posts'[i].arg = posts[i].arg
         /\ posts'[i].status = posts[i].status /\ posts'[i].mine = FALSE
  <2>1. \A i \in DOMAIN posts : posts[i] \in Request
    BY <1>4, ListEntries
  <2> QED BY <1>2, <2>1 DEF Request
<1>6. posts' \in Seq(Request) /\ DOMAIN posts' = DOMAIN posts
  <2>1. DOMAIN posts' = DOMAIN posts /\ posts' = [i \in DOMAIN posts |-> posts'[i]]
    BY <1>2
  <2> QED BY <1>4, <1>5, <2>1, ChangedEntries
<1>7. \A i \in DOMAIN fetches :
         /\ fetches'[i] \in FetchSet /\ fetches'[i].status = fetches[i].status
         /\ fetches'[i].state = fetches[i].state /\ fetches'[i].late = fetches[i].late
         /\ fetches'[i].forSend = FALSE
  <2>1. \A i \in DOMAIN fetches : fetches[i] \in FetchSet
    BY <1>4, ListEntries
  <2> QED BY <1>2, <2>1 DEF FetchSet
<1>8. fetches' \in Seq(FetchSet) /\ DOMAIN fetches' = DOMAIN fetches /\ Len(fetches') = Len(fetches)
  <2>1. DOMAIN fetches' = DOMAIN fetches /\ fetches' = [i \in DOMAIN fetches |-> fetches'[i]]
    BY <1>2
  <2> QED BY <1>4, <1>7, <2>1, ChangedEntries
<1>9. /\ IsView(shown') /\ shown'.draft = 0 /\ shown'.sending = FALSE
      /\ ReadInv' /\ ShowInv' /\ unread' \in Nat /\ lastSeen' \in Nat \cup {None}
  <2>1. CASE state = None
    <3>1. shown' = Opened(name) /\ UNCHANGED <<state, lastSeen, unread, read>>
      BY <1>2, <1>3, <2>1
    <3>2. /\ IsView(Opened(name)) /\ Blank(Opened(name))
          /\ Opened(name).draft = 0 /\ Opened(name).sending = FALSE
      BY OpenedIsBlank
    <3>3. ShowInv'
      BY <2>1, <3>1, <3>2 DEF ShowInv, Blank, ToSet
    <3> QED BY <1>1, <3>1, <3>2, <3>3, ReadStays DEF PageTypes
  <2>2. CASE state # None
    <3>1. state \in State /\ state \in Known
      BY <1>4, <2>2 DEF Known
    <3>2. /\ Keeps(Opened(name), shown') /\ Shows(shown', state)
          /\ name = "approvals" => ToSet(shown'.rows) \subseteq cards
      BY <1>1, <1>3, <2>2, <3>1, OpenedUpdates
    <3>3. Opened(name).draft = 0 /\ Opened(name).sending = FALSE /\ Opened(name).view = name
      BY OpenedIsBlank
    <3>4. ShowInv'
      <4>1. Shows(shown, state)' = Shows(shown', state')
        BY DEF Shows
      <4>2. shown'.view = name /\ cards' = cards
        BY <1>2, <3>2, <3>3 DEF Keeps
      <4> QED BY <1>2, <2>2, <3>2, <4>1, <4>2 DEF ShowInv
    <3>5. /\ lastSeen' \in Nat /\ unread' \in Nat
          /\ \A r \in read' : r.time \in Nat /\ r.time <= lastSeen'
          /\ lastSeen' = 0 \/ \E r \in read' : r.time = lastSeen'
          /\ unread' = unreadCount(state.items, lastSeen')
      BY <1>1, <1>3, <2>2, <3>1, UnreadIsCounted
    <3>6. ReadInv'
      BY <1>2, <2>2, <3>5 DEF ReadInv
    <3> QED BY <3>2, <3>3, <3>4, <3>5, <3>6 DEF Keeps
  <2> QED BY <2>1, <2>2
<1>10. PageTypes'
  <2>1. IsView(shown)'
    BY <1>9 DEF IsView
  <2> QED BY <1>1, <1>2, <1>6, <1>8, <1>9, <2>1 DEF PageTypes
<1>11. KnownInv'
  <2>1. {f.state : f \in ToSet(fetches')} \subseteq {f.state : f \in ToSet(fetches)}
    BY <1>7, <1>8 DEF ToSet
  <2>2. Known' \subseteq Known
    BY <1>2, <2>1 DEF Known
  <2> QED BY <1>1, <1>2, <2>2, KnownStays
<1>12. BusyInv'
  <2>1. (\A i \in DOMAIN posts' : ~IsMine(posts'[i])) /\ \A i \in DOMAIN fetches' : ~fetches'[i].forSend
    BY <1>5, <1>6, <1>7, <1>8 DEF IsMine
  <2> QED BY <1>9, <2>1 DEF BusyInv, IsMine
<1>13. SendInv'
  <2>1. stored \in Seq(1..typed) /\ typed \in Nat
    BY <1>1 DEF SendInv, PageTypes
  <2>2. 0 \notin ToSet(stored)
    BY <2>1, ListEntries
  <2>3. \A text : Repeatable(text) => StillRepeatable(text)
    BY <1>2 DEF Repeatable, StillRepeatable
  <2>4. \A i \in DOMAIN posts' : posts'[i].act = "text" =>
           /\ posts'[i].arg \in 1..typed'
           /\ posts'[i].status # "taken" => StillRepeatable(posts'[i].arg)
           /\ posts'[i].arg = shown'.draft => posts'[i].mine
    BY <1>1, <1>2, <1>5, <1>6, <1>9, <2>3 DEF SendInv
  <2>5. \A i, j \in DOMAIN posts' :
           posts'[i].act = "text" /\ posts'[j].act = "text" /\ posts'[i].arg = posts'[j].arg => i = j
    BY <1>1, <1>5, <1>6 DEF SendInv
  <2>6. SentOnce'
    BY <1>1, <1>2 DEF SendInv, SentOnce
  <2>7. stored' \in Seq(1..typed') /\ shown'.draft <= typed' /\ StillRepeatable(shown'.draft)
    BY <1>2, <1>9, <2>1, <2>2 DEF StillRepeatable
  <2> QED BY <2>4, <2>5, <2>6, <2>7 DEF SendInv, Repeatable, StillRepeatable
<1>14. CatchInv'
  <2>1. fetches # <<>> => Len(fetches) \in DOMAIN fetches
    BY <1>4, EmptySeq, LenProperties
  <2>2. fetches' = <<>> <=> fetches = <<>>
    BY <1>4, <1>8, EmptySeq
  <2> QED BY <1>1, <1>2, <1>7, <1>8, <2>1, <2>2 DEF CatchInv, Tells
<1> QED BY <1>9, <1>10, <1>11, <1>12, <1>13, <1>14 DEF PageInv

\* Another phone is chosen.
LEMMA PickPhoneKeeps ==
  ASSUME PageInv, NEW p \in Phone, PickPhone(p)
  PROVE  /\ PageInv'
         /\ shown'.selected = p /\ p # shown.selected
<1>1. PageTypes /\ KnownInv /\ BusyInv /\ SendInv /\ CatchInv /\ ReadInv /\ ShowInv
  BY DEF PageInv
<1> DEFINE chosen == [shown EXCEPT !.selected = p]
<1>2. /\ shown.view \in {"messages", "dashboard"} /\ shown.options # None
      /\ p \in ToSet(Ids(shown.options)) /\ p # shown.selected
      /\ shown' = IF shown.view = "messages" THEN Updated(chosen, state) ELSE chosen
      /\ UNCHANGED <<laptop, up, clock, added, announced, stored, state, lastSeen, unread, read, live, heard,
                     fetches, posts, banner, typed, overtaken, lost, cards>>
      /\ Saved' = Saved
  BY DEF PickPhone, UserOnly, laptopVars, liveVars, savedVars, Saved
<1>3. state # None /\ state \in State /\ state \in Known /\ Shows(shown, state)
  BY <1>1, <1>2 DEF ShowInv, Blank, PageTypes, Known
<1>4. shown.options = state.devices
  BY <1>2, <1>3 DEF Shows
<1>5. IsView(shown) /\ state.devices \in Seq(DeviceSet) /\ Agree(state, state)
  BY <1>1, <1>3, KnownAgree DEF PageTypes, State
<1>6. chatTarget(state.devices, p).id = p
  BY <1>2, <1>4, <1>5, ChatTargetProperties
<1>7. /\ chosen = [view |-> shown.view, selected |-> p, options |-> shown.options, key |-> shown.key,
                   rows |-> shown.rows, draft |-> shown.draft, sending |-> shown.sending]
  BY <1>5 DEF IsView
<1> HIDE DEF chosen
<1>8. IsView(chosen) /\ Keeps(shown, chosen) /\ chosen.selected = p
  BY <1>5, <1>7 DEF Keeps, IsView
<1>9. Keeps(shown, shown') /\ shown'.selected = p /\ Shows(shown', state)
  <2>1. CASE shown.view = "messages"
    <3>1. \E target \in Chat : /\ shown.key = [phone |-> target.id, name |-> target.name,
                                               ids |-> Ids(groupMessages(state.items, target))]
                               /\ shown.rows = groupMessages(state.items, target)
      <4>1. Drew(shown, state)
        BY <1>3, <1>5, ShownIsDrawn
      <4> QED BY <2>1, <4>1 DEF Drew
    <3>2. Drew(chosen, state)
      BY <1>7, <2>1, <3>1 DEF Drew
    <3>3. /\ Keeps(chosen, Updated(chosen, state)) /\ Shows(Updated(chosen, state), state)
          /\ chosen.view = "messages"
          /\ Updated(chosen, state).selected = chatTarget(state.devices, chosen.selected).id
      <4>1. chosen.view = "messages"
        BY <1>8, <2>1 DEF Keeps
      <4> QED BY <1>3, <1>5, <1>8, <3>2, <4>1, UpdatedShows
    <3> QED BY <1>2, <1>6, <1>8, <2>1, <3>3 DEF Keeps
  <2>2. CASE shown.view = "dashboard"
    <3>1. shown' = chosen
      BY <1>2, <2>2
    <3>2. /\ shown.options = state.devices
          /\ LET files == Only(state.items, {it \in ToSet(state.items) : it.kind = "file"})
             IN  /\ shown.key = itemKey(files, state.devices)
                 /\ shown.rows = [i \in DOMAIN files |-> itemChip(Reverse(files)[i], state.devices)]
      BY <1>3, <2>2 DEF Shows
    <3>3. Shows(chosen, state)
      BY <1>6, <1>7, <2>2, <3>2 DEF Shows
    <3> QED BY <1>8, <3>1, <3>3
  <2> QED BY <1>2, <2>1, <2>2
<1>10. PageTypes'
  <2>1. IsView(shown)'
    BY <1>9 DEF Keeps, IsView
  <2> QED BY <1>1, <1>2, <2>1 DEF PageTypes
<1>11. KnownInv'
  <2>1. Known' \subseteq Known
    BY <1>2 DEF Known
  <2> QED BY <1>1, <1>2, <2>1, KnownStays
<1>12. BusyInv' /\ SendInv' /\ CatchInv' /\ ReadInv'
  BY <1>1, <1>2, <1>9, BusyStays, SendStays, CatchStays, ReadStays DEF Keeps
<1>13. ShowInv'
  <2>1. Shows(shown, state)' = Shows(shown', state')
    BY DEF Shows
  <2>2. shown'.view # "approvals"
    BY <1>2, <1>9 DEF Keeps
  <2> QED BY <1>2, <1>3, <1>9, <2>1, <2>2 DEF ShowInv
<1> QED BY <1>2, <1>9, <1>10, <1>11, <1>12, <1>13 DEF PageInv

\* A request of the page (api.js).
LEMMA PostProperties ==
  ASSUME PageTypes,
         NEW act \in {"text", "upload", "approve", "deny", "revoke", "delete", "clear"}, NEW arg \in Nat,
         NEW device \in Phone \cup {None}, Post(act, arg, device)
  PROVE  LET n == Len(posts)
         IN  /\ posts' \in Seq(Request) /\ n \in Nat /\ DOMAIN posts = 1..n /\ DOMAIN posts' = 1..(n + 1)
             /\ \A i \in 1..n : posts'[i] = posts[i]
             /\ posts'[n + 1].act = act /\ posts'[n + 1].arg = arg /\ posts'[n + 1].mine = TRUE
             /\ posts'[n + 1].status # "taken"
<1> DEFINE post == [act |-> act, arg |-> arg, device |-> device, mine |-> TRUE,
                    status |-> IF up THEN "asked" ELSE "failed"]
<1>1. posts' = Append(posts, post) /\ posts \in Seq(Request)
  BY DEF Post, PageTypes
<1>2. /\ post \in Request /\ post.act = act /\ post.arg = arg /\ post.mine = TRUE /\ post.status # "taken"
  BY DEF Request
<1> HIDE DEF post
<1>3. /\ posts' \in Seq(Request) /\ DOMAIN posts' = 1..(Len(posts) + 1)
      /\ \A i \in DOMAIN posts : posts'[i] = posts[i]
      /\ posts'[Len(posts) + 1] = post
      /\ Len(posts) \in Nat /\ DOMAIN posts = 1..Len(posts)
  BY <1>1, <1>2, AddedEntry, LenProperties
<1> QED BY <1>2, <1>3

\* A click, or a key: the page has asked for nothing yet.
LEMMA UserOnlyKeeps ==
  ASSUME PageInv, UserOnly, typed' \in Nat, posts' \in Seq(Request), Alike(shown, shown'),
         BusyInv', SendInv'
  PROVE  PageInv'
<1>1. PageTypes /\ KnownInv /\ CatchInv /\ ReadInv /\ ShowInv
  BY DEF PageInv
<1>2. UNCHANGED <<laptop, up, clock, added, announced, stored, state, lastSeen, unread, read, live, heard,
                  fetches, banner, overtaken, lost, cards>> /\ Saved' = Saved
  BY DEF UserOnly, laptopVars, liveVars, savedVars, Saved
<1>3. PageTypes'
  <2>1. IsView(shown)'
    BY DEF Alike, IsView
  <2> QED BY <1>1, <1>2, <2>1 DEF PageTypes
<1>4. KnownInv'
  <2>1. Known' \subseteq Known
    BY <1>2 DEF Known
  <2> QED BY <1>1, <1>2, <2>1, KnownStays
<1>5. CatchInv' /\ ReadInv' /\ ShowInv'
  BY <1>1, <1>2, CatchStays, ReadStays, ShowStays
<1> QED BY <1>3, <1>4, <1>5 DEF PageInv

\* Something else than a message is asked for.
LEMMA OtherPostKeeps ==
  ASSUME PageInv, UserOnly, typed' = typed, shown' = shown,
         NEW act \in {"upload", "approve", "deny", "revoke", "delete", "clear"}, NEW arg \in Nat,
         NEW device \in Phone \cup {None}, Post(act, arg, device)
  PROVE  PageInv'
<1>1. PageTypes /\ BusyInv /\ SendInv
  BY DEF PageInv
<1>2. act \in {"text", "upload", "approve", "deny", "revoke", "delete", "clear"} /\ act # "text"
  OBVIOUS
<1> DEFINE n == Len(posts)
<1>3. /\ posts' \in Seq(Request) /\ n \in Nat /\ DOMAIN posts = 1..n /\ DOMAIN posts' = 1..(n + 1)
      /\ \A i \in 1..n : posts'[i] = posts[i]
      /\ posts'[n + 1].act = act
  BY <1>1, <1>2, PostProperties
<1>4. UNCHANGED <<fetches, stored, lost>>
  BY DEF UserOnly, laptopVars
<1>5. \A i \in DOMAIN posts' : posts'[i].act = "text" => i \in DOMAIN posts /\ posts'[i] = posts[i]
  BY <1>2, <1>3
<1>6. \A i \in DOMAIN posts : i \in DOMAIN posts' /\ posts'[i] = posts[i]
  BY <1>3
<1>7. BusyInv'
  BY <1>1, <1>4, <1>5, <1>6 DEF BusyInv, IsMine
<1>8. SendInv'
  BY <1>1, <1>4, <1>5, <1>6 DEF SendInv, SentOnce, Repeatable
<1>9. typed' \in Nat /\ Alike(shown, shown')
  BY <1>1 DEF PageTypes, Alike
<1> QED BY <1>3, <1>7, <1>8, <1>9, UserOnlyKeeps

\* A message is typed.
LEMMA TypeKeeps ==
  ASSUME PageInv, Type
  PROVE  PageInv'
<1>1. PageTypes /\ BusyInv /\ SendInv /\ typed \in Nat /\ IsView(shown)
  BY DEF PageInv, PageTypes
<1>2. /\ typed' = typed + 1 /\ shown' = [shown EXCEPT !.draft = typed + 1] /\ posts' = posts /\ UserOnly
  BY DEF Type
<1>3. UNCHANGED <<fetches, stored, lost>>
  BY <1>2 DEF UserOnly, laptopVars
<1>4. Alike(shown, shown') /\ shown'.draft = typed + 1 /\ shown'.sending = shown.sending
  <2>1. typed + 1 \in Nat /\ IsView(shown)
    BY <1>1
  <2> QED BY <1>2, <2>1, BoxChanges
<1>5. BusyInv'
  BY <1>1, <1>2, <1>3, <1>4, BusyStays
<1>6. SendInv'
  <2>1. stored \in Seq(1..typed)
    BY <1>1 DEF SendInv
  <2>2. stored' \in Seq(1..typed') /\ typed + 1 \notin ToSet(stored)
    <3>1. \A x \in ToSet(stored) : x \in 1..typed
      BY <2>1, ListEntries
    <3>2. 1..typed \subseteq 1..typed'
      BY <1>1, <1>2
    <3>3. Len(stored) \in Nat /\ stored \in [1..Len(stored) -> 1..typed]
      BY <2>1, LenProperties
    <3>4. stored \in [1..Len(stored) -> 1..typed']
      BY <3>2, <3>3
    <3>5. stored \in Seq(1..typed')
      BY <3>3, <3>4, FunctionIsList
    <3> QED BY <1>1, <1>3, <3>1, <3>5
  <2>3. \A i \in DOMAIN posts' : posts'[i].act = "text" =>
           /\ posts'[i].arg \in 1..typed'
           /\ posts'[i].status # "taken" => StillRepeatable(posts'[i].arg)
           /\ posts'[i].arg # typed + 1
    BY <1>1, <1>2, <1>3 DEF SendInv, Repeatable, StillRepeatable
  <2>4. SentOnce' /\ \A i, j \in DOMAIN posts' :
           posts'[i].act = "text" /\ posts'[j].act = "text" /\ posts'[i].arg = posts'[j].arg => i = j
    BY <1>1, <1>2, <1>3 DEF SendInv, SentOnce
  <2>5. StillRepeatable(shown'.draft) /\ shown'.draft <= typed'
    BY <1>1, <1>2, <1>3, <1>4, <2>2 DEF StillRepeatable
  <2> QED BY <1>4, <2>2, <2>3, <2>4, <2>5 DEF SendInv, Repeatable, StillRepeatable
<1>7. posts' \in Seq(Request) /\ typed' \in Nat
  BY <1>1, <1>2 DEF PageTypes
<1> QED BY <1>2, <1>4, <1>5, <1>6, <1>7, UserOnlyKeeps

\* A message is sent: the box is busy with it alone.
LEMMA SendTextKeeps ==
  ASSUME PageInv, SendText
  PROVE  PageInv'
<1>1. PageTypes /\ BusyInv /\ SendInv /\ typed \in Nat /\ IsView(shown)
  BY DEF PageInv, PageTypes
<1>2. /\ ~shown.sending /\ shown.draft # 0 /\ Post("text", shown.draft, shown.selected)
      /\ shown' = [shown EXCEPT !.sending = TRUE] /\ typed' = typed /\ UserOnly
  BY DEF SendText, MaySend
<1>3. UNCHANGED <<fetches, stored, lost>>
  BY <1>2 DEF UserOnly, laptopVars
<1>4. Alike(shown, shown') /\ shown'.draft = shown.draft /\ shown'.sending = TRUE
  BY <1>1, <1>2, BoxChanges
<1>5. shown.draft \in 1..typed /\ shown.draft \in Nat /\ shown.selected \in Phone \cup {None}
  BY <1>1, <1>2 DEF SendInv, IsView
<1> DEFINE n == Len(posts)
<1>6. /\ posts' \in Seq(Request) /\ n \in Nat /\ DOMAIN posts = 1..n /\ DOMAIN posts' = 1..(n + 1)
      /\ \A i \in 1..n : posts'[i] = posts[i]
      /\ posts'[n + 1].act = "text" /\ posts'[n + 1].arg = shown.draft /\ posts'[n + 1].mine = TRUE
      /\ posts'[n + 1].status # "taken"
  BY <1>1, <1>2, <1>5, PostProperties
<1>7. (\A i \in DOMAIN posts : ~IsMine(posts[i])) /\ \A i \in DOMAIN fetches : ~fetches[i].forSend
  BY <1>1, <1>2 DEF BusyInv
<1>8. \A i \in DOMAIN posts' : i = n + 1 \/ (i \in DOMAIN posts /\ posts'[i] = posts[i])
  BY <1>6
<1>9. n + 1 \in DOMAIN posts'
  BY <1>6
<1>10. BusyInv'
  <2>1. \A i \in DOMAIN posts' : IsMine(posts'[i]) => i = n + 1
    BY <1>7, <1>8
  <2>2. IsMine(posts'[n + 1])
    BY <1>6 DEF IsMine
  <2> QED BY <1>3, <1>4, <1>7, <1>9, <2>1, <2>2 DEF BusyInv, IsMine
<1>11. SendInv'
  <2>1. \A i \in DOMAIN posts : posts[i].act = "text" => posts[i].arg # shown.draft
    BY <1>1, <1>7 DEF SendInv, IsMine
  <2>2. Repeatable(shown.draft)
    BY <1>1, <2>1 DEF SendInv
  <2>3. \A text : Repeatable(text) => StillRepeatable(text)
    BY <1>3 DEF Repeatable, StillRepeatable
  <2>4. \A i \in DOMAIN posts' : posts'[i].act = "text" =>
           /\ posts'[i].arg \in 1..typed'
           /\ posts'[i].status # "taken" => StillRepeatable(posts'[i].arg)
           /\ posts'[i].arg = shown'.draft => posts'[i].mine
    <3> SUFFICES ASSUME NEW i \in DOMAIN posts', posts'[i].act = "text"
                 PROVE  /\ posts'[i].arg \in 1..typed'
                        /\ posts'[i].status # "taken" => StillRepeatable(posts'[i].arg)
                        /\ posts'[i].arg = shown'.draft => posts'[i].mine
      OBVIOUS
    <3>1. CASE i = n + 1
      BY <1>2, <1>5, <1>6, <2>2, <2>3, <3>1
    <3>2. CASE i \in DOMAIN posts /\ posts'[i] = posts[i]
      BY <1>1, <1>2, <1>4, <2>3, <3>2 DEF SendInv
    <3> QED BY <1>8, <3>1, <3>2
  <2>5. \A i, j \in DOMAIN posts' :
           posts'[i].act = "text" /\ posts'[j].act = "text" /\ posts'[i].arg = posts'[j].arg => i = j
    BY <1>1, <1>6, <1>8, <2>1 DEF SendInv
  <2>6. SentOnce' /\ stored' \in Seq(1..typed') /\ shown'.draft <= typed'
    BY <1>1, <1>2, <1>3, <1>4 DEF SendInv, SentOnce
  <2>7. StillRepeatable(shown'.draft)
    BY <1>4, <2>2, <2>3
  <2> QED BY <2>4, <2>5, <2>6, <2>7 DEF SendInv, Repeatable, StillRepeatable
<1> QED BY <1>1, <1>2, <1>4, <1>6, <1>10, <1>11, UserOnlyKeeps

\* What the rows of a view are.
LEMMA RowTypes ==
  ASSUME PageTypes, ShowInv
  PROVE  /\ shown.view = "approvals" => \A c \in ToSet(shown.rows) : c.request.id \in Nat
         /\ shown.view = "devices" => \A d \in ToSet(shown.rows) : d.id \in Phone
         /\ shown.view = "dashboard" => \A row \in ToSet(shown.rows) : row.id \in Nat
<1>1. CASE state = None
  BY <1>1 DEF ShowInv, Blank, ToSet
<1>2. CASE state # None
  <2>1. state \in State /\ Shows(shown, state)
    BY <1>2 DEF ShowInv, PageTypes
  <2>2. state.devices \in Seq(DeviceSet) /\ state.items \in Seq(ItemSet)
    BY <2>1 DEF State
  <2>3. CASE shown.view = "approvals"
    <3>1. shown.rows \in Seq(CardSet)
      BY <2>1, <2>3 DEF Shows
    <3>2. \A c \in ToSet(shown.rows) : c \in CardSet
      BY <3>1, ListEntries
    <3> QED BY <2>3, <3>2 DEF CardSet, RequestSet
  <2>4. CASE shown.view = "devices"
    <3>1. shown.rows = state.devices
      BY <2>1, <2>4 DEF Shows
    <3>2. \A d \in ToSet(shown.rows) : d \in DeviceSet
      BY <2>2, <3>1, ListEntries
    <3> QED BY <2>4, <3>2 DEF DeviceSet
  <2>5. CASE shown.view = "dashboard"
    <3> DEFINE isFile == {it \in ToSet(state.items) : it.kind = "file"}
               files == Only(state.items, isFile)
    <3>1. shown.rows = [i \in DOMAIN files |-> itemChip(Reverse(files)[i], state.devices)]
      BY <2>1, <2>5 DEF Shows
    <3>2. files \in Seq(ItemSet)
      <4> HIDE DEF isFile
      <4> QED BY <2>2, OnlyProperties
    <3> HIDE DEF files
    <3>3. PICK n \in Nat : n = Len(files) /\ DOMAIN files = 1..n
      BY <3>2, LenProperties
    <3>4. \A i \in 1..n : Reverse(files)[i] \in ItemSet
      <4>1. \A i \in 1..n : Reverse(files)[i] = files[(n - i) + 1] /\ (n - i) + 1 \in 1..n
        BY <3>3 DEF Reverse
      <4> QED BY <3>2, <3>3, <4>1, ListEntries
    <3>5. \A i \in 1..n : shown.rows[i].id = Reverse(files)[i].id
      BY <3>1, <3>3 DEF itemChip
    <3>6. \A i \in 1..n : shown.rows[i].id \in Nat
      BY <3>4, <3>5 DEF ItemSet
    <3> QED BY <2>5, <3>1, <3>3, <3>6 DEF ToSet
  <2> QED BY <2>3, <2>4, <2>5
<1> QED BY <1>1, <1>2

\* A button of a view is clicked.
LEMMA ButtonsKeep ==
  ASSUME PageInv, NEW r, Decide("approve", r) \/ Decide("deny", r) \/ Revoke(r) \/ FileActs
  PROVE  PageInv'
<1>1. PageTypes /\ ShowInv /\ IsView(shown)
  BY DEF PageInv, PageTypes
<1>2. ASSUME NEW act \in {"approve", "deny"}, Decide(act, r) PROVE PageInv'
  <2>1. /\ shown.view = "approvals" /\ r \in ToSet(shown.rows) /\ Post(act, r.request.id, None)
        /\ UserOnly /\ typed' = typed /\ shown' = shown
    BY <1>2 DEF Decide
  <2>2. r.request.id \in Nat
    BY <1>1, <2>1, RowTypes
  <2> QED BY <2>1, <2>2, OtherPostKeeps
<1>3. ASSUME Revoke(r) PROVE PageInv'
  <2>1. /\ shown.view = "devices" /\ r \in ToSet(shown.rows) /\ Post("revoke", 0, r.id)
        /\ UserOnly /\ typed' = typed /\ shown' = shown
    BY <1>3 DEF Revoke
  <2>2. r.id \in Phone
    BY <1>1, <2>1, RowTypes
  <2> QED BY <2>1, <2>2, OtherPostKeeps
<1>4. ASSUME FileActs PROVE PageInv'
  <2>1. /\ shown.view = "dashboard" /\ state # None /\ UserOnly /\ typed' = typed /\ shown' = shown
        /\ \/ \E row \in ToSet(shown.rows) : Post("delete", row.id, None)
           \/ Post("clear", 0, None)
           \/ Post("upload", 0, targetId(shown, state))
    BY <1>4 DEF FileActs
  <2>2. \A row \in ToSet(shown.rows) : row.id \in Nat
    BY <1>1, <2>1, RowTypes
  <2>3. targetId(shown, state) \in Phone \cup {None}
    <3>1. shown.selected \in Phone \cup {None} /\ state.devices \in Seq(DeviceSet)
      BY <1>1, <2>1 DEF IsView, PageTypes, State
    <3>2. chatTarget(state.devices, None) \in Chat
      BY <3>1, ChatTargetProperties
    <3> QED BY <3>1, <3>2 DEF targetId, Chat
  <2>4. CASE \E row \in ToSet(shown.rows) : Post("delete", row.id, None)
    BY <2>1, <2>2, <2>4, OtherPostKeeps
  <2>5. CASE Post("clear", 0, None)
    BY <2>1, <2>5, OtherPostKeeps
  <2>6. CASE Post("upload", 0, targetId(shown, state))
    BY <2>1, <2>3, <2>6, OtherPostKeeps
  <2> QED BY <2>1, <2>4, <2>5, <2>6
<1> QED BY <1>2, <1>3, <1>4

---------------------------------------------------------------------------------
(* What the page promises.                                                       *)

\* The page is loaded.
LEMMA PageInitKeeps ==
  ASSUME PageInit
  PROVE  PageInv
<1>1. /\ laptop = [rev |-> 0, devices |-> PairedAtFirst, items |-> <<>>, pending |-> <<>>]
      /\ up \in BOOLEAN /\ clock = 1 /\ added = 0 /\ announced = 0 /\ stored = <<>>
      /\ state = None /\ lastSeen = None /\ unread = 0 /\ read = {}
      /\ posts = <<>> /\ live = "opening" /\ heard = 0 /\ typed = 0 /\ lost = {}
      /\ Saved = laptop
  BY DEF PageInit, Saved
<1>2. PICK name \in ViewName : shown = Opened(name)
  BY DEF PageInit
<1>3. IsView(shown) /\ Blank(shown) /\ shown.draft = 0 /\ shown.sending = FALSE
  BY <1>2, OpenedIsBlank
<1> DEFINE fetch == [status |-> "asked", state |-> None, forSend |-> FALSE, late |-> FALSE]
<1>4. /\ fetches \in Seq(FetchSet) /\ \A i \in DOMAIN fetches : fetches[i] = fetch
  <2>1. fetches = <<fetch>>
    BY DEF PageInit
  <2>2. fetch \in FetchSet
    BY DEF FetchSet
  <2> HIDE DEF fetch
  <2> QED BY <2>1, <2>2
<1>5. PairedAtFirst \in Seq(DeviceSet)
  <2> DEFINE seq == SetToSeq(Phone)
             n == Cardinality(Phone)
             paired == [i \in DOMAIN seq |-> [id |-> seq[i], name |-> OldName]]
  <2>1. n \in Nat /\ ExistsBijection(1..n, Phone)
    BY FS_CardinalityType, AdminPageAssumption
  <2>2. \E f \in [1..n -> Phone] : IsInjective(f)
    BY <2>1 DEF ExistsBijection, Bijection, Injection, IsInjective
  <2>3. seq \in [1..n -> Phone]
    BY <2>2 DEF SetToSeq
  <2> HIDE DEF seq
  <2>4. paired \in [1..n -> DeviceSet]
    BY <2>3 DEF DeviceSet
  <2> HIDE DEF paired
  <2>5. paired \in Seq(DeviceSet)
    BY <2>1, <2>4, FunctionIsList
  <2> QED BY <2>5 DEF PairedAtFirst, paired, seq
<1>6. laptop \in State
  BY <1>1, <1>5 DEF State
<1>7. PageTypes
  <2>1. posts \in Seq(Request)
    BY <1>1
  <2> QED BY <1>1, <1>3, <1>4, <1>6, <2>1 DEF PageTypes
<1>8. KnownInv
  <2>1. \A f \in ToSet(fetches) : f.state = None
    BY <1>4 DEF ToSet
  <2>2. Known = {laptop}
    BY <1>1, <2>1 DEF Known
  <2>3. /\ laptop.items = <<>> /\ laptop.pending = <<>>
        /\ IsInjective(laptop.items) /\ IsInjective(laptop.pending)
        /\ ToSet(laptop.items) = {} /\ ToSet(laptop.pending) = {}
    BY <1>1 DEF IsInjective, ToSet
  <2> HIDE DEF Known
  <2> QED BY <2>2, <2>3 DEF KnownInv
<1>9. BusyInv
  <2>1. \A i \in DOMAIN fetches : ~fetches[i].forSend
    BY <1>4
  <2>2. DOMAIN posts = {}
    BY <1>1
  <2> QED BY <1>3, <2>1, <2>2 DEF BusyInv
<1>10. SendInv
  <2>1. DOMAIN posts = {} /\ stored \in Seq(1..typed) /\ ToSet(stored) = {} /\ DOMAIN stored = {}
    BY <1>1 DEF ToSet
  <2> QED BY <1>1, <1>3, <2>1 DEF SendInv, SentOnce, Repeatable
<1>11. CatchInv
  BY <1>1 DEF CatchInv
<1>12. ReadInv /\ ShowInv
  BY <1>1, <1>3 DEF ReadInv, ShowInv, Blank, ToSet
<1> QED BY <1>7, <1>8, <1>9, <1>10, <1>11, <1>12 DEF PageInv

\* Every step keeps the invariant.
LEMMA PageStep ==
  ASSUME PageInv, PageNext
  PROVE  PageInv'
<1>1. CASE Goes
  <2>1. \/ \E i \in DOMAIN fetches : AnswerState(i) \/ RefreshEnds(i)
        \/ \E i \in DOMAIN posts : PostTaken(i) \/ PostFails(i) \/ HandleRefuses(i) \/ Handle(i)
        \/ SourceOpens \/ OnChanged \/ SourceFails \/ SourceRetries
    BY <1>1 DEF Goes
  <2>2. CASE \E i \in DOMAIN fetches : AnswerState(i) \/ RefreshEnds(i)
    BY <2>2, AnswerStateKeeps, RefreshEndsKeeps
  <2>3. CASE \E i \in DOMAIN posts : PostTaken(i) \/ PostFails(i) \/ HandleRefuses(i) \/ Handle(i)
    BY <2>3, HandleRefusesKeeps, HandleKeeps, PostTakenKeeps, PostFailsKeeps
  <2> QED BY <2>1, <2>2, <2>3, SourceOpensKeeps, OnChangedKeeps, SourceStopsKeeps
<1>2. CASE Others
  <2>1. \/ \E p \in Phone : \/ \E time \in {clock, clock + 1} : PhoneSends(p, "text", time)
                            \/ PhoneSends(p, "file", clock)
                            \/ \E name \in Name, b \in BOOLEAN : RequestWaits(p, name, b)
        \/ \E i \in DOMAIN posts : HandleFails(i)
        \/ RequestRunsOut \/ Ends \/ Restarts
    BY <1>2 DEF Others
  <2>2. ASSUME NEW p \in Phone, NEW time \in {clock, clock + 1}, PhoneSends(p, "text", time) PROVE PageInv'
    BY <2>2, PhoneSendsKeeps
  <2>3. ASSUME NEW p \in Phone, PhoneSends(p, "file", clock) PROVE PageInv'
    BY <2>3, PhoneSendsKeeps
  <2>4. ASSUME NEW p \in Phone, NEW name \in Name, NEW b \in BOOLEAN, RequestWaits(p, name, b)
        PROVE  PageInv'
    BY <2>4, RequestWaitsKeeps
  <2> QED BY <2>1, <2>2, <2>3, <2>4, HandleFailsKeeps, RequestRunsOutKeeps, EndsKeeps, RestartsKeeps
<1>3. CASE User
  <2>1. \/ \E name \in ViewName : Route(name)
        \/ Type \/ SendText \/ FileActs
        \/ \E p \in Phone : PickPhone(p)
        \/ \E r \in ToSet(shown.rows) : Decide("approve", r) \/ Decide("deny", r) \/ Revoke(r)
    BY <1>3 DEF User
  <2> QED BY <2>1, RouteKeeps, TypeKeeps, SendTextKeeps, PickPhoneKeeps, ButtonsKeep
<1> QED BY <1>1, <1>2, <1>3 DEF PageNext

\* A view that is opened anew, with what was chosen and written in it.
Reopened(view) == [Opened(view.view) EXCEPT !.selected = view.selected,
                                            !.draft = view.draft, !.sending = view.sending]

\* It is blank, but for what was chosen and written.
LEMMA ReopenedView ==
  ASSUME NEW view
  PROVE  Reopened(view) = [view |-> view.view, selected |-> view.selected, options |-> None, key |-> None,
                           rows |-> <<>>, draft |-> view.draft, sending |-> view.sending]
<1>1. PICK name, selected, draft, sending : /\ name = view.view /\ selected = view.selected
                                            /\ draft = view.draft /\ sending = view.sending
  OBVIOUS
<1> DEFINE blank == Opened(name)
           chosen == [blank EXCEPT !.selected = selected]
           written == [chosen EXCEPT !.draft = draft]
           box == [written EXCEPT !.sending = sending]
<1>2. PICK d, s, r : /\ blank = [view |-> name, selected |-> None, options |-> None, key |-> None,
                                 rows |-> r, draft |-> d, sending |-> s]
                     /\ r = <<>>
  BY DEF Opened
<1>3. Reopened(view) = [blank EXCEPT !.selected = selected, !.draft = draft, !.sending = sending]
  BY <1>1 DEF Reopened
<1> HIDE DEF blank
<1>4. Reopened(view) = box
  BY <1>2, <1>3
<1>5. chosen = [view |-> name, selected |-> selected, options |-> None, key |-> None, rows |-> r,
                draft |-> d, sending |-> s]
  BY <1>2
<1> HIDE DEF chosen
<1>6. written = [view |-> name, selected |-> selected, options |-> None, key |-> None, rows |-> r,
                 draft |-> draft, sending |-> s]
  BY <1>5
<1> HIDE DEF written
<1>7. box = [view |-> name, selected |-> selected, options |-> None, key |-> None, rows |-> r,
             draft |-> draft, sending |-> sending]
  BY <1>6
<1> HIDE DEF box
<1> QED BY <1>1, <1>2, <1>4, <1>7

\* What is compared of the cards: the requests that they are about.
LEMMA DrawnRequests ==
  ASSUME NEW v, IsView(v), v.view = "approvals"
  PROVE  Drawn(v) = [view |-> v.view, selected |-> v.selected, options |-> v.options, key |-> v.key,
                     rows |-> {c.request : c \in ToSet(v.rows)}, draft |-> v.draft, sending |-> v.sending]
<1>1. PICK requests : requests = {c.request : c \in ToSet(v.rows)}
  OBVIOUS
<1>2. Drawn(v) = [v EXCEPT !.rows = {c.request : c \in ToSet(v.rows)}]
  BY DEF Drawn
<1>3. Drawn(v) = [v EXCEPT !.rows = requests]
  BY <1>1, <1>2
<1> QED BY <1>1, <1>3 DEF IsView

\* What is drawn and what would be drawn anew are the same.
LEMMA PageShowsState ==
  ASSUME PageInv
  PROVE  ViewShowsState
<1>1. PageTypes /\ KnownInv /\ BusyInv /\ SendInv /\ ShowInv /\ IsView(shown)
  BY DEF PageInv, PageTypes
<1>2. PageTypeOK
  <2>1. \A f \in ToSet(fetches) : f \in FetchSet
    BY <1>1, ListEntries DEF PageTypes
  <2>2. \A p \in ToSet(posts) : p \in Request
    BY <1>1, ListEntries DEF PageTypes
  <2>3. shown.sending <=> \/ \E p \in ToSet(posts) : p.act = "text" /\ p.mine
                          \/ \E f \in ToSet(fetches) : f.forSend
    BY <1>1 DEF BusyInv, IsMine, ToSet
  <2>4. \A f \in ToSet(fetches) : /\ f.status \in {"asked", "answered", "failed"}
                                  /\ f.state \in IF f.status = "answered" THEN State ELSE {None}
    BY <2>1 DEF FetchSet
  <2>5. \A p \in ToSet(posts) : p.status \in {"asked", "taken", "refused", "failed"}
    BY <2>2 DEF Request
  <2>6. shown.view \in ViewName /\ shown.draft \in 0..typed
    BY <1>1 DEF IsView, SendInv, PageTypes
  <2> QED BY <1>1, <2>3, <2>4, <2>5, <2>6 DEF PageTypeOK, PageTypes
<1>3. ASSUME state # None
      PROVE  Drawn(shown) = Drawn(Updated([Opened(shown.view) EXCEPT !.selected = shown.selected,
                                                                     !.draft = shown.draft,
                                                                     !.sending = shown.sending], state))
  <2> DEFINE fresh == Reopened(shown)
             w == Updated(fresh, state)
  <2>1. state \in State /\ state \in Known /\ Shows(shown, state)
    BY <1>1, <1>3 DEF PageTypes, Known, ShowInv
  <2>2. fresh = [view |-> shown.view, selected |-> shown.selected, options |-> None, key |-> None,
                 rows |-> <<>>, draft |-> shown.draft, sending |-> shown.sending]
    BY ReopenedView
  <2> HIDE DEF fresh
  <2>3. IsView(fresh) /\ Blank(fresh) /\ fresh.selected = shown.selected /\ Keeps(shown, fresh)
    BY <1>1, <2>2 DEF IsView, Blank, Keeps
  <2>4. /\ Keeps(fresh, w) /\ Shows(w, state)
        /\ w.selected = IF fresh.view \in {"messages", "dashboard"}
                        THEN chatTarget(state.devices, fresh.selected).id ELSE fresh.selected
    BY <1>1, <2>1, <2>3, KnownAgree, UpdatedShows
  <2>5. shown.view \in {"messages", "dashboard"} => chatTarget(state.devices, shown.selected).id = shown.selected
    BY <2>1 DEF Shows
  <2>6. /\ IsView(w) /\ w.view = shown.view /\ w.selected = shown.selected
        /\ w.draft = shown.draft /\ w.sending = shown.sending
    BY <2>3, <2>4, <2>5 DEF Keeps
  <2> HIDE DEF w
  <2>7. /\ shown.options = w.options /\ shown.key = w.key
        /\ shown.view # "approvals" => shown = w
        /\ shown.view = "approvals" =>
              {c.request : c \in ToSet(shown.rows)} = {c.request : c \in ToSet(w.rows)}
    BY <1>1, <2>1, <2>4, <2>6, ShownIsShown
  <2>8. Drawn(shown) = Drawn(w)
    <3>1. CASE shown.view # "approvals"
      BY <2>7, <3>1
    <3>2. CASE shown.view = "approvals"
      <4>1. Drawn(shown) = [view |-> shown.view, selected |-> shown.selected, options |-> shown.options,
                            key |-> shown.key, rows |-> {c.request : c \in ToSet(shown.rows)},
                            draft |-> shown.draft, sending |-> shown.sending]
        BY <1>1, <3>2, DrawnRequests
      <4>2. Drawn(w) = [view |-> w.view, selected |-> w.selected, options |-> w.options,
                        key |-> w.key, rows |-> {c.request : c \in ToSet(w.rows)}, draft |-> w.draft,
                        sending |-> w.sending]
        BY <2>6, <3>2, DrawnRequests
      <4> QED BY <2>6, <2>7, <3>2, <4>1, <4>2
    <3> QED BY <3>1, <3>2
  <2> QED BY <2>8 DEF w, fresh, Reopened
<1>4. shown.view = "approvals" => ToSet(shown.rows) \subseteq cards
  BY <1>1 DEF ShowInv
<1> QED BY <1>2, <1>3, <1>4 DEF ViewShowsState

\* The badge counts the messages that are later than all that was read.
LEMMA PageCountsUnread ==
  ASSUME PageInv
  PROVE  UnreadIsHonest
<1> DEFINE new == {it \in ToSet(state.items) : IsIncomingText(it) /\ it \notin read}
           late == {it \in ToSet(state.items) : IsIncomingText(it) /\ it.time > lastSeen}
           later == {it \in new : \A r \in read : it.time > r.time}
<1> SUFFICES ASSUME state # None PROVE unread \in Cardinality(later)..Cardinality(new)
  BY DEF UnreadIsHonest
<1>1. state \in State /\ state \in Known /\ KnownInv /\ ReadInv
  BY DEF PageInv, PageTypes, Known
<1>2. /\ state.items \in Seq(ItemSet) /\ IsInjective(state.items)
      /\ \A it \in ToSet(state.items) : it.time > 0
  BY <1>1 DEF State, KnownInv
<1>3. \A it \in ToSet(state.items) : it.time \in Nat
  <2>1. \A it \in ToSet(state.items) : it \in ItemSet
    BY <1>2, ListEntries
  <2> QED BY <2>1 DEF ItemSet
<1>4. /\ lastSeen \in Nat /\ unread = Len(Only(state.items, late))
      /\ \A r \in read : r.time \in Nat /\ r.time <= lastSeen
      /\ lastSeen = 0 \/ \E r \in read : r.time = lastSeen
  BY <1>1 DEF ReadInv, unreadCount
<1>5. later \subseteq late
  <2> SUFFICES ASSUME NEW it \in later PROVE it.time > lastSeen
    OBVIOUS
  <2> QED BY <1>2, <1>3, <1>4
<1>6. late \subseteq new
  <2> SUFFICES ASSUME NEW it \in late, it \in read PROVE FALSE
    OBVIOUS
  <2> QED BY <1>3, <1>4
<1>7. unread = Cardinality(late)
  <2>1. late \subseteq ToSet(state.items)
    OBVIOUS
  <2> HIDE DEF late
  <2>2. /\ Only(state.items, late) \in Seq(ItemSet) /\ IsInjective(Only(state.items, late))
        /\ ToSet(Only(state.items, late)) = late
    <3>1. PICK items : items = state.items
      OBVIOUS
    <3>2. items \in Seq(ItemSet) /\ IsInjective(items) /\ ToSet(items) \cap late = late
      BY <1>2, <2>1, <3>1
    <3>3. /\ Only(items, late) \in Seq(ItemSet) /\ ToSet(Only(items, late)) = ToSet(items) \cap late
          /\ IsInjective(Only(items, late))
      BY <3>2, OnlyProperties
    <3> QED BY <3>1, <3>2, <3>3
  <2> QED BY <1>4, <2>2, InjectiveLength
<1>8. IsFiniteSet(new)
  <2>1. IsFiniteSet(ToSet(state.items))
    BY <1>2, ListFinite
  <2> QED BY <2>1, FS_Subset
<1> HIDE DEF new, late, later
<1>9. /\ IsFiniteSet(late) /\ Cardinality(late) <= Cardinality(new)
      /\ Cardinality(later) <= Cardinality(late)
      /\ Cardinality(new) \in Nat /\ Cardinality(late) \in Nat /\ Cardinality(later) \in Nat
  BY <1>5, <1>6, <1>8, FS_Subset, FS_CardinalityType
<1> QED BY <1>7, <1>9

\* The conversation moves only where it is moved, or lost.
LEMMA PageKeepsConversation ==
  ASSUME PageInv, PageNext, shown.view = "messages", shown'.view = "messages", shown.selected # None
  PROVE  \/ shown'.selected = shown.selected /\ \A p \in Phone : ~PickPhone(p)
         \/ PickPhone(shown'.selected)
         \/ shown.selected \notin ToSet(Ids(state'.devices))
<1>1. PageTypes /\ KnownInv /\ ShowInv /\ IsView(shown) /\ shown.selected \in Phone \cup {None}
  BY DEF PageInv, PageTypes, IsView
<1>2. CASE \E p \in Phone : PickPhone(p)
  BY <1>2, PickPhoneKeeps
<1>3. ASSUME NEW name \in ViewName, Route(name) PROVE FALSE
  <2>1. name # "messages"
    BY <1>3 DEF Route
  <2>2. CASE state = None
    BY <1>3, <2>1, <2>2, OpenedIsBlank DEF Route
  <2>3. CASE state # None
    <3>1. shown' = Updated(Opened(name), state)
      BY <1>3, <2>3 DEF Route
    <3>2. state \in State /\ state \in Known
      BY <1>1, <2>3 DEF PageTypes, Known
    <3>3. Keeps(Opened(name), shown') /\ Opened(name).view = name
      BY <1>1, <3>1, <3>2, OpenedUpdates, OpenedIsBlank
    <3> QED BY <2>1, <3>3 DEF Keeps
  <2> QED BY <2>2, <2>3
<1>4. ASSUME NEW i \in DOMAIN fetches, RefreshEnds(i)
      PROVE  shown'.selected = shown.selected \/ shown.selected \notin ToSet(Ids(state'.devices))
  <2> DEFINE fetch == fetches[i]
  <2>1. \A v, b : Sent(v, b).selected = v.selected
    BY DEF Sent
  <2>2. CASE fetch.status # "answered"
    <3>1. shown' = Sent(shown, fetch.forSend)
      BY <1>4, <2>2 DEF RefreshEnds
    <3> QED BY <2>1, <3>1
  <2>3. CASE fetch.status = "answered"
    <3>1. state' = fetch.state /\ shown' = Sent(Updated(shown, fetch.state), fetch.forSend)
      BY <1>4, <2>3 DEF RefreshEnds
    <3>2. fetch \in FetchSet /\ fetch \in ToSet(fetches)
      BY <1>1, ListEntries DEF PageTypes
    <3>3. fetch.state \in State
      BY <2>3, <3>2 DEF FetchSet
    <3>4. fetch.state \in Known
      BY <3>2, <3>3, AdminPageAssumption DEF Known
    <3>5. shown'.selected = chatTarget(fetch.state.devices, shown.selected).id
      <4>1. Updated(shown, fetch.state).selected = chatTarget(fetch.state.devices, shown.selected).id
        BY <1>1, <3>3, <3>4, ViewUpdates
      <4> QED BY <2>1, <3>1, <4>1
    <3>6. fetch.state.devices \in Seq(DeviceSet)
      BY <3>3 DEF State
    <3> QED BY <1>1, <3>1, <3>5, <3>6, ChatTargetProperties
  <2> QED BY <2>2, <2>3
<1>5. CASE /\ ~\E p \in Phone : PickPhone(p)
           /\ ~\E name \in ViewName : Route(name)
           /\ ~\E i \in DOMAIN fetches : RefreshEnds(i)
  <2>1. shown'.selected = shown.selected
    <3>1. \A v, b : Sent(v, b).selected = v.selected
      BY DEF Sent
    <3>2. \A d : [shown EXCEPT !.draft = d].selected = shown.selected
      OBVIOUS
    <3>3. [shown EXCEPT !.sending = TRUE].selected = shown.selected
      OBVIOUS
    <3>4. CASE Goes
      <4>1. \/ \E i \in DOMAIN fetches : AnswerState(i)
            \/ \E i \in DOMAIN posts : HandleRefuses(i) \/ Handle(i) \/ PostTaken(i) \/ PostFails(i)
            \/ SourceOpens \/ OnChanged \/ SourceFails \/ SourceRetries
        BY <1>5, <3>4 DEF Goes
      <4>2. ASSUME NEW i \in DOMAIN fetches, AnswerState(i) PROVE shown' = shown
        BY <4>2 DEF AnswerState, pageVars
      <4>3. ASSUME NEW i \in DOMAIN posts, HandleRefuses(i) \/ Handle(i) PROVE shown' = shown
        BY <4>3 DEF HandleRefuses, Handle, Answers, pageVars
      <4>4. ASSUME NEW i \in DOMAIN posts, PostTaken(i) PROVE shown'.selected = shown.selected
        <5>1. shown' = [shown EXCEPT !.draft = 0] \/ shown' = shown
          BY <4>4 DEF PostTaken
        <5> QED BY <3>2, <5>1
      <4>5. ASSUME NEW i \in DOMAIN posts, PostFails(i) PROVE shown'.selected = shown.selected
        BY <3>1, <4>5 DEF PostFails, Freed
      <4>6. ASSUME SourceOpens \/ OnChanged \/ SourceFails \/ SourceRetries PROVE shown' = shown
        BY <4>6 DEF SourceOpens, OnChanged, SourceFails, SourceRetries, Rest, pageVars
      <4> QED BY <4>1, <4>2, <4>3, <4>4, <4>5, <4>6
    <3>5. CASE Others
      BY <3>5 DEF Others, PhoneSends, RequestWaits, RequestRunsOut, Phones, HandleFails, Answers, Ends,
                  Restarts, pageVars
    <3>6. CASE User
      BY <1>5, <3>2, <3>3, <3>6 DEF User, Type, SendText, FileActs, Decide, Revoke
    <3> QED BY <3>4, <3>5, <3>6 DEF PageNext
  <2> QED BY <1>5, <2>1
<1> QED BY <1>2, <1>3, <1>4, <1>5

\* The invariant of the page and its laptop: what was fetched are states that the laptop was
\* in, the compose box is busy with one message, what was told of is on its way, and each
\* view shows the state.
THEOREM PageIsAlwaysConsistent == PageSpec => []PageInv
<1>1. PageInit => PageInv
  BY PageInitKeeps
<1>2. PageInv /\ [PageNext]_adminVars => PageInv'
  BY PageStep, PageStutters
<1> QED BY <1>1, <1>2, PTL DEF PageSpec

\* What a view shows is what it would show if it were drawn anew from the newest state, in
\* whatever order the answers came, but for whose pairing a request would renew: that was
\* right at some time while the request waited.
THEOREM ViewAlwaysShowsState == PageSpec => []ViewShowsState
<1>1. PageInv => ViewShowsState
  BY PageShowsState
<1> QED BY <1>1, PageIsAlwaysConsistent, PTL

\* A page with nothing under way has caught up with what the laptop told of, unless its
\* last fetch was overtaken.
THEOREM PageAlwaysCatchesUp == PageSpec => []PageCatchesUp
<1>1. PageInv => PageCatchesUp
  <2> SUFFICES ASSUME PageInv, Quiet, ~overtaken PROVE state # None /\ state.rev >= announced /\ ~banner
    BY DEF PageCatchesUp
  <2> QED BY DEF Quiet, PageInv, CatchInv
<1> QED BY <1>1, PageIsAlwaysConsistent, PTL

\* The badge counts every message that is later than all that was read, and none that was
\* read.
THEOREM UnreadIsAlwaysHonest == PageSpec => []UnreadIsHonest
<1>1. PageInv => UnreadIsHonest
  BY PageCountsUnread
<1> QED BY <1>1, PageIsAlwaysConsistent, PTL

\* A message is stored twice only where the answer to it was lost, or told of a write that
\* failed when the message was in memory.
THEOREM MessagesAreSentOnce == PageSpec => []SentOnce
<1>1. PageInv => SentOnce
  BY DEF PageInv, SendInv
<1> QED BY <1>1, PageIsAlwaysConsistent, PTL

\* The conversation is that with the chosen phone, until the user chooses another or the
\* phone is gone.
THEOREM ConversationIsAlwaysKept == PageSpec => ConversationIsKept
<1> DEFINE Kept == shown.view = "messages" /\ shown'.view = "messages" /\ shown.selected # None =>
                      \/ shown'.selected = shown.selected /\ \A p \in Phone : ~PickPhone(p)
                      \/ PickPhone(shown'.selected)
                      \/ shown.selected \notin ToSet(Ids(state'.devices))
<1>1. PageInv /\ [PageNext]_adminVars => [Kept]_adminVars
  BY PageKeepsConversation
<1>2. PageSpec => [][Kept]_adminVars
  BY <1>1, PageIsAlwaysConsistent, PTL DEF PageSpec
<1> QED BY <1>2 DEF ConversationIsKept

\* CanGoOn asks for nothing that the steps do not: it is what their guards say.
LEMMA GoesWithinGuards == Goes => CanGoOn
<1> SUFFICES ASSUME Goes PROVE CanGoOn
  OBVIOUS
<1> USE DEF CanGoOn, ToSet
<1>1. CASE \E i \in DOMAIN fetches : AnswerState(i) \/ RefreshEnds(i)
  BY <1>1 DEF AnswerState, RefreshEnds
<1>2. CASE \E i \in DOMAIN posts : PostTaken(i) \/ PostFails(i) \/ HandleRefuses(i) \/ Handle(i)
  BY <1>2 DEF HandleRefuses, Handle, Answers, PostTaken, PostFails
<1>3. CASE SourceOpens
  BY <1>3 DEF SourceOpens, OnOpen
<1>4. CASE OnChanged
  BY <1>4 DEF OnChanged
<1>5. CASE SourceFails
  BY <1>5 DEF SourceFails
<1>6. CASE SourceRetries
  BY <1>6 DEF SourceRetries
<1> QED BY <1>1, <1>2, <1>3, <1>4, <1>5, <1>6 DEF Goes

\* A page that is not quiet has a fetch to end, or room for one and a stream to open, to
\* hear or to retry.
LEMMA SomethingGoesOn ==
  ASSUME MaxFetches > 0, PageTypes, up
  PROVE  Quiet \/ CanGoOn
<1>1. CASE fetches # <<>>
  <2>1. 1 \in DOMAIN fetches
    BY <1>1 DEF PageTypes
  <2> QED BY <2>1 DEF CanGoOn, ToSet
<1>2. CASE fetches = <<>>
  <2>1. MayAsk
    BY <1>2, AdminPageAssumption DEF MayAsk
  <2>2. live \in {"opening", "open", "cut", "browser", "timer"} /\ heard \in Nat
    BY DEF PageTypes
  <2> QED BY <1>2, <2>1, <2>2 DEF CanGoOn, Quiet, Retries
<1> QED BY <1>1, <1>2

\* While the laptop runs, a page that is not quiet has a step to take, whatever broke
\* before: if a step can be taken wherever its guards hold, and the page may ask at all.
THEOREM PageIsNeverStuck ==
    MaxFetches > 0 /\ []GuardsSuffice => (PageSpec => []NeverStuck)
<1> SUFFICES ASSUME MaxFetches > 0 PROVE []GuardsSuffice => (PageSpec => []NeverStuck)
  OBVIOUS
<1> DEFINE Stepping == ENABLED Goes
           Able == CanGoOn => Stepping
           Going == up => Quiet \/ Stepping
<1>1. PageInv => (up => Quiet \/ CanGoOn)
  BY SomethingGoesOn DEF PageInv
<1>2. PageInv /\ Able => Going
  BY <1>1
<1>3. GuardsSuffice <=> Able
  BY DEF GuardsSuffice
<1>4. NeverStuck <=> Going
  BY DEF NeverStuck
<1> HIDE DEF Able, Going
<1> QED BY <1>2, <1>3, <1>4, PageIsAlwaysConsistent, PTL

=================================================================================
