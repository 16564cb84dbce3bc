--------------------------- MODULE PDDisaggProofs ---------------------------
(***************************************************************************)
(* The transfer between the servers, for any requests, sizes of the pools  *)
(* and faults.  First: no metadata buffer and no KV page of the decode     *)
(* server has two owners.  Then what PDTransferProofs and PDKVProofs rest  *)
(* on: the vocabulary of the protocol, the types of what the threads       *)
(* share, and what one step can do to a request of the prefill server.     *)
(***************************************************************************)
EXTENDS PDDisagg, TLAPS

USE SMTT(30)

PStage == {"none", "bootstrap", "waiting", "chunked", "inflight", "done"}
DStage == {"none", "prealloc", "transfer", "running", "done"}
PSlot == 1 .. PSlots
DSlot == 1 .. DSlots
DPage == 1 .. DPages

\* the variables of the prefill server that the properties are about, typed
PTyped == /\ pstage \in [Room -> PStage]
          /\ pslot \in [Room -> PSlot \cup {None}]
          /\ pfree \in Seq(PSlot)

DTyped == /\ dstage \in [Room -> DStage]
          /\ dslot \in [Room -> DSlot \cup {None}]
          /\ dslots \in Seq(DSlot)
          /\ dfree \in Seq(DPage)
          /\ dpages \in [Room -> Seq(DPage)]

PSlotsInv == /\ PTyped
             /\ Exclusive(pfree, pslot)
             /\ \A r \in Room : pslot[r] # None <=> pstage[r] \in {"waiting", "chunked", "inflight"}

DSlotsInv == /\ DTyped
             /\ Exclusive(dslots, dslot)
             /\ \A r \in Room : dslot[r] # None <=> dstage[r] = "transfer"

\* the invariant of the buffers and pages
IInv == PSlotsInv /\ DSlotsInv /\ PagesExclusive

\* no page has two holders
PagesApart(free, pages) ==
  /\ Distinct(free)
  /\ \A r \in Room :
       /\ Distinct(pages[r])
       /\ \A i \in DOMAIN pages[r] :
            /\ \A j \in DOMAIN free : free[j] # pages[r][i]
            /\ \A q \in Room : \A j \in DOMAIN pages[q] : pages[q][j] = pages[r][i] => q = r

----------------------------------------------------------------------------
(* Free lists                                                               *)

\* Taking the head of a free list for a request without a buffer keeps every
\* buffer with one holder (ReqToMetadataIdxAllocator.alloc).
LEMMA TakeKeepsExclusive ==
  ASSUME NEW S, None \notin S,
         NEW free \in Seq(S), NEW slot \in [Room -> S \cup {None}],
         Exclusive(free, slot), free # <<>>,
         NEW r \in Room, slot[r] = None
  PROVE  /\ Head(free) \in S /\ Tail(free) \in Seq(S)
         /\ Exclusive(Tail(free), [slot EXCEPT ![r] = Head(free)])
<1>1. /\ Len(free) \in Nat /\ Len(free) > 0
      /\ Head(free) = free[1] /\ Head(free) \in S
      /\ Tail(free) \in Seq(S)
      /\ Len(Tail(free)) = Len(free) - 1
      /\ \A i \in 1 .. Len(free) - 1 : Tail(free)[i] = free[i + 1]
      /\ DOMAIN Tail(free) = 1 .. Len(free) - 1
      /\ DOMAIN free = 1 .. Len(free)
  OBVIOUS
<1>2. \A q \in Room : slot[q] # None => /\ \A i \in DOMAIN Tail(free) : Tail(free)[i] # slot[q]
                                        /\ slot[q] # Head(free)
  BY <1>1 DEF Exclusive
<1> DEFINE slot2 == [slot EXCEPT ![r] = Head(free)]
<1>3. slot2[r] = Head(free) /\ \A q \in Room \ {r} : slot2[q] = slot[q]
  OBVIOUS
<1>4. ASSUME NEW p \in Room, slot2[p] # None
      PROVE  /\ \A i \in DOMAIN Tail(free) : Tail(free)[i] # slot2[p]
             /\ \A q \in Room : slot2[q] = slot2[p] => q = p
  <2>1. CASE p = r
    BY <2>1, <1>1, <1>2, <1>3 DEF Distinct, Exclusive
  <2>2. CASE p # r
    BY <2>2, <1>1, <1>2, <1>3, <1>4, Zenon DEF Exclusive
  <2> QED BY <2>1, <2>2, Zenon
<1> QED
  BY <1>1, <1>4 DEF Exclusive, Distinct

\* Giving a buffer back, once, keeps every buffer with one holder
\* (ReqToMetadataIdxAllocator.free).
LEMMA GiveKeepsExclusive ==
  ASSUME NEW S, None \notin S,
         NEW free \in Seq(S), NEW slot \in [Room -> S \cup {None}],
         Exclusive(free, slot),
         NEW r \in Room, slot[r] # None
  PROVE  /\ Append(free, slot[r]) \in Seq(S)
         /\ Exclusive(Append(free, slot[r]), [slot EXCEPT ![r] = None])
<1> DEFINE free2 == Append(free, slot[r])
           slot2 == [slot EXCEPT ![r] = None]
<1>1. /\ free2 \in Seq(S)
      /\ Len(free) \in Nat
      /\ DOMAIN free = 1 .. Len(free)
      /\ DOMAIN free2 = 1 .. Len(free) + 1
      /\ \A i \in 1 .. Len(free) : free2[i] = free[i]
      /\ free2[Len(free) + 1] = slot[r]
  OBVIOUS
<1>2. slot2[r] = None /\ \A q \in Room \ {r} : slot2[q] = slot[q]
  OBVIOUS
<1>3. ASSUME NEW p \in Room, slot2[p] # None
      PROVE  /\ \A i \in DOMAIN free2 : free2[i] # slot2[p]
             /\ \A q \in Room : slot2[q] = slot2[p] => q = p
  <2>1. p # r /\ slot2[p] = slot[p]
    BY <1>2, <1>3, Zenon
  <2> QED BY <2>1, <1>1, <1>3, <1>2 DEF Exclusive
<1> HIDE DEF free2, slot2
<1> QED BY <1>1, <1>3 DEF free2, slot2, Exclusive, Distinct

\* Moving the first n free pages to a request without pages keeps the holders
\* apart (_pre_alloc).
LEMMA TakeKeepsApart ==
  ASSUME NEW S,
         NEW free \in Seq(S), NEW pages \in [Room -> Seq(S)], PagesApart(free, pages),
         NEW n \in Nat, n <= Len(free),
         NEW r \in Room, pages[r] = <<>>
  PROVE  /\ SubSeq(free, 1, n) \in Seq(S) /\ SubSeq(free, n + 1, Len(free)) \in Seq(S)
         /\ PagesApart(SubSeq(free, n + 1, Len(free)),
                       [pages EXCEPT ![r] = SubSeq(free, 1, n)])
<1> DEFINE taken  == SubSeq(free, 1, n)
           free2  == SubSeq(free, n + 1, Len(free))
           pages2 == [pages EXCEPT ![r] = taken]
<1>1. /\ Len(free) \in Nat /\ DOMAIN free = 1 .. Len(free)
      /\ taken \in Seq(S) /\ DOMAIN taken = 1 .. n
      /\ \A i \in 1 .. n : taken[i] = free[i]
  OBVIOUS
<1>2. /\ free2 \in Seq(S) /\ DOMAIN free2 = 1 .. Len(free) - n
      /\ \A i \in 1 .. Len(free) - n : free2[i] = free[i + n]
  OBVIOUS
<1>3. pages2[r] = taken /\ \A q \in Room \ {r} : pages2[q] = pages[q]
  OBVIOUS
<1> HIDE DEF taken, free2, pages2
<1>4. Distinct(free2) /\ Distinct(taken)
  <2>1. \A i, j \in 1 .. Len(free) : free[i] = free[j] => i = j
    BY <1>1, Zenon DEF Distinct, PagesApart
  <2>2. \A i \in 1 .. Len(free) - n : i + n \in 1 .. Len(free)
    BY <1>1
  <2>3. Distinct(free2)
    <3> SUFFICES ASSUME NEW i \in DOMAIN free2, NEW j \in DOMAIN free2, free2[i] = free2[j]
                 PROVE  i = j
      BY Zenon DEF Distinct
    <3>1. /\ i \in 1 .. Len(free) - n /\ j \in 1 .. Len(free) - n
          /\ i + n \in 1 .. Len(free) /\ j + n \in 1 .. Len(free)
          /\ free[i + n] = free[j + n]
      BY <1>2, <2>2, Zenon
    <3> QED BY <3>1, <2>1
  <2> QED BY <2>3, <2>1, <1>1 DEF Distinct
<1>5. ASSUME NEW i \in DOMAIN taken, NEW j \in DOMAIN free2
      PROVE  free2[j] # taken[i]
  <2>1. /\ i \in 1 .. Len(free) /\ j + n \in 1 .. Len(free) /\ i # j + n
        /\ free2[j] = free[j + n] /\ taken[i] = free[i]
    BY <1>1, <1>2, <1>5
  <2> QED BY <2>1, <1>1, Zenon DEF Distinct, PagesApart
<1>6. ASSUME NEW q \in Room, NEW i \in DOMAIN pages[q]
      PROVE  /\ \A j \in DOMAIN free2 : free2[j] # pages[q][i]
             /\ \A j \in DOMAIN taken : taken[j] # pages[q][i]
  <2>1. \A j \in 1 .. Len(free) : free[j] # pages[q][i]
    BY <1>1, Zenon DEF PagesApart
  <2>2. ASSUME NEW j \in DOMAIN free2
        PROVE  free2[j] # pages[q][i]
    <3>1. j \in 1 .. Len(free) - n /\ free2[j] = free[j + n]
      BY <1>2, <2>2, Zenon
    <3> QED BY <3>1, <1>1, <2>1
  <2> QED BY <2>1, <2>2, <1>1
<1>7. ASSUME NEW p \in Room
      PROVE  /\ Distinct(pages2[p])
             /\ \A i \in DOMAIN pages2[p] :
                  /\ \A j \in DOMAIN free2 : free2[j] # pages2[p][i]
                  /\ \A q \in Room : \A j \in DOMAIN pages2[q] :
                       pages2[q][j] = pages2[p][i] => q = p
  <2>1. CASE p = r
    BY <2>1, <1>3, <1>4, <1>5, <1>6
  <2>2. CASE p # r
    <3>1. Distinct(pages2[p]) /\ pages2[p] = pages[p]
      BY <2>2, <1>3, Zenon DEF PagesApart
    <3>2. ASSUME NEW i \in DOMAIN pages2[p], NEW q \in Room, NEW j \in DOMAIN pages2[q],
                 pages2[q][j] = pages2[p][i]
          PROVE  q = p
      <4>1. CASE q = r
        BY <4>1, <3>1, <3>2, <1>3, <1>6
      <4>2. CASE q # r
        BY <4>2, <3>1, <3>2, <1>3 DEF PagesApart
      <4> QED BY <4>1, <4>2, Zenon
    <3> QED BY <3>1, <1>6, <3>2, Zenon
  <2> QED BY <2>1, <2>2, Zenon
<1> QED BY <1>1, <1>2, <1>4, <1>7, Zenon DEF taken, free2, pages2, PagesApart

\* Freeing the pages of a request keeps the holders apart (release_kv_cache).
LEMMA GiveKeepsApart ==
  ASSUME NEW S,
         NEW free \in Seq(S), NEW pages \in [Room -> Seq(S)], PagesApart(free, pages),
         NEW r \in Room
  PROVE  /\ free \o pages[r] \in Seq(S)
         /\ PagesApart(free \o pages[r], [pages EXCEPT ![r] = <<>>])
<1> DEFINE row    == pages[r]
           free2  == free \o row
           pages2 == [pages EXCEPT ![r] = <<>>]
<1>1. row \in Seq(S)
  OBVIOUS
<1> HIDE DEF row
<1>2. /\ Len(free) \in Nat /\ Len(row) \in Nat
      /\ DOMAIN free = 1 .. Len(free) /\ DOMAIN row = 1 .. Len(row)
      /\ free2 \in Seq(S) /\ DOMAIN free2 = 1 .. Len(free) + Len(row)
      /\ \A i \in 1 .. Len(free) + Len(row) :
           free2[i] = IF i <= Len(free) THEN free[i] ELSE row[i - Len(free)]
  BY <1>1
<1>3. pages2[r] = <<>> /\ \A q \in Room \ {r} : pages2[q] = pages[q]
  OBVIOUS
<1>4. /\ Distinct(free) /\ Distinct(row)
      /\ \A i \in DOMAIN row : \A j \in DOMAIN free : free[j] # row[i]
  BY Zenon DEF PagesApart, row
<1> HIDE DEF free2, pages2
<1>5. Distinct(free2)
  <2> SUFFICES ASSUME NEW i \in DOMAIN free2, NEW j \in DOMAIN free2, free2[i] = free2[j]
               PROVE  i = j
    BY Zenon DEF Distinct
  <2>1. CASE i <= Len(free) /\ j <= Len(free)
    BY <2>1, <1>2, <1>4 DEF Distinct
  <2>a. \A k \in DOMAIN free2 : k > Len(free) => /\ k \in Nat /\ k - Len(free) \in DOMAIN row
                                                   /\ free2[k] = row[k - Len(free)]
    BY <1>2
  <2>b. \A k \in DOMAIN free2 : k <= Len(free) => k \in DOMAIN free /\ free2[k] = free[k]
    BY <1>2
  <2>2. CASE i > Len(free) /\ j > Len(free)
    BY <2>2, <2>a, <1>4, <1>2 DEF Distinct
  <2>3. CASE i <= Len(free) /\ j > Len(free)
    BY <2>3, <2>a, <2>b, <1>4, Zenon
  <2>4. CASE i > Len(free) /\ j <= Len(free)
    BY <2>4, <2>a, <2>b, <1>4
  <2> QED BY <2>1, <2>2, <2>3, <2>4, <1>2
<1>6. ASSUME NEW p \in Room
      PROVE  /\ Distinct(pages2[p])
             /\ \A i \in DOMAIN pages2[p] :
                  /\ \A j \in DOMAIN free2 : free2[j] # pages2[p][i]
                  /\ \A q \in Room : \A j \in DOMAIN pages2[q] :
                       pages2[q][j] = pages2[p][i] => q = p
  <2>1. CASE p = r
    BY <2>1, <1>3 DEF Distinct
  <2>2. CASE p # r
    <3>1. Distinct(pages2[p]) /\ pages2[p] = pages[p]
      BY <2>2, <1>3, Zenon DEF PagesApart
    <3>2. ASSUME NEW i \in DOMAIN pages2[p], NEW j \in DOMAIN free2
          PROVE  free2[j] # pages2[p][i]
      <4>1. CASE j <= Len(free)
        BY <4>1, <3>1, <3>2, <1>2 DEF PagesApart
      <4>2. CASE j > Len(free)
        <5>1. j - Len(free) \in DOMAIN row /\ free2[j] = row[j - Len(free)]
          BY <4>2, <3>2, <1>2
        <5> QED BY <5>1, <2>2, <3>1, <3>2, Zenon DEF PagesApart, row
      <4> QED BY <4>1, <4>2, <3>2, <1>2
    <3>3. ASSUME NEW i \in DOMAIN pages2[p], NEW q \in Room, NEW j \in DOMAIN pages2[q],
                 pages2[q][j] = pages2[p][i]
          PROVE  q = p
      <4>1. CASE q = r
        BY <4>1, <3>3, <1>3
      <4>2. CASE q # r
        BY <4>2, <3>1, <3>3, <1>3 DEF PagesApart
      <4> QED BY <4>1, <4>2, Zenon
    <3> QED BY <3>1, <3>2, <3>3, Zenon
  <2> QED BY <2>1, <2>2, Zenon
<1> QED BY <1>2, <1>5, <1>6, Zenon DEF free2, pages2, row, PagesApart

----------------------------------------------------------------------------
(* The invariant                                                            *)

\* no index or page is the absent value
LEMMA NoneIsNoIndex == None \notin PSlot /\ None \notin DSlot
BY PDAssumption DEF PSlot, DSlot

\* PagesExclusive says this of the state, and who may hold pages.
LEMMA PagesApartEquiv ==
  PagesExclusive <=> /\ PagesApart(dfree, dpages)
                     /\ \A r \in Room : dpages[r] # <<>> => dstage[r] \in {"transfer", "running"}
BY Zenon DEF PagesExclusive, PagesApart

\* An identity free list names each of its indices once.
LEMMA InitIInv == Init => IInv
<1> SUFFICES ASSUME Init PROVE IInv
  OBVIOUS
<1> USE PDAssumption DEF Init, CommonInit, PInit, DInit
<1> QED BY DEF IInv, PSlotsInv, PTyped, PStage, PSlot, Exclusive, Distinct, DSlotsInv, DTyped,
           DStage, DSlot, DPage, PagesExclusive

\* the variables that a step must not change to leave one side's part alone
PSide == <<pstage, pslot, pfree>>
DSide == <<dstage, dslot, dslots, dfree, dpages>>

\* A step that leaves a server's lists alone keeps its part of the invariant.
LEMMA PSideStable == PSlotsInv /\ UNCHANGED PSide => PSlotsInv'
BY Zenon DEF PSlotsInv, PSide, PTyped, Exclusive, Distinct

\* The same of the decode server.
LEMMA DSideStable ==
  DSlotsInv /\ PagesExclusive /\ UNCHANGED DSide => DSlotsInv' /\ PagesExclusive'
BY DEF DSlotsInv, DSide, DTyped, Exclusive, PagesExclusive, Distinct

\* A request that takes a buffer of the prefill server had none, and one that
\* gives it back had it: its stage says which.
LEMMA PrefillStep == PSlotsInv /\ PNext => PSlotsInv'
<1> SUFFICES ASSUME PSlotsInv, PNext PROVE PSlotsInv'
  OBVIOUS
<1>1. PTyped /\ Exclusive(pfree, pslot) /\ None \notin PSlot
  BY NoneIsNoIndex, Zenon DEF PSlotsInv
<1>2. ASSUME NEW r \in Room,
             pstage[r] \in {"waiting", "chunked", "inflight"},
             pstage' = [pstage EXCEPT ![r] = "done"], ReleaseSlot(r)
      PROVE  PSlotsInv'
  BY <1>1, <1>2, GiveKeepsExclusive, Zenon DEF PSlotsInv, PTyped, PStage, ReleaseSlot
<1>3. ASSUME NEW r \in Room, Bootstrapped(r) PROVE PSlotsInv'
  <2>1. /\ pstage[r] = "bootstrap" /\ pfree # <<>>
        /\ pstage' = [pstage EXCEPT ![r] = "waiting"]
        /\ pslot' = [pslot EXCEPT ![r] = Head(pfree)] /\ pfree' = Tail(pfree)
    BY <1>3, Zenon DEF Bootstrapped
  <2>2. /\ Head(pfree) \in PSlot /\ pfree' \in Seq(PSlot)
        /\ Exclusive(pfree', pslot')
    BY <1>1, <2>1, TakeKeepsExclusive, Zenon DEF PTyped, PSlotsInv
  <2> QED BY <1>1, <2>1, <2>2, Zenon DEF PSlotsInv, PTyped, PStage
<1>4. ASSUME NEW r \in Room, NEW s, NEW t,
             pstage[r] = s, pstage' = [pstage EXCEPT ![r] = t], t \in PStage,
             s \in {"waiting", "chunked", "inflight"} <=> t \in {"waiting", "chunked", "inflight"},
             UNCHANGED <<pslot, pfree>>
      PROVE  PSlotsInv'
  BY <1>1, <1>4, Zenon DEF PSlotsInv, PTyped, PStage, Exclusive, Distinct
<1>5. ASSUME NEW r \in Room, PArrive(r) PROVE PSlotsInv'
  BY <1>5, <1>4, Zenon DEF PArrive, PStage
<1>6. ASSUME NEW r \in Room, NEW why, BootstrapFailed(r, why) PROVE PSlotsInv'
  BY <1>6, <1>4, Zenon DEF BootstrapFailed, PStage
<1>7. ASSUME NEW r \in Room, PrefillChunk(r) PROVE PSlotsInv'
  BY <1>7, <1>4, Zenon DEF PrefillChunk, PStage
<1>8. ASSUME NEW r \in Room, NEW why, TransferEnded(r, why) PROVE PSlotsInv'
  BY <1>8, <1>2, Zenon DEF TransferEnded
<1>9. ASSUME NEW r \in Room, PAbort(r) PROVE PSlotsInv'
  <2>1. CASE AbortWaiting(r)
    BY <2>1, <1>2, Zenon DEF AbortWaiting
  <2>2. CASE AbortSender(r)
    BY <2>2, PSideStable, Zenon DEF AbortSender, PSide
  <2> QED BY <1>9, <2>1, <2>2, Zenon DEF PAbort
<1>10. ASSUME UNCHANGED queues PROVE PSlotsInv'
  BY <1>10, PSideStable, Zenon DEF queues, PSide
<1>11. CASE Registered \/ MetadataArrives \/ MetadataStored \/ Worker \/ Probe \/ Crash
  BY <1>10, <1>11, Zenon DEF Registered, MetadataArrives, MetadataStored, Probe, Crash, Worker,
     WorkerGets, WorkerLooks, WorkerSends, WorkerSendsAux, WorkerChecks, WorkerReadsStatus,
     WorkerOwns, WorkerPops
<1> QED
  BY <1>3, <1>5, <1>6, <1>7, <1>8, <1>9, <1>11, Zenon DEF PNext, PScheduler

\* The same of the decode server, for its buffers and its pages.
LEMMA DecodeStep ==
  ASSUME NEW alive, DSlotsInv, PagesExclusive, DNext(alive)
  PROVE  DSlotsInv' /\ PagesExclusive'
<1>1. DTyped /\ Exclusive(dslots, dslot) /\ None \notin DSlot /\ PagesApart(dfree, dpages)
  BY NoneIsNoIndex, PagesApartEquiv, Zenon DEF DSlotsInv
<1>2. /\ \A q \in Room : dslot[q] # None <=> dstage[q] = "transfer"
      /\ \A q \in Room : dpages[q] # <<>> => dstage[q] \in {"transfer", "running"}
  BY Zenon DEF DSlotsInv, PagesExclusive
<1>3. ASSUME DTyped', Exclusive(dslots', dslot'), PagesApart(dfree', dpages'),
             \A q \in Room : dslot'[q] # None <=> dstage'[q] = "transfer",
             \A q \in Room : dpages'[q] # <<>> => dstage'[q] \in {"transfer", "running"}
      PROVE  DSlotsInv' /\ PagesExclusive'
  BY <1>3, Zenon DEF DSlotsInv, PagesExclusive, PagesApart, Exclusive, Distinct
<1>4. ASSUME NEW r \in Room, dstage[r] = "transfer", ReleaseBuffer(r)
      PROVE  /\ dslots' \in Seq(DSlot) /\ dslot' = [dslot EXCEPT ![r] = None]
             /\ Exclusive(dslots', dslot')
  BY <1>1, <1>2, <1>4, GiveKeepsExclusive, Zenon DEF DTyped, ReleaseBuffer
<1>5. ASSUME NEW r \in Room, ReleasePages(r)
      PROVE  /\ dfree' \in Seq(DPage) /\ dpages' = [dpages EXCEPT ![r] = <<>>]
             /\ PagesApart(dfree', dpages')
  BY <1>1, <1>5, GiveKeepsApart, Zenon DEF DTyped, ReleasePages
<1>t. ASSUME NEW r \in Room, NEW t \in DStage, dstage' = [dstage EXCEPT ![r] = t],
             dslots' \in Seq(DSlot), dfree' \in Seq(DPage),
             NEW b \in DSlot \cup {None}, dslot' = [dslot EXCEPT ![r] = b],
             NEW ps \in Seq(DPage), dpages' = [dpages EXCEPT ![r] = ps]
      PROVE  DTyped'
  BY <1>1, <1>t, Zenon DEF DTyped
<1>6. ASSUME NEW r \in Room, dstage[r] = "transfer",
             dstage' = [dstage EXCEPT ![r] = "done"], ReleasePages(r), ReleaseBuffer(r)
      PROVE  DSlotsInv' /\ PagesExclusive'
  <2>1. DTyped'
    <3>1. "done" \in DStage /\ <<>> \in Seq(DPage)
      BY DEF DStage
    <3> QED BY <1>t, <1>6, <1>4, <1>5, <3>1, Zenon
  <2>2. \A q \in Room : dslot'[q] # None <=> dstage'[q] = "transfer"
    BY <1>1, <1>2, <1>4, <1>6, Zenon DEF DTyped
  <2>3. \A q \in Room : dpages'[q] # <<>> => dstage'[q] \in {"transfer", "running"}
    BY <1>1, <1>2, <1>5, <1>6, Zenon DEF DTyped
  <2> QED BY <1>3, <1>4, <1>5, <1>6, <2>1, <2>2, <2>3, Zenon
<1>7. ASSUME NEW r \in Room, NEW t \in {"prealloc", "done"}, dstage[r] \in {"none", "prealloc"},
             dstage' = [dstage EXCEPT ![r] = t], UNCHANGED <<dslot, dslots, dfree, dpages>>
      PROVE  DSlotsInv' /\ PagesExclusive'
  BY <1>1, <1>3, <1>7, <1>2, Zenon DEF DTyped, DStage
<1>8. ASSUME NEW r \in Room, DArrive(r, alive) PROVE DSlotsInv' /\ PagesExclusive'
  BY <1>7, <1>8, Zenon DEF DArrive
<1>9. ASSUME NEW r \in Room, NEW why, HandshakeFailed(r, why)
      PROVE  DSlotsInv' /\ PagesExclusive'
  BY <1>7, <1>9, Zenon DEF HandshakeFailed
<1>10. ASSUME NEW r \in Room, Preallocate(r) PROVE DSlotsInv' /\ PagesExclusive'
  <2> DEFINE n == NumChunks[r]
  <2>1. /\ dstage[r] = "prealloc" /\ n <= Len(dfree) /\ dslots # <<>>
        /\ dstage' = [dstage EXCEPT ![r] = "transfer"]
        /\ dpages' = [dpages EXCEPT ![r] = SubSeq(dfree, 1, n)]
        /\ dfree' = SubSeq(dfree, n + 1, Len(dfree))
        /\ dslot' = [dslot EXCEPT ![r] = Head(dslots)] /\ dslots' = Tail(dslots)
    BY <1>10, Zenon DEF Preallocate, PreAlloc
  <2>2. n \in Nat
    BY PDAssumption, Zenon
  <2>3. dslot[r] = None /\ dpages[r] = <<>>
    BY <1>2, <2>1, Zenon
  <2>4. /\ Head(dslots) \in DSlot /\ dslots' \in Seq(DSlot)
        /\ Exclusive(dslots', dslot')
    BY <1>1, <2>1, <2>3, TakeKeepsExclusive, Zenon DEF DTyped
  <2> HIDE DEF n
  <2>5. /\ SubSeq(dfree, 1, n) \in Seq(DPage) /\ dfree' \in Seq(DPage)
        /\ PagesApart(dfree', dpages')
    BY <1>1, <2>1, <2>2, <2>3, TakeKeepsApart, Zenon DEF DTyped
  <2> QED BY <1>3, <2>4, <2>5, <1>1, <2>1, <1>2, Zenon DEF DTyped, DStage
<1>11. ASSUME NEW r \in Room, NEW why, TransferFailed(r, why)
       PROVE  DSlotsInv' /\ PagesExclusive'
  BY <1>6, <1>11, Zenon DEF TransferFailed
<1>12. ASSUME NEW r \in Room, Commit(r) PROVE DSlotsInv' /\ PagesExclusive'
  <2>1. dstage[r] = "transfer" /\ ReleaseBuffer(r)
    BY <1>12, Zenon DEF Commit
  <2>2. CASE dbuf[dslot[r]] = r
    <3>1. dstage' = [dstage EXCEPT ![r] = "running"] /\ UNCHANGED <<dpages, dfree>>
      BY <1>12, <2>2, Zenon DEF Commit
    <3>2. \A q \in Room : dslot'[q] # None <=> dstage'[q] = "transfer"
      BY <1>1, <1>2, <1>4, <2>1, <3>1, Zenon DEF DTyped
    <3> QED BY <1>1, <1>3, <1>4, <2>1, <3>1, <3>2, <1>2 DEF DTyped, DStage
  <2>3. CASE dbuf[dslot[r]] # r
    BY <1>6, <1>12, <2>1, <2>3, Zenon DEF Commit
  <2> QED BY <2>2, <2>3, Zenon
<1>13. ASSUME NEW r \in Room, Decoded(r) PROVE DSlotsInv' /\ PagesExclusive'
  <2>1. /\ dstage[r] = "running" /\ dstage' = [dstage EXCEPT ![r] = "done"]
        /\ ReleasePages(r) /\ UNCHANGED <<dslot, dslots>>
    BY <1>13, Zenon DEF Decoded
  <2>2. DTyped'
    <3>1. dfree' \in Seq(DPage) /\ dpages' = [dpages EXCEPT ![r] = <<>>]
      BY <1>5, <2>1, Zenon
    <3> QED BY <1>1, <2>1, <3>1 DEF DTyped, DStage
  <2> QED BY <1>1, <1>3, <1>5, <2>1, <2>2, <1>2, Zenon DEF DTyped
<1>14. ASSUME UNCHANGED DSide PROVE DSlotsInv' /\ PagesExclusive'
  BY <1>14, DSideStable, Zenon
<1>15. ASSUME NEW r \in Room, DAbort(r) \/ HandshakeReady(r)
       PROVE  DSlotsInv' /\ PagesExclusive'
  BY <1>14, <1>15, Zenon DEF DAbort, HandshakeReady, dqueues, DSide
<1>16. CASE \/ ResolvePending(alive) \/ StatusArrives \/ StatusCounted \/ StatusMarked
            \/ HeartbeatOk(alive) \/ HeartbeatFailed(alive) \/ RoomChecked \/ RoomFailed
  BY <1>14, <1>16, Zenon DEF ResolvePending, StatusArrives, StatusCounted, StatusMarked,
     HeartbeatOk, HeartbeatFailed, RoomChecked, RoomFailed, dqueues, DSide
<1> QED
  BY <1>8, <1>9, <1>10, <1>11, <1>12, <1>13, <1>15, <1>16, Zenon DEF DNext, DScheduler

\* The steps of the two servers together
LEMMA BuffersStep == IInv /\ [Next]_vars => IInv'
<1> SUFFICES ASSUME IInv, [Next]_vars PROVE IInv'
  OBVIOUS
<1>1. CASE PNext /\ Prefills
  BY <1>1, PrefillStep, DSideStable, Zenon DEF IInv, Prefills, dvars, dqueues, DSide
<1>2. CASE DNext(up) /\ Decodes
  BY <1>2, DecodeStep, PSideStable, Zenon DEF IInv, Decodes, pvars, queues, PSide
<1>3. CASE UNCHANGED vars
  BY <1>3, PSideStable, DSideStable, Zenon DEF IInv, vars, pvars, queues, dvars, dqueues, PSide,
     DSide
<1> QED BY <1>1, <1>2, <1>3, Zenon DEF Next

\* The metadata buffers of both servers (ReqToMetadataIdxAllocator) and the KV
\* pages of the decode server (_pre_alloc, release_kv_cache) have one holder
\* each, for any requests, sizes of the pools and faults.
THEOREM BuffersSafe == Spec => [](SlotsExclusive /\ PagesExclusive)
<1>1. IInv => SlotsExclusive /\ PagesExclusive
  BY Zenon DEF IInv, PSlotsInv, DSlotsInv, SlotsExclusive
<1> QED BY <1>1, InitIInv, BuffersStep, PTL DEF Spec

----------------------------------------------------------------------------
(* The state of a transfer                                                  *)

Metadata == [room : Room, pages : Seq(DPage), slot : DSlot]
Info == [pages : Seq(DPage), slot : DSlot]
KVChunk == [room : Room, k : Nat, last : BOOLEAN, slot : PSlot]
Status == [room : Room, status : {Failed, Success}]

\* what closes the messages of a room: there is none after it
LastChunks == {c \in KVChunk : c.last}
Successes == {m \in Status : m.status = Success}

\* after a member of F the sequence has no other of its room
EndsRoom(s, F) == \A i, j \in DOMAIN s : i < j /\ s[i].room = s[j].room => s[i] \notin F

WorkerPc == {"get", "look", "send", "aux", "check", "status", "owned", "pop", "dead"}

\* the types of the variables
MessagesTyped == /\ toPrefill \in Seq(Metadata \cup {Register})
                 /\ toDecode \in Seq(Status)
                 /\ receiver \in [pc : {"recv", "store", "dead"}, msg : Metadata \cup {None}]
                 /\ receiver.pc = "store" => receiver.msg \in Metadata
                 /\ listener \in [pc : {"recv", "count", "mark", "dead"}, room : Room \cup {None}]
                 /\ listener.pc \in {"count", "mark"} => listener.room \in Room

ChunksTyped == /\ queue \in Seq(KVChunk)
               /\ worker \in [pc : WorkerPc, chunk : KVChunk \cup {None}, info : Info \cup {EmptyInfo, None}]
               /\ worker.pc \notin {"get", "dead"} => worker.chunk \in KVChunk
               /\ worker.pc \in {"send", "aux"} => worker.info \in Info
               /\ transferInfos \in [Room -> Info \cup {EmptyInfo, None}]
               /\ prefilled \in [Room -> Nat]
               /\ pbuf \in [PSlot -> Room \cup {None}]
               /\ dbuf \in [DSlot -> Room \cup {None}]

StatusTyped == /\ pstatus \in [Room -> KVPoll \cup {None}]
               /\ dstatus \in [Room -> KVPoll \cup {None}]
               /\ pconclude \in [Room -> {None, Failed, Success}]
               /\ dconclude \in [Room -> {None, Failed, Success}]
               /\ ready \subseteq Room /\ pending \subseteq Room /\ tracker \subseteq Room
               /\ checker \in [pc : {"watch", "check", "fail", "dead"}, rooms : SUBSET Room,
                               room : Room \cup {None}]
               /\ checker.pc = "fail" => checker.room \in Room

\* the metadata of r is on its way
InFlight(r) == \/ \E m \in Listed(toPrefill) : m.room = r
               \/ receiver.pc = "store" /\ receiver.msg.room = r

\* the decode server has not sent the metadata of r; that of a request which left
\* the queue while it was pending is never sent
Unannounced(r) == dstage[r] \in {"none", "prealloc"} \/ r \in pending

\* the prefill server does not have the metadata of r, and did not have it
Untold(r) == Unannounced(r) \/ InFlight(r)

\* the metadata of a room is sent once
MetadataOnce ==
  /\ EndsRoom(toPrefill, Metadata)
  /\ receiver.pc = "store" => \A m \in Listed(toPrefill) : m.room # receiver.msg.room
  /\ \A r \in Room : Unannounced(r) => ~InFlight(r) /\ transferInfos[r] = None

\* a chunk of r waits for the transfer worker, or is its chunk and not sent yet
Queued(r) == \E c \in Listed(queue) : c.room = r
AtWorker(r) == worker.pc \in {"look", "send", "aux"} /\ worker.chunk.room = r

\* Chunks are of rooms whose metadata is known, and the last one is last.
ChunksInOrder ==
  /\ EndsRoom(queue, LastChunks)
  /\ worker.pc = "aux" => worker.chunk.last
  /\ worker.pc \in {"look", "send", "aux"} /\ worker.chunk.last => ~Queued(worker.chunk.room)
  /\ \A c \in Listed(queue) : c.last => pstage[c.room] \in {"inflight", "done"}
  /\ worker.pc \in {"look", "send", "aux"} /\ worker.chunk.last =>
       pstage[worker.chunk.room] \in {"inflight", "done"}
  /\ \A r \in Room : Queued(r) \/ AtWorker(r) =>
       /\ ~Untold(r)
       /\ pstage[r] \in {"chunked", "inflight", "done"}
       /\ pstage[r] = "done" => pstatus[r] = None

\* the decode server has been told that the transfer of r succeeded, or will be
Succeeded(r) == \/ \E m \in Listed(toDecode) : m.room = r /\ m.status = Success
                \/ listener.pc \in {"count", "mark"} /\ listener.room = r
                \/ dstatus[r] = Success

\* A success is the last that is reported of a room.
ReportsInOrder ==
  /\ EndsRoom(toDecode, Successes)
  /\ \A m \in Listed(toDecode) : ~Untold(m.room)
  /\ listener.pc \in {"count", "mark"} => \A m \in Listed(toDecode) : m.room # listener.room
  /\ \A r \in Room : dstatus[r] = Success => \A m \in Listed(toDecode) : m.room # r
  /\ \A r \in Room : Succeeded(r) \/ pstatus[r] = Success =>
       /\ ~Untold(r) /\ ~Queued(r) /\ ~AtWorker(r)
       /\ pstage[r] \in {"inflight", "done"}

\* The status a room may have on the prefill server, in each stage of its request
PStatusOf(s, v) == /\ s = "none" => v \in {None, WaitingForInput}
                   /\ s = "bootstrap" => v \in {Failed, Bootstrapping, WaitingForInput}
                   /\ s = "waiting" => v = WaitingForInput
                   /\ s = "chunked" => v \in {Failed, WaitingForInput}
                   /\ s = "inflight" => v \in {Failed, WaitingForInput, Success}
                   /\ s = "done" => v \in {None, WaitingForInput, Success}

\* which also says what a sender has concluded
PStatusRight(r) ==
  /\ PStatusOf(pstage[r], pstatus[r])
  /\ pstage[r] # "done" => pconclude[r] \in {None, Failed}
  /\ pstatus[r] = WaitingForInput \/ pstage[r] \in {"waiting", "chunked", "inflight"} => ~Untold(r)

\* and on the decode server
DStatusOf(s, v) == /\ s = "none" => v = None
                   /\ s = "prealloc" => v \in {Failed, Bootstrapping, WaitingForInput}
                   /\ s = "transfer" => v \in {Failed, WaitingForInput, Success}
                   /\ s \in {"running", "done"} => v \in {None, Success}

DStatusRight(r) ==
  /\ DStatusOf(dstage[r], dstatus[r])
  /\ dstage[r] = "none" => dconclude[r] = None /\ r \notin ready
  /\ dstage[r] \in {"prealloc", "transfer"} => dconclude[r] \in {None, Failed}
  /\ r \in ready /\ dstage[r] = "prealloc" => dstatus[r] # Bootstrapping
  /\ r \in pending => /\ r \notin ready /\ dstatus[r] # WaitingForInput
                      /\ \/ dstage[r] = "prealloc"
                         \/ dstage[r] = "done" /\ dconclude[r] = Failed

\* What the prefill server knows of a transfer is what the decode server holds.
InfoOf(r) == [pages |-> dpages[r], slot |-> dslot[r]]

\* the same, of every place where it is
MetadataRight ==
  /\ \A m \in Listed(toPrefill) : m # Register /\ dstage[m.room] = "transfer" =>
       m.pages = dpages[m.room] /\ m.slot = dslot[m.room]
  /\ receiver.pc = "store" /\ dstage[receiver.msg.room] = "transfer" =>
       receiver.msg.pages = dpages[receiver.msg.room] /\ receiver.msg.slot = dslot[receiver.msg.room]
  /\ \A r \in Room : dstage[r] = "transfer" => transferInfos[r] \in {None, EmptyInfo, InfoOf(r)}
  /\ \A r \in Room : ~InFlight(r) => transferInfos[r] \in Info \cup {None}
  /\ worker.pc \in {"send", "aux"} /\ dstage[worker.chunk.room] = "transfer" =>
       worker.info = InfoOf(worker.chunk.room)

\* The metadata is written before the success is reported.
BuffersWritten ==
  /\ \A c \in Listed(queue) : c.last => pbuf[c.slot] # None
  /\ worker.pc \in {"look", "send", "aux"} /\ worker.chunk.last => pbuf[worker.chunk.slot] # None
  /\ \A r \in Room : Succeeded(r) /\ dstage[r] = "transfer" => dbuf[dslot[r]] # None

----------------------------------------------------------------------------
(* Channels and queues                                                      *)

\* Appending to a channel
LEMMA AppendToSeq ==
  ASSUME NEW S, NEW s \in Seq(S), NEW x \in S, NEW F
  PROVE  /\ Append(s, x) \in Seq(S)
         /\ Listed(Append(s, x)) = Listed(s) \cup {x}
         /\ EndsRoom(s, F) /\ (\A y \in Listed(s) : y.room = x.room => y \notin F) =>
              EndsRoom(Append(s, x), F)
<1> DEFINE t == Append(s, x)
<1>1. /\ t \in Seq(S) /\ Len(s) \in Nat
      /\ DOMAIN s = 1 .. Len(s) /\ DOMAIN t = 1 .. Len(s) + 1
      /\ \A i \in 1 .. Len(s) : t[i] = s[i]
      /\ t[Len(s) + 1] = x
  OBVIOUS
<1> HIDE DEF t
<1>2. Listed(t) = Listed(s) \cup {x}
  <2>1. ASSUME NEW y \in Listed(t) PROVE y \in Listed(s) \cup {x}
    <3>1. PICK i \in DOMAIN t : y = t[i]
      BY Zenon DEF Listed
    <3> QED BY <1>1, <3>1 DEF Listed
  <2>2. ASSUME NEW y \in Listed(s) PROVE y \in Listed(t)
    <3>1. PICK i \in 1 .. Len(s) : y = s[i]
      BY <1>1, Zenon DEF Listed
    <3> QED BY <1>1, <3>1 DEF Listed
  <2>3. x \in Listed(t)
    BY <1>1 DEF Listed
  <2> QED BY <2>1, <2>2, <2>3, Zenon
<1>3. ASSUME EndsRoom(s, F), \A y \in Listed(s) : y.room = x.room => y \notin F
      PROVE  EndsRoom(t, F)
  <2> SUFFICES ASSUME NEW i \in DOMAIN t, NEW j \in DOMAIN t, i < j, t[i].room = t[j].room
               PROVE  t[i] \notin F
    BY Zenon DEF EndsRoom
  <2>1. i \in 1 .. Len(s) /\ t[i] = s[i]
    BY <1>1
  <2>2. CASE j \in 1 .. Len(s)
    BY <1>1, <1>3, <2>1, <2>2, Zenon DEF EndsRoom
  <2>3. CASE j = Len(s) + 1
    BY <1>1, <1>3, <2>1, <2>3, Zenon DEF Listed
  <2> QED BY <1>1, <2>2, <2>3
<1> QED BY <1>1, <1>2, <1>3, Zenon DEF t

\* Receiving from a channel
LEMMA TakeFromSeq ==
  ASSUME NEW S, NEW s \in Seq(S), s # <<>>, NEW F
  PROVE  /\ Head(s) \in S /\ Tail(s) \in Seq(S)
         /\ Listed(s) = Listed(Tail(s)) \cup {Head(s)}
         /\ EndsRoom(s, F) =>
              /\ EndsRoom(Tail(s), F)
              /\ Head(s) \in F => \A y \in Listed(Tail(s)) : y.room # Head(s).room
<1> DEFINE t == Tail(s)
<1>1. /\ Len(s) \in Nat /\ Len(s) > 0
      /\ Head(s) = s[1] /\ Head(s) \in S
      /\ t \in Seq(S)
      /\ DOMAIN t = 1 .. Len(s) - 1 /\ DOMAIN s = 1 .. Len(s)
      /\ \A i \in 1 .. Len(s) - 1 : t[i] = s[i + 1]
  OBVIOUS
<1> HIDE DEF t
<1>2. \A i \in DOMAIN t : i \in Nat /\ i + 1 \in DOMAIN s /\ t[i] = s[i + 1]
  BY <1>1
<1>3. Listed(s) = Listed(t) \cup {Head(s)}
  <2>1. ASSUME NEW y \in Listed(s) PROVE y \in Listed(t) \cup {Head(s)}
    <3>1. PICK i \in DOMAIN s : y = s[i]
      BY Zenon DEF Listed
    <3>2. CASE i = 1
      BY <1>1, <3>1, <3>2, Zenon
    <3>3. CASE i # 1
      <4>1. i - 1 \in DOMAIN t /\ t[i - 1] = s[i]
        BY <1>1, <3>3
      <4> QED BY <3>1, <4>1, Zenon DEF Listed
    <3> QED BY <3>2, <3>3, Zenon
  <2>2. Head(s) \in Listed(s)
    BY <1>1 DEF Listed
  <2> QED BY <2>1, <1>2, <2>2 DEF Listed
<1>4. ASSUME EndsRoom(s, F) PROVE EndsRoom(t, F)
  <2> SUFFICES ASSUME NEW i \in DOMAIN t, NEW j \in DOMAIN t, i < j, t[i].room = t[j].room
               PROVE  t[i] \notin F
    BY Zenon DEF EndsRoom
  <2> QED BY <1>4, <1>2 DEF EndsRoom
<1>5. ASSUME EndsRoom(s, F), Head(s) \in F, NEW y \in Listed(t) PROVE y.room # Head(s).room
  <2>1. PICK i \in DOMAIN t : y = t[i]
    BY Zenon DEF Listed
  <2>2. i + 1 \in DOMAIN s /\ y = s[i + 1] /\ 1 < i + 1 /\ 1 \in DOMAIN s
    BY <1>1, <1>2, <2>1
  <2> QED BY <1>1, <1>5, <2>2, Zenon DEF EndsRoom
<1> QED BY <1>1, <1>3, <1>4, <1>5, Zenon DEF t

\* Losing the end of a channel
LEMMA PrefixOfSeq ==
  ASSUME NEW S, NEW s \in Seq(S), NEW n \in 0 .. Len(s), NEW F
  PROVE  /\ SubSeq(s, 1, n) \in Seq(S)
         /\ Listed(SubSeq(s, 1, n)) \subseteq Listed(s)
         /\ EndsRoom(s, F) => EndsRoom(SubSeq(s, 1, n), F)
<1> DEFINE t == SubSeq(s, 1, n)
<1>1. /\ t \in Seq(S) /\ Len(s) \in Nat
      /\ DOMAIN t = 1 .. n /\ DOMAIN s = 1 .. Len(s)
      /\ \A i \in 1 .. n : t[i] = s[i]
  OBVIOUS
<1> HIDE DEF t
<1> QED BY <1>1 DEF t, Listed, EndsRoom

----------------------------------------------------------------------------
(* Typing                                                                   *)

\* the invariant of the protocol
TInv == /\ IInv
        /\ MessagesTyped /\ ChunksTyped /\ StatusTyped
        /\ MetadataOnce /\ ChunksInOrder /\ ReportsInOrder
        /\ \A r \in Room : PStatusRight(r) /\ DStatusRight(r)

\* the values of a status differ
LEMMA PollValues ==
  /\ Failed \in KVPoll /\ Bootstrapping \in KVPoll /\ WaitingForInput \in KVPoll /\ Success \in KVPoll
  /\ None \notin KVPoll /\ None \notin Room
  /\ Failed # Bootstrapping /\ Failed # WaitingForInput /\ Failed # Success
  /\ Bootstrapping # WaitingForInput /\ Bootstrapping # Success /\ WaitingForInput # Success
BY PDAssumption DEF KVPoll, Failed, Bootstrapping, WaitingForInput, Success

\* update_status: what it writes, for each value
LEMMA UpdateFacts ==
  ASSUME NEW status \in [Room -> KVPoll \cup {None}], NEW r \in Room, NEW v \in KVPoll
  PROVE  LET new == UpdateStatus(status, r, v)
         IN  /\ new \in [Room -> KVPoll \cup {None}]
             /\ \A q \in Room \ {r} : new[q] = status[q]
             /\ v = Failed => new[r] = IF status[r] = None THEN None ELSE Failed
             /\ v = Bootstrapping => new[r] = IF status[r] \in {None, Failed} THEN Bootstrapping
                                             ELSE status[r]
             /\ v = WaitingForInput => new[r] = IF status[r] = Success THEN Success
                                               ELSE WaitingForInput
             /\ v = Success => new[r] = Success
<1> DEFINE new == UpdateStatus(status, r, v)
<1>1. new = status \/ new = [status EXCEPT ![r] = v]
  BY Zenon DEF UpdateStatus
<1>2. new \in [Room -> KVPoll \cup {None}] /\ \A q \in Room \ {r} : new[q] = status[q]
  <2> HIDE DEF new
  <2> QED BY <1>1, Zenon
<1>3. new[r] = IF status[r] = None THEN IF v = Failed THEN None ELSE v
               ELSE IF v = Failed \/ v > status[r] THEN v ELSE status[r]
  BY Zenon DEF UpdateStatus
<1> HIDE DEF new
<1> QED BY <1>2, <1>3, PDAssumption DEF new, Failed, Bootstrapping, WaitingForInput, Success, KVPoll

\* CommonKVReceiver.init sends nothing but registrations, and marks nothing but
\* the rooms it is called for.
LEMMA InitReceiversFacts ==
  ASSUME NEW status \in [Room -> KVPoll \cup {None}], NEW rs \in SUBSET Room, NEW alive,
         dconclude \in [Room -> {None, Failed, Success}],
         InitReceivers(status, rs, alive)
  PROVE  /\ toPrefill' = toPrefill \/ toPrefill' = Append(toPrefill, Register)
         /\ dstatus' \in [Room -> KVPoll \cup {None}]
         /\ dconclude' \in [Room -> {None, Failed, Success}]
         /\ \A q \in Room \ rs : dstatus'[q] = status[q] /\ dconclude'[q] = dconclude[q]
         /\ \A q \in rs :
              \/ /\ dconclude'[q] = Failed
                 /\ dstatus'[q] = IF status[q] = None THEN None ELSE Failed
              \/ /\ dconclude'[q] = dconclude[q] /\ dconclude[q] = Failed
                 /\ dstatus'[q] = status[q]
              \/ /\ dconclude'[q] = dconclude[q] /\ dconclude[q] # Failed
                 /\ dstatus'[q] = IF status[q] = Success THEN Success ELSE WaitingForInput
<1>1. \A q \in Room :
        /\ UpdateStatus(status, q, Failed)[q] = IF status[q] = None THEN None ELSE Failed
        /\ UpdateStatus(status, q, WaitingForInput)[q] =
             IF status[q] = Success THEN Success ELSE WaitingForInput
  BY UpdateFacts, PollValues
<1> QED BY <1>1, PollValues, Zenon DEF InitReceivers

MessageVars == <<toPrefill, toDecode, receiver, listener>>

\* The messages and the threads that receive them stay well formed.
LEMMA MessagesTypedStep ==
  ASSUME MessagesTyped, ChunksTyped, StatusTyped, IInv, Next
  PROVE  MessagesTyped'
<1> USE DEF MessagesTyped
<1>1. ASSUME UNCHANGED MessageVars PROVE MessagesTyped'
  BY <1>1, Zenon DEF MessageVars
<1>2. ASSUME NEW m \in Status, toDecode' = Append(toDecode, m),
             UNCHANGED <<toPrefill, receiver, listener>>
      PROVE  MessagesTyped'
  BY <1>2, AppendToSeq, Zenon
<1>3. ASSUME NEW m \in Metadata \cup {Register}, toPrefill' = Append(toPrefill, m),
             UNCHANGED <<toDecode, receiver, listener>>
      PROVE  MessagesTyped'
  BY <1>3, AppendToSeq, Zenon
<1>4. ASSUME PNext, Prefills PROVE MessagesTyped'
  <2>0. UNCHANGED listener
    BY <1>4, Zenon DEF Prefills, dvars, dthreads
  <2>1. ASSUME Crash PROVE MessagesTyped'
    BY <2>0, <2>1, PrefixOfSeq DEF Crash, threads
  <2>2. ASSUME Registered PROVE MessagesTyped'
    BY <2>0, <2>2, TakeFromSeq, Zenon DEF Registered
  <2>3. ASSUME MetadataArrives PROVE MessagesTyped'
    <3>1. /\ toPrefill # <<>> /\ Head(toPrefill) # Register
          /\ receiver' = [pc |-> "store", msg |-> Head(toPrefill)]
          /\ toPrefill' = Tail(toPrefill) /\ toDecode' = toDecode
      BY <2>3, Zenon DEF MetadataArrives
    <3> QED BY <2>0, <3>1, TakeFromSeq
  <2>4. ASSUME MetadataStored PROVE MessagesTyped'
    BY <2>0, <2>4 DEF MetadataStored, shared, DeadReceiver, Listening
  <2>5. ASSUME WorkerSends PROVE MessagesTyped'
    <3>1. CASE SendFails(worker.chunk)
      BY <2>0, <2>5, <3>1, <1>2, Zenon DEF WorkerSends, SendFails, Report, Status, At, ChunksTyped,
         KVChunk
    <3>2. CASE SendSucceeds(worker.chunk)
      BY <2>0, <2>5, <3>2, <1>1, Zenon DEF WorkerSends, SendSucceeds, MessageVars
    <3> QED BY <2>5, <3>1, <3>2, Zenon DEF WorkerSends
  <2>6. ASSUME WorkerSendsAux PROVE MessagesTyped'
    BY <2>0, <2>6, <1>2, Zenon DEF WorkerSendsAux, Report, Status, At, ChunksTyped, KVChunk
  <2>7. ASSUME NEW r \in Room,
               \/ PArrive(r) \/ PAbort(r) \/ Bootstrapped(r) \/ PrefillChunk(r)
               \/ \E why : BootstrapFailed(r, why) \/ TransferEnded(r, why)
        PROVE  MessagesTyped'
    BY <2>0, <2>7, <1>1, Zenon DEF PArrive, PAbort, Bootstrapped, PrefillChunk,
       BootstrapFailed, TransferEnded, shared, threads, MessageVars
  <2>8. ASSUME \/ WorkerGets \/ WorkerLooks \/ WorkerChecks \/ WorkerReadsStatus
               \/ WorkerOwns \/ WorkerPops \/ Probe
        PROVE  MessagesTyped'
    BY <2>0, <2>8, <1>1, Zenon DEF WorkerGets, WorkerLooks, WorkerChecks, WorkerReadsStatus,
       WorkerOwns, WorkerPops, Probe, shared, threads, MessageVars
  <2> QED BY <1>4, <2>1, <2>2, <2>3, <2>4, <2>5, <2>6, <2>7, <2>8, Zenon DEF PNext, PScheduler,
             Worker
<1>5. ASSUME DNext(up), Decodes PROVE MessagesTyped'
  <2>0. UNCHANGED receiver
    BY <1>5, Zenon DEF Decodes, pvars, threads
  <2>1. ASSUME NEW r \in Room, DArrive(r, up) PROVE MessagesTyped'
    <3>1. /\ UpdateStatus(dstatus, r, Bootstrapping) \in [Room -> KVPoll \cup {None}]
          /\ dconclude \in [Room -> {None, Failed, Success}]
          /\ (IF infoKnown THEN {r} ELSE {}) \in SUBSET Room
      BY UpdateFacts, PollValues, Zenon DEF StatusTyped
    <3> QED BY <2>0, <2>1, <3>1, InitReceiversFacts, <1>1, <1>3, Zenon DEF DArrive, dthreads,
               MessageVars
  <2>2. ASSUME ResolvePending(up) PROVE MessagesTyped'
    <3>1. toPrefill' = toPrefill \/ toPrefill' = Append(toPrefill, Register)
      <4>1. CASE infoKnown'
        BY <2>2, <4>1, InitReceiversFacts, Zenon DEF ResolvePending, StatusTyped
      <4>2. CASE ~infoKnown'
        BY <2>2, <4>2, Zenon DEF ResolvePending
      <4> QED BY <4>1, <4>2, Zenon
    <3> QED BY <2>0, <2>2, <3>1, <1>1, <1>3, Zenon DEF ResolvePending, dthreads, MessageVars
  <2>3. ASSUME NEW r \in Room, Preallocate(r) PROVE MessagesTyped'
    <3>1. IInv'
      BY <1>5, BuffersStep, Zenon DEF Next
    <3>2. dpages'[r] \in Seq(DPage) /\ dslot'[r] \in DSlot
      <4>1. DTyped'
        BY <3>1, Zenon DEF IInv, DSlotsInv
      <4>2. dslot'[r] # None
        BY <3>1, <2>3, Zenon DEF IInv, DSlotsInv, Preallocate, DTyped
      <4> QED BY <4>1, <4>2, Zenon DEF DTyped
    <3> QED BY <2>0, <2>3, <3>2, <1>3, Zenon DEF Preallocate, SendMetadata, dthreads, Metadata
  <2>4. ASSUME StatusArrives PROVE MessagesTyped'
    <3>1. /\ toDecode # <<>> /\ toDecode' = Tail(toDecode) /\ toPrefill' = toPrefill
          /\ listener' \in {listener, Hearing, [pc |-> "count", room |-> Head(toDecode).room]}
      BY <2>4, Zenon DEF StatusArrives
    <3>2. Head(toDecode) \in Status /\ toDecode' \in Seq(Status)
      BY <3>1, TakeFromSeq, Zenon
    <3> QED BY <2>0, <3>1, <3>2 DEF Hearing, Status
  <2>5. ASSUME StatusCounted \/ StatusMarked PROVE MessagesTyped'
    BY <2>0, <2>5 DEF StatusCounted, StatusMarked, shared, DeadListener, Hearing
  <2>6. ASSUME NEW r \in Room,
               \/ DAbort(r) \/ HandshakeReady(r) \/ Commit(r) \/ Decoded(r)
               \/ \E why : HandshakeFailed(r, why) \/ TransferFailed(r, why)
        PROVE  MessagesTyped'
    BY <2>0, <2>6, <1>1, Zenon DEF DAbort, HandshakeReady, Commit, Decoded,
       HandshakeFailed, TransferFailed, shared, dthreads, MessageVars
  <2>7. ASSUME HeartbeatOk(up) \/ HeartbeatFailed(up) \/ RoomChecked \/ RoomFailed
        PROVE  MessagesTyped'
    BY <2>0, <2>7, <1>1, Zenon DEF HeartbeatOk, HeartbeatFailed, RoomChecked, RoomFailed, shared,
       dthreads, MessageVars
  <2> QED BY <1>5, <2>1, <2>2, <2>3, <2>4, <2>5, <2>6, <2>7, Zenon DEF DNext, DScheduler
<1> QED BY <1>4, <1>5, Zenon DEF Next

ChunkVars == <<queue, worker, transferInfos, prefilled, pbuf, dbuf>>

\* So do the transfer queue, the transfer worker and what it works on.
LEMMA ChunksTypedStep ==
  ASSUME MessagesTyped, ChunksTyped, StatusTyped, IInv, Next
  PROVE  ChunksTyped'
<1> USE DEF ChunksTyped
<1>1. ASSUME UNCHANGED ChunkVars PROVE ChunksTyped'
  BY <1>1, Zenon DEF ChunkVars
<1>2. ASSUME NEW w \in [pc : WorkerPc, chunk : KVChunk \cup {None}, info : Info \cup {EmptyInfo, None}],
             worker' = w, w.pc \notin {"get", "dead"} => w.chunk \in KVChunk,
             w.pc \in {"send", "aux"} => w.info \in Info,
             UNCHANGED <<queue, transferInfos, prefilled, pbuf, dbuf>>
      PROVE  ChunksTyped'
  BY <1>2, Zenon
<1>3. Idle \in [pc : WorkerPc, chunk : KVChunk \cup {None}, info : Info \cup {EmptyInfo, None}]
      /\ DeadWorker \in [pc : WorkerPc, chunk : KVChunk \cup {None}, info : Info \cup {EmptyInfo, None}]
      /\ Idle.pc = "get" /\ DeadWorker.pc = "dead"
  BY Zenon DEF Idle, DeadWorker, WorkerPc
<1>4. ASSUME NEW pc \in WorkerPc, worker.pc \notin {"get", "dead"},
             pc \in {"send", "aux"} => worker.info \in Info
      PROVE  LET w == [worker EXCEPT !.pc = pc]
             IN  /\ w \in [pc : WorkerPc, chunk : KVChunk \cup {None}, info : Info \cup {EmptyInfo, None}]
                 /\ w.pc \notin {"get", "dead"} => w.chunk \in KVChunk
                 /\ w.pc \in {"send", "aux"} => w.info \in Info
  BY <1>4, Zenon
<1>5. ASSUME NEW r \in Room, NEW i \in Info \cup {EmptyInfo, None},
             transferInfos' = [transferInfos EXCEPT ![r] = i],
             UNCHANGED <<queue, worker, prefilled, pbuf, dbuf>>
      PROVE  ChunksTyped'
  BY <1>5, Zenon
<1>6. ASSUME PNext, Prefills PROVE ChunksTyped'
  <2>1. ASSUME NEW r \in Room, PrefillChunk(r) PROVE ChunksTyped'
    <3> DEFINE c == [room |-> r, k |-> prefilled[r] + 1, last |-> Last(r), slot |-> pslot[r]]
    <3>1. pslot[r] \in PSlot
      BY <2>1, Zenon DEF PrefillChunk, IInv, PSlotsInv, PTyped
    <3>2. c \in KVChunk
      BY <3>1 DEF KVChunk, Last
    <3>3. queue' = queue \/ queue' = Append(queue, c)
      BY <2>1, Zenon DEF PrefillChunk, SendKVChunk, AddTransferRequest
    <3> HIDE DEF c
    <3>4. queue' \in Seq(KVChunk)
      <4>1. queue \in Seq(KVChunk)
        OBVIOUS
      <4>2. Append(queue, c) \in Seq(KVChunk)
        BY <3>2, <4>1, AppendToSeq, Zenon
      <4> QED BY <3>3, <4>1, <4>2, Zenon
    <3> QED BY <3>4, <2>1, <3>1 DEF PrefillChunk, SetBuf, shared, tables, threads
  <2>2. ASSUME NEW r \in Room, NEW why, BootstrapFailed(r, why) \/ TransferEnded(r, why)
        PROVE  ChunksTyped'
    BY <2>2, <1>5, Zenon DEF BootstrapFailed, TransferEnded, PClear, shared, threads
  <2>3. ASSUME NEW r \in Room, PArrive(r) \/ PAbort(r) \/ Bootstrapped(r) PROVE ChunksTyped'
    BY <2>3, <1>1, Zenon DEF PArrive, PAbort, Bootstrapped, shared, threads, tables, ChunkVars
  <2>4. ASSUME Registered \/ Probe \/ Crash PROVE ChunksTyped'
    BY <2>4, <1>1, Zenon DEF Registered, Probe, Crash, shared, queues, tables, threads, ChunkVars
  <2>5. ASSUME MetadataArrives PROVE ChunksTyped'
    <3> DEFINE m == Head(toPrefill)
    <3>1. m.room \in Room
      BY <2>5, TakeFromSeq DEF Metadata, MetadataArrives, MessagesTyped
    <3>2. transferInfos' = [transferInfos EXCEPT ![m.room] =
                              IF transferInfos[m.room] = None THEN EmptyInfo
                              ELSE transferInfos[m.room]]
      BY <2>5, Zenon DEF MetadataArrives
    <3> HIDE DEF m
    <3> QED BY <3>1, <3>2, <2>5, <1>5, Zenon DEF MetadataArrives, queues
  <2>6. ASSUME MetadataStored PROVE ChunksTyped'
    <3> DEFINE m == receiver.msg
    <3>1. UNCHANGED <<queue, worker, prefilled, pbuf, dbuf>>
      BY <2>6, Zenon DEF MetadataStored, queues, shared
    <3>2. CASE transferInfos[m.room] = None
      BY <2>6, <3>1, <3>2, <1>1, Zenon DEF MetadataStored, tables, ChunkVars
    <3>3. CASE transferInfos[m.room] # None
      BY <2>6, <3>1, <3>3, <1>5, Zenon DEF MetadataStored, Metadata, Info, MessagesTyped
    <3> QED BY <3>2, <3>3, Zenon
  <2>7. ASSUME WorkerGets PROVE ChunksTyped'
    <3> DEFINE c == Head(queue)
               w == [pc |-> IF transferInfos[c.room] = None THEN "check" ELSE "look",
                     chunk |-> c, info |-> None]
    <3>1. c \in KVChunk /\ Tail(queue) \in Seq(KVChunk)
      BY <2>7, TakeFromSeq, Zenon DEF WorkerGets
    <3>2. w \in [pc : WorkerPc, chunk : KVChunk \cup {None}, info : Info \cup {EmptyInfo, None}]
          /\ w.chunk \in KVChunk /\ w.pc \in {"check", "look"}
      BY <3>1, Zenon DEF WorkerPc
    <3>3. worker' = w /\ queue' = Tail(queue)
          /\ UNCHANGED <<transferInfos, prefilled, pbuf, dbuf>>
      BY <2>7, Zenon DEF WorkerGets, shared, queues, tables
    <3> HIDE DEF w, c
    <3> QED BY <3>1, <3>2, <3>3, Zenon
  <2>8. ASSUME WorkerLooks PROVE ChunksTyped'
    <3> DEFINE i == transferInfos[worker.chunk.room]
    <3>1. worker.pc = "look" /\ worker.chunk \in KVChunk
      BY <2>8, Zenon DEF WorkerLooks, At
    <3>2. i \in Info \cup {EmptyInfo, None}
      BY <3>1, Zenon DEF KVChunk
    <3>3. UNCHANGED <<queue, transferInfos, prefilled, pbuf, dbuf>>
      BY <2>8, Zenon DEF WorkerLooks, shared, queues, tables
    <3>4. worker' = IF i = None THEN DeadWorker
                    ELSE [worker EXCEPT !.pc = IF i = EmptyInfo THEN "check" ELSE "send",
                                        !.info = i]
      BY <2>8, Zenon DEF WorkerLooks
    <3> HIDE DEF i
    <3>5. CASE i = None
      BY <3>3, <3>4, <3>5, <1>2, <1>3, Zenon
    <3>6. CASE i # None
      <4> DEFINE w == [pc |-> IF i = EmptyInfo THEN "check" ELSE "send",
                       chunk |-> worker.chunk, info |-> i]
      <4>1. worker' = w
        BY <3>4, <3>6, Zenon
      <4>2. w \in [pc : WorkerPc, chunk : KVChunk \cup {None}, info : Info \cup {EmptyInfo, None}]
            /\ w.chunk \in KVChunk /\ (w.pc \in {"send", "aux"} => w.info \in Info)
        BY <3>1, <3>2, <3>6, Zenon DEF WorkerPc
      <4> HIDE DEF w
      <4> QED BY <3>3, <4>1, <4>2, <1>2, Zenon
    <3> QED BY <3>5, <3>6, Zenon
  <2>9. ASSUME WorkerSends PROVE ChunksTyped'
    <3>1. worker.pc = "send" /\ worker.info \in Info
      BY <2>9, Zenon DEF WorkerSends, At
    <3>2. \E pc \in {"check", "aux"} : worker' = [worker EXCEPT !.pc = pc]
      BY <2>9, Zenon DEF WorkerSends, SendFails, SendSucceeds, Goto
    <3> QED BY <3>1, <3>2, <2>9, <1>2, <1>4 DEF WorkerPc, WorkerSends, queues
  <2>10. ASSUME WorkerSendsAux PROVE ChunksTyped'
    <3>1. worker.pc = "aux" /\ worker.chunk \in KVChunk /\ worker.info \in Info
      BY <2>10, Zenon DEF WorkerSendsAux, At
    <3>2. dbuf' \in [DSlot -> Room \cup {None}]
      <4>1. worker.info.slot \in DSlot /\ worker.chunk.slot \in PSlot
        BY <3>1, Zenon DEF Info, KVChunk
      <4> QED BY <2>10, <4>1, Zenon DEF WorkerSendsAux, SendAux
    <3> QED BY <3>1, <3>2, <2>10, <1>4, Zenon DEF WorkerPc, WorkerSendsAux, Goto, queues
  <2>11. ASSUME WorkerChecks \/ WorkerReadsStatus \/ WorkerOwns PROVE ChunksTyped'
    <3>1. worker.pc \in {"check", "status", "owned"}
          /\ UNCHANGED <<queue, transferInfos, prefilled, pbuf, dbuf>>
      BY <2>11, Zenon DEF WorkerChecks, WorkerReadsStatus, WorkerOwns, At, shared, queues, tables
    <3>2. CASE worker' \in {Idle, DeadWorker}
      <4>1. CASE worker' = Idle
        BY <3>1, <4>1, <1>2, <1>3, Zenon
      <4>2. CASE worker' = DeadWorker
        BY <3>1, <4>2, <1>2, <1>3, Zenon
      <4> QED BY <3>2, <4>1, <4>2, Zenon
    <3>3. CASE \E pc \in {"owned", "status", "pop"} : worker' = [worker EXCEPT !.pc = pc]
      <4>1. PICK pc \in {"owned", "status", "pop"} : worker' = [worker EXCEPT !.pc = pc]
        BY <3>3, Zenon
      <4>2. pc \in WorkerPc /\ worker.pc \notin {"get", "dead"}
            /\ (pc \in {"send", "aux"} => worker.info \in Info)
        BY <3>1, <4>1, Zenon DEF WorkerPc
      <4> QED BY <3>1, <4>1, <4>2, <1>2, <1>4, Zenon
    <3> QED BY <2>11, <3>2, <3>3, Zenon DEF WorkerChecks, WorkerReadsStatus, WorkerOwns, Goto
  <2>12. ASSUME WorkerPops PROVE ChunksTyped'
    <3>1. worker' \in {Idle, DeadWorker} /\ UNCHANGED <<queue, prefilled, pbuf, dbuf>>
          /\ transferInfos' = [transferInfos EXCEPT ![worker.chunk.room] = None]
      BY <2>12, Zenon DEF WorkerPops, shared, queues
    <3> QED BY <3>1, <1>3, Zenon
  <2> QED BY <1>6, <2>1, <2>2, <2>3, <2>4, <2>5, <2>6, <2>7, <2>8, <2>9, <2>10, <2>11, <2>12, Zenon
             DEF PNext, PScheduler, Worker
<1>7. ASSUME DNext(up), Decodes PROVE ChunksTyped'
  <2>1. UNCHANGED dbuf
    BY <1>7, Zenon DEF DNext, DScheduler, DArrive, DAbort, HandshakeReady, HandshakeFailed, Preallocate,
       Commit, Decoded, TransferFailed, ResolvePending, StatusArrives, StatusCounted,
       StatusMarked, HeartbeatOk, HeartbeatFailed, RoomChecked, RoomFailed, shared
  <2> QED BY <1>7, <2>1, <1>1, Zenon DEF ChunkVars, Decodes, pvars, queues, tables, threads
<1> QED BY <1>6, <1>7, Zenon DEF Next

PStatusVars == <<pstatus, pconclude>>
DStatusVars == <<dstatus, dconclude, ready, pending, tracker, checker>>

\* And the statuses.
LEMMA StatusTypedStep ==
  ASSUME MessagesTyped, ChunksTyped, StatusTyped, IInv, Next
  PROVE  StatusTyped'
<1> USE DEF StatusTyped
<1>0. /\ \A r \in Room, v \in KVPoll :
           /\ UpdateStatus(pstatus, r, v) \in [Room -> KVPoll \cup {None}]
           /\ UpdateStatus(dstatus, r, v) \in [Room -> KVPoll \cup {None}]
      /\ Failed \in KVPoll /\ Bootstrapping \in KVPoll /\ WaitingForInput \in KVPoll
      /\ Success \in KVPoll
  BY UpdateFacts, PollValues, Zenon
<1>1. ASSUME PNext, Prefills
      PROVE  /\ pstatus' \in [Room -> KVPoll \cup {None}]
             /\ pconclude' \in [Room -> {None, Failed, Success}]
  <2>1. ASSUME UNCHANGED PStatusVars
        PROVE  /\ pstatus' \in [Room -> KVPoll \cup {None}]
               /\ pconclude' \in [Room -> {None, Failed, Success}]
    BY <2>1, Zenon DEF PStatusVars
  <2>2. ASSUME NEW r \in Room, NEW v \in KVPoll, pstatus' = UpdateStatus(pstatus, r, v),
               UNCHANGED pconclude
        PROVE  /\ pstatus' \in [Room -> KVPoll \cup {None}]
               /\ pconclude' \in [Room -> {None, Failed, Success}]
    BY <1>0, <2>2, Zenon
  <2>3. ASSUME NEW r \in Room, PArrive(r)
        PROVE  pstatus' \in [Room -> KVPoll \cup {None}] /\ pconclude' \in [Room -> {None, Failed, Success}]
    BY <1>0, <2>2, <2>3, Zenon DEF PArrive
  <2>4. ASSUME NEW r \in Room, NEW why, BootstrapFailed(r, why)
        PROVE  pstatus' \in [Room -> KVPoll \cup {None}] /\ pconclude' \in [Room -> {None, Failed, Success}]
    BY <2>4, Zenon DEF BootstrapFailed, PClear
  <2>5. ASSUME NEW r \in Room, NEW why, TransferEnded(r, why)
        PROVE  pstatus' \in [Room -> KVPoll \cup {None}] /\ pconclude' \in [Room -> {None, Failed, Success}]
    BY <2>5, Zenon DEF TransferEnded, PClear
  <2>6. ASSUME NEW r \in Room, PAbort(r)
        PROVE  pstatus' \in [Room -> KVPoll \cup {None}] /\ pconclude' \in [Room -> {None, Failed, Success}]
    BY <1>0, <2>6 DEF PAbort, AbortWaiting, AbortSender
  <2>7. ASSUME NEW r \in Room, Bootstrapped(r) \/ PrefillChunk(r)
        PROVE  pstatus' \in [Room -> KVPoll \cup {None}] /\ pconclude' \in [Room -> {None, Failed, Success}]
    BY <2>1, <2>7, Zenon DEF Bootstrapped, PrefillChunk, tables, PStatusVars
  <2>8. ASSUME MetadataStored
        PROVE  pstatus' \in [Room -> KVPoll \cup {None}] /\ pconclude' \in [Room -> {None, Failed, Success}]
    BY <1>0, <2>1, <2>2, <2>8, Zenon DEF MetadataStored, queues, tables, PStatusVars, MessagesTyped,
       Metadata
  <2>9. ASSUME WorkerSends \/ WorkerSendsAux
        PROVE  pstatus' \in [Room -> KVPoll \cup {None}] /\ pconclude' \in [Room -> {None, Failed, Success}]
    BY <1>0, <2>1, <2>2, <2>9, Zenon DEF WorkerSends, WorkerSendsAux, SendFails, SendSucceeds,
       Report, queues, PStatusVars, At, ChunksTyped, KVChunk
  <2>10. ASSUME \/ Registered \/ MetadataArrives \/ Probe \/ Crash \/ WorkerGets \/ WorkerLooks
                \/ WorkerChecks \/ WorkerReadsStatus \/ WorkerOwns \/ WorkerPops
         PROVE  pstatus' \in [Room -> KVPoll \cup {None}] /\ pconclude' \in [Room -> {None, Failed, Success}]
    BY <2>1, <2>10, Zenon DEF Registered, MetadataArrives, Probe, Crash, WorkerGets, WorkerLooks,
       WorkerChecks, WorkerReadsStatus, WorkerOwns, WorkerPops, queues, tables, PStatusVars
  <2> QED BY <1>1, <2>3, <2>4, <2>5, <2>6, <2>7, <2>8, <2>9, <2>10, Zenon DEF PNext, PScheduler,
             Worker
<1>2. ASSUME DNext(up), Decodes
      PROVE  StatusTyped'
  <2>0. UNCHANGED PStatusVars
    BY <1>2, Zenon DEF Decodes, pvars, queues, tables, PStatusVars
  <2>1. ASSUME UNCHANGED DStatusVars PROVE StatusTyped'
    BY <2>0, <2>1, Zenon DEF PStatusVars, DStatusVars
  <2>2. ASSUME NEW r \in Room, NEW v \in KVPoll, dstatus' = UpdateStatus(dstatus, r, v),
               dconclude' \in [Room -> {None, Failed, Success}],
               UNCHANGED <<ready, pending, tracker, checker>>
        PROVE  StatusTyped'
    BY <1>0, <2>0, <2>2, Zenon DEF PStatusVars
  <2>3. ASSUME NEW r \in Room, DArrive(r, up) PROVE StatusTyped'
    <3>1. /\ UpdateStatus(dstatus, r, Bootstrapping) \in [Room -> KVPoll \cup {None}]
          /\ (IF infoKnown THEN {r} ELSE {}) \in SUBSET Room
      BY <1>0, Zenon
    <3> QED BY <2>0, <2>3, <3>1, InitReceiversFacts, Zenon DEF PStatusVars, DArrive, dthreads
  <2>4. ASSUME ResolvePending(up) PROVE StatusTyped'
    <3>1. /\ dstatus' \in [Room -> KVPoll \cup {None}]
          /\ dconclude' \in [Room -> {None, Failed, Success}]
      <4>1. CASE infoKnown'
        BY <2>4, <4>1, InitReceiversFacts, Zenon DEF ResolvePending
      <4>2. CASE ~infoKnown'
        <5>1. \A r \in Room : UpdateStatus(dstatus, r, Failed)[r] \in KVPoll \cup {None}
          BY <1>0
        <5> QED BY <2>4, <4>2, <5>1, Zenon DEF ResolvePending
      <4> QED BY <4>1, <4>2, Zenon
    <3> QED BY <2>0, <2>4, <3>1, Zenon DEF PStatusVars, ResolvePending, dqueues, dthreads
  <2>5. ASSUME NEW r \in Room,
               \/ HandshakeReady(r) \/ Commit(r) \/ DAbort(r)
               \/ \E why : HandshakeFailed(r, why) \/ TransferFailed(r, why)
        PROVE  StatusTyped'
    <3>1. dstatus' \in [Room -> KVPoll \cup {None}]
      <4>1. CASE DAbort(r)
        BY <1>0, <4>1, Zenon DEF DAbort
      <4> QED BY <2>5, <4>1, Zenon DEF HandshakeReady, Commit, HandshakeFailed, TransferFailed,
                 DClear, dtables
    <3> QED BY <2>0, <2>5, <3>1, Zenon DEF PStatusVars, HandshakeReady, Commit, DAbort,
               HandshakeFailed, TransferFailed, server, dthreads, dqueues
  <2>6. ASSUME NEW r \in Room, Preallocate(r) \/ Decoded(r) PROVE StatusTyped'
    BY <2>1, <2>6, Zenon DEF Preallocate, Decoded, dtables, server, dthreads, DStatusVars
  <2>7. ASSUME StatusArrives \/ StatusMarked PROVE StatusTyped'
    <3>1. StatusArrives => Head(toDecode).room \in Room
      <4>1. StatusArrives => Head(toDecode) \in Status
        BY TakeFromSeq, Zenon DEF StatusArrives, MessagesTyped
      <4> QED BY <4>1, Zenon DEF Status
    <3> QED BY <2>1, <2>2, <2>7, <1>0, <3>1, Zenon DEF DStatusVars, StatusArrives, StatusMarked,
               dqueues, server, MessagesTyped
  <2>8. ASSUME StatusCounted PROVE StatusTyped'
    BY <2>1, <2>8, Zenon DEF StatusCounted, dqueues, dtables, server, DStatusVars
  <2>9. ASSUME HeartbeatOk(up) PROVE StatusTyped'
    BY <2>0, <2>9, Zenon DEF HeartbeatOk, dqueues, dtables, dthreads, PStatusVars
  <2>10. ASSUME HeartbeatFailed(up) PROVE StatusTyped'
    BY <2>0, <2>10, Zenon DEF HeartbeatFailed, dqueues, dtables, PStatusVars
  <2>11. ASSUME RoomChecked PROVE StatusTyped'
    <3>1. UNCHANGED <<dstatus, dconclude, ready, pending, tracker>>
      BY <2>11, Zenon DEF RoomChecked, dqueues, dtables, server
    <3>2. CASE checker.rooms = {}
      BY <2>0, <2>11, <3>1, <3>2 DEF RoomChecked, Watching, PStatusVars
    <3>3. CASE checker.rooms # {}
      <4>1. PICK r \in checker.rooms :
              checker' = [pc    |-> IF dstatus[r] = None THEN "check" ELSE "fail",
                          rooms |-> checker.rooms \ {r},
                          room  |-> IF dstatus[r] = None THEN None ELSE r]
        BY <2>11, <3>3, Zenon DEF RoomChecked
      <4> QED BY <2>0, <3>1, <4>1, Zenon DEF PStatusVars
    <3> QED BY <3>2, <3>3, Zenon
  <2>12. ASSUME RoomFailed PROVE StatusTyped'
    <3>1. UNCHANGED <<dconclude, ready, pending, tracker>> /\ checker.room \in Room
      BY <2>12, Zenon DEF RoomFailed, dqueues, server
    <3>2. /\ checker' \in [pc : {"watch", "check", "fail", "dead"}, rooms : SUBSET Room,
                           room : Room \cup {None}]
          /\ checker'.pc # "fail"
      <4>1. CASE checker' = DeadChecker
        BY <4>1, Zenon DEF DeadChecker, Watching
      <4>2. CASE checker' = [checker EXCEPT !.pc = "check", !.room = None]
        BY <4>2, Zenon
      <4> QED BY <2>12, <4>1, <4>2, Zenon DEF RoomFailed
    <3> QED BY <2>0, <3>1, <1>0, <2>12, <3>2, Zenon DEF PStatusVars, RoomFailed
  <2> QED BY <1>2, <2>3, <2>4, <2>5, <2>6, <2>7, <2>8, <2>9, <2>10, <2>11, <2>12, Zenon DEF DNext,
             DScheduler
<1>3. ASSUME PNext, Prefills PROVE StatusTyped'
  BY <1>1, <1>3, Zenon DEF DStatusVars, Prefills, dvars, dqueues, dtables, server, dthreads
<1> QED BY <1>2, <1>3, Zenon DEF Next

----------------------------------------------------------------------------
(* The metadata of a transfer is sent once                                  *)

\* The prefill server's steps put no metadata on its way, and change what is known
\* of a room to nothing or by metadata that is on its way.
LEMMA PrefillHears ==
  ASSUME MessagesTyped, ChunksTyped, MetadataOnce, PNext
  PROVE  /\ \A r \in Room : InFlight(r)' => InFlight(r)
         /\ \A r \in Room : transferInfos'[r] \in {transferInfos[r], None} \/ InFlight(r)
         /\ EndsRoom(toPrefill, Metadata)'
         /\ (receiver.pc = "store" => \A m \in Listed(toPrefill) : m.room # receiver.msg.room)'
<1> DEFINE Hears ==
         /\ \A r \in Room : InFlight(r)' => InFlight(r)
         /\ \A r \in Room : transferInfos'[r] \in {transferInfos[r], None} \/ InFlight(r)
         /\ EndsRoom(toPrefill, Metadata)'
         /\ (receiver.pc = "store" => \A m \in Listed(toPrefill) : m.room # receiver.msg.room)'
<1>0. /\ toPrefill \in Seq(Metadata \cup {Register}) /\ None \notin Room
      /\ transferInfos \in [Room -> Info \cup {EmptyInfo, None}]
      /\ EndsRoom(toPrefill, Metadata)
      /\ receiver.pc = "store" => \A m \in Listed(toPrefill) : m.room # receiver.msg.room
  BY PollValues, Zenon DEF MessagesTyped, ChunksTyped, MetadataOnce
<1>a. toPrefill # <<>> =>
        /\ Head(toPrefill) \in Metadata \cup {Register}
        /\ Listed(toPrefill) = Listed(Tail(toPrefill)) \cup {Head(toPrefill)}
        /\ EndsRoom(Tail(toPrefill), Metadata)
        /\ Head(toPrefill) \in Metadata =>
             \A y \in Listed(Tail(toPrefill)) : y.room # Head(toPrefill).room
  BY <1>0, TakeFromSeq, Zenon
<1>1. ASSUME UNCHANGED <<toPrefill, receiver>>,
             \A r \in Room : transferInfos'[r] \in {transferInfos[r], None}
      PROVE  Hears
  BY <1>0, <1>1, Zenon DEF InFlight, Listed, EndsRoom
<1>2. ASSUME Registered PROVE Hears
  <2>1. /\ toPrefill' = Tail(toPrefill) /\ toPrefill # <<>> /\ receiver' = receiver
        /\ transferInfos' = transferInfos /\ receiver.pc = "recv"
    BY <1>2, Zenon DEF Registered, tables
  <2>2. Listed(toPrefill') \subseteq Listed(toPrefill) /\ EndsRoom(toPrefill', Metadata)
    BY <1>a, <2>1, Zenon
  <2> QED BY <2>1, <2>2, Zenon DEF EndsRoom, InFlight, Listed
<1>3. ASSUME MetadataArrives PROVE Hears
  <2> DEFINE m == Head(toPrefill)
  <2>1. /\ toPrefill' = Tail(toPrefill) /\ toPrefill # <<>>
        /\ receiver' = [pc |-> "store", msg |-> m] /\ m # Register
        /\ transferInfos' = [transferInfos EXCEPT ![m.room] = IF @ = None THEN EmptyInfo ELSE @]
    BY <1>3, Zenon DEF MetadataArrives
  <2>2. /\ m \in Metadata /\ Listed(toPrefill) = Listed(toPrefill') \cup {m}
        /\ EndsRoom(toPrefill', Metadata)
        /\ \A y \in Listed(toPrefill') : y.room # m.room
    BY <1>a, <2>1, Zenon
  <2>3. /\ receiver'.pc = "store" /\ receiver'.msg = m /\ m.room \in Room
        /\ InFlight(m.room)
    BY <2>1, <2>2, Zenon DEF Metadata, InFlight
  <2> HIDE DEF m
  <2> QED BY <2>2, <2>3, <1>0, <2>1, Zenon DEF EndsRoom, Listed, InFlight
<1>4. ASSUME MetadataStored PROVE Hears
  <2>1. toPrefill' = toPrefill /\ receiver'.pc # "store" /\ receiver.pc = "store"
    BY <1>4 DEF MetadataStored, shared, DeadReceiver, Listening
  <2>2. \A r \in Room : transferInfos'[r] \in {transferInfos[r], None} \/ InFlight(r)
    BY <1>0, <2>1, <1>4, Zenon DEF InFlight, MessagesTyped, Metadata, MetadataStored, tables
  <2> QED BY <1>0, <2>1, <2>2 DEF InFlight, Listed, EndsRoom
<1>5. ASSUME NEW r \in Room, \/ PArrive(r) \/ PAbort(r) \/ Bootstrapped(r) \/ PrefillChunk(r)
      PROVE  Hears
  BY <1>1, <1>5, Zenon DEF PArrive, PAbort, Bootstrapped, PrefillChunk, shared, tables, threads
<1>6. ASSUME NEW r \in Room, NEW why, BootstrapFailed(r, why) \/ TransferEnded(r, why)
      PROVE  Hears
  BY <1>0, <1>1, <1>6, Zenon DEF BootstrapFailed, TransferEnded, PClear, shared, threads
<1>7. ASSUME Worker \/ Probe \/ Crash PROVE Hears
  <2>1. CASE WorkerPops
    BY <1>0, <1>1, <2>1, Zenon DEF WorkerPops, shared
  <2>2. CASE \/ WorkerGets \/ WorkerLooks \/ WorkerSends \/ WorkerSendsAux
             \/ WorkerChecks \/ WorkerReadsStatus \/ WorkerOwns \/ Probe \/ Crash
    BY <1>1, <2>2, Zenon DEF WorkerGets, WorkerLooks, WorkerSends, WorkerSendsAux, WorkerChecks,
       WorkerReadsStatus, WorkerOwns, Probe, Crash, shared, tables, threads
  <2> QED BY <1>7, <2>1, <2>2, Zenon DEF Worker
<1> HIDE DEF Hears
<1> QED BY <1>2, <1>3, <1>4, <1>5, <1>6, <1>7, Zenon DEF Hears, PNext, PScheduler

\* The decode server sends the metadata of a room as it moves the request to the
\* transfer queue (pop_preallocated), and no request comes back from there.
LEMMA DecodeSends ==
  ASSUME MessagesTyped, StatusTyped, IInv, \A r \in pending : r \notin ready, DNext(up)
  PROVE  /\ \A r \in Room : Unannounced(r)' => Unannounced(r)
         /\ \/ toPrefill' = toPrefill
            \/ toPrefill' = Append(toPrefill, Register)
            \/ \E q \in Room : \E m \in Metadata :
                 /\ Unannounced(q) /\ ~Unannounced(q)' /\ dstage'[q] = "transfer"
                 /\ m.room = q /\ m.pages = dpages'[q] /\ m.slot = dslot'[q]
                 /\ toPrefill' = Append(toPrefill, m)
<1>0. dstage \in [Room -> DStage]
  BY Zenon DEF IInv, DSlotsInv, DTyped
<1> DEFINE Forward == \A r \in Room : Unannounced(r)' => Unannounced(r)
<1> USE DEF Unannounced
<1>1. ASSUME NEW r \in Room, DArrive(r, up)
      PROVE  Forward /\ (toPrefill' = toPrefill \/ toPrefill' = Append(toPrefill, Register))
  BY <1>0, <1>1, Zenon DEF DArrive, InitReceivers
<1>2. ASSUME ResolvePending(up)
      PROVE  Forward /\ (toPrefill' = toPrefill \/ toPrefill' = Append(toPrefill, Register))
  BY <1>0, <1>2, Zenon DEF ResolvePending, InitReceivers, dqueues
<1>3. ASSUME NEW q \in Room, Preallocate(q)
      PROVE  /\ Forward
             /\ \E m \in Metadata :
                 /\ Unannounced(q) /\ ~Unannounced(q)' /\ dstage'[q] = "transfer"
                 /\ m.room = q /\ m.pages = dpages'[q] /\ m.slot = dslot'[q]
                 /\ toPrefill' = Append(toPrefill, m)
  <2>1. /\ dstage[q] = "prealloc" /\ dstage' = [dstage EXCEPT ![q] = "transfer"]
        /\ toPrefill' = Append(toPrefill, [room |-> q, pages |-> dpages'[q], slot |-> dslot'[q]])
        /\ q \in ready /\ pending' = pending
    BY <1>3, Zenon DEF Preallocate, SendMetadata, server
  <2>2. DSlotsInv'
    BY DecodeStep, Zenon DEF IInv
  <2>3. Unannounced(q) /\ ~Unannounced(q)' /\ dstage'[q] = "transfer" /\ Forward
    BY <1>0, <2>1, Zenon
  <2> HIDE DEF Forward
  <2> QED BY <2>1, <1>0, <2>2, <2>3, Zenon DEF Metadata, DTyped, DSlotsInv
<1>4. ASSUME NEW r \in Room,
             \/ HandshakeReady(r) \/ Commit(r) \/ DAbort(r) \/ Decoded(r)
             \/ \E why : HandshakeFailed(r, why) \/ TransferFailed(r, why)
      PROVE  Forward /\ toPrefill' = toPrefill
  BY <1>0, <1>4, Zenon DEF HandshakeReady, Commit, DAbort, Decoded, HandshakeFailed, TransferFailed,
     shared, dqueues, server
<1>5. ASSUME \/ StatusArrives \/ StatusCounted \/ StatusMarked \/ HeartbeatOk(up)
             \/ HeartbeatFailed(up) \/ RoomChecked \/ RoomFailed
      PROVE  Forward /\ toPrefill' = toPrefill
  BY <1>0, <1>5, Zenon DEF StatusArrives, StatusCounted, StatusMarked, HeartbeatOk, HeartbeatFailed,
     RoomChecked, RoomFailed, shared, dqueues, server
<1> HIDE DEF Forward, Unannounced
<1> QED BY <1>1, <1>2, <1>3, <1>4, <1>5, Zenon DEF Forward, DNext, DScheduler

\* Once the prefill server has the metadata of a room, no more comes.
LEMMA ToldForGood ==
  ASSUME MessagesTyped, ChunksTyped, StatusTyped, IInv, MetadataOnce,
         \A r \in pending : r \notin ready, Next
  PROVE  /\ \A r \in Room : Untold(r)' => Untold(r)
         /\ MetadataOnce'
<1>0. /\ toPrefill \in Seq(Metadata \cup {Register}) /\ None \notin Room
      /\ EndsRoom(toPrefill, Metadata)
      /\ receiver.pc = "store" =>
           receiver.msg.room \in Room /\ \A m \in Listed(toPrefill) : m.room # receiver.msg.room
      /\ \A r \in Room : Unannounced(r) => ~InFlight(r) /\ transferInfos[r] = None
  BY PollValues, Zenon DEF MessagesTyped, MetadataOnce, Metadata
<1>1. CASE PNext /\ Prefills
  <2>1. \A r \in Room : Unannounced(r)' <=> Unannounced(r)
    BY <1>1, Zenon DEF Prefills, dvars, dqueues, server, Unannounced
  <2>2. /\ \A r \in Room : InFlight(r)' => InFlight(r)
        /\ \A r \in Room : transferInfos'[r] \in {transferInfos[r], None} \/ InFlight(r)
        /\ EndsRoom(toPrefill, Metadata)'
        /\ (receiver.pc = "store" => \A m \in Listed(toPrefill) : m.room # receiver.msg.room)'
    BY <1>1, PrefillHears, Zenon
  <2> QED BY <2>2, <2>1, <1>0, Zenon DEF MetadataOnce, Untold
<1>2. CASE DNext(up) /\ Decodes
  <2>1. receiver' = receiver /\ transferInfos' = transferInfos
    BY <1>2, Zenon DEF Decodes, pvars, threads, tables
  <2>2. /\ \A r \in Room : Unannounced(r)' => Unannounced(r)
        /\ \/ toPrefill' = toPrefill
           \/ toPrefill' = Append(toPrefill, Register)
           \/ \E q \in Room : \E m \in Metadata :
                /\ Unannounced(q) /\ ~Unannounced(q)'
                /\ m.room = q /\ m.pages = dpages'[q] /\ m.slot = dslot'[q]
                /\ toPrefill' = Append(toPrefill, m)
    BY <1>2, DecodeSends, Zenon
  <2>3. ASSUME EndsRoom(toPrefill', Metadata),
               receiver.pc = "store" => \A m \in Listed(toPrefill') : m.room # receiver.msg.room,
               \A r \in Room : InFlight(r)' => InFlight(r) \/ Unannounced(r),
               \A r \in Room : InFlight(r)' => InFlight(r) \/ ~Unannounced(r)'
        PROVE  (\A r \in Room : Untold(r)' => Untold(r)) /\ MetadataOnce'
    BY <2>1, <2>3, <2>2, <1>0, Zenon DEF MetadataOnce, EndsRoom, Listed, Untold
  <2>4. CASE toPrefill' = toPrefill
    BY <1>0, <2>1, <2>3, <2>4 DEF InFlight, Listed
  <2>5. CASE toPrefill' = Append(toPrefill, Register)
    <3>1. Register.room = None /\ Register \notin Metadata
      BY <1>0, Zenon DEF Register, Metadata
    <3>2. \A y \in Listed(toPrefill) : y.room = Register.room => y \notin Metadata
      BY <1>0, <3>1, Zenon DEF Metadata
    <3>3. /\ Listed(toPrefill') = Listed(toPrefill) \cup {Register}
          /\ EndsRoom(toPrefill', Metadata)
      BY <1>0, <2>5, <3>2, AppendToSeq
    <3> QED BY <1>0, <2>3, <3>1, <3>3, <2>1, Zenon DEF InFlight, Listed
  <2>6. CASE \E q \in Room : \E m \in Metadata :
                /\ Unannounced(q) /\ ~Unannounced(q)'
                /\ m.room = q /\ m.pages = dpages'[q] /\ m.slot = dslot'[q]
                /\ toPrefill' = Append(toPrefill, m)
    <3>1. PICK q \in Room, m \in Metadata :
                /\ Unannounced(q) /\ ~Unannounced(q)'
                /\ m.room = q /\ toPrefill' = Append(toPrefill, m)
      BY <2>6, Zenon
    <3>2. /\ \A y \in Listed(toPrefill) : y.room = m.room => y \notin Metadata
          /\ receiver.pc = "store" => receiver.msg.room # q
      BY <3>1, <1>0, Zenon DEF InFlight
    <3>3. /\ Listed(toPrefill') = Listed(toPrefill) \cup {m}
          /\ EndsRoom(toPrefill', Metadata)
      BY <1>0, <3>1, <3>2, AppendToSeq
    <3> QED BY <1>0, <2>3, <3>1, <3>2, <3>3, <2>1, Zenon DEF InFlight, Listed
  <2> QED BY <2>2, <2>4, <2>5, <2>6, Zenon
<1> QED BY <1>1, <1>2, Zenon DEF Next

----------------------------------------------------------------------------
(* The steps of a request on the prefill server                             *)

\* the prefill server knows where the KV of r goes
Known(r) == transferInfos[r] \notin {None, EmptyInfo}

\* the worker has taken a chunk of r and not looked up where it goes
Looking(r) == worker.pc = "look" /\ worker.chunk.room = r

\* A request goes from one queue to the next, and its progress is what its stage
\* says.
LEMMA RoomMoves ==
  ASSUME TInv, held \in [Room -> BOOLEAN], PNext, NEW r \in Room
  PROVE  \/ /\ UNCHANGED <<pstage[r], prefilled[r], held[r], pslot[r]>>
            /\ pslot[r] # None => pbuf'[pslot[r]] = pbuf[pslot[r]]
         \/ pstage[r] = "none" /\ pstage'[r] = "bootstrap" /\ UNCHANGED prefilled[r]
         \/ /\ pstage[r] = "bootstrap" /\ pstage'[r] = "waiting" /\ pstatus[r] = WaitingForInput
            /\ UNCHANGED <<prefilled[r], tables>>
         \/ pstage[r] \in {"bootstrap", "waiting"} /\ pstage'[r] = "done" /\ UNCHANGED prefilled[r]
         \/ PrefillChunk(r)
         \/ /\ pstage[r] = "inflight" /\ pstage'[r] = "done" /\ ~held'[r]
            /\ transferInfos'[r] = None /\ UNCHANGED <<prefilled[r], queue, worker>>
<1> DEFINE Goal ==
         \/ /\ UNCHANGED <<pstage[r], prefilled[r], held[r], pslot[r]>>
            /\ pslot[r] # None => pbuf'[pslot[r]] = pbuf[pslot[r]]
         \/ pstage[r] = "none" /\ pstage'[r] = "bootstrap" /\ UNCHANGED prefilled[r]
         \/ /\ pstage[r] = "bootstrap" /\ pstage'[r] = "waiting" /\ pstatus[r] = WaitingForInput
            /\ UNCHANGED <<prefilled[r], tables>>
         \/ pstage[r] \in {"bootstrap", "waiting"} /\ pstage'[r] = "done" /\ UNCHANGED prefilled[r]
         \/ PrefillChunk(r)
         \/ /\ pstage[r] = "inflight" /\ pstage'[r] = "done" /\ ~held'[r]
            /\ transferInfos'[r] = None /\ UNCHANGED <<prefilled[r], queue, worker>>
<1> SUFFICES Goal
  OBVIOUS
<1>0. /\ pstage \in [Room -> PStage] /\ prefilled \in [Room -> Nat]
      /\ pslot \in [Room -> PSlot \cup {None}] /\ pbuf \in [PSlot -> Room \cup {None}]
      /\ held \in [Room -> BOOLEAN]
      /\ \A q \in Room : pslot[q] # None <=> pstage[q] \in {"waiting", "chunked", "inflight"}
      /\ \A q \in Room : pslot[q] # None /\ q # r => pslot[q] # pslot[r]
      /\ transferInfos \in [Room -> Info \cup {EmptyInfo, None}]
  BY Zenon DEF TInv, IInv, PSlotsInv, PTyped, ChunksTyped, Exclusive
<1>1. ASSUME UNCHANGED queues PROVE Goal
  BY <1>1, Zenon DEF queues
<1>2. ASSUME NEW q \in Room, PArrive(q) PROVE Goal
  BY <1>0, <1>2, Zenon DEF PArrive
<1>3. ASSUME NEW q \in Room, NEW why, BootstrapFailed(q, why) PROVE Goal
  BY <1>0, <1>3, Zenon DEF BootstrapFailed
<1>4. ASSUME NEW q \in Room, Bootstrapped(q) PROVE Goal
  <2>1. /\ pstage[q] = "bootstrap" /\ pstage' = [pstage EXCEPT ![q] = "waiting"]
        /\ \E b : pslot' = [pslot EXCEPT ![q] = b]
        /\ UNCHANGED <<prefilled, held, pbuf, tables>> /\ PPoll(q) \notin {None, Failed, Bootstrapping}
    BY <1>4, Zenon DEF Bootstrapped
  <2> QED BY <1>0, <2>1, PollValues, Zenon DEF PPoll, TInv, PStatusRight, PStatusOf
<1>5. ASSUME NEW q \in Room, PrefillChunk(q) PROVE Goal
  <2>1. CASE q = r
    BY <1>5, <2>1, Zenon
  <2>2. CASE q # r
    <3>1. /\ pstage[q] \in {"waiting", "chunked"} /\ UNCHANGED pslot
          /\ \E s : pstage' = [pstage EXCEPT ![q] = s]
          /\ \E s : prefilled' = [prefilled EXCEPT ![q] = s]
          /\ held' = [held EXCEPT ![q] = TRUE]
          /\ pbuf' = pbuf \/ pbuf' = [pbuf EXCEPT ![pslot[q]] = q]
      BY <1>5, Zenon DEF PrefillChunk, SetBuf
    <3> QED BY <1>0, <2>2, <3>1, Zenon
  <2> QED BY <2>1, <2>2, Zenon
<1>6. ASSUME NEW q \in Room, NEW why, TransferEnded(q, why) PROVE Goal
  BY <1>0, <1>6, Zenon DEF TransferEnded, PClear, ReleaseSlot, threads
<1>7. ASSUME NEW q \in Room, PAbort(q) PROVE Goal
  <2>1. CASE AbortWaiting(q)
    BY <1>0, <1>7, <2>1, Zenon DEF PAbort, AbortWaiting, ReleaseSlot
  <2>2. CASE AbortSender(q)
    BY <1>0, <1>7, <2>2, Zenon DEF PAbort, AbortSender
  <2> QED BY <1>7, <2>1, <2>2, Zenon DEF PAbort
<1>8. CASE Registered \/ MetadataArrives \/ MetadataStored \/ Worker \/ Probe \/ Crash
  BY <1>1, <1>8, Zenon DEF Registered, MetadataArrives, MetadataStored, Probe, Crash, Worker,
     WorkerGets, WorkerLooks, WorkerSends, WorkerSendsAux, WorkerChecks, WorkerReadsStatus,
     WorkerOwns, WorkerPops
<1> HIDE DEF Goal
<1> QED
  BY <1>2, <1>3, <1>4, <1>5, <1>6, <1>7, <1>8, Zenon DEF PNext, PScheduler

\* The place of a request's pages and buffer is not the absent value, nor empty.
LEMMA InfoIsKnown == None \notin Info /\ EmptyInfo \notin Info
<1>1. ASSUME NEW s \in Seq(DPage) PROVE s \in Seq(Nat)
  <2>1. s \in [1 .. Len(s) -> DPage] /\ Len(s) \in Nat
    OBVIOUS
  <2> QED BY <2>1 DEF DPage
<1>2. ASSUME NEW i \in Info PROVE i # None /\ i # EmptyInfo
  <2>1. /\ i = [pages |-> i.pages, slot |-> i.slot]
        /\ i.pages \in Seq(DPage) /\ i.slot \in DSlot /\ i.slot \in Nat
    BY DEF Info, DSlot
  <2> QED BY <2>1, <1>1, PDAssumption DEF EmptyInfo
<1> QED BY <1>2, Zenon

\* What is known of where the KV of a room goes changes by its metadata, and is
\* forgotten when the request ends or by the worker after the last chunk.
LEMMA InfoMoves ==
  ASSUME TInv, PNext, NEW r \in Room
  PROVE  /\ \/ transferInfos'[r] = transferInfos[r]
            \/ InFlight(r) /\ (Known(r) => Known(r)')
            \/ pstage[r] \in {"bootstrap", "inflight"} /\ pstage'[r] = "done" /\ transferInfos'[r] = None
            \/ worker.pc = "pop" /\ worker.chunk.room = r /\ transferInfos'[r] = None
         /\ pstatus'[r] = WaitingForInput => pstatus[r] = WaitingForInput \/ (Known(r)' /\ InFlight(r))
<1> DEFINE Moved == \/ transferInfos'[r] = transferInfos[r]
                    \/ InFlight(r) /\ (Known(r) => Known(r)')
                    \/ pstage[r] \in {"bootstrap", "inflight"} /\ pstage'[r] = "done" /\ transferInfos'[r] = None
                    \/ worker.pc = "pop" /\ worker.chunk.room = r /\ transferInfos'[r] = None
           Marked == pstatus'[r] = WaitingForInput => pstatus[r] = WaitingForInput \/ (Known(r)' /\ InFlight(r))
<1> SUFFICES Moved /\ Marked
  OBVIOUS
<1>0. /\ pstage \in [Room -> PStage] /\ transferInfos \in [Room -> Info \cup {EmptyInfo, None}]
      /\ pstatus \in [Room -> KVPoll \cup {None}]
      /\ toPrefill \in Seq(Metadata \cup {Register})
      /\ receiver.pc = "store" => receiver.msg \in Metadata
      /\ worker.pc \notin {"get", "dead"} => worker.chunk.room \in Room
  BY Zenon DEF TInv, IInv, PSlotsInv, PTyped, ChunksTyped, StatusTyped, MessagesTyped, KVChunk
<1>1. ASSUME UNCHANGED transferInfos, \/ UNCHANGED pstatus
                                      \/ \E q \in Room, v \in {Failed, Bootstrapping, Success} :
                                           pstatus' = UpdateStatus(pstatus, q, v)
      PROVE  Moved /\ Marked
  <2>1. Moved
    BY <1>1, Zenon
  <2>2. CASE UNCHANGED pstatus
    BY <2>1, <2>2, Zenon
  <2>3. ASSUME NEW q \in Room, NEW v \in {Failed, Bootstrapping, Success},
               pstatus' = UpdateStatus(pstatus, q, v)
        PROVE  Marked
    <3> DEFINE new == UpdateStatus(pstatus, q, v)
    <3>1. /\ \A p \in Room \ {q} : new[p] = pstatus[p]
          /\ v = Failed => new[q] \in {None, Failed}
          /\ v = Bootstrapping => new[q] \in {Bootstrapping, pstatus[q]}
          /\ v = Success => new[q] = Success
      BY <1>0, UpdateFacts, PollValues
    <3> HIDE DEF new
    <3> QED BY <1>0, <3>1, <2>3, PollValues, Zenon DEF new
  <2> QED BY <1>1, <2>1, <2>2, <2>3, Zenon
<1>2. ASSUME NEW q \in Room, PArrive(q) \/ PrefillChunk(q) \/ Bootstrapped(q) PROVE Moved /\ Marked
  BY <1>1, <1>2, Zenon DEF PArrive, PrefillChunk, Bootstrapped, tables
<1>3. ASSUME NEW q \in Room, PAbort(q) PROVE Moved /\ Marked
  BY <1>1, <1>3, Zenon DEF PAbort, AbortWaiting, AbortSender
<1>4. ASSUME NEW q \in Room, NEW why, BootstrapFailed(q, why) \/ TransferEnded(q, why)
      PROVE  Moved /\ Marked
  BY <1>0, <1>4, PollValues, Zenon DEF BootstrapFailed, TransferEnded, PClear
<1>5. CASE MetadataArrives
  <2> DEFINE m == Head(toPrefill)
  <2>1. /\ toPrefill # <<>> /\ m # Register /\ UNCHANGED pstatus
        /\ transferInfos' = [transferInfos EXCEPT ![m.room] =
                               IF transferInfos[m.room] = None THEN EmptyInfo ELSE transferInfos[m.room]]
    BY <1>5, Zenon DEF MetadataArrives
  <2>2. m \in Metadata /\ m \in Listed(toPrefill)
    BY <2>1, <1>0, TakeFromSeq
  <2> HIDE DEF m
  <2>3. m.room \in Room /\ InFlight(m.room)
    BY <2>2, Zenon DEF InFlight, Metadata
  <2>4. CASE r = m.room
    BY <2>1, <2>3, <2>4, <1>0, Zenon DEF Known
  <2>5. CASE r # m.room
    BY <1>0, <2>1, <2>3, <2>5, Zenon
  <2> QED BY <2>4, <2>5, Zenon
<1>6. CASE MetadataStored
  <2> DEFINE m == receiver.msg
             i == [pages |-> m.pages, slot |-> m.slot]
  <2>1. receiver.pc = "store" /\ m \in Metadata /\ m.room \in Room
    BY <1>0, <1>6, Zenon DEF MetadataStored, Metadata
  <2>2. i \notin {None, EmptyInfo}
    BY <2>1, InfoIsKnown DEF Metadata, Info
  <2>3. CASE transferInfos[m.room] = None
    BY <1>1, <1>6, <2>3, Zenon DEF MetadataStored, tables
  <2>4. CASE transferInfos[m.room] # None
    <3>1. /\ transferInfos' = [transferInfos EXCEPT ![m.room] = i]
          /\ pstatus' = UpdateStatus(pstatus, m.room, WaitingForInput)
      BY <1>6, <2>4, Zenon DEF MetadataStored
    <3>2. \A p \in Room \ {m.room} : UpdateStatus(pstatus, m.room, WaitingForInput)[p] = pstatus[p]
      BY <1>0, <2>1, PollValues, UpdateFacts
    <3>3. InFlight(m.room)
      BY <2>1, Zenon DEF InFlight
    <3> HIDE DEF i, m
    <3>4. CASE r = m.room
      BY <3>3, <3>4, <1>0, <2>1, <2>2, <3>1, Zenon DEF Known
    <3>5. CASE r # m.room
      BY <1>0, <2>1, <3>1, <3>2, <3>5, Zenon
    <3> QED BY <3>4, <3>5, Zenon
  <2> QED BY <2>3, <2>4, Zenon
<1>7. CASE WorkerPops
  BY <1>0, <1>7, Zenon DEF WorkerPops, At
<1>8. CASE WorkerSends \/ WorkerSendsAux
  BY <1>1, <1>0, <1>8, Zenon DEF WorkerSends, WorkerSendsAux, At, SendFails, SendSucceeds, Report
<1>9. CASE \/ Registered \/ Probe \/ Crash \/ WorkerGets \/ WorkerLooks \/ WorkerChecks
           \/ WorkerReadsStatus \/ WorkerOwns
  BY <1>1, <1>9, Zenon DEF Registered, Probe, Crash, WorkerGets, WorkerLooks, WorkerChecks,
     WorkerReadsStatus, WorkerOwns, tables
<1> HIDE DEF Moved, Marked
<1> QED
  BY <1>2, <1>3, <1>4, <1>5, <1>6, <1>7, <1>8, <1>9, Zenon DEF PNext, PScheduler, Worker

\* the chunk that the next forward pass of r sends
NextChunk(r) == [room |-> r, k |-> prefilled[r] + 1, last |-> Last(r), slot |-> pslot[r]]

\* Chunks come into the queue from a forward pass, and to the worker from the
\* queue.
LEMMA ChunkMoves ==
  ASSUME TInv, PNext
  PROVE  /\ \A c \in Listed(queue) : c \in KVChunk
         /\ \A c \in Listed(queue') : \/ c \in Listed(queue)
                                      \/ \E r \in Room : PrefillChunk(r) /\ c = NextChunk(r)
         /\ worker'.pc \notin {"get", "dead"} =>
              \/ worker.pc = "get" /\ worker'.chunk \in Listed(queue) /\ worker'.pc \in {"look", "check"}
              \/ worker.pc \notin {"get", "dead"} /\ worker'.chunk = worker.chunk
         /\ worker'.pc = "look" => worker.pc \in {"get", "look"}
         /\ worker.pc = "dead" => worker'.pc = "dead"
<1> DEFINE Goal ==
         /\ \A c \in Listed(queue) : c \in KVChunk
         /\ \A c \in Listed(queue') : \/ c \in Listed(queue)
                                      \/ \E r \in Room : PrefillChunk(r) /\ c = NextChunk(r)
         /\ worker'.pc \notin {"get", "dead"} =>
              \/ worker.pc = "get" /\ worker'.chunk \in Listed(queue) /\ worker'.pc \in {"look", "check"}
              \/ worker.pc \notin {"get", "dead"} /\ worker'.chunk = worker.chunk
         /\ worker'.pc = "look" => worker.pc \in {"get", "look"}
         /\ worker.pc = "dead" => worker'.pc = "dead"
<1> SUFFICES Goal
  OBVIOUS
<1>0. /\ queue \in Seq(KVChunk)
      /\ worker \in [pc : WorkerPc, chunk : KVChunk \cup {None}, info : Info \cup {EmptyInfo, None}]
  BY Zenon DEF TInv, ChunksTyped
<1>a. \A c \in Listed(queue) : c \in KVChunk
  BY <1>0 DEF Listed
<1>1. ASSUME UNCHANGED queue, worker.pc \notin {"get", "dead"},
             \/ worker'.pc \in {"get", "dead"}
             \/ worker'.pc # "look" /\ worker'.chunk = worker.chunk
      PROVE  Goal
  BY <1>a, <1>1, Zenon
<1>2. ASSUME UNCHANGED <<queue, worker>> PROVE Goal
  BY <1>a, <1>2, Zenon
<1>3. ASSUME NEW r \in Room, PrefillChunk(r) PROVE Goal
  <2>1. NextChunk(r) \in KVChunk
    <3>1. pslot[r] \in PSlot /\ prefilled[r] + 1 \in Nat /\ Last(r) \in BOOLEAN
      BY <1>3 DEF PrefillChunk, TInv, IInv, PSlotsInv, PTyped, ChunksTyped, Last
    <3> QED BY <3>1, Zenon DEF NextChunk, KVChunk
  <2>2. Listed(Append(queue, NextChunk(r))) = Listed(queue) \cup {NextChunk(r)}
    BY <1>0, <2>1, AppendToSeq
  <2> QED BY <1>3, <1>a, <2>2, Zenon DEF PrefillChunk, SendKVChunk, AddTransferRequest, threads,
             NextChunk
<1>4. CASE WorkerGets
  <2>1. /\ worker.pc = "get" /\ queue # <<>> /\ queue' = Tail(queue)
        /\ worker' = [pc |-> IF transferInfos[Head(queue).room] = None THEN "check" ELSE "look",
                      chunk |-> Head(queue), info |-> None]
    BY <1>4, Zenon DEF WorkerGets, At
  <2> QED BY <1>a, <2>1, <1>0, TakeFromSeq
<1> HIDE DEF Goal
<1>5. CASE WorkerLooks
  <2>1. worker.pc = "look" /\ UNCHANGED queue
    BY <1>5, Zenon DEF WorkerLooks, At
  <2>2. CASE transferInfos[worker.chunk.room] = None
    BY <1>1, <2>1, <1>5, <2>2, Zenon DEF WorkerLooks, DeadWorker, Idle
  <2>3. CASE transferInfos[worker.chunk.room] # None
    BY <1>1, <2>1, <1>0, <1>5, <2>3, Zenon DEF WorkerLooks
  <2> QED BY <2>2, <2>3, Zenon
<1>6. CASE \/ WorkerSends \/ WorkerSendsAux \/ WorkerChecks \/ WorkerReadsStatus \/ WorkerOwns
           \/ WorkerPops
  <2>1. /\ worker.pc \in {"send", "aux", "check", "status", "owned", "pop"} /\ UNCHANGED queue
        /\ \/ worker' \in {Idle, DeadWorker}
           \/ \E p \in {"aux", "check", "owned", "status", "pop"} : worker' = [worker EXCEPT !.pc = p]
    BY <1>6, Zenon DEF WorkerSends, SendFails, SendSucceeds, WorkerSendsAux, WorkerChecks,
       WorkerReadsStatus, WorkerOwns, WorkerPops, At, Goto
  <2>2. ASSUME NEW p \in {"aux", "check", "owned", "status", "pop"}, worker' = [worker EXCEPT !.pc = p]
        PROVE  worker'.pc = p /\ worker'.chunk = worker.chunk
    BY <1>0, <2>2, Zenon
  <2> QED BY <1>1, <2>1, <2>2 DEF Idle, DeadWorker
<1>7. ASSUME NEW q \in Room, NEW why,
             \/ PArrive(q) \/ BootstrapFailed(q, why) \/ Bootstrapped(q) \/ TransferEnded(q, why)
             \/ PAbort(q)
      PROVE  Goal
  BY <1>2, <1>7, Zenon DEF PArrive, BootstrapFailed, Bootstrapped, TransferEnded, PAbort, threads
<1>8. CASE Registered \/ MetadataArrives \/ MetadataStored \/ Probe \/ Crash
  BY <1>2, <1>8, Zenon DEF Registered, MetadataArrives, MetadataStored, Probe, Crash, threads
<1> QED BY <1>3, <1>4, <1>5, <1>6, <1>7, <1>8, Zenon DEF PNext, PScheduler, Worker

\* Only a forward pass makes a room have chunks to send.
LEMMA QueueMoves ==
  ASSUME TInv, PNext, NEW r \in Room
  PROVE  /\ Queued(r)' => Queued(r) \/ PrefillChunk(r)
         /\ Looking(r)' => Looking(r) \/ Queued(r)
         /\ AtWorker(r)' => AtWorker(r) \/ Queued(r)
<1>1. AtWorker(r)' => AtWorker(r) \/ Queued(r)
  <2> SUFFICES ASSUME AtWorker(r)', ~Queued(r) PROVE AtWorker(r)
    OBVIOUS
  <2>1. worker.pc \notin {"get", "dead"} /\ worker'.chunk = worker.chunk /\ worker.chunk.room = r
    BY ChunkMoves, Zenon DEF AtWorker, Queued
  <2>2. worker.pc \in {"look", "send", "aux"}
    <3>1. worker \in [pc : WorkerPc, chunk : KVChunk \cup {None}, info : Info \cup {EmptyInfo, None}]
      BY Zenon DEF TInv, ChunksTyped
    <3>2. ASSUME worker.pc \in {"check", "status", "owned", "pop"} PROVE worker'.pc \notin {"look", "send", "aux"}
      <4>1. ASSUME NEW p, worker' = [worker EXCEPT !.pc = p] PROVE worker'.pc = p
        BY <3>1, <4>1, Zenon
      <4>2. CASE Worker
        <5>1. \/ worker' \in {Idle, DeadWorker}
              \/ \E p \in {"owned", "status", "pop"} : worker' = [worker EXCEPT !.pc = p]
          BY <3>2, <4>2, Zenon DEF Worker, WorkerGets, WorkerLooks, WorkerSends, WorkerSendsAux,
             WorkerChecks, WorkerReadsStatus, WorkerOwns, WorkerPops, At, Goto
        <5> QED BY <4>1, <5>1 DEF Idle, DeadWorker
      <4>3. CASE ~Worker
        <5>1. UNCHANGED worker
          BY <4>3, Zenon DEF PNext, PScheduler, PArrive, BootstrapFailed, Bootstrapped,
             TransferEnded, PAbort, PrefillChunk, Registered, MetadataArrives, MetadataStored,
             Probe, Crash, threads
        <5> QED BY <3>2, <5>1, Zenon
      <4> QED BY <4>2, <4>3, Zenon
    <3> QED BY <2>1, <3>1, <3>2, Zenon DEF AtWorker, WorkerPc
  <2> QED BY <2>1, <2>2, Zenon DEF AtWorker
<1> QED BY ChunkMoves, <1>1 DEF Queued, NextChunk, Listed, Looking

\* A forward pass computes the next chunk and sends it, unless the room has
\* failed or its place is not known.
LEMMA ForwardPass ==
  ASSUME TInv, held \in [Room -> BOOLEAN], NEW r \in Room, PrefillChunk(r)
  PROVE  /\ pstage[r] \in {"waiting", "chunked"} /\ pslot[r] \in PSlot
         /\ pstage'[r] = IF Last(r) THEN "inflight" ELSE "chunked"
         /\ prefilled'[r] = prefilled[r] + 1 /\ held'[r] /\ UNCHANGED pslot
         /\ Last(r) => pbuf'[pslot[r]] = r
         /\ NextChunk(r) \in KVChunk
         /\ UNCHANGED <<shared, tables, threads, up>>
         /\ queue' = IF pstatus[r] \in {None, Failed} \/ transferInfos[r] = None THEN queue
                     ELSE Append(queue, NextChunk(r))
         /\ Listed(queue') = IF pstatus[r] \in {None, Failed} \/ transferInfos[r] = None
                             THEN Listed(queue) ELSE Listed(queue) \cup {NextChunk(r)}
<1>1. /\ pstage \in [Room -> PStage] /\ prefilled \in [Room -> Nat] /\ queue \in Seq(KVChunk)
      /\ pslot \in [Room -> PSlot \cup {None}] /\ pbuf \in [PSlot -> Room \cup {None}]
      /\ \A q \in Room : pslot[q] # None <=> pstage[q] \in {"waiting", "chunked", "inflight"}
  BY Zenon DEF TInv, IInv, PSlotsInv, PTyped, ChunksTyped
<1>2. /\ pstage[r] \in {"waiting", "chunked"}
      /\ pstage' = [pstage EXCEPT ![r] = IF Last(r) THEN "inflight" ELSE "chunked"]
      /\ prefilled' = [prefilled EXCEPT ![r] = prefilled[r] + 1]
      /\ held' = [held EXCEPT ![r] = TRUE] /\ UNCHANGED pslot
      /\ pbuf' = IF Last(r) THEN [pbuf EXCEPT ![pslot[r]] = r] ELSE pbuf
      /\ UNCHANGED <<shared, tables, threads, up>>
      /\ queue' = IF pstatus[r] \in {None, Failed} \/ transferInfos[r] = None THEN queue
                  ELSE Append(queue, NextChunk(r))
  BY Zenon DEF PrefillChunk, SetBuf, SendKVChunk, AddTransferRequest, NextChunk
<1>3. pslot[r] \in PSlot /\ prefilled[r] + 1 \in Nat /\ Last(r) \in BOOLEAN
  BY <1>1, <1>2 DEF Last
<1>4. NextChunk(r) \in KVChunk
  BY <1>3, Zenon DEF NextChunk, KVChunk
<1>5. Listed(Append(queue, NextChunk(r))) = Listed(queue) \cup {NextChunk(r)}
  BY <1>1, <1>4, AppendToSeq
<1> QED BY <1>2, <1>3, <1>4, <1>5, <1>1, Zenon
=============================================================================
