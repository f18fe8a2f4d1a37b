-------------------------- MODULE RateLimiterProofs --------------------------
(* Theorems about the types, the sharded mutex and the budgets of the rate *)
(* limiter.                                                                *)
EXTENDS RateLimiter, FiniteSetTheorems, TLAPS

(* Go's remainder of a hash of either sign, negated when it is negative,   *)
(* picks one of the channels (shardedMu.shard).                            *)
THEOREM ShardInRange ==
    ASSUME NEW h \in Int, NEW n \in Nat \ {0}
    PROVE  ShardIndex(h, n) \in 0 .. n - 1
<1>1. CASE h >= 0
  <2>1. h % n \in 0 .. n - 1
    OBVIOUS
  <2>. QED
    BY <1>1, <2>1 DEF ShardIndex, GoRem
<1>2. CASE ~(h >= 0)
  <2>1. -h \in Int
    OBVIOUS
  <2>2. (-h) % n \in 0 .. n - 1
    BY <2>1
  <2>3. ShardIndex(h, n) = (-h) % n
    BY <1>2, <2>2 DEF ShardIndex, GoRem
  <2>. QED
    BY <2>2, <2>3
<1>. QED
  BY <1>1, <1>2

(* Every address has a shard (shardedMu.lock, unlock).                     *)
LEMMA ShardOfIp ==
    ASSUME NEW ip \in Ip
    PROVE  ShardOf(ip) \in AllShards
BY RateLimiterAssumption, ShardInRange DEF ShardOf, AllShards

-----------------------------------------------------------------------------
(* A free limiter: there are more limiters than entries of the map and     *)
(* other requests can refer to (the allocation in getLimiter).             *)
LEMMA ImageIsSmaller ==
    ASSUME NEW S, IsFiniteSet(S), NEW T, NEW f \in [S -> T],
           NEW I, I = {f[x] : x \in S}
    PROVE  IsFiniteSet(I) /\ Cardinality(I) <= Cardinality(S)
<1>1. f \in Surjection(S, I)
  BY DEF Surjection
<1>. QED
  BY <1>1, FS_Surjection

LEMMA SubsetIsSmaller ==
    ASSUME NEW S, IsFiniteSet(S), NEW T \in SUBSET S
    PROVE  IsFiniteSet(T) /\ Cardinality(T) <= Cardinality(S)
BY FS_Subset

LEMMA FreeLimiter ==
    ASSUME TypeOK, NEW g \in Goroutine, At(g, "write")
    PROVE  \E l \in Limiter : l \notin Referenced
<1>. DEFINE busy == {x \in Goroutine : reqs[x].pc \in {"unlock", "allow"}}
            inMap == {clients[ip].limiter : ip \in DOMAIN clients}
            inUse == {reqs[x].limiter : x \in busy}
            ofEntry == [ip \in DOMAIN clients |-> clients[ip].limiter]
            ofReq == [x \in busy |-> reqs[x].limiter]
<1>1. /\ IsFiniteSet(DOMAIN clients)
      /\ Cardinality(DOMAIN clients) <= Cardinality(Ip)
  BY RateLimiterAssumption, SubsetIsSmaller DEF TypeOK
<1>2. IsFiniteSet(inMap) /\ Cardinality(inMap) <= Cardinality(DOMAIN clients)
  <2>1. ofEntry \in [DOMAIN clients -> Limiter]
    BY DEF TypeOK, Entry
  <2>2. inMap = {ofEntry[x] : x \in DOMAIN clients}
    OBVIOUS
  <2>. HIDE DEF inMap, ofEntry
  <2>. QED
    BY <1>1, <2>1, <2>2, ImageIsSmaller
<1>3. /\ IsFiniteSet(busy)
      /\ Cardinality(busy) <= Cardinality(Goroutine) - 1
  <2>1. busy \in SUBSET (Goroutine \ {g})
    BY DEF At
  <2>2. /\ IsFiniteSet(Goroutine \ {g})
        /\ Cardinality(Goroutine \ {g}) = Cardinality(Goroutine) - 1
    BY RateLimiterAssumption, FS_RemoveElement
  <2>. QED
    BY <2>1, <2>2, SubsetIsSmaller
<1>4. IsFiniteSet(inUse) /\ Cardinality(inUse) <= Cardinality(busy)
  <2>1. ofReq \in [busy -> Limiter]
    BY DEF TypeOK, Requests
  <2>2. inUse = {ofReq[x] : x \in busy}
    OBVIOUS
  <2>. HIDE DEF busy, inUse, ofReq
  <2>. QED
    BY <1>3, <2>1, <2>2, ImageIsSmaller
<1>5. Referenced = inMap \cup inUse
  BY DEF Referenced
<1>6. /\ IsFiniteSet(Referenced)
      /\ Cardinality(Referenced) <= Cardinality(inMap) + Cardinality(inUse)
  <2>1. IsFiniteSet(inMap \cap inUse)
    BY <1>2, SubsetIsSmaller
  <2>2. /\ Cardinality(inMap) \in Nat /\ Cardinality(inUse) \in Nat
        /\ Cardinality(inMap \cap inUse) \in Nat
    BY <1>2, <1>4, <2>1, FS_CardinalityType
  <2>3. /\ IsFiniteSet(inMap \cup inUse)
        /\ Cardinality(inMap \cup inUse) =
              Cardinality(inMap) + Cardinality(inUse)
                - Cardinality(inMap \cap inUse)
    BY <1>2, <1>4, FS_Union
  <2>. QED
    BY <1>5, <2>2, <2>3
<1>7. Cardinality(Referenced) < Cardinality(Limiter)
  <2>1. /\ Cardinality(inMap) \in Nat /\ Cardinality(inUse) \in Nat
        /\ Cardinality(busy) \in Nat /\ Cardinality(Ip) \in Nat
        /\ Cardinality(Goroutine) \in Nat /\ Cardinality(Limiter) \in Nat
        /\ Cardinality(Referenced) \in Nat
        /\ Cardinality(DOMAIN clients) \in Nat
    BY <1>1, <1>2, <1>3, <1>4, <1>6, RateLimiterAssumption, FS_CardinalityType
  <2>2. Cardinality(Limiter) >= Cardinality(Ip) + Cardinality(Goroutine)
    BY RateLimiterAssumption
  <2>. HIDE DEF busy, inMap, inUse
  <2>. QED
    BY <1>1, <1>2, <1>3, <1>4, <1>6, <2>1, <2>2
<1>8. ASSUME Limiter \subseteq Referenced PROVE FALSE
  <2>1. Cardinality(Limiter) <= Cardinality(Referenced)
    BY <1>6, <1>8, SubsetIsSmaller
  <2>2. Cardinality(Limiter) \in Nat /\ Cardinality(Referenced) \in Nat
    BY <1>6, RateLimiterAssumption, FS_CardinalityType
  <2>. QED
    BY <1>7, <2>1, <2>2
<1>. QED
  BY <1>8

-----------------------------------------------------------------------------
(* The invariant is inductive.                                             *)
Inv == TypeOK /\ OneHolder

LEMMA NoRequestIsIdle == NoRequest \in Requests /\ NoRequest.pc = "idle"
<1>1. PICK ip \in Ip : TRUE
  BY RateLimiterAssumption
<1>2. PICK l \in Limiter : TRUE
  <2>1. Cardinality(Ip) # 0 /\ Cardinality(Ip) \in Nat
    BY RateLimiterAssumption, FS_EmptySet, FS_CardinalityType
  <2>2. Cardinality(Goroutine) \in Nat
    BY RateLimiterAssumption, FS_CardinalityType
  <2>3. Cardinality(Limiter) # 0
    <3>1. Cardinality(Limiter) \in Nat
      BY RateLimiterAssumption, FS_CardinalityType
    <3>2. Cardinality(Limiter) >= Cardinality(Ip) + Cardinality(Goroutine)
      BY RateLimiterAssumption
    <3>. QED
      BY <2>1, <2>2, <3>1, <3>2
  <2>. QED
    BY <2>3, FS_EmptySet
<1>3. [pc |-> "idle", ip |-> ip, limiter |-> l] \in Requests
  BY <1>1, <1>2 DEF Requests, Labels
<1>. QED
  BY <1>3 DEF NoRequest

LEMMA InitEstablishesInv == Init => Inv
<1>. SUFFICES ASSUME Init PROVE Inv
  OBVIOUS
<1>1. TypeOK
  <2>1. free \subseteq AllShards /\ sweeper \in Sweeper
    BY RateLimiterAssumption DEF Init, Sweeper
  <2>2. DOMAIN clients \subseteq Ip /\ clients \in [DOMAIN clients -> Entry]
    BY DEF Init
  <2>3. buckets \in [Limiter -> 0 .. Burst]
    BY RateLimiterAssumption DEF Init
  <2>4. reqs \in [Goroutine -> Requests]
    BY NoRequestIsIdle DEF Init
  <2>5. /\ clock \in Nat /\ allowed \in [Ip -> Nat]
        /\ raced \in BOOLEAN /\ running \in BOOLEAN
    BY DEF Init
  <2>. QED
    BY <2>1, <2>2, <2>3, <2>4, <2>5 DEF TypeOK
<1>2. OneHolder
  BY NoRequestIsIdle DEF Init, OneHolder, InSection, SweptShards
<1>. QED
  BY <1>1, <1>2 DEF Inv

(* A step of one request inside the section it is in, or outside one,      *)
(* leaves the tokens where they are.                                       *)
LEMMA SectionKept ==
    ASSUME OneHolder, UNCHANGED <<free, sweeper>>,
           \A g \in Goroutine :
              InSection(g)' => InSection(g) /\ reqs'[g].ip = reqs[g].ip
    PROVE  OneHolder'
<1>1. \A g \in Goroutine :
         InSection(g)' => InSection(g) /\ ShardOfReq(g)' = ShardOfReq(g)
  BY DEF ShardOfReq
<1>2. SweptShards' = SweptShards
  BY DEF SweptShards
<1>. QED
  BY <1>1, <1>2 DEF OneHolder

(* reqs and raced after a request has moved on.                            *)
LEMMA GotoTyped ==
    ASSUME TypeOK, NEW g \in Goroutine, NEW next \in Requests, Goto(g, next)
    PROVE  /\ reqs' \in [Goroutine -> Requests]
           /\ raced' \in BOOLEAN
           /\ reqs'[g] = next
           /\ \A h \in Goroutine \ {g} : reqs'[h] = reqs[h]
<1>1. reqs' = [reqs EXCEPT ![g] = next]
  BY DEF Goto
<1>2. raced' \in BOOLEAN
  BY DEF Goto, TypeOK, Overlap
<1>. QED
  BY <1>1, <1>2 DEF TypeOK

LEMMA ArriveKeepsInv ==
    ASSUME Inv, NEW g \in Goroutine, NEW ip \in Ip, Arrive(g, ip),
           UNCHANGED running
    PROVE  Inv'
<1>. DEFINE next == [reqs[g] EXCEPT !.pc = "lock", !.ip = ip]
<1>1. next \in Requests /\ next.pc = "lock"
  BY DEF Inv, TypeOK, Requests, Labels
<1>2. Goto(g, next)
  BY DEF Arrive
<1>. HIDE DEF next
<1>3. /\ reqs' \in [Goroutine -> Requests] /\ raced' \in BOOLEAN
      /\ reqs'[g] = next
      /\ \A h \in Goroutine \ {g} : reqs'[h] = reqs[h]
  BY <1>1, <1>2, GotoTyped DEF Inv
<1>4. TypeOK'
  BY <1>3 DEF Inv, TypeOK, Arrive
<1>5. OneHolder'
  BY <1>1, <1>3, SectionKept DEF Inv, Arrive, InSection
<1>. QED
  BY <1>4, <1>5 DEF Inv

LEMMA LockKeepsInv ==
    ASSUME Inv, NEW g \in Goroutine, Lock(g), UNCHANGED running
    PROVE  Inv'
<1>. DEFINE next == [reqs[g] EXCEPT !.pc = "read"]
<1>1. next \in Requests /\ next.pc = "read" /\ next.ip = reqs[g].ip
  BY DEF Inv, TypeOK, Requests, Labels
<1>2. Goto(g, next)
  BY DEF Lock
<1>. HIDE DEF next
<1>3. /\ reqs' \in [Goroutine -> Requests] /\ raced' \in BOOLEAN
      /\ reqs'[g] = next
      /\ \A h \in Goroutine \ {g} : reqs'[h] = reqs[h]
  BY <1>1, <1>2, GotoTyped DEF Inv
<1>4. TypeOK'
  BY <1>3 DEF Inv, TypeOK, Lock
<1>5. SweptShards' = SweptShards
  BY DEF Lock, SweptShards
<1>6. \A h \in Goroutine : ShardOfReq(h)' = ShardOfReq(h)
  BY <1>1, <1>3 DEF ShardOfReq
<1>7. \A h \in Goroutine \ {g} : InSection(h)' <=> InSection(h)
  BY <1>3 DEF InSection
<1>8. /\ ShardOfReq(g) \in free
      /\ free' = free \ {ShardOfReq(g)}
  BY DEF Lock
<1>9. OneHolder'
  BY <1>5, <1>6, <1>7, <1>8 DEF Inv, OneHolder
<1>. QED
  BY <1>4, <1>9 DEF Inv

LEMMA ReadKeepsInv ==
    ASSUME Inv, NEW g \in Goroutine, Read(g), UNCHANGED running
    PROVE  Inv'
<1>. DEFINE ip == reqs[g].ip
<1>1. /\ InSection(g)
      /\ UNCHANGED <<free, buckets, sweeper, clock, allowed>>
  BY DEF Read, At, InSection
<1>2. PICK next \in Requests :
         Goto(g, next) /\ next.ip = reqs[g].ip
  <2>1. CASE ip \in DOMAIN clients /\ Goto(g, [reqs[g] EXCEPT
                        !.pc = "unlock", !.limiter = clients[ip].limiter])
    <3>1. clients[ip].limiter \in Limiter
      BY <2>1 DEF Inv, TypeOK, Entry
    <3>. DEFINE n == [reqs[g] EXCEPT !.pc = "unlock",
                                     !.limiter = clients[ip].limiter]
    <3>2. n \in Requests /\ n.ip = ip
      BY <3>1 DEF Inv, TypeOK, Requests, Labels
    <3>. HIDE DEF n
    <3>. QED
      BY <2>1, <3>2 DEF n
  <2>2. CASE Goto(g, [reqs[g] EXCEPT !.pc = "write"])
    BY <2>2 DEF Inv, TypeOK, Requests, Labels
  <2>. QED
    BY <2>1, <2>2 DEF Read
<1>3. /\ reqs' \in [Goroutine -> Requests] /\ raced' \in BOOLEAN
      /\ reqs'[g] = next
      /\ \A h \in Goroutine \ {g} : reqs'[h] = reqs[h]
  BY <1>2, GotoTyped DEF Inv
<1>4. /\ DOMAIN clients' \subseteq Ip
      /\ clients' \in [DOMAIN clients' -> Entry]
  BY DEF Inv, TypeOK, Read, Entry
<1>5. TypeOK'
  BY <1>1, <1>3, <1>4 DEF Inv, TypeOK
<1>6. OneHolder'
  BY <1>1, <1>2, <1>3, SectionKept DEF Inv, InSection
<1>. QED
  BY <1>5, <1>6 DEF Inv

LEMMA WriteKeepsInv ==
    ASSUME Inv, NEW g \in Goroutine, Write(g), UNCHANGED running
    PROVE  Inv'
<1>. DEFINE l == CHOOSE x \in Limiter : x \notin Referenced
            next == [reqs[g] EXCEPT !.pc = "unlock", !.limiter = l]
            e == [limiter |-> l, lastSeen |-> clock]
<1>1. /\ At(g, "write")
      /\ UNCHANGED <<free, sweeper, clock, allowed>>
  BY DEF Write
<1>2. l \in Limiter
  BY <1>1, FreeLimiter DEF Inv
<1>3. next \in Requests /\ next.ip = reqs[g].ip
  BY <1>2 DEF Inv, TypeOK, Requests, Labels
<1>4. Goto(g, next)
  BY DEF Write
<1>5. /\ DOMAIN clients' \subseteq Ip
      /\ clients' \in [DOMAIN clients' -> Entry]
  <2>1. e \in Entry
    BY <1>2 DEF Inv, TypeOK, Entry
  <2>2. CASE UNCHANGED clients
    BY <2>2 DEF Inv, TypeOK
  <2>3. CASE clients' = [x \in DOMAIN clients \cup {reqs[g].ip} |->
                           IF x = reqs[g].ip THEN e ELSE clients[x]]
    <3>1. reqs[g].ip \in Ip
      BY DEF Inv, TypeOK, Requests
    <3>. HIDE DEF e
    <3>. QED
      BY <2>1, <2>3, <3>1 DEF Inv, TypeOK
  <2>. QED
    BY <2>2, <2>3 DEF Write
<1>6. buckets' \in [Limiter -> 0 .. Burst]
  <2>1. buckets' = [buckets EXCEPT ![l] = Burst]
    BY DEF Write
  <2>2. Burst \in 0 .. Burst
    BY RateLimiterAssumption
  <2>. HIDE DEF l, e
  <2>. QED
    BY <2>1, <2>2 DEF Inv, TypeOK
<1>. HIDE DEF next
<1>7. /\ reqs' \in [Goroutine -> Requests] /\ raced' \in BOOLEAN
      /\ reqs'[g] = next
      /\ \A h \in Goroutine \ {g} : reqs'[h] = reqs[h]
  BY <1>3, <1>4, GotoTyped DEF Inv
<1>8. TypeOK'
  BY <1>1, <1>5, <1>6, <1>7 DEF Inv, TypeOK
<1>9. OneHolder'
  BY <1>1, <1>3, <1>7, SectionKept DEF Inv, At, InSection
<1>. QED
  BY <1>8, <1>9 DEF Inv

LEMMA UnlockKeepsInv ==
    ASSUME Inv, NEW g \in Goroutine, Unlock(g), UNCHANGED running
    PROVE  Inv'
<1>. DEFINE next == [reqs[g] EXCEPT !.pc = "allow"]
<1>1. next \in Requests /\ next.pc = "allow"
  BY DEF Inv, TypeOK, Requests, Labels
<1>2. Goto(g, next)
  BY DEF Unlock
<1>. HIDE DEF next
<1>3. /\ reqs' \in [Goroutine -> Requests] /\ raced' \in BOOLEAN
      /\ reqs'[g] = next
      /\ \A h \in Goroutine \ {g} : reqs'[h] = reqs[h]
  BY <1>1, <1>2, GotoTyped DEF Inv
<1>4. ShardOfReq(g) \in AllShards
  BY ShardOfIp DEF Inv, TypeOK, Requests, ShardOfReq
<1>5. free' = free \cup {ShardOfReq(g)} /\ InSection(g)
  BY DEF Unlock, At, InSection
<1>6. TypeOK'
  BY <1>3, <1>4, <1>5 DEF Inv, TypeOK, Unlock, AllShards
<1>7. SweptShards' = SweptShards
  BY DEF Unlock, SweptShards
<1>8. \A h \in Goroutine \ {g} :
         ShardOfReq(h)' = ShardOfReq(h) /\ (InSection(h)' <=> InSection(h))
  BY <1>3 DEF ShardOfReq, InSection
<1>9. ~InSection(g)'
  BY <1>1, <1>3 DEF InSection
<1>10. OneHolder'
  BY <1>5, <1>7, <1>8, <1>9 DEF Inv, OneHolder
<1>. QED
  BY <1>6, <1>10 DEF Inv

LEMMA AllowKeepsInv ==
    ASSUME Inv, NEW g \in Goroutine, Allow(g), UNCHANGED running
    PROVE  Inv'
<1>1. Goto(g, NoRequest)
  BY DEF Allow
<1>2. /\ reqs' \in [Goroutine -> Requests] /\ raced' \in BOOLEAN
      /\ reqs'[g] = NoRequest
      /\ \A h \in Goroutine \ {g} : reqs'[h] = reqs[h]
  BY <1>1, GotoTyped, NoRequestIsIdle DEF Inv
<1>3. /\ buckets' \in [Limiter -> 0 .. Burst]
      /\ allowed' \in [Ip -> Nat]
  <2>. DEFINE l == reqs[g].limiter
  <2>1. l \in Limiter /\ reqs[g].ip \in Ip
    BY DEF Inv, TypeOK, Requests
  <2>2. CASE UNCHANGED <<buckets, allowed>>
    BY <2>2 DEF Inv, TypeOK
  <2>3. CASE /\ buckets[l] > 0
             /\ buckets' = [buckets EXCEPT ![l] = @ - 1]
             /\ allowed' = [allowed EXCEPT ![reqs[g].ip] = @ + 1]
    <3>1. buckets[l] - 1 \in 0 .. Burst
      BY <2>1, <2>3, RateLimiterAssumption DEF Inv, TypeOK
    <3>2. allowed[reqs[g].ip] + 1 \in Nat
      BY <2>1 DEF Inv, TypeOK
    <3>. QED
      BY <2>1, <2>3, <3>1, <3>2 DEF Inv, TypeOK
  <2>. QED
    BY <2>2, <2>3 DEF Allow
<1>4. TypeOK'
  BY <1>2, <1>3 DEF Inv, TypeOK, Allow
<1>5. OneHolder'
  BY <1>2, NoRequestIsIdle, SectionKept DEF Inv, Allow, InSection
<1>. QED
  BY <1>4, <1>5 DEF Inv

LEMMA SweepStartsKeepsInv ==
    ASSUME Inv, SweepStarts, UNCHANGED running
    PROVE  Inv'
<1>1. sweeper' \in Sweeper
  <2>1. 0 \in 0 .. Shards
    BY RateLimiterAssumption
  <2>. QED
    BY <2>1 DEF Inv, TypeOK, SweepStarts, Sweeper
<1>2. TypeOK'
  BY <1>1 DEF Inv, TypeOK, SweepStarts
<1>3. SweptShards' = {}
  BY DEF SweepStarts, SweptShards, Inv, TypeOK, Sweeper
<1>4. OneHolder'
  BY <1>3 DEF Inv, OneHolder, SweepStarts, InSection, ShardOfReq
<1>. QED
  BY <1>2, <1>4 DEF Inv

LEMMA SweepLocksKeepsInv ==
    ASSUME Inv, SweepLocks, UNCHANGED running
    PROVE  Inv'
<1>1. /\ sweeper.pc = "lockAll" /\ sweeper.next \in 0 .. Shards
      /\ Shards \in Nat
      /\ SweptShards = 0 .. sweeper.next - 1
  BY RateLimiterAssumption DEF SweepLocks, SweptShards, Inv, TypeOK, Sweeper
<1>2. CASE /\ sweeper.next \in free
           /\ free' = free \ {sweeper.next}
           /\ sweeper' = [sweeper EXCEPT !.next = @ + 1]
  <2>1. sweeper.next \in 0 .. Shards - 1
    BY <1>1, <1>2 DEF Inv, TypeOK, AllShards
  <2>2. sweeper' \in Sweeper
    BY <1>1, <1>2, <2>1 DEF Inv, TypeOK, Sweeper
  <2>3. TypeOK'
    BY <1>2, <2>2 DEF Inv, TypeOK, SweepLocks
  <2>4. SweptShards' = SweptShards \cup {sweeper.next}
    <3>1. sweeper'.pc = "lockAll" /\ sweeper'.next = sweeper.next + 1
      BY <1>1, <1>2 DEF Inv, TypeOK, Sweeper
    <3>2. SweptShards' = 0 .. sweeper.next
      BY <1>1, <3>1 DEF SweptShards
    <3>. QED
      BY <1>1, <3>2
  <2>5. OneHolder'
    BY <1>2, <2>4 DEF Inv, OneHolder, SweepLocks, InSection, ShardOfReq
  <2>. QED
    BY <2>3, <2>5 DEF Inv
<1>3. CASE /\ sweeper.next = Shards
           /\ sweeper' = [sweeper EXCEPT !.pc = "evict"]
           /\ UNCHANGED free
  <2>1. sweeper' \in Sweeper
    BY <1>3 DEF Inv, TypeOK, Sweeper
  <2>2. TypeOK'
    BY <1>3, <2>1 DEF Inv, TypeOK, SweepLocks
  <2>3. SweptShards' = SweptShards
    <3>1. sweeper'.pc = "evict"
      BY <1>3 DEF Inv, TypeOK, Sweeper
    <3>2. SweptShards' = AllShards
      BY <3>1 DEF SweptShards, AllShards
    <3>. QED
      BY <1>1, <1>3, <3>2 DEF AllShards
  <2>4. OneHolder'
    BY <1>3, <2>3 DEF Inv, OneHolder, SweepLocks, InSection, ShardOfReq
  <2>. QED
    BY <2>2, <2>4 DEF Inv
<1>. QED
  BY <1>2, <1>3 DEF SweepLocks

LEMMA EvictKeepsInv ==
    ASSUME Inv, Evict, UNCHANGED running
    PROVE  Inv'
<1>1. /\ DOMAIN clients' \subseteq Ip
      /\ clients' \in [DOMAIN clients' -> Entry]
  BY DEF Inv, TypeOK, Evict
<1>2. /\ sweeper' \in Sweeper
      /\ sweeper'.pc = "unlockAll" /\ sweeper'.next = 0
  <2>1. 0 \in 0 .. Shards
    BY RateLimiterAssumption
  <2>. QED
    BY <2>1 DEF Inv, TypeOK, Evict, Sweeper
<1>3. TypeOK'
  BY <1>1, <1>2 DEF Inv, TypeOK, Evict
<1>4. SweptShards' = SweptShards
  BY <1>2 DEF Evict, SweptShards, AllShards
<1>5. OneHolder'
  BY <1>4 DEF Inv, OneHolder, Evict, InSection, ShardOfReq
<1>. QED
  BY <1>3, <1>5 DEF Inv

LEMMA SweepUnlocksKeepsInv ==
    ASSUME Inv, SweepUnlocks, UNCHANGED running
    PROVE  Inv'
<1>1. /\ sweeper.pc = "unlockAll" /\ sweeper.next \in 0 .. Shards
      /\ Shards \in Nat
      /\ SweptShards = sweeper.next .. Shards - 1
  BY RateLimiterAssumption DEF SweepUnlocks, SweptShards, Inv, TypeOK, Sweeper
<1>2. CASE sweeper.next < Shards
  <2>1. /\ free' = free \cup {sweeper.next}
        /\ sweeper' = [sweeper EXCEPT !.next = @ + 1]
    BY <1>2 DEF SweepUnlocks
  <2>2. /\ sweeper' \in Sweeper
        /\ sweeper'.pc = "unlockAll" /\ sweeper'.next = sweeper.next + 1
    <3>1. sweeper.next + 1 \in 0 .. Shards
      BY <1>1, <1>2
    <3>. QED
      BY <1>1, <2>1, <3>1 DEF Inv, TypeOK, Sweeper
  <2>3. TypeOK'
    BY <1>1, <1>2, <2>1, <2>2 DEF Inv, TypeOK, SweepUnlocks, AllShards
  <2>4. SweptShards' = SweptShards \ {sweeper.next}
    <3>1. SweptShards' = sweeper.next + 1 .. Shards - 1
      BY <2>2 DEF SweptShards
    <3>. QED
      BY <1>1, <3>1
  <2>5. sweeper.next \in SweptShards
    BY <1>1, <1>2
  <2>6. OneHolder'
    BY <2>1, <2>4, <2>5
       DEF Inv, OneHolder, SweepUnlocks, InSection, ShardOfReq
  <2>. QED
    BY <2>3, <2>6 DEF Inv
<1>3. CASE ~(sweeper.next < Shards)
  <2>1. /\ UNCHANGED free
        /\ sweeper' = [pc |-> "wait", next |-> 0, due |-> clock + SweepEvery]
    BY <1>3 DEF SweepUnlocks
  <2>2. sweeper' \in Sweeper /\ sweeper'.pc = "wait"
    BY <2>1, RateLimiterAssumption DEF Inv, TypeOK, Sweeper
  <2>3. TypeOK'
    BY <2>1, <2>2 DEF Inv, TypeOK, SweepUnlocks
  <2>4. SweptShards' = {}
    BY <2>2 DEF SweptShards
  <2>5. OneHolder'
    BY <2>1, <2>4 DEF Inv, OneHolder, SweepUnlocks, InSection, ShardOfReq
  <2>. QED
    BY <2>3, <2>5 DEF Inv
<1>. QED
  BY <1>2, <1>3

LEMMA TickKeepsInv ==
    ASSUME Inv, Tick, UNCHANGED running
    PROVE  Inv'
<1>1. buckets' \in [Limiter -> 0 .. Burst]
  <2>1. \A l \in Limiter : Filled(buckets[l]) \in 0 .. Burst
    BY RateLimiterAssumption DEF Inv, TypeOK, Filled
  <2>. QED
    BY <2>1 DEF Tick
<1>2. TypeOK'
  BY <1>1 DEF Inv, TypeOK, Tick
<1>3. OneHolder'
  BY SectionKept DEF Inv, Tick, InSection
<1>. QED
  BY <1>2, <1>3 DEF Inv

LEMMA NextKeepsInv == Inv /\ [Next]_vars => Inv'
<1>. SUFFICES ASSUME Inv, [Next]_vars PROVE Inv'
  OBVIOUS
<1>1. ASSUME NEW g \in Goroutine, Serve(g) PROVE Inv'
  BY <1>1, LockKeepsInv, ReadKeepsInv, WriteKeepsInv, UnlockKeepsInv,
     AllowKeepsInv DEF Serve
<1>2. CASE Sweep
  BY <1>2, SweepStartsKeepsInv, SweepLocksKeepsInv, EvictKeepsInv,
     SweepUnlocksKeepsInv DEF Sweep
<1>3. ASSUME NEW g \in Goroutine, NEW ip \in Ip, Arrive(g, ip),
             UNCHANGED running
      PROVE  Inv'
  BY <1>3, ArriveKeepsInv
<1>4. CASE Tick /\ UNCHANGED running
  BY <1>4, TickKeepsInv
<1>5. CASE Fatal
  <2>1. TypeOK'
    BY <1>5 DEF Inv, TypeOK, Fatal
  <2>2. OneHolder'
    BY <1>5, SectionKept DEF Inv, Fatal, InSection
  <2>. QED
    BY <2>1, <2>2 DEF Inv
<1>6. CASE UNCHANGED vars
  <2>1. TypeOK'
    BY <1>6 DEF Inv, TypeOK, vars
  <2>2. OneHolder'
    BY <1>6, SectionKept DEF Inv, vars, InSection
  <2>. QED
    BY <2>1, <2>2 DEF Inv
<1>. QED
  BY <1>1, <1>2, <1>3, <1>4, <1>5, <1>6 DEF Next

-----------------------------------------------------------------------------
(* In every state the program can be in, with any number of shards,        *)
(* addresses and requests, the invariant holds (RateLimiter).              *)
THEOREM Invariance == Spec => []Inv
<1>. QED
  BY InitEstablishesInv, NextKeepsInv, PTL DEF Spec

(* Every variable keeps its type; a limiter can always be allocated        *)
(* (getLimiter).                                                           *)
THEOREM TypeCorrect == Spec => []TypeOK
<1>1. Inv => TypeOK
  BY DEF Inv
<1>. QED
  BY <1>1, Invariance, PTL

(* Each shard's token is in its channel or with one goroutine, so requests *)
(* of one shard exclude each other and the eviction excludes all of them   *)
(* (shardedMu).                                                            *)
THEOREM ShardsExclude == Spec => []OneHolder
<1>1. Inv => OneHolder
  BY DEF Inv
<1>. QED
  BY <1>1, Invariance, PTL
-----------------------------------------------------------------------------
(***************************************************************************)
(* The budget of an address.  While no two map accesses have overlapped,   *)
(* what an address was let through and what its bucket still holds are     *)
(* together at most a bucket and what time has filled in; an address with  *)
(* no entry counts as one with a full bucket.  Eviction keeps that because *)
(* an entry idle for IdleLimit has a full bucket, and it never takes the   *)
(* entry of a request that is past the map, which was seen just now.       *)
(***************************************************************************)
Gained(t) == Rate * t

OverlapIsSeen == Overlap(reqs) => raced

(* No two addresses share a limiter.                                       *)
OwnLimiters ==
    \A x, y \in DOMAIN clients :
        clients[x].limiter = clients[y].limiter => x = y

(* A request about to write the map found no entry, and there is none.     *)
WriterIsNew ==
    \A g \in Goroutine : At(g, "write") => reqs[g].ip \notin DOMAIN clients

PastMap(g) == reqs[g].pc \in {"unlock", "allow"}

(* A request that is past the map asks the limiter of its address, whose   *)
(* entry it has just touched.                                              *)
AskedNow ==
    \A g \in Goroutine : PastMap(g) =>
        /\ reqs[g].ip \in DOMAIN clients
        /\ clients[reqs[g].ip].limiter = reqs[g].limiter
        /\ clients[reqs[g].ip].lastSeen = clock

BucketOf(x) == buckets[clients[x].limiter]

(* A bucket holds at least what its idle time has filled in.               *)
Refilled ==
    \A x \in DOMAIN clients :
        /\ clients[x].lastSeen <= clock
        /\ \/ BucketOf(x) = Burst
           \/ BucketOf(x) >= Gained(clock - clients[x].lastSeen)

Within(n, b, t) == n + b <= Burst + Gained(t)

Spent ==
    \A x \in Ip :
        IF x \in DOMAIN clients THEN Within(allowed[x], BucketOf(x), clock)
        ELSE Within(allowed[x], Burst, clock)

Budget == WriterIsNew /\ AskedNow /\ Refilled /\ Spent

Ledger == OverlapIsSeen /\ OwnLimiters /\ (~raced => Budget)

BudgetInv == Inv /\ Ledger

-----------------------------------------------------------------------------
LEMMA GainedFacts ==
    ASSUME NEW t \in Nat
    PROVE  /\ Gained(t) \in Nat
           /\ Gained(t + 1) = Gained(t) + Rate
           /\ Gained(0) = 0
BY RateLimiterAssumption DEF Gained

(* What is idle for long enough has a full bucket (the 5 minutes of the    *)
(* cleanup goroutine against the size and the rate of a bucket).           *)
LEMMA IdleIsFull ==
    ASSUME NEW t \in Nat, t > IdleLimit
    PROVE  Gained(t) >= Burst
<1>1. /\ Rate \in Nat /\ IdleLimit \in Nat /\ Burst \in Nat
      /\ Rate * IdleLimit >= Burst
  BY RateLimiterAssumption
<1>. DEFINE k == t - IdleLimit
<1>2. k \in Nat /\ t = IdleLimit + k
  BY <1>1
<1>. HIDE DEF k
<1>3. Rate * k \in Nat
  BY <1>1, <1>2
<1>4. Rate * (IdleLimit + k) = Rate * IdleLimit + Rate * k
  BY <1>1, <1>2
<1>5. Rate * IdleLimit \in Nat
  BY <1>1
<1>. QED
  BY <1>1, <1>2, <1>3, <1>4, <1>5 DEF Gained

LEMMA EntryFacts ==
    ASSUME TypeOK, NEW x \in DOMAIN clients
    PROVE  /\ x \in Ip /\ clients[x] \in Entry
           /\ clients[x].limiter \in Limiter /\ clients[x].lastSeen \in Nat
           /\ BucketOf(x) \in 0 .. Burst
BY DEF TypeOK, Entry, BucketOf

(* What a handler's step says of the overlap and of the other handlers.    *)
LEMMA GotoSeen ==
    ASSUME TypeOK, NEW g \in Goroutine, NEW next \in Requests, Goto(g, next)
    PROVE  /\ OverlapIsSeen'
           /\ ~raced' => ~raced
           /\ reqs'[g] = next
           /\ \A h \in Goroutine \ {g} : reqs'[h] = reqs[h]
<1>1. reqs'[g] = next /\ \A h \in Goroutine \ {g} : reqs'[h] = reqs[h]
  BY GotoTyped
<1>2. raced' = (raced \/ Overlap(reqs'))
  BY DEF Goto
<1>3. OverlapIsSeen' /\ (~raced' => ~raced)
  BY <1>2 DEF OverlapIsSeen, Overlap
<1>. QED
  BY <1>1, <1>3

(* A request that moves and leaves the map and the buckets alone.          *)
LEMMA RequestMoves ==
    ASSUME BudgetInv, NEW g \in Goroutine, NEW next \in Requests,
           Goto(g, next), UNCHANGED <<clients, buckets, clock, allowed>>,
           ~raced /\ next.pc = "write" => next.ip \notin DOMAIN clients,
           next.pc \in {"unlock", "allow"} =>
               /\ PastMap(g)
               /\ next.ip = reqs[g].ip /\ next.limiter = reqs[g].limiter
    PROVE  Ledger'
<1>1. /\ OverlapIsSeen' /\ (~raced' => ~raced) /\ reqs'[g] = next
      /\ \A h \in Goroutine \ {g} : reqs'[h] = reqs[h]
  BY GotoSeen DEF BudgetInv, Inv
<1>2. OwnLimiters'
  BY DEF OwnLimiters, BudgetInv, Ledger
<1>3. ASSUME ~raced'
      PROVE  Budget'
  <2>1. ~raced /\ Budget
    BY <1>1, <1>3 DEF BudgetInv, Ledger
  <2>2. WriterIsNew'
    BY <1>1, <2>1 DEF Budget, WriterIsNew, At
  <2>3. AskedNow'
    BY <1>1, <2>1 DEF Budget, AskedNow, PastMap
  <2>4. Refilled' /\ Spent'
    BY <2>1 DEF Budget, Refilled, Spent, BucketOf
  <2>. QED
    BY <2>2, <2>3, <2>4 DEF Budget
<1>. QED
  BY <1>1, <1>2, <1>3 DEF Ledger

LEMMA ReadKeepsLedger ==
    ASSUME BudgetInv, NEW g \in Goroutine, Read(g)
    PROVE  Ledger'
<1>. DEFINE ip == reqs[g].ip
            found == [reqs[g] EXCEPT !.pc = "unlock",
                                     !.limiter = clients[ip].limiter]
            new == [reqs[g] EXCEPT !.pc = "write"]
<1>1. TypeOK /\ reqs[g] \in Requests
  BY DEF BudgetInv, Inv, TypeOK
<1>2. CASE /\ ip \notin DOMAIN clients \/ Overlap(reqs)
           /\ Goto(g, new) /\ UNCHANGED clients
  <2>1. new \in Requests /\ new.pc = "write" /\ new.ip = ip
    BY <1>1 DEF Requests, Labels
  <2>2. ~raced => ip \notin DOMAIN clients
    BY <1>2 DEF BudgetInv, Ledger, OverlapIsSeen
  <2>3. UNCHANGED <<clients, buckets, clock, allowed>>
    BY <1>2 DEF Read
  <2>. HIDE DEF new
  <2>. QED
    BY <1>2, <2>1, <2>2, <2>3, RequestMoves
<1>3. CASE /\ ip \in DOMAIN clients
           /\ clients' = [clients EXCEPT ![ip].lastSeen = clock]
           /\ Goto(g, found)
  <2>1. /\ clients[ip] \in Entry
        /\ \A x \in DOMAIN clients : clients[x] \in Entry
    BY <1>1, <1>3, EntryFacts
  <2>2. /\ found \in Requests /\ found.pc = "unlock" /\ found.ip = ip
        /\ found.limiter = clients[ip].limiter
    BY <1>1, <2>1 DEF Requests, Labels, Entry
  <2>3. /\ DOMAIN clients' = DOMAIN clients
        /\ \A x \in DOMAIN clients :
              /\ clients'[x].limiter = clients[x].limiter
              /\ clients'[x].lastSeen = IF x = ip THEN clock
                                        ELSE clients[x].lastSeen
    BY <1>3, <2>1 DEF Entry
  <2>4. buckets' = buckets /\ clock' = clock /\ allowed' = allowed
    BY DEF Read
  <2>. HIDE DEF found, ip
  <2>5. /\ OverlapIsSeen' /\ (~raced' => ~raced) /\ reqs'[g] = found
        /\ \A h \in Goroutine \ {g} : reqs'[h] = reqs[h]
    BY <1>1, <1>3, <2>2, GotoSeen
  <2>6. OwnLimiters'
    BY <2>3 DEF OwnLimiters, BudgetInv, Ledger
  <2>7. \A x \in DOMAIN clients : BucketOf(x)' = BucketOf(x)
    BY <2>3, <2>4 DEF BucketOf
  <2>8. ASSUME ~raced'
        PROVE  Budget'
    <3>1. Budget
      BY <2>5, <2>8 DEF BudgetInv, Ledger
    <3>2. WriterIsNew'
      BY <2>2, <2>3, <2>5, <3>1 DEF Budget, WriterIsNew, At
    <3>3. AskedNow'
      <4>. SUFFICES ASSUME NEW h \in Goroutine, PastMap(h)'
                    PROVE  /\ reqs'[h].ip \in DOMAIN clients'
                           /\ clients'[reqs'[h].ip].limiter = reqs'[h].limiter
                           /\ clients'[reqs'[h].ip].lastSeen = clock'
        BY DEF AskedNow
      <4>1. CASE h = g
        BY <1>3, <2>2, <2>3, <2>4, <2>5, <4>1
      <4>2. CASE h # g
        BY <2>3, <2>4, <2>5, <3>1, <4>2 DEF Budget, AskedNow, PastMap
      <4>. QED
        BY <4>1, <4>2
    <3>4. Refilled'
      <4>. SUFFICES ASSUME NEW x \in DOMAIN clients
                    PROVE  /\ clients'[x].lastSeen <= clock
                           /\ \/ BucketOf(x) = Burst
                              \/ BucketOf(x) >=
                                    Gained(clock - clients'[x].lastSeen)
        BY <2>3, <2>4, <2>7 DEF Refilled
      <4>1. clock \in Nat /\ clock - clock = 0 /\ Gained(0) = 0
        BY <1>1, GainedFacts DEF TypeOK
      <4>2. BucketOf(x) >= 0
        BY <1>1, EntryFacts
      <4>. QED
        BY <2>3, <3>1, <4>1, <4>2 DEF Budget, Refilled
    <3>5. Spent'
      BY <2>3, <2>4, <2>7, <3>1 DEF Budget, Spent
    <3>. QED
      BY <3>2, <3>3, <3>4, <3>5 DEF Budget
  <2>. QED
    BY <2>5, <2>6, <2>8 DEF Ledger
<1>. QED
  BY <1>2, <1>3 DEF Read

LEMMA WriteKeepsLedger ==
    ASSUME BudgetInv, NEW g \in Goroutine, Write(g)
    PROVE  Ledger'
<1>0. PICK ip \in Ip : ip = reqs[g].ip
  BY DEF BudgetInv, Inv, TypeOK, Requests
<1>. DEFINE l == CHOOSE x \in Limiter : x \notin Referenced
            next == [reqs[g] EXCEPT !.pc = "unlock", !.limiter = l]
            e == [limiter |-> l, lastSeen |-> clock]
<1>1. /\ TypeOK /\ At(g, "write") /\ reqs[g] \in Requests
      /\ buckets' = [buckets EXCEPT ![l] = Burst] /\ Goto(g, next)
      /\ clock' = clock /\ allowed' = allowed
  BY DEF BudgetInv, Inv, TypeOK, Write
<1>2. \/ clients' = [x \in DOMAIN clients \cup {ip} |->
                        IF x = ip THEN e ELSE clients[x]]
      \/ Overlap(reqs) /\ clients' = clients
  BY <1>0 DEF Write
<1>3. l \in Limiter /\ l \notin Referenced
  BY <1>1, FreeLimiter
<1>4. e.limiter = l /\ e.lastSeen = clock
  OBVIOUS
<1>. HIDE DEF l, e
<1>5. /\ next \in Requests /\ next.pc = "unlock" /\ next.ip = ip
      /\ next.limiter = l
  BY <1>0, <1>1, <1>3 DEF Requests, Labels
<1>. HIDE DEF next
<1>6. \A x \in DOMAIN clients : clients[x].limiter # l
  BY <1>3 DEF Referenced
<1>7. /\ OverlapIsSeen' /\ (~raced' => ~raced) /\ reqs'[g] = next
      /\ \A h \in Goroutine \ {g} : reqs'[h] = reqs[h]
  BY <1>1, <1>5, GotoSeen
<1>8. OwnLimiters'
  BY <1>2, <1>4, <1>6 DEF OwnLimiters, BudgetInv, Ledger
<1>9. ASSUME ~raced'
      PROVE  Budget'
  <2>1. Budget /\ ~Overlap(reqs)
    BY <1>7, <1>9 DEF BudgetInv, Ledger, OverlapIsSeen
  <2>2. ip \notin DOMAIN clients
    BY <1>0, <1>1, <2>1 DEF Budget, WriterIsNew
  <2>3. /\ DOMAIN clients' = DOMAIN clients \cup {ip} /\ clients'[ip] = e
        /\ \A x \in DOMAIN clients : clients'[x] = clients[x]
    BY <1>2, <2>1, <2>2
  <2>4. buckets'[l] = Burst
    BY <1>1, <1>3 DEF TypeOK
  <2>5. \A x \in DOMAIN clients : BucketOf(x)' = BucketOf(x)
    <3>1. \A m : m \in Limiter /\ m # l => buckets'[m] = buckets[m]
      BY <1>1 DEF TypeOK
    <3>2. \A x \in DOMAIN clients : clients[x].limiter \in Limiter
      BY <1>1, EntryFacts
    <3>. QED
      BY <1>6, <2>3, <3>1, <3>2 DEF BucketOf
  <2>6. BucketOf(ip)' = Burst
    BY <1>4, <2>3, <2>4 DEF BucketOf
  <2>7. WriterIsNew'
    <3>. SUFFICES ASSUME NEW h \in Goroutine, At(h, "write")'
                  PROVE  FALSE
      BY DEF WriterIsNew
    <3>1. h # g
      BY <1>5, <1>7 DEF At
    <3>2. At(h, "write")
      BY <1>7, <3>1 DEF At
    <3>. QED
      BY <1>1, <2>1, <3>1, <3>2 DEF Overlap, At
  <2>8. AskedNow'
    <3>. SUFFICES ASSUME NEW h \in Goroutine, PastMap(h)'
                  PROVE  /\ reqs'[h].ip \in DOMAIN clients'
                         /\ clients'[reqs'[h].ip].limiter = reqs'[h].limiter
                         /\ clients'[reqs'[h].ip].lastSeen = clock'
      BY DEF AskedNow
    <3>1. CASE h = g
      BY <1>1, <1>4, <1>5, <1>7, <2>3, <3>1
    <3>2. CASE h # g
      BY <1>1, <1>7, <2>1, <2>3, <3>2 DEF Budget, AskedNow, PastMap
    <3>. QED
      BY <3>1, <3>2
  <2>9. Refilled'
    BY <1>1, <1>4, <2>1, <2>3, <2>5, <2>6 DEF Budget, Refilled, TypeOK
  <2>10. Spent'
    BY <1>1, <2>1, <2>2, <2>3, <2>5, <2>6 DEF Budget, Spent
  <2>. QED
    BY <2>7, <2>8, <2>9, <2>10 DEF Budget
<1>. QED
  BY <1>7, <1>8, <1>9 DEF Ledger

LEMMA AllowKeepsLedger ==
    ASSUME BudgetInv, NEW g \in Goroutine, Allow(g)
    PROVE  Ledger'
<1>0. PICK ip \in Ip : ip = reqs[g].ip
  BY DEF BudgetInv, Inv, TypeOK, Requests
<1>. DEFINE l == reqs[g].limiter
<1>1. /\ TypeOK /\ PastMap(g) /\ Goto(g, NoRequest)
      /\ clients' = clients /\ clock' = clock
      /\ l \in Limiter
  BY DEF BudgetInv, Inv, TypeOK, Allow, At, PastMap, Requests
<1>2. /\ OverlapIsSeen' /\ (~raced' => ~raced) /\ reqs'[g].pc = "idle"
      /\ \A h \in Goroutine \ {g} : reqs'[h] = reqs[h]
  BY <1>1, GotoSeen, NoRequestIsIdle
<1>3. OwnLimiters'
  BY <1>1 DEF OwnLimiters, BudgetInv, Ledger
<1>4. ASSUME ~raced'
      PROVE  Budget'
  <2>1. Budget
    BY <1>2, <1>4 DEF BudgetInv, Ledger
  <2>2. ip \in DOMAIN clients /\ clients[ip].limiter = l
        /\ clients[ip].lastSeen = clock
    BY <1>0, <1>1, <2>1 DEF Budget, AskedNow
  <2>3. WriterIsNew' /\ AskedNow'
    BY <1>1, <1>2, <2>1 DEF Budget, WriterIsNew, AskedNow, PastMap, At
  <2>4. CASE UNCHANGED <<buckets, allowed>>
    BY <1>1, <2>1, <2>3, <2>4 DEF Budget, Refilled, Spent, BucketOf
  <2>5. CASE /\ buckets[l] > 0
             /\ buckets' = [buckets EXCEPT ![l] = @ - 1]
             /\ allowed' = [allowed EXCEPT ![ip] = @ + 1]
    <3>. HIDE DEF l
    <3>1. buckets[l] \in 1 .. Burst /\ buckets'[l] = buckets[l] - 1
          /\ allowed[ip] \in Nat /\ allowed'[ip] = allowed[ip] + 1
      BY <1>1, <2>5 DEF TypeOK
    <3>2. \A x \in DOMAIN clients : x # ip => clients[x].limiter # l
      BY <2>2 DEF OwnLimiters, BudgetInv, Ledger
    <3>3. \A x \in DOMAIN clients : x # ip => BucketOf(x)' = BucketOf(x)
      <4>1. \A m : m \in Limiter /\ m # l => buckets'[m] = buckets[m]
        BY <1>1, <2>5 DEF TypeOK
      <4>2. \A x \in DOMAIN clients : clients[x].limiter \in Limiter
        BY <1>1, EntryFacts
      <4>. QED
        BY <1>1, <3>2, <4>1, <4>2 DEF BucketOf
    <3>4. \A x \in Ip : x # ip => allowed'[x] = allowed[x]
      BY <1>1, <2>5 DEF TypeOK
    <3>5. BucketOf(ip) = buckets[l] /\ BucketOf(ip)' = buckets'[l]
      BY <1>1, <2>2 DEF BucketOf
    <3>6. Refilled'
      <4>. SUFFICES ASSUME NEW x \in DOMAIN clients
                    PROVE  /\ clients[x].lastSeen <= clock
                           /\ \/ BucketOf(x)' = Burst
                              \/ BucketOf(x)' >=
                                    Gained(clock - clients[x].lastSeen)
        BY <1>1 DEF Refilled
      <4>1. CASE x # ip
        BY <2>1, <3>3, <4>1 DEF Budget, Refilled
      <4>2. CASE x = ip
        <5>1. clock \in Nat /\ clock - clock = 0 /\ Gained(0) = 0
          BY <1>1, GainedFacts DEF TypeOK
        <5>2. buckets'[l] >= 0 /\ clients[x].lastSeen = clock
              /\ BucketOf(x)' = buckets'[l]
          BY <2>2, <3>1, <3>5, <4>2
        <5>. QED
          BY <5>1, <5>2
      <4>. QED
        BY <4>1, <4>2
    <3>7. Spent'
      <4>. SUFFICES ASSUME NEW x \in Ip
                    PROVE  IF x \in DOMAIN clients
                           THEN Within(allowed'[x], BucketOf(x)', clock)
                           ELSE Within(allowed'[x], Burst, clock)
        BY <1>1 DEF Spent
      <4>1. CASE x # ip
        BY <2>1, <3>3, <3>4, <4>1 DEF Budget, Spent
      <4>2. CASE x = ip
        <5>1. Within(allowed[ip], BucketOf(ip), clock)
          BY <1>1, <2>1, <2>2 DEF Budget, Spent
        <5>2. Within(allowed'[ip], BucketOf(ip)', clock)
          <6>1. allowed'[ip] + BucketOf(ip)' = allowed[ip] + BucketOf(ip)
            BY <3>1, <3>5
          <6>. QED
            BY <5>1, <6>1 DEF Within
        <5>. QED
          BY <2>2, <4>2, <5>2
      <4>. QED
        BY <4>1, <4>2
    <3>. QED
      BY <2>3, <3>6, <3>7 DEF Budget
  <2>. QED
    BY <1>0, <2>4, <2>5 DEF Allow
<1>. QED
  BY <1>2, <1>3, <1>4 DEF Ledger

LEMMA EvictKeepsLedger ==
    ASSUME BudgetInv, Evict
    PROVE  Ledger'
<1>. DEFINE kept == {x \in DOMAIN clients :
                        clock - clients[x].lastSeen <= IdleLimit}
<1>1. /\ TypeOK /\ clock \in Nat
      /\ UNCHANGED <<buckets, reqs, clock, allowed, raced>>
      /\ clients' = [x \in kept |-> clients[x]]
  BY DEF BudgetInv, Inv, TypeOK, Evict
<1>2. DOMAIN clients' = kept /\ \A x \in kept : clients'[x] = clients[x]
  BY <1>1
<1>3. kept \subseteq DOMAIN clients
  OBVIOUS
<1>4. \A x \in DOMAIN clients \ kept : clock - clients[x].lastSeen > IdleLimit
  <2>. SUFFICES ASSUME NEW x \in DOMAIN clients \ kept
                PROVE  clock - clients[x].lastSeen > IdleLimit
    OBVIOUS
  <2>1. ~(clock - clients[x].lastSeen <= IdleLimit)
    OBVIOUS
  <2>2. clients[x].lastSeen \in Nat /\ IdleLimit \in Nat
    BY <1>1, EntryFacts, RateLimiterAssumption
  <2>. HIDE DEF kept
  <2>. QED
    BY <1>1, <2>1, <2>2
<1>5. \A x \in DOMAIN clients : clients[x].lastSeen = clock => x \in kept
  BY <1>1, RateLimiterAssumption
<1>. HIDE DEF kept
<1>6. OverlapIsSeen'
  BY <1>1 DEF OverlapIsSeen, Overlap, BudgetInv, Ledger
<1>7. OwnLimiters'
  BY <1>2, <1>3 DEF OwnLimiters, BudgetInv, Ledger
<1>8. ASSUME ~raced'
      PROVE  Budget'
  <2>1. Budget
    BY <1>1, <1>8 DEF BudgetInv, Ledger
  <2>2. WriterIsNew'
    BY <1>1, <1>2, <1>3, <2>1 DEF Budget, WriterIsNew, At
  <2>3. AskedNow'
    BY <1>1, <1>2, <1>5, <2>1 DEF Budget, AskedNow, PastMap
  <2>4. \A x \in kept : BucketOf(x)' = BucketOf(x)
    BY <1>1, <1>2 DEF BucketOf
  <2>5. Refilled'
    BY <1>1, <1>2, <1>3, <2>1, <2>4 DEF Budget, Refilled
  <2>6. \A x \in DOMAIN clients \ kept : BucketOf(x) = Burst
    <3>. SUFFICES ASSUME NEW x \in DOMAIN clients \ kept
                  PROVE  BucketOf(x) = Burst
      OBVIOUS
    <3>. DEFINE t == clock - clients[x].lastSeen
    <3>1. BucketOf(x) \in 0 .. Burst /\ clients[x].lastSeen \in Nat
          /\ Burst \in Nat
      BY <1>1, EntryFacts, RateLimiterAssumption
    <3>2. /\ clients[x].lastSeen <= clock
          /\ BucketOf(x) = Burst \/ BucketOf(x) >= Gained(t)
      BY <2>1 DEF Budget, Refilled
    <3>3. t \in Nat /\ t > IdleLimit
      BY <1>1, <1>4, <3>1, <3>2
    <3>. HIDE DEF t
    <3>4. Gained(t) >= Burst /\ Gained(t) \in Nat
      BY <3>3, IdleIsFull, GainedFacts
    <3>. QED
      BY <3>1, <3>2, <3>4
  <2>7. Spent'
    BY <1>1, <1>2, <1>3, <2>1, <2>4, <2>6 DEF Budget, Spent
  <2>. QED
    BY <2>2, <2>3, <2>5, <2>7 DEF Budget
<1>. QED
  BY <1>6, <1>7, <1>8 DEF Ledger

LEMMA TickKeepsLedger ==
    ASSUME BudgetInv, Tick
    PROVE  Ledger'
<1>1. /\ TypeOK /\ clock \in Nat /\ clock' = clock + 1
      /\ UNCHANGED <<clients, reqs, allowed, raced>>
      /\ \A g \in Goroutine : ~PastMap(g)
  BY DEF BudgetInv, Inv, TypeOK, Tick, PastMap
<1>2. /\ Rate \in Nat /\ Burst \in Nat
      /\ Gained(clock) \in Nat /\ Gained(clock + 1) = Gained(clock) + Rate
  BY <1>1, GainedFacts, RateLimiterAssumption
<1>3. OverlapIsSeen' /\ OwnLimiters'
  BY <1>1 DEF OverlapIsSeen, OwnLimiters, Overlap, BudgetInv, Ledger
<1>4. \A x \in DOMAIN clients : BucketOf(x)' = Filled(BucketOf(x))
  <2>1. \A x \in DOMAIN clients : clients[x].limiter \in Limiter
    BY <1>1, EntryFacts
  <2>. QED
    BY <1>1, <2>1 DEF BucketOf, Tick
<1>5. \A x \in DOMAIN clients :
         /\ BucketOf(x) \in 0 .. Burst
         /\ BucketOf(x)' <= BucketOf(x) + Rate
         /\ BucketOf(x)' = Burst \/ BucketOf(x)' = BucketOf(x) + Rate
  BY <1>1, <1>2, <1>4, EntryFacts DEF Filled
<1>6. ASSUME ~raced'
      PROVE  Budget'
  <2>1. Budget
    BY <1>1, <1>6 DEF BudgetInv, Ledger
  <2>2. WriterIsNew' /\ AskedNow'
    BY <1>1, <2>1 DEF Budget, WriterIsNew, AskedNow, PastMap, At
  <2>3. Refilled'
    <3>. SUFFICES ASSUME NEW x \in DOMAIN clients
                  PROVE  /\ clients[x].lastSeen <= clock + 1
                         /\ \/ BucketOf(x)' = Burst
                            \/ BucketOf(x)' >=
                                  Gained((clock + 1) - clients[x].lastSeen)
      BY <1>1 DEF Refilled
    <3>. DEFINE t == clock - clients[x].lastSeen
    <3>1. clients[x].lastSeen \in Nat /\ clients[x].lastSeen <= clock
      BY <1>1, <2>1, EntryFacts DEF Budget, Refilled
    <3>2. t \in Nat /\ (clock + 1) - clients[x].lastSeen = t + 1
      BY <1>1, <3>1
    <3>3. BucketOf(x) = Burst \/ BucketOf(x) >= Gained(t)
      BY <2>1 DEF Budget, Refilled
    <3>. HIDE DEF t
    <3>4. Gained(t) \in Nat /\ Gained(t + 1) = Gained(t) + Rate
      BY <3>2, GainedFacts
    <3>5. BucketOf(x) = Burst => BucketOf(x)' = Burst
      BY <1>2, <1>4 DEF Filled
    <3>6. BucketOf(x)' = Burst \/ BucketOf(x)' >= Gained(t + 1)
      <4>1. BucketOf(x) \in 0 .. Burst
            /\ (BucketOf(x)' = Burst \/ BucketOf(x)' = BucketOf(x) + Rate)
        BY <1>5
      <4>. QED
        BY <1>2, <3>3, <3>4, <3>5, <4>1
    <3>. QED
      BY <1>1, <3>1, <3>2, <3>6
  <2>4. Spent'
    <3>. SUFFICES ASSUME NEW x \in Ip
                  PROVE  IF x \in DOMAIN clients
                         THEN Within(allowed[x], BucketOf(x)', clock + 1)
                         ELSE Within(allowed[x], Burst, clock + 1)
      BY <1>1 DEF Spent
    <3>1. allowed[x] \in Nat
      BY <1>1 DEF TypeOK
    <3>2. \A b \in Nat, c \in Nat :
             Within(allowed[x], b, clock) /\ c <= b + Rate
             => Within(allowed[x], c, clock + 1)
      BY <1>2, <3>1 DEF Within
    <3>3. CASE x \in DOMAIN clients
      <4>1. BucketOf(x) \in Nat /\ BucketOf(x)' \in Nat
            /\ BucketOf(x)' <= BucketOf(x) + Rate
        BY <1>2, <1>5, <3>3
      <4>. QED
        BY <2>1, <3>2, <3>3, <4>1 DEF Budget, Spent
    <3>4. CASE x \notin DOMAIN clients
      BY <1>2, <2>1, <3>2, <3>4 DEF Budget, Spent
    <3>. QED
      BY <3>3, <3>4
  <2>. QED
    BY <2>2, <2>3, <2>4 DEF Budget
<1>. QED
  BY <1>1, <1>3, <1>6 DEF Ledger

LEMMA SameLedger ==
    ASSUME Ledger, UNCHANGED <<clients, buckets, reqs, clock, allowed, raced>>
    PROVE  Ledger'
BY DEF Ledger, OverlapIsSeen, Overlap, OwnLimiters, Budget, WriterIsNew,
       AskedNow, Refilled, Spent, BucketOf, PastMap, At

LEMMA MovesKeepLedger ==
    ASSUME BudgetInv, NEW g \in Goroutine,
           Lock(g) \/ Unlock(g) \/ \E ip \in Ip : Arrive(g, ip)
    PROVE  Ledger'
<1>1. reqs[g] \in Requests
  BY DEF BudgetInv, Inv, TypeOK
<1>2. UNCHANGED <<clients, buckets, clock, allowed>>
  BY DEF Lock, Unlock, Arrive
<1>3. PICK next \in Requests :
         /\ Goto(g, next)
         /\ next.pc \in {"lock", "read", "allow"}
         /\ next.pc = "allow" => /\ PastMap(g)
                                 /\ next.ip = reqs[g].ip
                                 /\ next.limiter = reqs[g].limiter
  <2>1. CASE Lock(g)
    <3>. DEFINE n == [reqs[g] EXCEPT !.pc = "read"]
    <3>1. n \in Requests /\ n.pc = "read"
      BY <1>1 DEF Requests, Labels
    <3>. QED
      BY <2>1, <3>1 DEF Lock
  <2>2. CASE Unlock(g)
    <3>. DEFINE n == [reqs[g] EXCEPT !.pc = "allow"]
    <3>1. /\ n \in Requests /\ n.pc = "allow" /\ n.ip = reqs[g].ip
          /\ n.limiter = reqs[g].limiter
      BY <1>1 DEF Requests, Labels
    <3>2. Goto(g, n) /\ PastMap(g)
      BY <2>2 DEF Unlock, PastMap, At
    <3>. QED
      BY <3>1, <3>2
  <2>3. ASSUME NEW ip \in Ip, Arrive(g, ip)
        PROVE  \E n \in Requests : Goto(g, n) /\ n.pc = "lock"
    <3>. DEFINE n == [reqs[g] EXCEPT !.pc = "lock", !.ip = ip]
    <3>1. n \in Requests /\ n.pc = "lock"
      BY <1>1 DEF Requests, Labels
    <3>. QED
      BY <2>3, <3>1 DEF Arrive
  <2>. QED
    BY <2>1, <2>2, <2>3
<1>. QED
  BY <1>2, <1>3, RequestMoves

LEMMA NextKeepsLedger == BudgetInv /\ [Next]_vars => BudgetInv'
<1>. SUFFICES ASSUME BudgetInv, [Next]_vars PROVE Ledger'
  BY NextKeepsInv DEF BudgetInv
<1>1. ASSUME NEW g \in Goroutine, Serve(g) PROVE Ledger'
  BY <1>1, MovesKeepLedger, ReadKeepsLedger, WriteKeepsLedger,
     AllowKeepsLedger DEF Serve
<1>2. CASE Sweep
  <2>1. CASE Evict
    BY <2>1, EvictKeepsLedger
  <2>2. CASE SweepStarts \/ SweepLocks \/ SweepUnlocks
    BY <2>2, SameLedger DEF BudgetInv, SweepStarts, SweepLocks, SweepUnlocks
  <2>. QED
    BY <1>2, <2>1, <2>2 DEF Sweep
<1>3. CASE \E g \in Goroutine, ip \in Ip : Arrive(g, ip)
  BY <1>3, MovesKeepLedger
<1>4. CASE Tick
  BY <1>4, TickKeepsLedger
<1>5. CASE Fatal \/ UNCHANGED vars
  BY <1>5, SameLedger DEF BudgetInv, Fatal, vars
<1>. QED
  BY <1>1, <1>2, <1>3, <1>4, <1>5 DEF Next

LEMMA InitEstablishesLedger == Init => BudgetInv
<1>. SUFFICES ASSUME Init PROVE Ledger
  BY InitEstablishesInv DEF BudgetInv
<1>1. /\ DOMAIN clients = {} /\ clock = 0
      /\ \A g \in Goroutine : reqs[g].pc = "idle"
      /\ \A x \in Ip : allowed[x] = 0
  BY NoRequestIsIdle DEF Init
<1>2. ~Overlap(reqs)
  BY <1>1 DEF Overlap
<1>3. Gained(0) = 0 /\ Burst \in Nat
  BY GainedFacts, RateLimiterAssumption
<1>4. Spent
  BY <1>1, <1>3 DEF Spent, Within
<1>. QED
  BY <1>1, <1>2, <1>4 DEF Ledger, OverlapIsSeen, OwnLimiters, Budget,
                          WriterIsNew, AskedNow, Refilled, PastMap, At

(* The inductive invariant with the budgets.                               *)
LEMMA BudgetInvariance == Spec => []BudgetInv
<1>. QED
  BY InitEstablishesLedger, NextKeepsLedger, PTL DEF Spec

(* While no two map accesses have overlapped, the requests of an address   *)
(* that are past the map ask the limiter the map holds, evictions included *)
(* (getLimiter).                                                           *)
THEOREM OneLimiter == Spec => []OneLimiterPerIp
<1>1. BudgetInv => OneLimiterPerIp
  BY DEF BudgetInv, Ledger, Budget, AskedNow, PastMap, OneLimiterPerIp
<1>. QED
  BY <1>1, BudgetInvariance, PTL

(* While no two map accesses have overlapped, an address gets no more than *)
(* a bucket and what time fills into it (RateLimiter).                     *)
THEOREM BudgetIsKept == Spec => []WithinBudget
<1>1. BudgetInv => WithinBudget
  <2>. SUFFICES ASSUME BudgetInv, ~raced, NEW x \in Ip
                PROVE  allowed[x] <= Burst + Rate * clock
    BY DEF WithinBudget
  <2>1. TypeOK /\ Spent
    BY DEF BudgetInv, Inv, Ledger, Budget
  <2>2. allowed[x] \in Nat /\ clock \in Nat /\ Burst \in Nat
    BY <2>1, RateLimiterAssumption DEF TypeOK
  <2>3. Gained(clock) \in Nat
    BY <2>2, GainedFacts
  <2>4. PICK b \in Nat : Within(allowed[x], b, clock)
    <3>1. x \in DOMAIN clients => BucketOf(x) \in Nat
      BY <2>1, <2>2, EntryFacts
    <3>. QED
      BY <2>1, <2>2, <3>1 DEF Spent
  <2>5. allowed[x] <= Burst + Gained(clock)
    BY <2>2, <2>3, <2>4 DEF Within
  <2>. QED
    BY <2>5 DEF Gained
<1>. QED
  BY <1>1, BudgetInvariance, PTL
=============================================================================
