----------------------------- MODULE RateLimiter -----------------------------
(***************************************************************************)
(* middleware.RateLimiter (internal/middleware/middleware.go): one token   *)
(* bucket per client address, in one map, under a mutex that is split into *)
(* shards by a hash of the address, with a goroutine that takes all shards *)
(* and evicts idle entries.                                                *)
(*                                                                         *)
(* A shard is a channel of capacity one that holds a token while the shard *)
(* is free.  A request's critical section reads the map and, for a new     *)
(* address, writes it; the two are separate steps that begin and end, so   *)
(* that two accesses may overlap.  Overlapping accesses of which one is a  *)
(* write are undefined for a Go map: the process stops with a fatal error, *)
(* or it goes on and the write, or what the read finds, may be lost.       *)
(***************************************************************************)
EXTENDS Integers, FiniteSets

CONSTANTS
    Ip,         \* client addresses
    Goroutine,  \* slots for requests that are served at once
    Limiter,    \* identities of the rate.Limiter objects
    Shards,     \* shardedMu.n (32 in the program)
    Hash,       \* the sum shardedMu.shard computes, any int
    Burst,      \* size of a bucket
    Rate,       \* tokens a bucket gains in a tick
    IdleLimit,  \* ticks after which an entry is evicted (5 minutes)
    SweepEvery, \* ticks between two evictions (1 minute)
    MaxTime,    \* bound: the clock stops there
    MaxAllowed  \* bound: an address let through that often sends no more

ASSUME RateLimiterAssumption ==
    /\ Shards \in Nat \ {0}
    /\ Hash \in [Ip -> Int]
    /\ Burst \in Nat \ {0} /\ Rate \in Nat
    /\ MaxTime \in Nat /\ MaxAllowed \in Nat
    /\ IdleLimit \in Nat /\ SweepEvery \in Nat \ {0}
    /\ Rate * IdleLimit >= Burst
    /\ Ip # {} /\ IsFiniteSet(Ip)
    /\ IsFiniteSet(Goroutine) /\ IsFiniteSet(Limiter)
    /\ Cardinality(Limiter) >= Cardinality(Ip) + Cardinality(Goroutine)

VARIABLES
    free,     \* the shards whose channel holds its token
    clients,  \* the map: address to entry
    buckets,  \* the tokens each limiter has
    reqs,     \* the requests
    sweeper,  \* the cleanup goroutine
    clock,    \* time.Now()
    allowed,  \* history: requests let through, by address
    raced,    \* history: two map accesses have overlapped, one a write
    running   \* the process has not stopped

vars == <<free, clients, buckets, reqs, sweeper, clock, allowed, raced,
          running>>

-----------------------------------------------------------------------------
(* shardedMu.shard: Go's % keeps the sign of the dividend, and a negative  *)
(* remainder is negated.                                                   *)
GoRem(h, n) == IF h >= 0 THEN h % n ELSE -((-h) % n)

ShardIndex(h, n) ==
    LET idx == GoRem(h, n) IN IF idx < 0 THEN -idx ELSE idx

ShardOf(ip) == ShardIndex(Hash[ip], Shards)
AllShards   == 0 .. Shards - 1

Entry == [limiter : Limiter, lastSeen : Nat]

Labels   == {"idle", "lock", "read", "write", "unlock", "allow"}
Requests == [pc : Labels, ip : Ip, limiter : Limiter]
NoRequest == CHOOSE r \in Requests : r.pc = "idle"

(* The cleanup goroutine: waiting for its timer until due, taking shard    *)
(* next, evicting, or giving shard next back.                              *)
Sweeper ==
    [pc : {"wait", "lockAll", "evict", "unlockAll"},
     next : 0 .. Shards, due : Nat]

At(g, label) == reqs[g].pc = label
InSection(g) == reqs[g].pc \in {"read", "write", "unlock"}
ShardOfReq(g) == ShardOf(reqs[g].ip)

(* Two requests are in the map at once, and one writes it.                 *)
Overlap(rs) ==
    \E g, h \in Goroutine :
        /\ g # h
        /\ rs[g].pc = "write" /\ rs[h].pc \in {"read", "write"}

(* Limiters nothing refers to any more may be allocated again.             *)
Referenced ==
    {clients[ip].limiter : ip \in DOMAIN clients}
    \cup {reqs[g].limiter :
             g \in {x \in Goroutine : reqs[x].pc \in {"unlock", "allow"}}}

Init ==
    /\ free = AllShards
    /\ clients = [x \in {} |-> 0]
    /\ buckets = [l \in Limiter |-> Burst]
    /\ reqs = [g \in Goroutine |-> NoRequest]
    /\ sweeper = [pc |-> "wait", next |-> 0, due |-> SweepEvery]
    /\ clock = 0
    /\ allowed = [x \in Ip |-> 0]
    /\ raced = FALSE
    /\ running = TRUE

Goto(g, next) ==
    /\ reqs' = [reqs EXCEPT ![g] = next]
    /\ raced' = (raced \/ Overlap(reqs'))

-----------------------------------------------------------------------------
(* A request of address ip reaches the middleware.  Bound: once accesses   *)
(* have overlapped, the requests under way go on and no other arrives.     *)
Arrive(g, ip) ==
    /\ At(g, "idle")
    /\ allowed[ip] < MaxAllowed /\ ~raced
    /\ Goto(g, [reqs[g] EXCEPT !.pc = "lock", !.ip = ip])
    /\ UNCHANGED <<free, clients, buckets, sweeper, clock, allowed>>

(* Faulty variant: the lock is not waited for.                             *)
Lock_NotTaken(g) ==
    /\ At(g, "lock")
    /\ Goto(g, [reqs[g] EXCEPT !.pc = "read"])
    /\ UNCHANGED <<free, clients, buckets, sweeper, clock, allowed>>

(* getLimiter: mu.lock(ip).                                                *)
Lock(g) ==
    /\ At(g, "lock")
    /\ ShardOfReq(g) \in free
    /\ free' = free \ {ShardOfReq(g)}
    /\ Goto(g, [reqs[g] EXCEPT !.pc = "read"])
    /\ UNCHANGED <<clients, buckets, sweeper, clock, allowed>>

(* Faulty variant: lastSeen keeps the time of the first request.           *)
Read_KeepsLastSeen(g) ==
    /\ At(g, "read")
    /\ LET ip == reqs[g].ip
       IN  \/ /\ ip \in DOMAIN clients
              /\ Goto(g, [reqs[g] EXCEPT !.pc = "unlock",
                                        !.limiter = clients[ip].limiter])
           \/ /\ ip \notin DOMAIN clients \/ Overlap(reqs)
              /\ Goto(g, [reqs[g] EXCEPT !.pc = "write"])
    /\ UNCHANGED <<free, clients, buckets, sweeper, clock, allowed>>

(* e, ok := clients[ip], and e.lastSeen when it is there.                  *)
Read(g) ==
    /\ At(g, "read")
    /\ LET ip == reqs[g].ip
       IN  \/ /\ ip \in DOMAIN clients
              /\ clients' = [clients EXCEPT ![ip].lastSeen = clock]
              /\ Goto(g, [reqs[g] EXCEPT !.pc = "unlock",
                                        !.limiter = clients[ip].limiter])
           \/ /\ ip \notin DOMAIN clients \/ Overlap(reqs)
              /\ Goto(g, [reqs[g] EXCEPT !.pc = "write"])
              /\ UNCHANGED clients
    /\ UNCHANGED <<free, buckets, sweeper, clock, allowed>>

(* clients[ip] = e, with a new limiter whose bucket is full.               *)
Write(g) ==
    /\ At(g, "write")
    /\ LET ip == reqs[g].ip
           l  == CHOOSE x \in Limiter : x \notin Referenced
           e  == [limiter |-> l, lastSeen |-> clock]
       IN  /\ \/ clients' = [x \in DOMAIN clients \cup {ip} |->
                               IF x = ip THEN e ELSE clients[x]]
              \/ Overlap(reqs) /\ UNCHANGED clients
           /\ buckets' = [buckets EXCEPT ![l] = Burst]
           /\ Goto(g, [reqs[g] EXCEPT !.pc = "unlock", !.limiter = l])
    /\ UNCHANGED <<free, sweeper, clock, allowed>>

(* The deferred mu.unlock(ip).                                             *)
Unlock(g) ==
    /\ At(g, "unlock")
    /\ free' = free \cup {ShardOfReq(g)}
    /\ Goto(g, [reqs[g] EXCEPT !.pc = "allow"])
    /\ UNCHANGED <<clients, buckets, sweeper, clock, allowed>>

(* Faulty variant: a request is let through whatever the limiter says.     *)
Allow_Ignored(g) ==
    /\ At(g, "allow")
    /\ buckets' = [buckets EXCEPT ![reqs[g].limiter] = @ - 1]
    /\ allowed' = [allowed EXCEPT ![reqs[g].ip] = @ + 1]
    /\ Goto(g, NoRequest)
    /\ UNCHANGED <<free, clients, sweeper, clock>>

(* Limiter.Allow: take a token if there is one.                            *)
Allow(g) ==
    /\ At(g, "allow")
    /\ LET l == reqs[g].limiter
       IN  IF buckets[l] > 0
           THEN /\ buckets' = [buckets EXCEPT ![l] = @ - 1]
                /\ allowed' = [allowed EXCEPT ![reqs[g].ip] = @ + 1]
           ELSE UNCHANGED <<buckets, allowed>>
    /\ Goto(g, NoRequest)
    /\ UNCHANGED <<free, clients, sweeper, clock>>

-----------------------------------------------------------------------------
(* The cleanup goroutine.  Its timer has fired.                            *)
SweepStarts ==
    /\ sweeper.pc = "wait"
    /\ clock >= sweeper.due
    /\ sweeper' = [sweeper EXCEPT !.pc = "lockAll", !.next = 0]
    /\ UNCHANGED <<free, clients, buckets, reqs, clock, allowed, raced>>

(* lockAll, one shard.                                                     *)
SweepLocks ==
    /\ sweeper.pc = "lockAll"
    /\ \/ /\ sweeper.next \in free
          /\ free' = free \ {sweeper.next}
          /\ sweeper' = [sweeper EXCEPT !.next = @ + 1]
       \/ /\ sweeper.next = Shards
          /\ sweeper' = [sweeper EXCEPT !.pc = "evict"]
          /\ UNCHANGED free
    /\ UNCHANGED <<clients, buckets, reqs, clock, allowed, raced>>

(* Entries not used for IdleLimit are deleted.                             *)
Evict ==
    /\ sweeper.pc = "evict"
    /\ clients' = [x \in {y \in DOMAIN clients :
                            clock - clients[y].lastSeen <= IdleLimit}
                     |-> clients[x]]
    /\ sweeper' = [sweeper EXCEPT !.pc = "unlockAll", !.next = 0]
    /\ UNCHANGED <<free, buckets, reqs, clock, allowed, raced>>

(* Faulty variant: the last shard is not given back.                       *)
SweepUnlocks_KeepsLast ==
    /\ sweeper.pc = "unlockAll"
    /\ IF sweeper.next + 1 < Shards
       THEN /\ free' = free \cup {sweeper.next}
            /\ sweeper' = [sweeper EXCEPT !.next = @ + 1]
       ELSE /\ sweeper' = [pc |-> "wait", next |-> 0,
                           due |-> clock + SweepEvery]
            /\ UNCHANGED free
    /\ UNCHANGED <<clients, buckets, reqs, clock, allowed, raced>>

(* unlockAll, one shard, and then the timer is set again.                  *)
SweepUnlocks ==
    /\ sweeper.pc = "unlockAll"
    /\ IF sweeper.next < Shards
       THEN /\ free' = free \cup {sweeper.next}
            /\ sweeper' = [sweeper EXCEPT !.next = @ + 1]
       ELSE /\ sweeper' = [pc |-> "wait", next |-> 0,
                           due |-> clock + SweepEvery]
            /\ UNCHANGED free
    /\ UNCHANGED <<clients, buckets, reqs, clock, allowed, raced>>

(* Limiter.advance: what time fills into a bucket, up to its size.         *)
Filled(tokens) == IF tokens + Rate > Burst THEN Burst ELSE tokens + Rate

(* Time passes.  A tick is minutes long, so none passes between the two    *)
(* adjacent statements that fetch a limiter and ask it.                    *)
Tick ==
    /\ clock < MaxTime
    /\ \A g \in Goroutine : reqs[g].pc \notin {"unlock", "allow"}
    /\ clock' = clock + 1
    /\ buckets' = [l \in Limiter |-> Filled(buckets[l])]
    /\ UNCHANGED <<free, clients, reqs, sweeper, allowed, raced>>

(* fatal error: concurrent map writes, or concurrent map read and map      *)
(* write; no recover catches it.                                           *)
Fatal ==
    /\ Overlap(reqs)
    /\ running' = FALSE
    /\ UNCHANGED <<free, clients, buckets, reqs, sweeper, clock, allowed,
                   raced>>

-----------------------------------------------------------------------------
Serve(g) ==
    /\ running /\ UNCHANGED running
    /\ Lock(g) \/ Read(g) \/ Write(g) \/ Unlock(g) \/ Allow(g)

Sweep ==
    /\ running /\ UNCHANGED running
    /\ SweepStarts \/ SweepLocks \/ Evict \/ SweepUnlocks

Next ==
    \/ \E g \in Goroutine : Serve(g)
    \/ Sweep
    \/ /\ running /\ UNCHANGED running
       /\ \/ \E g \in Goroutine, ip \in Ip : Arrive(g, ip)
          \/ Tick
    \/ running /\ Fatal

Spec == Init /\ [][Next]_vars

(* The receivers that wait on a channel are served in the order they came, *)
(* so a goroutine whose channel gets its token again and again receives it *)
(* in the end.                                                             *)
FairSpec ==
    /\ Spec
    /\ \A g \in Goroutine : SF_vars(Serve(g))
    /\ SF_vars(Sweep)

-----------------------------------------------------------------------------
(* Every variable has its type.                                            *)
TypeOK ==
    /\ free \subseteq AllShards
    /\ DOMAIN clients \subseteq Ip
    /\ clients \in [DOMAIN clients -> Entry]
    /\ buckets \in [Limiter -> 0 .. Burst]
    /\ reqs \in [Goroutine -> Requests]
    /\ sweeper \in Sweeper
    /\ clock \in Nat
    /\ allowed \in [Ip -> Nat]
    /\ raced \in BOOLEAN /\ running \in BOOLEAN

(* The shards the cleanup goroutine holds.                                 *)
SweptShards ==
    CASE sweeper.pc = "wait"      -> {}
      [] sweeper.pc = "lockAll"   -> 0 .. sweeper.next - 1
      [] sweeper.pc = "evict"     -> AllShards
      [] sweeper.pc = "unlockAll" -> sweeper.next .. Shards - 1

(* Each shard's token is in its channel or with one goroutine: requests of *)
(* one shard exclude each other, and the eviction excludes them all        *)
(* (shardedMu).                                                            *)
OneHolder ==
    /\ \A g \in Goroutine : InSection(g) =>
          ShardOfReq(g) \notin free \cup SweptShards
    /\ free \cap SweptShards = {}
    /\ \A g, h \in Goroutine :
          /\ InSection(g) /\ InSection(h)
          /\ ShardOfReq(g) = ShardOfReq(h)
          => g = h

(* While no two map accesses have overlapped, the requests of an address   *)
(* that are past the map ask the limiter the map holds, so that all count  *)
(* against one bucket, evictions included (getLimiter).                    *)
OneLimiterPerIp ==
    ~raced =>
        \A g \in Goroutine :
            reqs[g].pc \in {"unlock", "allow"} =>
                /\ reqs[g].ip \in DOMAIN clients
                /\ clients[reqs[g].ip].limiter = reqs[g].limiter

(* While no two map accesses have overlapped, an address gets no more than *)
(* a bucket and what time fills into it: eviction forgets full buckets     *)
(* only (RateLimiter).                                                     *)
WithinBudget ==
    ~raced => \A ip \in Ip : allowed[ip] <= Burst + Rate * clock

(* Every request is let through or refused, unless the process has stopped *)
(* (getLimiter, lockAll and unlockAll; fairness of FairSpec).              *)
EveryRequestDecided ==
    \A g \in Goroutine : ~At(g, "idle") ~> (At(g, "idle") \/ ~running)

(* "shardedMu reduces contention on the rate limiter map by splitting the  *)
(* keyspace across 32 independent channels used as mutex tokens": while a  *)
(* request writes the map no other is in it.  The keyspace is split, the   *)
(* map is not.                                                             *)
MapWritesExcluded == ~Overlap(reqs)
=============================================================================
