------------------------------- MODULE Caches -------------------------------
(***************************************************************************)
(* The caches and the rate limit: lib/ttl-cache.ts, LRUCache of            *)
(* services/auth.service.ts, services/invoice-cache.service.ts and         *)
(* lib/redis-sliding-window.ts with middleware/redis-rate-limit.           *)
(*                                                                         *)
(* A map in a process is the sequence of its entries, the least recently   *)
(* used first.  No cache of the program gives TtlCache a Redis client, so  *)
(* only its map is modelled; the copies of invoices are in Redis and, once *)
(* more, in a map of each process.                                         *)
(***************************************************************************)
EXTENDS Integers, Sequences, FiniteSets

LOCAL INSTANCE SequencesExt
LOCAL INSTANCE FiniteSetsExt

Nothing == -1  \* values are numbers from 0

Without(map, key) == SelectSeq(map, LAMBDA e : e.key # key)
Found(map, key) == {i \in DOMAIN map : map[i].key = key}
IsLive(e, now) == now <= e.expires

\* The last n entries: evictToCapacity.
Newest(map, n) == SubSeq(map, IF Len(map) > n THEN Len(map) - n + 1 ELSE 1, Len(map))

\* get of both maps: what is found, and the map with the entry moved to its end,
\* or dropped if it has expired.
Get(map, key, now) ==
    IF Found(map, key) = {} THEN [value |-> Nothing, map |-> map]
    ELSE LET e == map[CHOOSE i \in Found(map, key) : TRUE]
         IN  IF IsLive(e, now) THEN [value |-> e.value, map |-> Append(Without(map, key), e)]
             ELSE [value |-> Nothing, map |-> Without(map, key)]

\* TtlCache.set: expired entries make room before live ones are evicted.
TtlSet(map, key, value, now, ttl, max) ==
    LET added == Append(Without(map, key), [key |-> key, value |-> value, expires |-> now + ttl])
    IN  Newest(SelectSeq(added, LAMBDA e : IsLive(e, now)), max)

\* LRUCache.set: nothing is kept without a lifetime, and the oldest goes,
\* whether or not another one has expired.
LruSet(map, key, value, now, ttl, max) ==
    IF ttl <= 0 THEN map
    ELSE LET kept == IF Found(map, key) = {} /\ Len(map) >= max THEN Tail(map) ELSE Without(map, key)
         IN  Append(kept, [key |-> key, value |-> value, expires |-> now + ttl])

-----------------------------------------------------------------------------
(* Copies of an invoice: the version of the row, the copy in Redis, the    *)
(* copies of the processes, and the requests, each of a host.              *)

Idle == [at |-> "idle"]
Host(p) == p[1]

Uncached(requests) ==
    [row |-> 0, redis |-> Nothing, memory |-> [h \in {Host(p) : p \in requests} |-> Nothing],
     request |-> [p \in requests |-> Idle]]

\* get: Redis, and if it has nothing or does not answer, the process's own copy.
Cached(s, h, redisUp) ==
    IF redisUp /\ s.redis # Nothing THEN s.redis ELSE s.memory[h]

\* A request that finds no copy reads the row ...
ReadInvoice(s, p, redisUp) ==
    IF s.request[p] # Idle \/ Cached(s, Host(p), redisUp) # Nothing THEN {}
    ELSE {[s EXCEPT !.request[p] = [at |-> "read", version |-> s.row]]}

\* ... and sets the copy in Redis, then the process's, whatever has happened meanwhile.
SetInvoice(s, p, redisUp) ==
    CASE s.request[p].at = "read" ->
            {[s EXCEPT !.redis = IF redisUp THEN s.request[p].version ELSE @, !.request[p].at = "shared"]}
      [] s.request[p].at = "shared" ->
            {[s EXCEPT !.memory[Host(p)] = s.request[p].version, !.request[p] = Idle]}
      [] OTHER -> {}

\* A request that writes the row, ...
WriteInvoice(s, p) ==
    IF s.request[p] # Idle THEN {} ELSE {[s EXCEPT !.row = @ + 1, !.request[p] = [at |-> "written"]]}

\* ... and drops its process's copy, then the one in Redis.
DropInvoice(s, p, redisUp) ==
    CASE s.request[p].at = "written" ->
            {[s EXCEPT !.memory[Host(p)] = Nothing, !.request[p].at = "dropped"]}
      [] s.request[p].at = "dropped" ->
            {[s EXCEPT !.redis = IF redisUp THEN Nothing ELSE @, !.request[p] = Idle]}
      [] OTHER -> {}

-----------------------------------------------------------------------------
(* The sliding window: the times of the requests that were let through.    *)

Recent(times, now, window) == SelectSeq(times, LAMBDA t : t > now - window)

\* The script of checkSlidingWindow.
Request(times, now, window, max) ==
    LET recent == Recent(times, now, window)
    IN  IF Len(recent) >= max
        THEN [allowed |-> FALSE, times |-> recent, retry |-> Max({0, window - (now - recent[1])})]
        ELSE [allowed |-> TRUE, times |-> Append(recent, now), retry |-> 0]

\* Retry-After, in seconds of so many units of the clock.
RetryAfter(retry, second) == Max({1, (retry + second - 1) \div second})

\* createRedisRateLimiter: the address's window first, and whoever passes it has
\* used a place in it, also if the wallet's refuses; without Redis all pass.
Limited(ip, wallet, now, window, ipMax, walletMax, redisUp) ==
    LET first == Request(ip, now, window, ipMax)
        second == Request(wallet, now, window, walletMax)
    IN  IF ~redisUp THEN [allowed |-> TRUE, ip |-> ip, wallet |-> wallet]
        ELSE IF ~first.allowed THEN [allowed |-> FALSE, ip |-> first.times, wallet |-> wallet]
        ELSE [allowed |-> second.allowed, ip |-> first.times, wallet |-> second.times]
=============================================================================
