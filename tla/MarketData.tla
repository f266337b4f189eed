----------------------------- MODULE MarketData -----------------------------
(***************************************************************************)
(* The exchange source: callers ask for the ticker or the candles of a     *)
(* symbol, the Redis cache answers what is young enough, and what it does  *)
(* not have is fetched from the exchange with retries and cached.          *)
(*                                                                         *)
(* Models src/src/data/ccxt_source.py and src/src/data/cache.py.  External: *)
(* the exchange, whose price moves with time (a value is the time it was   *)
(* read), and Redis, which can fail and forgets an entry after its TTL.    *)
(***************************************************************************)
EXTENDS Integers

CONSTANTS Askers,     \* tasks that ask the source
          Keys,       \* cache keys: kind and symbol
          Ttl,        \* seconds, or coarser, that an entry lives
          MaxTries,   \* max_retries
          Flight,     \* how long a call takes at most: the exchange's timeout, tries and pauses
          MaxTime     \* bound: how far time goes

ASSUME SourceAssumption ==
  Ttl \in Nat \ {0} /\ MaxTries \in Nat \ {0} /\ Flight \in Nat /\ MaxTime \in Nat \ {0}

VARIABLES time,      \* the clock
          cache,     \* key -> the value cached and when it expires
          redis,     \* the cache's connection: none, connected or lost
          exchange,  \* whether the source holds an open exchange
          asked      \* asker -> its call

sourceVars == <<time, cache, redis, exchange, asked>>

NoEntry == [value |-> 0, until |-> 0]
Fresh(k) == cache[k].until > time

Rest == [at |-> "rest", key |-> 0, tries |-> 0, read |-> 0, since |-> 0, from |-> "none"]

SourceInit ==
  /\ time = 1 /\ exchange = FALSE /\ redis = "none"
  /\ cache = [k \in Keys |-> NoEntry]
  /\ asked = [a \in Askers |-> Rest]

(* A lost connection is never opened again: connect() only acts on none. *)
StartSource ==
  /\ redis = "none"
  /\ redis' \in {"connected", "lost"}
  /\ UNCHANGED <<time, cache, exchange, asked>>

StopSource ==
  /\ exchange \/ redis = "connected"
  /\ redis' = IF redis = "none" THEN "none" ELSE "lost"
  /\ exchange' = FALSE
  /\ UNCHANGED <<time, cache, asked>>

(* A call of get_ticker or get_ohlcv looks into the cache first.  A failed *)
(* look is a miss; the cached calls and the others differ in that alone.   *)
AskFor(a, k) ==
  /\ asked[a].at = "rest"
  /\ \/ /\ redis = "connected" /\ Fresh(k)
        /\ asked' = [asked EXCEPT ![a] = [Rest EXCEPT !.at = "done", !.key = k, !.since = time,
                                          !.read = cache[k].value, !.from = "cache"]]
        /\ UNCHANGED exchange
     \/ /\ asked' = [asked EXCEPT ![a] = [Rest EXCEPT !.at = "fetch", !.key = k, !.since = time]]
        /\ exchange' = TRUE
  /\ UNCHANGED <<time, cache, redis>>

(* The exchange reads the value; its answer may take its time. *)
Read(a) ==
  /\ asked[a].at = "fetch"
  /\ asked' = [asked EXCEPT ![a].at = "answer", ![a].read = time]
  /\ UNCHANGED <<time, cache, redis, exchange>>

MoreTries(a) == asked[a].tries + 1 < MaxTries

(* A network or exchange error, also one after the value was read; the     *)
(* last try raises a RuntimeError.                                         *)
FetchFails(a) ==
  /\ asked[a].at \in {"fetch", "answer"}
  /\ asked' = [asked EXCEPT ![a] = IF MoreTries(a)
                                   THEN [@ EXCEPT !.at = "fetch", !.read = 0,
                                                  !.tries = asked[a].tries + 1]
                                   ELSE [@ EXCEPT !.at = "raised"]]
  /\ UNCHANGED <<time, cache, redis, exchange>>

(* Any other exception, and a cancelled caller, end the call at once. *)
FetchRaises(a) ==
  /\ asked[a].at \in {"fetch", "answer", "store"}
  /\ asked' = [asked EXCEPT ![a].at = "raised"]
  /\ UNCHANGED <<time, cache, redis, exchange>>

Fetched(a) ==
  /\ asked[a].at = "answer"
  /\ asked' = [asked EXCEPT ![a].at = "store"]
  /\ UNCHANGED <<time, cache, redis, exchange>>

(* Fault: an entry that does not expire. *)
CacheEntryForever(a) == [value |-> asked[a].read, until |-> MaxTime + 1]
CacheEntry(a) == [value |-> asked[a].read, until |-> time + Ttl]

(* The answer goes into the cache, when that works, and to the caller. *)
Store(a) ==
  /\ asked[a].at = "store"
  /\ \/ redis = "connected" /\ cache' = [cache EXCEPT ![asked[a].key] = CacheEntry(a)]
     \/ UNCHANGED cache
  /\ asked' = [asked EXCEPT ![a].at = "done", ![a].from = "exchange"]
  /\ UNCHANGED <<time, redis, exchange>>

CallerGoesOn(a) ==
  /\ asked[a].at \in {"done", "raised"}
  /\ asked' = [asked EXCEPT ![a] = Rest]
  /\ UNCHANGED <<time, cache, redis, exchange>>

Busy(a) == asked[a].at \in {"fetch", "answer", "store"}

Passing == /\ time < MaxTime
           /\ \A a \in Askers : Busy(a) => time < asked[a].since + Flight
           /\ time' = time + 1
           /\ UNCHANGED <<cache, redis, exchange, asked>>

SourceNext ==
  \/ StartSource \/ StopSource \/ Passing
  \/ \E a \in Askers : \/ \E k \in Keys : AskFor(a, k)
                       \/ Read(a) \/ FetchFails(a) \/ FetchRaises(a)
                       \/ Fetched(a) \/ Store(a) \/ CallerGoesOn(a)

SourceSpec == SourceInit /\ [][SourceNext]_sourceVars

(* The exchange answers or fails within its timeout. *)
SourceFairSpec ==
  SourceSpec /\ \A a \in Askers :
    WF_sourceVars(Read(a) \/ FetchFails(a) \/ Fetched(a) \/ Store(a))

------------------------------------------------------------------------------
SourceTypeOK ==
  /\ time \in 1..MaxTime /\ exchange \in BOOLEAN /\ redis \in {"none", "connected", "lost"}
  /\ cache \in [Keys -> [value : 0..MaxTime, until : 0..(MaxTime + Ttl)]]
  /\ \A a \in Askers :
       /\ asked[a].at \in {"rest", "fetch", "answer", "store", "done", "raised"}
       /\ asked[a].tries \in 0..(MaxTries - 1) /\ asked[a].read \in 0..MaxTime

(* A price is never older than the cache's time to live and the longest    *)
(* fetch together, whichever caller fetched it and whichever of several    *)
(* overlapping fetches was stored last.                                    *)
FreshEnough ==
  \A a \in Askers :
    asked[a].at = "done" => asked[a].since - asked[a].read < Ttl + Flight

(* Every fetch is answered or gives up. *)
FetchEnds == \A a \in Askers : asked[a].at = "fetch" ~> asked[a].at \in {"done", "raised"}
==============================================================================
