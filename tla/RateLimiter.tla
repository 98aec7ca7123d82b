---------------------------- MODULE RateLimiter ----------------------------
(***************************************************************************)
(* The rate limiter of POST /log (Utils.hpp, class RateLimiter): a map of  *)
(* token buckets that come into being with the first request of a name,    *)
(* are refilled when somebody looks at them, and can be dropped.  Every    *)
(* operation holds limiter_mutex to its end.                               *)
(*                                                                         *)
(* Tokens are counted in parts of a token, Window parts each, and time in  *)
(* seconds; the rounding of the code's doubles is left out.                *)
(***************************************************************************)
EXTENDS Integers, Sequences

CONSTANTS ApiKey,           \* the API keys requests are sent with
          Anonymous,        \* the bucket of requests without one; no API key is
                            \* spelt like its name
          Everyone,         \* stands for the global bucket
          KeyCapacity, AnonymousCapacity, GlobalCapacity,
          Window,           \* the seconds in which a bucket fills up
          Stale,            \* the age at which cleanup drops a bucket
          MaxTime           \* bound: time stops here

ASSUME LimitAssumption ==
  /\ {KeyCapacity, AnonymousCapacity, GlobalCapacity, Window} \subseteq Nat \ {0}
  /\ Stale \in Nat /\ Stale >= Window
  /\ MaxTime \in Nat
  /\ Anonymous \notin ApiKey
  /\ Everyone \notin ApiKey \cup {Anonymous}

Name == ApiKey \cup {Anonymous}

Capacity == [m \in Name \cup {Everyone} |->
               CASE m = Everyone  -> GlobalCapacity
                 [] m = Anonymous -> AnonymousCapacity
                 [] OTHER         -> KeyCapacity]

VARIABLES now,
          api_key_buckets,  \* the buckets there are, by name
          global_bucket,
          served            \* history: the times at which each bucket gave a token

limiterVars == <<now, api_key_buckets, global_bucket, served>>

\* TokenBucket's constructor.
NewBucket(m) == [tokens |-> Capacity[m] * Window, last_refill |-> now]

\* Mutant: the time of the refill is not noted.
refill_unnoted(m, b) ==
  LET tokens == b.tokens + (now - b.last_refill) * Capacity[m]
  IN [tokens |-> IF tokens <= Capacity[m] * Window THEN tokens ELSE Capacity[m] * Window,
      last_refill |-> b.last_refill]

\* Mutant: every bucket gains as if it held one token.
refill_slowly(m, b) ==
  LET tokens == b.tokens + (now - b.last_refill)
  IN [tokens |-> IF tokens <= Capacity[m] * Window THEN tokens ELSE Capacity[m] * Window,
      last_refill |-> now]

\* refill: as many tokens as the time since the last one was worth.
refill(m, b) ==
  LET tokens == b.tokens + (now - b.last_refill) * Capacity[m]
  IN [tokens |-> IF tokens <= Capacity[m] * Window THEN tokens ELSE Capacity[m] * Window,
      last_refill |-> now]

\* consume, once it has refilled the bucket.
HasToken(b) == b.tokens >= Window

\* Mutant: a request that passes costs nothing.
Taken_free(b) == b

Taken(b) == [b EXCEPT !.tokens = @ - Window]

\* The bucket allow_request looks at: the name's own, or a new one.
BucketOf(name) ==
  IF name \in DOMAIN api_key_buckets THEN api_key_buckets[name] ELSE NewBucket(name)

SetBucket(name, b) ==
  api_key_buckets' = [k \in DOMAIN api_key_buckets \cup {name} |->
                        IF k = name THEN b ELSE api_key_buckets[k]]

Serve(M) ==
  served' = [m \in DOMAIN served |-> IF m \in M THEN Append(served[m], now) ELSE served[m]]

LimiterInit ==
  /\ now = 0
  /\ api_key_buckets = [k \in {} |-> 0]
  /\ global_bucket = NewBucket(Everyone)
  /\ served = [m \in DOMAIN Capacity |-> <<>>]

\* The global bucket is empty: no other bucket is looked at or created.
RefuseAll ==
  LET everyone == refill(Everyone, global_bucket)
  IN /\ ~HasToken(everyone)
     /\ global_bucket' = everyone
     /\ UNCHANGED <<now, api_key_buckets, served>>

\* The global token is spent before the name's own bucket is asked for one.
allow_request(name) ==
  LET everyone == refill(Everyone, global_bucket)
      own      == refill(name, BucketOf(name))
  IN /\ HasToken(everyone)
     /\ global_bucket' = Taken(everyone)
     /\ \/ HasToken(own)  /\ SetBucket(name, Taken(own)) /\ Serve({name, Everyone})
        \/ ~HasToken(own) /\ SetBucket(name, own)        /\ Serve({Everyone})
     /\ UNCHANGED now

\* A key without a bucket has all tokens, and gets no bucket by being asked.
get_remaining(name) ==
  /\ name \in DOMAIN api_key_buckets
  /\ SetBucket(name, refill(name, api_key_buckets[name]))
  /\ UNCHANGED <<now, global_bucket, served>>

cleanup ==
  LET kept == {k \in DOMAIN api_key_buckets :
                 now - api_key_buckets[k].last_refill <= Stale}
  IN /\ api_key_buckets' = [k \in kept |-> api_key_buckets[k]]
     /\ UNCHANGED <<now, global_bucket, served>>

Tick ==
  /\ now < MaxTime
  /\ now' = now + 1
  /\ UNCHANGED <<api_key_buckets, global_bucket, served>>

LimiterNext ==
  \/ Tick
  \/ RefuseAll
  \/ \E name \in Name : allow_request(name)
  \/ \E name \in ApiKey : get_remaining(name)
  \/ cleanup

LimiterSpec == LimiterInit /\ [][LimiterNext]_limiterVars

-----------------------------------------------------------------------------
(* Properties *)

\* How full each bucket is, once it has been refilled.
Level == [m \in Name \cup {Everyone} |->
            IF m = Everyone THEN refill(m, global_bucket).tokens
                            ELSE refill(m, BucketOf(m)).tokens]

\* That buckets are created, refilled and dropped only when somebody looks is
\* not to be seen from outside: the limiter decides as if every name there is
\* had had a meter all the time.
Limit == INSTANCE Throttle WITH level <- Level
ImplementsThrottle == Limit!Spec

\* In any stretch of time, however its requests are spread, a bucket lets no more pass than it can
\* hold and gains in that stretch (TokenBucket::consume and refill, allow_request).
RateKept == Limit!RateKept

\* The bucket of a caller that was not served for a whole window, the Retry-After of the 429 answer,
\* is full, whatever all the others did meanwhile and whether it was dropped (cleanup).  Whether the
\* caller is served depends on the others all the same: allow_request asks the bucket of all first.
Recovers == Limit!Recovers
=============================================================================
