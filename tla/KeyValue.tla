------------------------------ MODULE KeyValue ------------------------------
(***************************************************************************)
(* The key-value store that sessions live in (kv.py): Redis, or a          *)
(* dictionary in memory, behind one object per process.  Every service     *)
(* object asks for that object once, with get_kv, and keeps it             *)
(* (RedisSessionService._kv, VisionSessionService._kv, ...).  When Redis   *)
(* drops a connection the object turns to a dictionary for good.           *)
(*                                                                         *)
(* A store maps a key to the service that wrote it last and whether the    *)
(* entry expires.  Left out: the values.                                   *)
(***************************************************************************)
EXTENDS Naturals, FiniteSets

CONSTANTS
  Services,     \* objects that keep a store
  Keys,
  MaxStarts     \* bound on the starts of the process

NoService == "no service"

ASSUME KeyValueAssumption ==
  /\ MaxStarts \in Nat \ {0}
  /\ IsFiniteSet(Services) /\ NoService \notin Services

VARIABLES
  configured,   \* redis_url names a Redis
  redis,        \* what Redis holds
  memory,       \* what each dictionary holds; number n belongs to store n
  made,         \* stores built by this process
  down,         \* wrappers that gave up on Redis
  singleton,    \* _kv_singleton
  initLock,     \* holder of _kv_init_lock
  held,         \* the store each service keeps
  doing,        \* where each service is
  request,      \* its operation under way
  starts        \* starts of the process so far

stores == <<redis, memory, down>>
setup  == <<made, singleton, initLock, held>>
kvVars == <<configured, stores, setup, doing, request, starts>>

NoStore   == [type |-> "none", n |-> 0]
NoRequest == [op |-> "none"]
NoEntry   == [by |-> NoService, expires |-> FALSE]
Nothing   == [k \in Keys |-> NoEntry]
Numbers   == 1..Cardinality(Services)

Handles  == [type : {"wrapper", "memory"}, n : Numbers]
Requests == [op : {"set", "keep", "delete", "hset", "expire", "get"}, key : Keys]

KvInit ==
  /\ configured \in BOOLEAN
  /\ redis = Nothing
  /\ memory = [n \in Numbers |-> Nothing]
  /\ made = 0 /\ down = {} /\ singleton = NoStore /\ initLock = NoService
  /\ held = [s \in Services |-> NoStore]
  /\ doing = [s \in Services |-> "off"]
  /\ request = [s \in Services |-> NoRequest]
  /\ starts = 1

Now(s, l) == doing' = [doing EXCEPT ![s] = l]

-----------------------------------------------------------------------------
(* get_kv                                                                  *)

Hold(s, h) ==
  /\ held' = [held EXCEPT ![s] = h]
  /\ Now(s, "ready")

GetKv(s) ==
  /\ doing[s] = "off"
  /\ IF singleton # NoStore THEN Hold(s, singleton) ELSE Now(s, "waiting") /\ UNCHANGED held
  /\ UNCHANGED <<configured, stores, made, singleton, initLock, request, starts>>

TakeInitLock_NoRecheck(s) ==
  /\ doing[s] = "waiting" /\ initLock = NoService
  /\ initLock' = s
  /\ Now(s, "connecting")
  /\ UNCHANGED <<configured, stores, made, singleton, held, request, starts>>

(* Several may have waited: the second one finds the store built.          *)
TakeInitLock(s) ==
  /\ doing[s] = "waiting" /\ initLock = NoService
  /\ IF singleton # NoStore
       THEN Hold(s, singleton) /\ UNCHANGED initLock
       ELSE initLock' = s /\ Now(s, "connecting") /\ UNCHANGED held
  /\ UNCHANGED <<configured, stores, made, singleton, request, starts>>

(* The ping may fail, or not come back in three seconds.                   *)
Connect(s) ==
  /\ doing[s] = "connecting"
  /\ \E type \in IF configured THEN {"wrapper", "memory"} ELSE {"memory"} :
       LET store == [type |-> type, n |-> made + 1] IN
       singleton' = store /\ Hold(s, store)
  /\ made' = made + 1
  /\ initLock' = NoService
  /\ UNCHANGED <<configured, stores, request, starts>>

-----------------------------------------------------------------------------
(* The operations.  hset keeps the deadline of the entry it changes, and   *)
(* gives a new one none; expire does nothing for a key that is not there.  *)
Applied(store, s, r) ==
  LET old == store[r.key]
      new == CASE r.op = "set"    -> [by |-> s, expires |-> TRUE]
               [] r.op = "keep"   -> [by |-> s, expires |-> FALSE]
               [] r.op = "delete" -> NoEntry
               [] r.op = "hset"   -> [old EXCEPT !.by = s]
               [] r.op = "expire" -> IF old = NoEntry THEN old ELSE [old EXCEPT !.expires = TRUE]
               [] r.op = "get"    -> old
  IN  [store EXCEPT ![r.key] = new]

InMemory(h) == h.type = "memory" \/ h.n \in down

(* A dictionary answers at once; Redis is awaited.                         *)
Call(s) ==
  /\ doing[s] = "ready"
  /\ \E r \in Requests :
       IF InMemory(held[s])
         THEN /\ memory' = [memory EXCEPT ![held[s].n] = Applied(@, s, r)]
              /\ UNCHANGED <<doing, request>>
         ELSE /\ Now(s, "sent") /\ request' = [request EXCEPT ![s] = r]
              /\ UNCHANGED memory
  /\ UNCHANGED <<configured, redis, down, setup, starts>>

Done(s) ==
  /\ Now(s, "ready")
  /\ request' = [request EXCEPT ![s] = NoRequest]

(* The answer, or an error that is not about the connection.               *)
Answer(s) ==
  /\ doing[s] = "sent"
  /\ redis' = Applied(redis, s, request[s]) \/ UNCHANGED redis
  /\ Done(s)
  /\ UNCHANGED <<configured, memory, down, setup, starts>>

(* _fail *)
GiveUp(n) ==
  /\ down' = down \cup {n}
  /\ singleton' = IF n \in down THEN singleton ELSE [type |-> "memory", n |-> n]

(* The connection broke, or no answer came in two seconds: Redis may have  *)
(* done it all the same.                                                   *)
Broken(s) ==
  LET n == held[s].n IN
  /\ doing[s] = "sent"
  /\ redis' = Applied(redis, s, request[s]) \/ UNCHANGED redis
  /\ GiveUp(n)
  /\ memory' = [memory EXCEPT ![n] = Applied(@, s, request[s])]
  /\ Done(s)
  /\ UNCHANGED <<configured, made, initLock, held, starts>>

(* A deadline passes; a dictionary finds out when the key is next used.    *)
Expire(k) ==
  /\ \/ /\ redis[k].expires /\ redis' = [redis EXCEPT ![k] = NoEntry]
        /\ UNCHANGED memory
     \/ /\ \E n \in Numbers : /\ memory[n][k].expires
                              /\ memory' = [memory EXCEPT ![n][k] = NoEntry]
        /\ UNCHANGED redis
  /\ UNCHANGED <<configured, down, setup, doing, request, starts>>

Restart ==
  /\ starts < MaxStarts
  /\ starts' = starts + 1
  /\ memory' = [n \in Numbers |-> Nothing]
  /\ made' = 0 /\ down' = {} /\ singleton' = NoStore /\ initLock' = NoService
  /\ held' = [s \in Services |-> NoStore]
  /\ doing' = [s \in Services |-> "off"]
  /\ request' = [s \in Services |-> NoRequest]
  /\ UNCHANGED <<configured, redis>>

KvNext ==
  \/ \E s \in Services : GetKv(s) \/ TakeInitLock(s) \/ Connect(s)
  \/ \E s \in Services : Call(s) \/ Answer(s) \/ Broken(s)
  \/ \E k \in Keys : Expire(k)
  \/ Restart

KvSpec == KvInit /\ [][KvNext]_kvVars

-----------------------------------------------------------------------------
(* Where the next operation of a service goes.                             *)
Reaches(h) == IF InMemory(h) THEN <<"memory", h.n>> ELSE <<"redis">>

(* All services use one store: whatever order they asked for it in, while  *)
(* it was being built, before the connection broke or after, none of them  *)
(* reads from Redis what another writes to a dictionary, and no two have   *)
(* dictionaries of their own.  The next to ask gets the same store.        *)
OneStore ==
  \A s, t \in Services :
    /\ held[s] # NoStore /\ held[t] # NoStore => Reaches(held[s]) = Reaches(held[t])
    /\ held[s] # NoStore /\ singleton # NoStore => Reaches(held[s]) = Reaches(singleton)
=============================================================================
