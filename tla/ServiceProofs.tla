----------------------------- MODULE ServiceProofs -----------------------------
(***************************************************************************)
(* Proofs about Service: the safety invariants of its run, for any number  *)
(* of calls, requests and sessions and any retries.  The connections, the  *)
(* breaker and the requests each have their part of the invariant; what    *)
(* MongoDB holds ties the requests together.                               *)
(***************************************************************************)
EXTENDS Service, TLAPS

USE ConnectionAssumption

-----------------------------------------------------------------------------
(* The connections *)

Statuses == {"connecting", "connect", "ready", "waiting", "end"}
Waits == {"ping", "mongo", "indexes"}
Pcs == {"idle", "redis", "refused", "fire", "mongo"} \cup Ended
Busy == {"redis", "refused", "fire", "mongo"}
Gets == {"get", "batchGet"}

LinksTyped ==
  /\ up \subseteq Servers /\ outages \in 0..MaxOutages
  /\ redis \in [status : Statuses, tries : 0..(MaxRetries + 1), connected : BOOLEAN]
  /\ mongo \in [client : {"new", "open", "closed"}, connected : BOOLEAN]
  /\ hybrid \in [connected : BOOLEAN, manager : Calls \cup {None}, running : SUBSET Calls]
  /\ opener \in [Calls -> {"idle", "closing"} \cup Waits \cup Ended]

ClientInv ==
  /\ redis.connected => redis.status \in {"connect", "ready"}
  /\ redis.status # "end" => redis.tries <= MaxRetries

Active(c) == opener[c] \in {"closing"} \cup Waits

TurnsInv ==
  /\ \A c, d \in Calls : Active(c) /\ Active(d) => c = d
  /\ hybrid.running \subseteq {hybrid.manager}
  /\ hybrid.running # {} => hybrid.connected
  /\ \A c \in Calls : opener[c] \in Waits => ~hybrid.connected
  /\ \A c \in Calls : opener[c] = "closing" => hybrid.running = {}

LinksInv ==
  LinksTyped /\ ClientInv /\ ("overlap" \notin setting.ops => TurnsInv)

LEMMA LinksStart == Init => LinksInv
<1> SUFFICES ASSUME Init PROVE LinksInv
  OBVIOUS
<1>1. up \subseteq Servers /\ outages \in 0..MaxOutages
  BY DEF Init, ServerInit, Servers
<1>2. redis \in {NewClient, ReadyClient}
  BY DEF Init
<1>3. mongo \in [client : {"new", "open", "closed"}, connected : BOOLEAN]
  <2>1. mongo = NewMongo \/ mongo = [client |-> "open", connected |-> TRUE]
    BY DEF Init
  <2>2. /\ NewMongo \in [client : {"new", "open", "closed"}, connected : BOOLEAN]
        /\ [client |-> "open", connected |-> TRUE]
             \in [client : {"new", "open", "closed"}, connected : BOOLEAN]
    BY DEF NewMongo
  <2> QED BY <2>1, <2>2
<1>4. /\ hybrid \in [connected : BOOLEAN, manager : Calls \cup {None}, running : SUBSET Calls]
      /\ hybrid.running = {}
  <2>1. hybrid = NewHybrid \/ hybrid = [NewHybrid EXCEPT !.connected = TRUE]
    BY DEF Init
  <2>2. ASSUME NEW on \in BOOLEAN, hybrid = [connected |-> on, manager |-> None, running |-> {}]
        PROVE  /\ hybrid \in [connected : BOOLEAN, manager : Calls \cup {None},
                              running : SUBSET Calls]
               /\ hybrid.running = {}
    BY <2>2
  <2>3. \E on \in BOOLEAN : hybrid = [connected |-> on, manager |-> None, running |-> {}]
    BY <2>1 DEF NewHybrid
  <2> QED BY <2>2, <2>3
<1>5. /\ opener \in [Calls -> {"idle", "closing"} \cup Waits \cup Ended]
      /\ \A c \in Calls : opener[c] = "idle"
  BY DEF Init
<1>6. /\ redis \in [status : Statuses, tries : 0..(MaxRetries + 1), connected : BOOLEAN]
      /\ ClientInv
  <2>1. 0 \in 0..(MaxRetries + 1) /\ 0 <= MaxRetries
    OBVIOUS
  <2>2. ASSUME NEW r \in {NewClient, ReadyClient}
        PROVE  /\ r \in [status : Statuses, tries : 0..(MaxRetries + 1), connected : BOOLEAN]
               /\ r.connected => r.status = "ready"
               /\ r.tries = 0
    <3>1. CASE r = NewClient
      BY <2>1, <3>1 DEF NewClient, Statuses
    <3>2. CASE r = ReadyClient
      BY <2>1, <3>2 DEF ReadyClient, Statuses
    <3> QED BY <3>1, <3>2
  <2> QED BY <1>2, <2>1, <2>2 DEF ClientInv
<1>7. TurnsInv
  BY <1>4, <1>5 DEF TurnsInv, Active, Waits
<1> QED BY <1>1, <1>3, <1>4, <1>5, <1>6, <1>7 DEF LinksInv, LinksTyped

LEMMA ServerKeepsLinks ==
  ASSUME LinksInv, Server
  PROVE  LinksInv'
<1>1. up' \subseteq Servers /\ outages' \in 0..MaxOutages
  BY DEF LinksInv, LinksTyped, Server, ServerFails, ServerReturns
<1> QED BY <1>1 DEF LinksInv, LinksTyped, ClientInv, TurnsInv, Active, Server

LEMMA ClientKeepsLinks ==
  ASSUME LinksInv, Client
  PROVE  LinksInv'
<1>1. redis \in [status : Statuses, tries : 0..(MaxRetries + 1), connected : BOOLEAN]
      /\ ClientInv
  BY DEF LinksInv, LinksTyped
<1>2. /\ redis' \in [status : Statuses, tries : 0..(MaxRetries + 1), connected : BOOLEAN]
      /\ ClientInv'
  <2>1. CASE ClientReady
    BY <1>1, <2>1 DEF ClientReady, ReadyClient, Statuses, ClientInv
  <2>2. CASE ClientClosed
    <3>1. redis.tries \in 0..MaxRetries
      BY <1>1, <2>2 DEF ClientClosed, ClientInv
    <3> QED BY <2>2, <3>1 DEF ClientClosed, AfterClose, Statuses, ClientInv
  <2>3. CASE ClientRetries
    BY <1>1, <2>3 DEF ClientRetries, Statuses, ClientInv
  <2>4. CASE ClientConnects
    BY <1>1, <2>4 DEF ClientConnects, Statuses, ClientInv
  <2> QED BY <2>1, <2>2, <2>3, <2>4 DEF Client, ClientStep
<1> QED BY <1>2 DEF LinksInv, LinksTyped, TurnsInv, Active, Client

\* Quitting keeps the client typed, and its flag with it.
LEMMA QuitKeepsClient ==
  ASSUME LinksInv, redis' = Quit(redis)
  PROVE  /\ redis' \in [status : Statuses, tries : 0..(MaxRetries + 1), connected : BOOLEAN]
         /\ ClientInv'
BY DEF LinksInv, LinksTyped, ClientInv, Quit, Statuses

\* A call that gets on with connect leaves the Redis client as it is.
LEMMA OpeningKeepsClient ==
  ASSUME LinksInv, NEW c \in Calls, Opening(c)
  PROVE  /\ redis' \in [status : Statuses, tries : 0..(MaxRetries + 1), connected : BOOLEAN]
         /\ ClientInv'
<1>1. redis' = redis \/ (Answers /\ redis' = [redis EXCEPT !.connected = TRUE])
  <2>1. CASE Ping(c)
    BY <2>1 DEF Ping
  <2>2. CASE ConnectMongo(c) \/ Opened(c) \/ Closed(c)
    BY <2>2 DEF ConnectMongo, Opened, Closed
  <2> QED BY <2>1, <2>2 DEF Opening
<1> QED BY <1>1 DEF LinksInv, LinksTyped, ClientInv, Answers

LEMMA OpeningKeepsTypes ==
  ASSUME LinksInv, NEW c \in Calls, Resolve(c)
  PROVE  LinksTyped'
<1>1. /\ mongo \in [client : {"new", "open", "closed"}, connected : BOOLEAN]
      /\ hybrid \in [connected : BOOLEAN, manager : Calls \cup {None}, running : SUBSET Calls]
      /\ opener \in [Calls -> {"idle", "closing"} \cup Waits \cup Ended]
  BY DEF LinksInv, LinksTyped
<1>2. up' \subseteq Servers /\ outages' \in 0..MaxOutages
  BY DEF LinksInv, LinksTyped, Resolve
<1>3. mongo' \in [client : {"new", "open", "closed"}, connected : BOOLEAN]
  BY <1>1 DEF Resolve, Opening, Ping, ConnectMongo, Opened, Closed
<1>4. opener' \in [Calls -> {"idle", "closing"} \cup Waits \cup Ended]
  BY <1>1 DEF Resolve, Opening, Ping, ConnectMongo, Opened, Closed, Opens, Waits, Ended
<1>5. hybrid' \in [connected : BOOLEAN, manager : Calls \cup {None}, running : SUBSET Calls]
  <2>1. CASE Ping(c) \/ ConnectMongo(c)
    BY <1>1, <2>1 DEF Ping, ConnectMongo
  <2>2. CASE Opened(c)
    BY <1>1, <2>2 DEF Opened
  <2>3. CASE Closed(c)
    BY <1>1, <2>3 DEF Closed
  <2> QED BY <2>1, <2>2, <2>3 DEF Resolve, Opening
<1> QED
  BY <1>2, <1>3, <1>4, <1>5, OpeningKeepsClient DEF LinksTyped, Resolve

LEMMA OpeningKeepsTurns ==
  ASSUME LinksInv, TurnsInv, NEW c \in Calls, Resolve(c)
  PROVE  TurnsInv'
<1>1. /\ hybrid \in [connected : BOOLEAN, manager : Calls \cup {None}, running : SUBSET Calls]
      /\ opener \in [Calls -> {"idle", "closing"} \cup Waits \cup Ended]
  BY DEF LinksInv, LinksTyped
<1>2. opener[c] \in {"closing"} \cup Waits
  BY DEF Resolve, Opening, Ping, ConnectMongo, Opened, MongoOpened, Closed, Waits
<1>3. \A d \in Calls \ {c} : opener[d] \in {"idle"} \cup Ended
  BY <1>1, <1>2 DEF TurnsInv, Active
<1>4. CASE Ping(c) \/ ConnectMongo(c)
  <2>1. /\ UNCHANGED hybrid /\ opener[c] \in Waits
        /\ opener'[c] \in Waits \cup Ended
        /\ \A d \in Calls \ {c} : opener'[d] = opener[d]
    BY <1>1, <1>4 DEF Ping, ConnectMongo, Opens, Waits, Ended
  <2> QED BY <1>3, <2>1 DEF TurnsInv, Active, Waits, Ended
<1>5. CASE Opened(c)
  <2>1. /\ opener[c] \in Waits
        /\ opener'[c] = "done"
        /\ \A d \in Calls \ {c} : opener'[d] = opener[d]
    BY <1>1, <1>5 DEF Opened, MongoOpened, Opens, Waits
  <2>2. ~hybrid.connected /\ hybrid.running = {}
    BY <1>1, <2>1 DEF TurnsInv
  <2>3. hybrid'.connected /\ hybrid'.running \subseteq {hybrid'.manager}
    BY <1>1, <1>5, <2>2 DEF Opened
  <2> QED BY <1>3, <2>1, <2>3 DEF TurnsInv, Active, Waits, Ended
<1>6. CASE Closed(c)
  <2>1. /\ opener[c] = "closing"
        /\ opener'[c] = "done"
        /\ \A d \in Calls \ {c} : opener'[d] = opener[d]
    BY <1>1, <1>6 DEF Closed, Opens
  <2>2. hybrid.running = {}
    BY <2>1 DEF TurnsInv
  <2>3. hybrid'.running = {}
    BY <1>1, <1>6, <2>2 DEF Closed
  <2> QED BY <1>3, <2>1, <2>3 DEF TurnsInv, Active, Waits, Ended
<1> QED BY <1>4, <1>5, <1>6 DEF Resolve, Opening

LEMMA OpenKeepsTypes ==
  ASSUME LinksInv, NEW c \in Calls, Open(c)
  PROVE  LinksTyped' /\ ClientInv'
<1>1. /\ mongo \in [client : {"new", "open", "closed"}, connected : BOOLEAN]
      /\ hybrid \in [connected : BOOLEAN, manager : Calls \cup {None}, running : SUBSET Calls]
      /\ opener \in [Calls -> {"idle", "closing"} \cup Waits \cup Ended]
  BY DEF LinksInv, LinksTyped
<1>2. up' \subseteq Servers /\ outages' \in 0..MaxOutages
  BY DEF LinksInv, LinksTyped, Open
<1>3. mongo' \in [client : {"new", "open", "closed"}, connected : BOOLEAN]
  <2>1. UNCHANGED mongo \/ \E on \in {FALSE, mongo.connected} : mongo' = ClosedMongo(on)
    BY DEF Open, Connect, Disconnect
  <2>2. ASSUME NEW on \in BOOLEAN
        PROVE  ClosedMongo(on) \in [client : {"new", "open", "closed"}, connected : BOOLEAN]
    BY <1>1 DEF ClosedMongo
  <2>3. mongo.connected \in BOOLEAN
    BY <1>1
  <2> QED BY <1>1, <2>1, <2>2, <2>3
<1>4. opener' \in [Calls -> {"idle", "closing"} \cup Waits \cup Ended]
  BY <1>1 DEF Open, Connect, Disconnect, Opens, Waits, Ended
<1>5. hybrid' \in [connected : BOOLEAN, manager : Calls \cup {None}, running : SUBSET Calls]
  <2>1. UNCHANGED hybrid \/ hybrid' = [hybrid EXCEPT !.running = @ \ {hybrid.manager}]
    BY DEF Open, Connect, Disconnect
  <2> QED BY <1>1, <2>1
<1>6. /\ redis' \in [status : Statuses, tries : 0..(MaxRetries + 1), connected : BOOLEAN]
      /\ ClientInv'
  <2>1. CASE redis' = Quit(redis)
    BY <2>1, QuitKeepsClient
  <2>2. CASE redis' = redis
    BY <2>2 DEF LinksInv, LinksTyped, ClientInv
  <2> QED BY <2>1, <2>2 DEF Open, Connect, Disconnect
<1> QED BY <1>2, <1>3, <1>4, <1>5, <1>6 DEF LinksTyped

LEMMA OpenKeepsTurns ==
  ASSUME LinksInv, TurnsInv, Alone, NEW c \in Calls, Open(c)
  PROVE  TurnsInv'
<1>1. /\ hybrid \in [connected : BOOLEAN, manager : Calls \cup {None}, running : SUBSET Calls]
      /\ opener \in [Calls -> {"idle", "closing"} \cup Waits \cup Ended]
  BY DEF LinksInv, LinksTyped
<1>2. \A d \in Calls \ {c} : opener'[d] = opener[d] /\ opener[d] \in {"idle"} \cup Ended
  BY <1>1 DEF Alone, Open, Connect, Disconnect, Opens
<1>3. CASE Connect(c)
  <2>1. UNCHANGED hybrid
    BY <1>3 DEF Connect
  <2>2. opener'[c] \in Waits \cup Ended /\ (opener'[c] \in Waits => ~hybrid.connected)
    BY <1>1, <1>3 DEF Connect, Opens, Waits, Ended
  <2> QED BY <1>2, <2>1, <2>2 DEF TurnsInv, Active, Waits, Ended
<1>4. CASE Disconnect(c) /\ ~hybrid.connected
  <2>1. UNCHANGED hybrid /\ opener'[c] = "done"
    BY <1>1, <1>4 DEF Disconnect, Opens
  <2> QED BY <1>2, <2>1 DEF TurnsInv, Active, Waits, Ended
<1>5. CASE Disconnect(c) /\ hybrid.connected
  <2>1. opener'[c] = "closing"
    BY <1>1, <1>5 DEF Disconnect, Opens
  <2>2. hybrid' = [hybrid EXCEPT !.running = @ \ {hybrid.manager}]
    BY <1>5 DEF Disconnect
  <2>3. hybrid'.running = {}
    BY <1>1, <2>2 DEF TurnsInv
  <2> QED BY <1>2, <2>1, <2>3 DEF TurnsInv, Active, Waits, Ended
<1> QED BY <1>3, <1>4, <1>5 DEF Open

LEMMA LinksStep ==
  ASSUME LinksInv, [Next]_vars
  PROVE  LinksInv'
<1>1. CASE Server
  BY <1>1, ServerKeepsLinks
<1>2. CASE Client
  BY <1>2, ClientKeepsLinks
<1>3. ASSUME NEW c \in Calls, Open(c) PROVE LinksInv'
  BY <1>3, OpenKeepsTypes, OpenKeepsTurns DEF LinksInv, Open
<1>4. ASSUME NEW c \in Calls, Resolve(c) PROVE LinksInv'
  <2>1. "overlap" \in setting'.ops <=> "overlap" \in setting.ops
    BY <1>4 DEF Resolve
  <2>2. Opening(c)
    BY <1>4 DEF Resolve
  <2> QED
    BY <1>4, <2>1, <2>2, OpeningKeepsTypes, OpeningKeepsClient, OpeningKeepsTurns DEF LinksInv
<1>5. CASE UNCHANGED <<links, setting>>
  BY <1>5 DEF links, LinksInv, LinksTyped, ClientInv, TurnsInv, Active
<1>6. CASE BreakerTimer
  BY <1>5, <1>6 DEF BreakerTimer
<1>7. ASSUME NEW q \in Requests, NEW o \in Ops, NEW S \in SUBSET Sessions, Begin(q, o, S)
      PROVE  LinksInv'
  BY <1>5, <1>7 DEF Begin
<1>8. ASSUME NEW q \in Requests, Proceed(q) \/ CarriedOut(q) \/ Return(q) PROVE LinksInv'
  BY <1>5, <1>8 DEF Proceed, RedisCommand, Fire, MongoCommand, CarriedOut, Return
<1>9. ASSUME NEW s \in Sessions, Warm(s) \/ \E store \in Servers : Expire(s, store)
      PROVE  LinksInv'
  BY <1>5, <1>9 DEF Warm, Expire
<1>10. CASE UNCHANGED vars
  BY <1>5, <1>10 DEF vars, links
<1> QED
  BY <1>1, <1>2, <1>3, <1>4, <1>6, <1>7, <1>8, <1>9, <1>10 DEF Next

-----------------------------------------------------------------------------
(* The breaker and the requests *)

TrialOut ==
  breaker.state = "halfOpen" /\ ~breaker.due =>
    \E p \in Requests : request[p].pc = "mongo" /\ request[p].op \in Gets

Reqs ==
  [pc : Pcs, op : Ops, todo : SUBSET Sessions, at : Sessions \cup {None},
   late : SUBSET Sessions, res : [Sessions -> Results \cup {None}],
   layers : [Sessions -> SUBSET Servers], there : SUBSET Sessions,
   excused : SUBSET Sessions]

\* owed are the ids that have no answer yet.
ReadSound(r, owed, inMongo) ==
  /\ r.there \subseteq inMongo
  /\ r.there # {} => r.op \in Reads
  /\ r.op \in Gets => \A s \in r.there : s \in owed \/ r.res[s] = "hit" \/ s \in r.excused
  /\ r.op = "exists" => \A s \in r.there : r.res[s] # "false"

\* Only a get or batchGet asks MongoDB late.
Rested(r) == r.late # {} => r.op \in Gets

\* What a request is like that waits for an answer about an id, or has ended.
Placed(r) ==
  /\ r.pc \in Busy => r.at \in Sessions
  /\ r.pc = "fire" => r.op \in Gets
  /\ r.pc = "done" /\ r.op \in Gets => r.todo = {} /\ r.late = {}

\* NextId may be asked for what comes next.
Restful(r, inMongo) ==
  /\ r \in Reqs
  /\ Rested(r)
  /\ ReadSound(r, r.todo \cup r.late, inMongo)

Owed(r) == r.todo \cup r.late \cup IF r.pc \in Busy THEN {r.at} ELSE {}

RequestOK(r, inMongo) ==
  /\ r \in Reqs
  /\ Rested(r)
  /\ Placed(r)
  /\ ReadSound(r, Owed(r), inMongo)

Alike(n, r) ==
  /\ n.op = r.op /\ n.res = r.res /\ n.layers = r.layers
  /\ n.there = r.there /\ n.excused = r.excused

LEMMA NoneIsNothing ==
  /\ None \notin Sessions /\ None \notin Results
BY ServiceAssumption

LEMMA SendFields ==
  ASSUME NEW r \in Reqs, NEW s \in r.todo
  PROVE  LET n == SendRedis([r EXCEPT !.todo = @ \ {s}], s) IN
         /\ n \in Reqs
         /\ Alike(n, r)
         /\ n.pc \in {"redis", "refused"} /\ n.at = s
         /\ n.todo = r.todo \ {s} /\ n.late = r.late
<1>1. s \in Sessions /\ r.todo \ {s} \in SUBSET Sessions
  BY DEF Reqs
<1>2. "redis" \in Pcs /\ "refused" \in Pcs
  BY DEF Pcs
<1> QED BY <1>1, <1>2 DEF SendRedis, Reqs, Alike

LEMMA FireFields ==
  ASSUME NEW r \in Reqs, NEW s \in r.late
  PROVE  LET n == [r EXCEPT !.late = @ \ {s}, !.at = s, !.pc = "fire"] IN
         /\ n \in Reqs
         /\ Alike(n, r)
         /\ n.pc = "fire" /\ n.at = s
         /\ n.todo = r.todo /\ n.late = r.late \ {s}
<1>1. s \in Sessions /\ r.late \ {s} \in SUBSET Sessions
  BY DEF Reqs
<1>2. "fire" \in Pcs
  BY DEF Pcs
<1> QED BY <1>1, <1>2 DEF Reqs, Alike

LEMMA PcFields ==
  ASSUME NEW r \in Reqs, NEW pc \in Pcs
  PROVE  LET n == [r EXCEPT !.pc = pc] IN
         /\ n \in Reqs
         /\ Alike(n, r)
         /\ n.pc = pc /\ n.at = r.at
         /\ n.todo = r.todo /\ n.late = r.late
BY DEF Reqs, Alike

\* Whatever a request is about to do, the facts about its sessions stay.
LEMMA SoundAlike ==
  ASSUME NEW r, NEW n, NEW m, NEW owed, NEW more,
         Alike(n, r), ReadSound(r, owed, m), r.op \in Gets => owed \subseteq more
  PROVE  ReadSound(n, more, m)
BY DEF Alike, ReadSound, Gets

LEMMA NextIdOK ==
  ASSUME NEW r, NEW m, Restful(r, m)
  PROVE  RequestOK(NextId(r), m)
<1>1. r \in Reqs /\ Rested(r) /\ ReadSound(r, r.todo \cup r.late, m)
  BY DEF Restful
<1>2. CASE r.todo # {}
  <2>1. PICK s \in r.todo : s = CHOOSE x \in r.todo : TRUE
    BY <1>2
  <2>2. PICK n : n = SendRedis([r EXCEPT !.todo = @ \ {s}], s)
    OBVIOUS
  <2>3. NextId(r) = n
    BY <1>2, <2>1, <2>2 DEF NextId
  <2>4. /\ n \in Reqs /\ Alike(n, r)
        /\ n.pc \in {"redis", "refused"} /\ n.at = s
        /\ n.todo = r.todo \ {s} /\ n.late = r.late
    BY <1>1, <2>2, SendFields
  <2>5. s \in Sessions
    BY <1>1 DEF Reqs
  <2>6. Owed(n) = r.todo \cup r.late
    BY <2>4 DEF Owed, Busy
  <2>7. ReadSound(n, Owed(n), m)
    BY <1>1, <2>4, <2>6, SoundAlike
  <2>8. Rested(n) /\ Placed(n)
    BY <1>1, <2>4, <2>5 DEF Rested, Placed, Alike
  <2> QED BY <2>3, <2>4, <2>7, <2>8 DEF RequestOK
<1>3. CASE r.todo = {} /\ r.late # {}
  <2>1. PICK s \in r.late : s = CHOOSE x \in r.late : TRUE
    BY <1>3
  <2>2. PICK n : n = [r EXCEPT !.late = @ \ {s}, !.at = s, !.pc = "fire"]
    OBVIOUS
  <2>3. NextId(r) = n
    BY <1>3, <2>1, <2>2 DEF NextId
  <2>4. /\ n \in Reqs /\ Alike(n, r)
        /\ n.pc = "fire" /\ n.at = s
        /\ n.todo = r.todo /\ n.late = r.late \ {s}
    BY <1>1, <2>2, FireFields
  <2>5. s \in Sessions /\ r.op \in Gets
    BY <1>1, <1>3 DEF Reqs, Rested
  <2>6. Owed(n) = r.todo \cup r.late
    BY <2>4 DEF Owed, Busy
  <2>7. ReadSound(n, Owed(n), m)
    BY <1>1, <2>4, <2>6, SoundAlike
  <2>8. Rested(n) /\ Placed(n)
    BY <2>4, <2>5 DEF Rested, Placed, Alike
  <2> QED BY <2>3, <2>4, <2>7, <2>8 DEF RequestOK
<1>4. CASE r.todo = {} /\ r.late = {}
  <2>1. PICK n : n = [r EXCEPT !.pc = "done"]
    OBVIOUS
  <2>2. NextId(r) = n
    BY <1>4, <2>1 DEF NextId
  <2>3. /\ n \in Reqs /\ Alike(n, r)
        /\ n.pc = "done" /\ n.at = r.at /\ n.todo = r.todo /\ n.late = r.late
    BY <1>1, <2>1, PcFields DEF Pcs, Ended
  <2>4. Owed(n) = r.todo \cup r.late
    BY <2>3 DEF Owed, Busy
  <2>5. ReadSound(n, Owed(n), m)
    BY <1>1, <2>3, <2>4, SoundAlike
  <2>6. Rested(n) /\ Placed(n)
    BY <1>4, <2>3 DEF Rested, Placed, Busy
  <2> QED BY <2>2, <2>3, <2>5, <2>6 DEF RequestOK
<1> QED BY <1>2, <1>3, <1>4

\* A request that waits for nothing can go on.
LEMMA RestsIfNotBusy ==
  ASSUME NEW r, NEW m, RequestOK(r, m), r.op \notin Gets
  PROVE  Restful(r, m)
<1>1. Alike(r, r)
  BY DEF Alike
<1> QED BY <1>1, SoundAlike DEF RequestOK, Restful

\* A request that is not a get or batchGet ends.
LEMMA EndedOK ==
  ASSUME NEW r, NEW m, Restful(r, m), NEW pc \in Ended, r.op \in Gets => pc = "rejected"
  PROVE  RequestOK([r EXCEPT !.pc = pc], m)
<1>1. pc \in Pcs /\ pc \notin Busy /\ pc # "fire"
  BY DEF Pcs, Ended, Busy
<1>2. PICK n : n = [r EXCEPT !.pc = pc]
  OBVIOUS
<1>3. /\ n \in Reqs /\ Alike(n, r)
      /\ n.pc = pc /\ n.at = r.at /\ n.todo = r.todo /\ n.late = r.late
  BY <1>1, <1>2, PcFields DEF Restful
<1>4. Owed(n) = r.todo \cup r.late
  BY <1>1, <1>3 DEF Owed
<1>5. ReadSound(n, Owed(n), m)
  BY <1>3, <1>4, SoundAlike DEF Restful
<1>6. Rested(n) /\ Placed(n)
  BY <1>1, <1>3 DEF Restful, Rested, Placed, Alike
<1> QED BY <1>2, <1>3, <1>5, <1>6 DEF RequestOK

LEMMA RejectedOK ==
  ASSUME NEW r, NEW m, Restful(r, m)
  PROVE  RequestOK(Rejected(r), m)
BY EndedOK DEF Rejected, Ended

LEMMA AskOK ==
  ASSUME NEW r, NEW m, Restful(r, m)
  PROVE  RequestOK(Ask(r), m)
<1>1. CASE hybrid.connected \/ r.op = "batchGet"
  BY <1>1, NextIdOK DEF Ask
<1>2. CASE ~hybrid.connected /\ r.op = "health"
  <2>1. Ask(r) = [r EXCEPT !.pc = "done"]
    BY <1>2 DEF Ask
  <2>2. r.op \notin Gets /\ "done" \in Ended
    BY <1>2 DEF Gets, Ended
  <2> QED BY <2>1, <2>2, EndedOK
<1>3. CASE ~hybrid.connected /\ r.op = "batchDelete"
  <2>1. PICK res : res = [s \in Sessions |-> IF s \in r.todo THEN "failed" ELSE None]
    OBVIOUS
  <2>2. res \in [Sessions -> Results \cup {None}]
    BY <2>1 DEF Results
  <2>3. PICK n : n = [r EXCEPT !.pc = "done", !.todo = {}, !.res = res]
    OBVIOUS
  <2>4. Ask(r) = n
    BY <1>3, <2>1, <2>3 DEF Ask
  <2>5. /\ n \in Reqs /\ n.op = r.op /\ n.pc = "done" /\ n.late = r.late
        /\ n.there = r.there
    BY <2>2, <2>3 DEF Restful, Reqs, Pcs, Ended
  <2>6. r.op \notin Gets /\ r.op # "exists"
    BY <1>3 DEF Gets
  <2>7. ReadSound(n, Owed(n), m)
    BY <2>5, <2>6 DEF Restful, ReadSound
  <2>8. Rested(n) /\ Placed(n)
    BY <2>5, <2>6 DEF Restful, Rested, Placed, Busy
  <2> QED BY <2>4, <2>5, <2>7, <2>8 DEF RequestOK
<1>4. CASE ~hybrid.connected /\ r.op \notin {"batchGet", "health", "batchDelete"}
  <2>1. Ask(r) = Rejected(r)
    BY <1>4 DEF Ask
  <2> QED BY <2>1, RejectedOK
<1> QED BY <1>1, <1>2, <1>3, <1>4

LEMMA AnswerFields ==
  ASSUME NEW r \in Reqs, r.at \in Sessions, NEW result \in Results \cup {None}
  PROVE  LET n == [r EXCEPT !.res[r.at] = result] IN
         /\ n \in Reqs
         /\ n.res[r.at] = result
         /\ \A s \in Sessions \ {r.at} : n.res[s] = r.res[s]
         /\ n.op = r.op /\ n.pc = r.pc /\ n.todo = r.todo /\ n.at = r.at /\ n.late = r.late
         /\ n.there = r.there /\ n.excused = r.excused
<1>1. r.res \in [Sessions -> Results \cup {None}]
  BY DEF Reqs
<1>2. [r.res EXCEPT ![r.at] = result] \in [Sessions -> Results \cup {None}]
  BY <1>1
<1> QED BY <1>1, <1>2 DEF Reqs

\* An answer about the session a request waits for, if it fits what is known.
LEMMA AnsweredOK ==
  ASSUME NEW r, NEW m, RequestOK(r, m), r.pc \in Busy, NEW result \in Results,
         r.op \in Gets /\ r.at \in r.there => result = "hit" \/ r.at \in r.excused,
         r.op = "exists" /\ r.at \in r.there => result # "false"
  PROVE  RequestOK(Answered(r, result), m)
<1>1. r \in Reqs /\ Rested(r) /\ Placed(r) /\ ReadSound(r, Owed(r), m)
  BY DEF RequestOK
<1>2. r.at \in Sessions /\ Owed(r) = r.todo \cup r.late \cup {r.at}
  BY <1>1 DEF Placed, Owed
<1>3. PICK n : n = [r EXCEPT !.res[r.at] = result]
  OBVIOUS
<1>4. Answered(r, result) = NextId(n)
  BY <1>3 DEF Answered
<1>5. /\ n \in Reqs
      /\ n.res[r.at] = result
      /\ \A s \in Sessions \ {r.at} : n.res[s] = r.res[s]
      /\ n.op = r.op /\ n.pc = r.pc /\ n.todo = r.todo /\ n.at = r.at /\ n.late = r.late
      /\ n.there = r.there /\ n.excused = r.excused
  BY <1>1, <1>2, <1>3, AnswerFields
<1>6. r.there \subseteq Sessions
  BY <1>1 DEF Reqs
<1>7. ReadSound(n, n.todo \cup n.late, m)
  BY <1>1, <1>2, <1>5, <1>6 DEF ReadSound
<1>8. Restful(n, m)
  BY <1>1, <1>5, <1>7 DEF Restful, Rested
<1> QED BY <1>4, <1>8, NextIdOK

\* MongoDB, or the breaker, has failed the read.
LEMMA ExcusedOK ==
  ASSUME NEW r, NEW m, RequestOK(r, m), r.pc \in Busy, r.op \in Gets
  PROVE  RequestOK(Excused(r), m)
<1>1. r \in Reqs /\ Rested(r) /\ Placed(r) /\ ReadSound(r, Owed(r), m)
  BY DEF RequestOK
<1>2. r.at \in Sessions /\ Owed(r) = r.todo \cup r.late \cup {r.at}
  BY <1>1 DEF Placed, Owed
<1>3. r.op # "exists"
  BY DEF Gets
<1>4. PICK e : e = [r EXCEPT !.excused = @ \cup {r.at}]
  OBVIOUS
<1>5. /\ e \in Reqs /\ e.excused = r.excused \cup {r.at}
      /\ e.op = r.op /\ e.pc = r.pc /\ e.todo = r.todo /\ e.at = r.at /\ e.late = r.late
      /\ e.res = r.res /\ e.there = r.there
  BY <1>1, <1>2, <1>4 DEF Reqs
<1>6. Rested(e) /\ Placed(e)
  BY <1>1, <1>5 DEF Rested, Placed
<1>7. ReadSound(e, Owed(e), m) /\ ReadSound(e, e.todo \cup e.late, m)
  BY <1>1, <1>2, <1>3, <1>5 DEF ReadSound, Owed
<1>8. RequestOK(e, m) /\ Restful(e, m)
  BY <1>5, <1>6, <1>7 DEF RequestOK, Restful
<1>9. RequestOK(Answered(e, "null"), m)
  BY <1>3, <1>5, <1>8, AnsweredOK DEF Results
<1>10. RequestOK(NextId(e), m)
  BY <1>8, NextIdOK
<1>11. Excused(r) = IF r.op = "get" THEN Answered(e, "null") ELSE NextId(e)
  BY <1>4 DEF Excused
<1> QED BY <1>9, <1>10, <1>11

\* A session is removed from MongoDB, or expires there.
LEMMA WithoutOK ==
  ASSUME NEW r, NEW m, NEW s, RequestOK(r, m)
  PROVE  RequestOK(Lost(r, s), m \ {s})
<1>1. r \in Reqs /\ Rested(r) /\ Placed(r) /\ ReadSound(r, Owed(r), m)
  BY DEF RequestOK
<1>2. PICK n : n = Lost(r, s)
  OBVIOUS
<1>3. /\ n \in Reqs /\ n.there = r.there \ {s}
      /\ n.op = r.op /\ n.pc = r.pc /\ n.todo = r.todo /\ n.at = r.at /\ n.late = r.late
      /\ n.res = r.res /\ n.excused = r.excused
  BY <1>1, <1>2 DEF Reqs, Lost
<1>4. Owed(n) = Owed(r)
  BY <1>3 DEF Owed
<1>5. Rested(n) /\ Placed(n)
  BY <1>1, <1>3 DEF Rested, Placed
<1>6. ReadSound(n, Owed(n), m \ {s})
  BY <1>1, <1>3, <1>4 DEF ReadSound
<1> QED BY <1>2, <1>3, <1>5, <1>6 DEF RequestOK

\* One store has done what is asked of it, or not.
Layered(r, L) == [r EXCEPT !.pc = "mongo", !.layers[r.at] = L]

LEMMA LayersFields ==
  ASSUME NEW r \in Reqs, r.at \in Sessions, NEW L \in SUBSET Servers,
         NEW n, n = Layered(r, L)
  PROVE  /\ n \in Reqs /\ n.pc = "mongo"
         /\ n.op = r.op /\ n.todo = r.todo /\ n.at = r.at /\ n.late = r.late
         /\ n.res = r.res /\ n.there = r.there /\ n.excused = r.excused
<1>1. r.layers \in [Sessions -> SUBSET Servers] /\ "mongo" \in Pcs
  BY DEF Reqs, Pcs
<1>2. [r.layers EXCEPT ![r.at] = L] \in [Sessions -> SUBSET Servers]
  BY <1>1
<1> QED BY <1>1, <1>2 DEF Reqs, Layered

LEMMA LayersOK ==
  ASSUME NEW r, NEW m, RequestOK(r, m), r.pc \in Busy, r.op \notin Gets,
         NEW L \in SUBSET Servers
  PROVE  RequestOK(Layered(r, L), m)
<1>1. r \in Reqs /\ Rested(r) /\ Placed(r) /\ ReadSound(r, Owed(r), m)
  BY DEF RequestOK
<1>2. r.at \in Sessions
  BY <1>1 DEF Placed
<1>3. PICK n : n = Layered(r, L)
  OBVIOUS
<1>4. /\ n \in Reqs /\ n.pc = "mongo"
      /\ n.op = r.op /\ n.todo = r.todo /\ n.at = r.at /\ n.late = r.late
      /\ n.res = r.res /\ n.there = r.there /\ n.excused = r.excused
  BY <1>1, <1>2, <1>3, LayersFields
<1>5. Rested(n) /\ Placed(n)
  BY <1>1, <1>2, <1>4 DEF Rested, Placed
<1>6. ReadSound(n, Owed(n), m)
  BY <1>1, <1>4 DEF ReadSound
<1> QED BY <1>3, <1>4, <1>5, <1>6 DEF RequestOK

-----------------------------------------------------------------------------
(* What the answers of Redis, of the breaker and of MongoDB do. *)

\* The outcome for one request.
LEMMA AfterRedisOK ==
  ASSUME NEW r, NEW m, RequestOK(r, m), r.pc \in {"redis", "refused"}, NEW ok \in BOOLEAN
  PROVE  RequestOK(AfterRedis(r, ok), m)
<1>1. /\ r \in Reqs /\ Rested(r) /\ Placed(r) /\ ReadSound(r, Owed(r), m)
      /\ r.pc \in Busy
  BY DEF RequestOK, Busy
<1>2. r.at \in Sessions /\ Owed(r) = r.todo \cup r.late \cup {r.at}
  BY <1>1 DEF Placed, Owed
<1>3. PICK has \in BOOLEAN : has = (ok /\ r.at \in stored["redis"])
  OBVIOUS
<1>4. CASE r.op \in Gets /\ has
  <2>1. AfterRedis(r, ok) = Answered(r, "hit")
    BY <1>3, <1>4 DEF AfterRedis, Gets
  <2> QED BY <1>1, <1>4, <2>1, AnsweredOK DEF Results, Gets
<1>5. CASE r.op \in Gets /\ ~has
  <2>1. PICK result \in Results \cup {None} : result = IF ok THEN "null" ELSE r.res[r.at]
    BY <1>1, <1>2 DEF Results, Reqs
  <2>2. PICK a : a = [r EXCEPT !.res[r.at] = result]
    OBVIOUS
  <2>3. [r EXCEPT !.res[r.at] = IF ok THEN "null" ELSE @] = a
    BY <2>1, <2>2
  <2>4. /\ a \in Reqs
        /\ \A s \in Sessions \ {r.at} : a.res[s] = r.res[s]
        /\ a.op = r.op /\ a.pc = r.pc /\ a.todo = r.todo /\ a.at = r.at /\ a.late = r.late
        /\ a.there = r.there /\ a.excused = r.excused
    BY <1>1, <1>2, <2>1, <2>2, AnswerFields
  <2>5. PICK n : n = Missed(a)
    OBVIOUS
  <2>6. /\ n \in Reqs /\ n.late = a.late \cup {a.at}
        /\ n.op = a.op /\ n.todo = a.todo /\ n.res = a.res
        /\ n.there = a.there /\ n.excused = a.excused
    BY <1>2, <2>4, <2>5 DEF Missed, Reqs
  <2>7. Rested(n)
    BY <1>5, <2>4, <2>6 DEF Rested
  <2>8. ReadSound(n, n.todo \cup n.late, m)
    <3>1. r.there \subseteq Sessions /\ r.op # "exists"
      BY <1>1, <1>5 DEF Reqs, Gets
    <3> QED BY <1>1, <1>2, <2>4, <2>6, <3>1 DEF ReadSound
  <2>9. RequestOK(NextId(n), m)
    BY <2>6, <2>7, <2>8, NextIdOK DEF Restful
  <2>10. AfterRedis(r, ok) = NextId(n)
    BY <1>3, <1>5, <2>3, <2>5 DEF AfterRedis, Gets
  <2> QED BY <2>9, <2>10
<1>6. CASE r.op = "exists"
  <2>1. r.op \notin Gets
    BY <1>6 DEF Gets
  <2>2. Restful(r, m)
    BY <2>1, RestsIfNotBusy
  <2>3. CASE ~ok
    <3>1. AfterRedis(r, ok) = Rejected(r)
      BY <1>6, <2>1, <2>3 DEF AfterRedis, Gets
    <3> QED BY <2>2, <3>1, RejectedOK
  <2>4. CASE has
    <3>1. AfterRedis(r, ok) = Answered(r, "true")
      BY <1>3, <1>6, <2>1, <2>4 DEF AfterRedis, Gets
    <3> QED BY <1>1, <2>1, <3>1, AnsweredOK DEF Results
  <2>5. CASE ok /\ ~has
    <3>1. PICK n : n = [r EXCEPT !.pc = "mongo"]
      OBVIOUS
    <3>2. AfterRedis(r, ok) = n
      BY <1>3, <1>6, <2>1, <2>5, <3>1 DEF AfterRedis, Gets
    <3>3. /\ n \in Reqs /\ Alike(n, r)
          /\ n.pc = "mongo" /\ n.at = r.at /\ n.todo = r.todo /\ n.late = r.late
      BY <1>1, <3>1, PcFields DEF Pcs
    <3>4. ReadSound(n, Owed(n), m)
      BY <1>1, <2>1, <3>3, SoundAlike
    <3>5. Rested(n) /\ Placed(n)
      BY <1>1, <1>2, <2>1, <3>3 DEF Rested, Placed, Alike
    <3> QED BY <3>2, <3>3, <3>4, <3>5 DEF RequestOK
  <2> QED BY <1>3, <2>3, <2>4, <2>5
<1>7. CASE r.op \notin Gets /\ r.op # "exists"
  <2>1. PICK L \in SUBSET Servers : L = IF ok THEN {"redis"} ELSE {}
    BY DEF Servers
  <2>2. AfterRedis(r, ok) = Layered(r, L)
    BY <1>7, <2>1 DEF AfterRedis, Gets, Layered
  <2> QED BY <1>1, <1>7, <2>2, LayersOK
<1> QED BY <1>4, <1>5, <1>6, <1>7

LEMMA SettledOK ==
  ASSUME NEW r, NEW m, RequestOK(r, m), r.pc = "mongo", r.op \in Removals \cup {"touch"}
  PROVE  RequestOK(Settled(r), m)
<1>1. r.op \notin Gets /\ r.op # "exists" /\ r.pc \in Busy
  BY DEF Gets, Removals, Busy
<1>2. CASE r.layers[r.at] # {}
  BY <1>1, <1>2, AnsweredOK DEF Settled, Results
<1>3. CASE r.layers[r.at] = {} /\ r.op = "batchDelete"
  BY <1>1, <1>3, AnsweredOK DEF Settled, Results
<1>4. CASE r.layers[r.at] = {} /\ r.op # "batchDelete"
  BY <1>1, <1>4, RestsIfNotBusy, RejectedOK DEF Settled
<1> QED BY <1>2, <1>3, <1>4

LEMMA AfterMongoOK ==
  ASSUME NEW r, RequestOK(r, stored["mongo"]), r.pc = "mongo", NEW ok \in BOOLEAN
  PROVE  RequestOK(AfterMongo(r, ok), stored["mongo"])
<1> DEFINE m == stored["mongo"]
<1>1. /\ r \in Reqs /\ Rested(r) /\ Placed(r) /\ ReadSound(r, Owed(r), m)
      /\ r.pc \in Busy
  BY DEF RequestOK, Busy
<1>2. r.at \in Sessions
  BY <1>1 DEF Placed
<1>3. PICK has \in BOOLEAN : has <=> r.at \in m
  <2>1. (r.at \in m) \in BOOLEAN
    OBVIOUS
  <2> QED BY <2>1
<1>4. CASE r.op \in Gets
  <2>1. r.op # "exists"
    BY <1>4 DEF Gets
  <2>2. CASE ok
    <3>1. PICK result \in Results : result = IF has THEN "hit" ELSE "null"
      BY DEF Results
    <3>2. AfterMongo(r, ok) = Answered(r, result)
      BY <1>3, <1>4, <2>2, <3>1 DEF AfterMongo, Gets
    <3>3. r.at \in r.there => result = "hit"
      BY <1>1, <1>3, <3>1 DEF ReadSound
    <3> QED BY <1>1, <2>1, <3>2, <3>3, AnsweredOK
  <2>3. CASE ~ok
    <3>1. AfterMongo(r, ok) = Excused(r)
      BY <1>4, <2>3 DEF AfterMongo, Gets
    <3> QED BY <1>1, <1>4, <3>1, ExcusedOK
  <2> QED BY <2>2, <2>3
<1>5. CASE r.op = "exists"
  <2>1. r.op \notin Gets
    BY <1>5 DEF Gets
  <2>2. CASE ok
    <3>1. PICK result \in Results : result = IF has THEN "true" ELSE "false"
      BY DEF Results
    <3>2. AfterMongo(r, ok) = Answered(r, result)
      BY <1>3, <1>5, <2>1, <2>2, <3>1 DEF AfterMongo, Gets
    <3>3. r.at \in r.there => result # "false"
      BY <1>1, <1>3, <3>1 DEF ReadSound
    <3> QED BY <1>1, <2>1, <3>2, <3>3, AnsweredOK
  <2>3. CASE ~ok
    <3>1. AfterMongo(r, ok) = Rejected(r)
      BY <1>5, <2>1, <2>3 DEF AfterMongo, Gets
    <3> QED BY <2>1, <3>1, RestsIfNotBusy, RejectedOK
  <2> QED BY <2>2, <2>3
<1>6. CASE r.op \notin Gets /\ r.op # "exists"
  <2>1. r.layers \in [Sessions -> SUBSET Servers]
    BY <1>1 DEF Reqs
  <2>2. PICK L \in SUBSET Servers : L = r.layers[r.at] \cup IF ok THEN {"mongo"} ELSE {}
    BY <1>2, <2>1 DEF Servers
  <2>3. PICK n : n = Layered(r, L)
    OBVIOUS
  <2>4. RequestOK(n, m)
    BY <1>1, <1>6, <2>2, <2>3, LayersOK
  <2>5. n \in Reqs /\ n.op = r.op /\ n.pc = "mongo"
    BY <1>1, <1>2, <2>2, <2>3, LayersFields
  <2>6. [r EXCEPT !.layers[r.at] = @ \cup IF ok THEN {"mongo"} ELSE {}] = n
    BY <1>1, <2>2, <2>3 DEF Reqs, Layered
  <2>7. CASE r.op = "health"
    <3>1. AfterMongo(r, ok) = [n EXCEPT !.pc = "done"]
      <4>1. AfterMongo(r, ok) =
              [r EXCEPT !.pc = "done", !.layers[r.at] = @ \cup IF ok THEN {"mongo"} ELSE {}]
        BY <1>6, <2>7 DEF AfterMongo, Gets
      <4> QED BY <1>1, <2>2, <2>3, <4>1 DEF Reqs, Layered
    <3>2. n.op \notin Gets /\ "done" \in Ended
      BY <1>6, <2>5 DEF Ended
    <3> QED BY <2>4, <3>1, <3>2, RestsIfNotBusy, EndedOK
  <2>8. CASE r.op # "health"
    <3>1. AfterMongo(r, ok) = Settled(n)
      BY <1>6, <2>6, <2>8 DEF AfterMongo, Gets
    <3>2. n.op \in Removals \cup {"touch"}
      BY <1>1, <1>6, <2>5, <2>8 DEF Reqs, Ops, Gets, Removals
    <3> QED BY <2>4, <2>5, <3>1, <3>2, SettledOK
  <2> QED BY <2>7, <2>8
<1> QED BY <1>4, <1>5, <1>6

-----------------------------------------------------------------------------
(* The steps *)

StoresTyped ==
  /\ setting \in Settings
  /\ stored \in [Servers -> SUBSET Sessions]
  /\ warming \in SUBSET Sessions

RequestsInv ==
  /\ request \in [Requests -> Reqs]
  /\ \A q \in Requests : RequestOK(request[q], stored["mongo"])

LEMMA SettingTypes ==
  ASSUME setting \in Settings
  PROVE  setting.ids \in SUBSET Sessions /\ setting.by \in SUBSET Requests
BY ServiceAssumption

LEMMA StoresStart == Init => StoresTyped
<1> SUFFICES ASSUME Init PROVE StoresTyped
  OBVIOUS
<1>1. setting \in Settings /\ warming = {}
  BY DEF Init
<1>2. stored \in [Servers -> SUBSET Sessions]
  BY <1>1, SettingTypes DEF Init
<1> QED BY <1>1, <1>2 DEF StoresTyped

LEMMA StoresStep ==
  ASSUME StoresTyped, RequestsInv, [Next]_vars
  PROVE  StoresTyped'
<1>1. /\ setting \in Settings /\ stored \in [Servers -> SUBSET Sessions]
      /\ warming \in SUBSET Sessions
  BY DEF StoresTyped
<1>2. CASE UNCHANGED <<setting, stored, warming>>
  BY <1>1, <1>2 DEF StoresTyped
<1>3. ASSUME NEW q \in Requests, RedisCommand(q) \/ CarriedOut(q) PROVE StoresTyped'
  <2>1. stored' \in [Servers -> SUBSET Sessions]
    BY <1>1, <1>3 DEF RedisCommand, CarriedOut
  <2> QED BY <1>1, <1>3, <2>1 DEF RedisCommand, CarriedOut, StoresTyped
<1>4. ASSUME NEW q \in Requests, MongoCommand(q) PROVE StoresTyped'
  <2>1. stored' \in [Servers -> SUBSET Sessions]
    BY <1>1, <1>4 DEF MongoCommand
  <2>2. warming' \in SUBSET Sessions
    BY <1>1, <1>4 DEF MongoCommand, Servers
  <2> QED BY <1>1, <1>4, <2>1, <2>2 DEF MongoCommand, StoresTyped
<1>5. ASSUME NEW s \in Sessions, Warm(s) PROVE StoresTyped'
  <2>1. stored' \in [Servers -> SUBSET Sessions] /\ warming' \in SUBSET Sessions
    BY <1>1, <1>5 DEF Warm
  <2> QED BY <1>1, <1>5, <2>1 DEF Warm, StoresTyped
<1>6. ASSUME NEW s \in Sessions, NEW store \in Servers, Expire(s, store) PROVE StoresTyped'
  <2>1. stored' \in [Servers -> SUBSET Sessions]
    BY <1>1, <1>6 DEF Expire
  <2> QED BY <1>1, <1>6, <2>1 DEF Expire, StoresTyped
<1>7. ASSUME NEW q \in Requests, NEW o \in Ops, NEW S \in SUBSET Sessions, Begin(q, o, S)
      PROVE  StoresTyped'
  BY <1>2, <1>7 DEF Begin
<1>8. ASSUME NEW q \in Requests, Fire(q) \/ Return(q) PROVE StoresTyped'
  BY <1>2, <1>8 DEF Fire, Return
<1>9. CASE Server \/ Client \/ BreakerTimer
  BY <1>2, <1>9 DEF Server, Client, BreakerTimer
<1>10. ASSUME NEW c \in Calls, Open(c) \/ Resolve(c) PROVE StoresTyped'
  BY <1>2, <1>10 DEF Open, Resolve
<1>11. CASE UNCHANGED vars
  BY <1>2, <1>11 DEF vars
<1> QED
  BY <1>3, <1>4, <1>5, <1>6, <1>7, <1>8, <1>9, <1>10, <1>11 DEF Next, Proceed

\* One request moves, the others wait.
LEMMA RequestMoves ==
  ASSUME RequestsInv, NEW q \in Requests, NEW n, RequestOK(n, stored["mongo"]),
         request' = [request EXCEPT ![q] = n],
         stored'["mongo"] = stored["mongo"]
  PROVE  RequestsInv'
<1>1. n \in Reqs
  BY DEF RequestOK
<1>2. request' \in [Requests -> Reqs]
  BY <1>1 DEF RequestsInv
<1>3. request'[q] = n /\ \A p \in Requests \ {q} : request'[p] = request[p]
  BY DEF RequestsInv
<1>4. \A p \in Requests : RequestOK(request'[p], stored'["mongo"])
  BY <1>3 DEF RequestsInv
<1> QED BY <1>2, <1>4 DEF RequestsInv

\* A session goes from MongoDB, whatever the requests are in the middle of.
LEMMA SessionGoes ==
  ASSUME NEW reqs, NEW m, \A p \in Requests : RequestOK(reqs[p], m), NEW s,
         request' = Without(s, reqs), stored'["mongo"] = m \ {s}
  PROVE  RequestsInv'
<1>1. \A p \in Requests : request'[p] = Lost(reqs[p], s)
  BY DEF Without
<1>2. \A p \in Requests : RequestOK(request'[p], stored'["mongo"])
  BY <1>1, WithoutOK
<1>3. request' \in [Requests -> Reqs]
  BY <1>2 DEF RequestOK, Without
<1> QED BY <1>2, <1>3 DEF RequestsInv

LEMMA NoRequestOK ==
  ASSUME NEW m
  PROVE  RequestOK(NoRequest, m)
<1>1. PICK res, layers : /\ res = [s \in Sessions |-> None]
                         /\ layers = [s \in Sessions |-> {}]
  OBVIOUS
<1>2. res \in [Sessions -> Results \cup {None}] /\ layers \in [Sessions -> SUBSET Servers]
  BY <1>1
<1>3. PICK n : n = NoRequest
  OBVIOUS
<1>4. n.pc = "idle" /\ n.op = "get" /\ n.todo = {} /\ n.late = {} /\ n.there = {}
  BY <1>3 DEF NoRequest
<1>5. n \in Reqs
  BY <1>1, <1>2, <1>3 DEF NoRequest, Reqs, Pcs, Ops
<1>6. Rested(n) /\ Placed(n) /\ ReadSound(n, Owed(n), m)
  BY <1>4 DEF Rested, Placed, ReadSound, Busy
<1> QED BY <1>3, <1>5, <1>6 DEF RequestOK

LEMMA RequestsStart == Init => RequestsInv
<1> SUFFICES ASSUME Init PROVE RequestsInv
  OBVIOUS
<1>1. request = [q \in Requests |-> NoRequest]
  BY DEF Init
<1>2. NoRequest \in Reqs
  BY NoRequestOK DEF RequestOK
<1> QED BY <1>1, <1>2, NoRequestOK DEF RequestsInv

LEMMA BeginKeepsRequests ==
  ASSUME RequestsInv, StoresTyped, NEW q \in Requests, NEW o \in Ops,
         NEW S \in SUBSET Sessions, Begin(q, o, S)
  PROVE  RequestsInv'
<1>1. PICK there : there = IF o \in Reads THEN S \cap stored["mongo"] ELSE {}
  OBVIOUS
<1>2. PICK n : n = [NoRequest EXCEPT !.op = o, !.todo = S, !.there = there]
  OBVIOUS
<1>3. request' = [request EXCEPT ![q] = Ask(n)]
  BY <1>1, <1>2 DEF Begin
<1>4. there \in SUBSET Sessions
  BY <1>1
<1>5. NoRequest \in Reqs
  BY NoRequestOK DEF RequestOK
<1>6. n \in Reqs
  BY <1>2, <1>4, <1>5 DEF Reqs
<1>7. /\ n.op = o /\ n.todo = S /\ n.there = there /\ n.late = {}
      /\ \A s \in Sessions : n.res[s] = None
  BY <1>2 DEF NoRequest
<1>8. ReadSound(n, n.todo \cup n.late, stored["mongo"])
  <2>1. None # "false"
    BY NoneIsNothing DEF Results
  <2> QED BY <1>1, <1>4, <1>7, <2>1 DEF ReadSound
<1>9. RequestOK(Ask(n), stored["mongo"])
  BY <1>6, <1>7, <1>8, AskOK DEF Restful, Rested
<1>10. stored' = stored
  BY DEF Begin
<1> QED BY <1>3, <1>9, <1>10, RequestMoves

LEMMA RedisCommandKeepsRequests ==
  ASSUME RequestsInv, StoresTyped, NEW q \in Requests, RedisCommand(q)
  PROVE  RequestsInv'
<1> DEFINE r == request[q]
<1>1. RequestOK(r, stored["mongo"]) /\ r.pc \in {"redis", "refused"}
  BY DEF RequestsInv, RedisCommand
<1>2. PICK ok \in BOOLEAN : request' = [request EXCEPT ![q] = AfterRedis(r, ok)]
  BY DEF RedisCommand
<1>3. stored'["mongo"] = stored["mongo"]
  BY DEF RedisCommand, StoresTyped, Servers
<1>4. RequestOK(AfterRedis(r, ok), stored["mongo"])
  BY <1>1, AfterRedisOK
<1> QED BY <1>2, <1>3, <1>4, RequestMoves

LEMMA FireKeepsRequests ==
  ASSUME RequestsInv, NEW q \in Requests, Fire(q)
  PROVE  RequestsInv'
<1> DEFINE r == request[q]
<1>1. /\ RequestOK(r, stored["mongo"]) /\ r.pc = "fire"
      /\ r \in Reqs /\ Rested(r) /\ Placed(r) /\ r.pc \in Busy
  BY DEF RequestsInv, Fire, RequestOK, Busy
<1>2. r.op \in Gets /\ r.at \in Sessions
  BY <1>1 DEF Placed
<1>3. stored' = stored
  BY DEF Fire
<1>4. PICK n : n = [r EXCEPT !.pc = "mongo"]
  OBVIOUS
<1>5. request' = [request EXCEPT ![q] = Excused(r)] \/ request' = [request EXCEPT ![q] = n]
  BY <1>4 DEF Fire
<1>6. RequestOK(Excused(r), stored["mongo"])
  BY <1>1, <1>2, ExcusedOK
<1>7. RequestOK(n, stored["mongo"])
  <2>1. /\ n \in Reqs /\ Alike(n, r)
        /\ n.pc = "mongo" /\ n.at = r.at /\ n.todo = r.todo /\ n.late = r.late
    BY <1>1, <1>4, PcFields DEF Pcs
  <2>2. Owed(n) = Owed(r)
    BY <1>1, <2>1 DEF Owed, Busy
  <2>3. ReadSound(n, Owed(n), stored["mongo"])
    BY <1>1, <2>1, <2>2, SoundAlike DEF RequestOK
  <2>4. Rested(n) /\ Placed(n)
    BY <1>1, <1>2, <2>1 DEF Rested, Placed, Alike
  <2> QED BY <2>1, <2>3, <2>4 DEF RequestOK
<1> QED BY <1>3, <1>5, <1>6, <1>7, RequestMoves

LEMMA MongoCommandKeepsRequests ==
  ASSUME RequestsInv, StoresTyped, NEW q \in Requests, MongoCommand(q)
  PROVE  RequestsInv'
<1> DEFINE r == request[q]
<1>1. RequestOK(r, stored["mongo"]) /\ r.pc = "mongo"
  BY DEF RequestsInv, MongoCommand
<1>2. PICK ok \in BOOLEAN : ok = MongoAnswers
  BY DEF MongoAnswers
<1>3. PICK n : n = AfterMongo(r, ok)
  OBVIOUS
<1>4. PICK after : after = [request EXCEPT ![q] = n]
  OBVIOUS
<1>5. RequestOK(n, stored["mongo"])
  BY <1>1, <1>3, AfterMongoOK
<1>6. CASE Removes(r) /\ ok
  <2>1. request' = Without(r.at, after) /\ stored'["mongo"] = stored["mongo"] \ {r.at}
    BY <1>2, <1>3, <1>4, <1>6 DEF MongoCommand, StoresTyped, Servers
  <2>2. \A p \in Requests : RequestOK(after[p], stored["mongo"])
    BY <1>4, <1>5 DEF RequestsInv
  <2> QED BY <2>1, <2>2, SessionGoes
<1>7. CASE ~(Removes(r) /\ ok)
  <2>1. request' = after /\ stored'["mongo"] = stored["mongo"]
    BY <1>2, <1>3, <1>4, <1>7 DEF MongoCommand, StoresTyped, Servers
  <2> QED BY <1>4, <1>5, <2>1, RequestMoves
<1> QED BY <1>6, <1>7

\* A removal is carried out, or a TTL ends, while the requests wait.
LEMMA LossKeepsRequests ==
  ASSUME RequestsInv, StoresTyped, NEW s, NEW store \in Servers,
         stored' = [stored EXCEPT ![store] = @ \ {s}],
         request' = IF store = "mongo" THEN Without(s, request) ELSE request
  PROVE  RequestsInv'
<1>1. CASE store = "mongo"
  <2>1. request' = Without(s, request) /\ stored'["mongo"] = stored["mongo"] \ {s}
    BY <1>1 DEF StoresTyped, Servers
  <2> QED BY <2>1, SessionGoes DEF RequestsInv
<1>2. CASE store # "mongo"
  <2>1. request' = request /\ stored'["mongo"] = stored["mongo"]
    BY <1>2 DEF StoresTyped, Servers
  <2> QED BY <2>1 DEF RequestsInv
<1> QED BY <1>1, <1>2

LEMMA CarriedOutIsLoss ==
  ASSUME NEW q \in Requests, CarriedOut(q)
  PROVE  /\ request[q].pc \in Servers
         /\ stored' = [stored EXCEPT ![request[q].pc] = @ \ {request[q].at}]
         /\ request' = IF request[q].pc = "mongo" THEN Without(request[q].at, request)
                       ELSE request
BY DEF CarriedOut, Servers

LEMMA RequestsStep ==
  ASSUME RequestsInv, StoresTyped, [Next]_vars
  PROVE  RequestsInv'
<1>1. CASE stored'["mongo"] = stored["mongo"] /\ request' = request
  BY <1>1 DEF RequestsInv
<1>2. CASE Server \/ Client \/ BreakerTimer
  BY <1>1, <1>2 DEF Server, Client, BreakerTimer
<1>3. ASSUME NEW c \in Calls, Open(c) \/ Resolve(c) PROVE RequestsInv'
  BY <1>1, <1>3 DEF Open, Resolve
<1>4. ASSUME NEW q \in Requests, NEW o \in Ops, NEW S \in SUBSET Sessions, Begin(q, o, S)
      PROVE  RequestsInv'
  BY <1>4, BeginKeepsRequests
<1>5. ASSUME NEW q \in Requests, Proceed(q) PROVE RequestsInv'
  BY <1>5, RedisCommandKeepsRequests, FireKeepsRequests, MongoCommandKeepsRequests
     DEF Proceed
<1>6. ASSUME NEW q \in Requests, CarriedOut(q) PROVE RequestsInv'
  BY <1>6, CarriedOutIsLoss, LossKeepsRequests
<1>7. ASSUME NEW q \in Requests, Return(q) PROVE RequestsInv'
  <2>1. request' = [request EXCEPT ![q] = NoRequest] /\ stored' = stored
    BY <1>7 DEF Return
  <2> QED BY <2>1, NoRequestOK, RequestMoves
<1>8. ASSUME NEW s \in Sessions, Warm(s) PROVE RequestsInv'
  <2>1. stored'["mongo"] = stored["mongo"] /\ request' = request
    BY <1>8 DEF Warm, StoresTyped, Servers
  <2> QED BY <1>1, <2>1
<1>9. ASSUME NEW s \in Sessions, NEW store \in Servers, Expire(s, store) PROVE RequestsInv'
  BY <1>9, LossKeepsRequests DEF Expire
<1>10. CASE UNCHANGED vars
  BY <1>1, <1>10 DEF vars
<1> QED BY <1>2, <1>3, <1>4, <1>5, <1>6, <1>7, <1>8, <1>9, <1>10 DEF Next

-----------------------------------------------------------------------------
(* The breaker *)

LEMMA FiredOK ==
  ASSUME NEW b \in Breakers
  PROVE  Fired(b) \in Breakers /\ Fired(b).state = b.state
<1>1. MaxFires \in Nat /\ MaxFires > 0
  BY ServiceAssumption
<1>2. b.fires \in 0..MaxFires
  BY DEF Breakers
<1>3. b.fires < MaxFires => b.fires + 1 \in 0..MaxFires
  BY <1>1, <1>2
<1>4. 0 \in 0..MaxFires /\ 1 \in 0..MaxFires
  BY <1>1
<1> QED BY <1>3, <1>4 DEF Fired, Breakers

LEMMA SucceededOK ==
  ASSUME NEW b \in Breakers
  PROVE  Succeeded(b) \in Breakers /\ Succeeded(b).state # "halfOpen"
BY DEF Succeeded, Breakers

LEMMA FailedOK ==
  ASSUME NEW b \in Breakers
  PROVE  Failed(b) \in Breakers /\ Failed(b).state # "halfOpen"
<1>1. MaxFires \in Nat
  BY ServiceAssumption
<1>2. b.failures \in 0..MaxFires
  BY DEF Breakers
<1>3. PICK failures : failures = IF b.failures < MaxFires THEN b.failures + 1 ELSE MaxFires
  OBVIOUS
<1>4. failures \in 0..MaxFires
  BY <1>1, <1>2, <1>3
<1>5. PICK opens \in BOOLEAN : opens <=> 2 * failures > b.fires \/ b.state = "halfOpen"
  OBVIOUS
<1>6. Failed(b) = IF opens THEN [b EXCEPT !.failures = failures, !.state = "open", !.due = FALSE]
                  ELSE [b EXCEPT !.failures = failures]
  BY <1>3, <1>5 DEF Failed
<1> QED BY <1>4, <1>5, <1>6 DEF Breakers

LEMMA BreakerTimerOK ==
  ASSUME breaker \in Breakers, BreakerTimer
  PROVE  breaker' \in Breakers /\ (breaker'.state = "halfOpen" /\ ~breaker'.due =>
                                     breaker.state = "halfOpen" /\ ~breaker.due)
<1>1. MaxFires \in Nat /\ 0 \in 0..MaxFires
  BY ServiceAssumption
<1>2. CASE HalfOpen
  BY <1>2 DEF HalfOpen, Breakers
<1>3. CASE Roll
  BY <1>1, <1>3 DEF Roll, Breakers
<1> QED BY <1>2, <1>3 DEF BreakerTimer

LEMMA BreakerStart == Init => breaker \in Breakers /\ TrialOut
<1>1. MaxFires \in Nat /\ 0 \in 0..MaxFires
  BY ServiceAssumption
<1>2. NewBreaker \in Breakers /\ NewBreaker.state # "halfOpen"
  BY <1>1 DEF NewBreaker, Breakers
<1> QED BY <1>2 DEF Init, TrialOut

LEMMA BreakerStep ==
  ASSUME breaker \in Breakers, [Next]_vars
  PROVE  breaker' \in Breakers
<1>1. CASE BreakerTimer
  BY <1>1, BreakerTimerOK
<1>2. CASE Server \/ Client \/ UNCHANGED vars
  BY <1>2 DEF Server, Client, vars
<1>3. ASSUME NEW c \in Calls, Open(c) \/ Resolve(c) PROVE breaker' \in Breakers
  BY <1>3 DEF Open, Resolve
<1>4. ASSUME NEW q \in Requests, NEW o \in Ops, NEW S \in SUBSET Sessions, Begin(q, o, S)
      PROVE  breaker' \in Breakers
  BY <1>4 DEF Begin
<1>5. ASSUME NEW q \in Requests, RedisCommand(q) \/ CarriedOut(q) \/ Return(q)
      PROVE  breaker' \in Breakers
  BY <1>5 DEF RedisCommand, CarriedOut, Return
<1>6. ASSUME NEW q \in Requests, Fire(q) PROVE breaker' \in Breakers
  BY <1>6, FiredOK DEF Fire
<1>7. ASSUME NEW q \in Requests, MongoCommand(q) PROVE breaker' \in Breakers
  BY <1>7, SucceededOK, FailedOK DEF MongoCommand
<1>8. ASSUME NEW s \in Sessions, Warm(s) \/ \E store \in Servers : Expire(s, store)
      PROVE  breaker' \in Breakers
  BY <1>8 DEF Warm, Expire
<1> QED BY <1>1, <1>2, <1>3, <1>4, <1>5, <1>6, <1>7, <1>8 DEF Next, Proceed

\* The trial is out.
Trial(r) == r.pc = "mongo" /\ r.op \in Gets

LEMMA TrialStays ==
  ASSUME TrialOut,
         breaker'.state = "halfOpen" /\ ~breaker'.due => breaker.state = "halfOpen" /\ ~breaker.due,
         \A p \in Requests : Trial(request[p]) => Trial(request'[p])
  PROVE  TrialOut'
BY DEF TrialOut, Trial

LEMMA OthersWait ==
  ASSUME RequestsInv, NEW q \in Requests, ~Trial(request[q]), NEW n,
         request' = [request EXCEPT ![q] = n]
  PROVE  \A p \in Requests : Trial(request[p]) => Trial(request'[p])
<1>1. \A p \in Requests \ {q} : request'[p] = request[p]
  BY DEF RequestsInv
<1> QED BY <1>1

LEMMA LostFields ==
  ASSUME NEW r \in Reqs, NEW s
  PROVE  Lost(r, s).pc = r.pc /\ Lost(r, s).op = r.op
BY DEF Lost, Reqs

LEMMA FireKeepsTrial ==
  ASSUME RequestsInv, breaker \in Breakers, TrialOut, NEW q \in Requests, Fire(q)
  PROVE  TrialOut'
<1> DEFINE r == request[q]
<1>1. r \in Reqs /\ Placed(r) /\ r.pc = "fire"
  BY DEF RequestsInv, RequestOK, Fire
<1>2. breaker'.state = breaker.state
  BY FiredOK DEF Fire
<1>3. CASE Rejects
  <2>1. \A p \in Requests : Trial(request[p]) => Trial(request'[p])
    BY <1>1, <1>3, OthersWait DEF Fire, Trial
  <2>2. breaker.state = "halfOpen" => ~breaker.due
    BY <1>3 DEF Rejects
  <2> QED BY <1>2, <2>1, <2>2, TrialStays
<1>4. CASE ~Rejects
  <2>1. request'[q] = [r EXCEPT !.pc = "mongo"]
    BY <1>4 DEF Fire, RequestsInv
  <2>2. Trial(request'[q])
    BY <1>1, <2>1 DEF Trial, Placed, Reqs
  <2> QED BY <2>2 DEF TrialOut, Trial
<1> QED BY <1>3, <1>4

LEMMA MongoCommandKeepsTrial ==
  ASSUME RequestsInv, breaker \in Breakers, TrialOut, StoresTyped,
         NEW q \in Requests, MongoCommand(q)
  PROVE  TrialOut'
<1> DEFINE r == request[q]
<1>1. CASE r.op \in Gets
  <2>1. breaker' = Succeeded(breaker) \/ breaker' = Failed(breaker)
    BY <1>1 DEF MongoCommand, Gets
  <2> QED BY <2>1, SucceededOK, FailedOK DEF TrialOut
<1>2. CASE r.op \notin Gets
  <2>1. breaker' = breaker
    BY <1>2 DEF MongoCommand, Gets
  <2>2. PICK after : after = [request EXCEPT ![q] = AfterMongo(r, MongoAnswers)]
    OBVIOUS
  <2>3. request' = after \/ request' = Without(r.at, after)
    BY <2>2 DEF MongoCommand
  <2>4. ASSUME NEW p \in Requests, Trial(request[p]) PROVE Trial(request'[p])
    <3>1. p # q /\ request[p] \in Reqs
      BY <1>2, <2>4 DEF Trial, RequestsInv
    <3>2. after[p] = request[p]
      BY <2>2, <3>1 DEF RequestsInv
    <3>3. request'[p] = request[p] \/ request'[p] = Lost(request[p], r.at)
      BY <2>3, <3>2 DEF Without
    <3> QED BY <2>4, <3>1, <3>3, LostFields DEF Trial
  <2> QED BY <2>1, <2>4, TrialStays
<1> QED BY <1>1, <1>2

LEMMA LossKeepsTrial ==
  ASSUME RequestsInv, TrialOut, NEW s, breaker' = breaker,
         request' = request \/ request' = Without(s, request)
  PROVE  TrialOut'
<1>1. ASSUME NEW p \in Requests, Trial(request[p]) PROVE Trial(request'[p])
  <2>1. request'[p] = request[p] \/ request'[p] = Lost(request[p], s)
    BY DEF Without
  <2>2. request[p] \in Reqs
    BY DEF RequestsInv
  <2> QED BY <1>1, <2>1, <2>2, LostFields DEF Trial
<1> QED BY <1>1, TrialStays

\* While the breaker is half open and has let its trial through, the trial is out.
LEMMA TrialStep ==
  ASSUME RequestsInv, StoresTyped, breaker \in Breakers, TrialOut, [Next]_vars
  PROVE  TrialOut'
<1>1. CASE UNCHANGED <<breaker, request>>
  BY <1>1 DEF TrialOut
<1>2. CASE Server \/ Client \/ UNCHANGED vars
  BY <1>1, <1>2 DEF Server, Client, vars
<1>3. CASE BreakerTimer
  <2>1. request' = request
    BY <1>3 DEF BreakerTimer
  <2> QED BY <1>3, <2>1, BreakerTimerOK, TrialStays
<1>4. ASSUME NEW c \in Calls, Open(c) \/ Resolve(c) PROVE TrialOut'
  BY <1>1, <1>4 DEF Open, Resolve
<1>5. ASSUME NEW q \in Requests, breaker' = breaker, request[q].pc # "mongo",
             \E n : request' = [request EXCEPT ![q] = n]
      PROVE  TrialOut'
  <2>1. PICK n : request' = [request EXCEPT ![q] = n]
    BY <1>5
  <2>2. \A p \in Requests : Trial(request[p]) => Trial(request'[p])
    BY <1>5, <2>1, OthersWait DEF Trial
  <2> QED BY <1>5, <2>2, TrialStays
<1>6. ASSUME NEW q \in Requests, NEW o \in Ops, NEW S \in SUBSET Sessions, Begin(q, o, S)
      PROVE  TrialOut'
  BY <1>5, <1>6 DEF Begin
<1>7. ASSUME NEW q \in Requests, RedisCommand(q) PROVE TrialOut'
  BY <1>5, <1>7 DEF RedisCommand
<1>8. ASSUME NEW q \in Requests, Return(q) PROVE TrialOut'
  BY <1>5, <1>8 DEF Return, Ended
<1>9. ASSUME NEW q \in Requests, Fire(q) \/ MongoCommand(q) PROVE TrialOut'
  BY <1>9, FireKeepsTrial, MongoCommandKeepsTrial
<1>10. ASSUME NEW s \in Sessions, Warm(s) PROVE TrialOut'
  BY <1>1, <1>10 DEF Warm
<1>11. ASSUME NEW s \in Sessions, NEW store \in Servers, Expire(s, store) PROVE TrialOut'
  BY <1>11, LossKeepsTrial DEF Expire
<1>12. ASSUME NEW q \in Requests, CarriedOut(q) PROVE TrialOut'
  <2>1. breaker' = breaker
    BY <1>12 DEF CarriedOut
  <2> QED BY <1>12, <2>1, CarriedOutIsLoss, LossKeepsTrial
<1> QED
  BY <1>2, <1>3, <1>4, <1>6, <1>7, <1>8, <1>9, <1>10, <1>11, <1>12 DEF Next, Proceed

-----------------------------------------------------------------------------
(* The theorems *)

ServiceIInv ==
  LinksInv /\ StoresTyped /\ RequestsInv /\ breaker \in Breakers /\ TrialOut

\* The parts hold together: no step of the clients, the servers or the requests
\* leaves one of them behind.
THEOREM ServiceIInvTheorem == Spec => []ServiceIInv
<1>1. Init => ServiceIInv
  BY LinksStart, StoresStart, RequestsStart, BreakerStart DEF ServiceIInv
<1>2. ServiceIInv /\ [Next]_vars => ServiceIInv'
  <2> SUFFICES ASSUME ServiceIInv, [Next]_vars PROVE ServiceIInv'
    OBVIOUS
  <2>1. LinksInv'
    BY LinksStep DEF ServiceIInv
  <2>2. StoresTyped' /\ RequestsInv'
    BY StoresStep, RequestsStep DEF ServiceIInv
  <2>3. breaker' \in Breakers /\ TrialOut'
    BY BreakerStep, TrialStep DEF ServiceIInv
  <2> QED BY <2>1, <2>2, <2>3 DEF ServiceIInv
<1> QED BY <1>1, <1>2, PTL DEF Spec

\* The state of the connections, the breaker and the requests is well formed, no
\* operation passes ensureConnected on a closed client, and calls of connect and
\* disconnect that do not overlap leave one reconciler at most
\* (hybrid/store.ts:145-243, redis/store.ts:92-207).
THEOREM ServiceTheorem == Spec => []ServiceInv
<1>1. ServiceIInv => ServiceInv
  <2> SUFFICES ASSUME ServiceIInv PROVE ServiceInv
    OBVIOUS
  <2>1. /\ up \subseteq Servers /\ outages \in 0..MaxOutages
        /\ redis.status \in {"connecting", "connect", "ready", "waiting", "end"}
        /\ redis.tries \in 0..(MaxRetries + 1)
        /\ mongo.client \in {"new", "open", "closed"}
        /\ hybrid.manager \in Calls \cup {None} /\ hybrid.running \subseteq Calls
    BY DEF ServiceIInv, LinksInv, LinksTyped, Statuses
  <2>2. \A c \in Calls : opener[c] \in {"idle", "ping", "mongo", "indexes", "closing"} \cup Ended
    BY DEF ServiceIInv, LinksInv, LinksTyped, Waits
  <2>3. stored \in [Servers -> SUBSET Sessions] /\ warming \subseteq Sessions
    BY DEF ServiceIInv, StoresTyped
  <2>4. ASSUME NEW q \in Requests
        PROVE  /\ request[q].pc \in {"idle", "redis", "refused", "fire", "mongo"} \cup Ended
               /\ request[q].todo \cup request[q].late \subseteq Sessions
    <3>1. request[q] \in Reqs
      BY DEF ServiceIInv, RequestsInv
    <3> QED BY <3>1 DEF Reqs, Pcs
  <2>5. FlagFollowsClient
    BY DEF ServiceIInv, LinksInv, ClientInv, FlagFollowsClient
  <2>6. OneReconciler
    BY DEF ServiceIInv, LinksInv, TurnsInv, OneReconciler
  <2>7. breaker \in Breakers
    BY DEF ServiceIInv
  <2> QED BY <2>1, <2>2, <2>3, <2>4, <2>5, <2>6, <2>7 DEF ServiceInv, TypeOK
<1> QED BY <1>1, ServiceIInvTheorem, PTL

\* No get, exists or batchGet says that there is nothing where MongoDB has had the
\* session throughout, unless MongoDB or the breaker failed it: however Redis fails
\* or forgets, and whatever other requests do meanwhile
\* (hybrid/store.ts:248-330, 573-592, 711-800).
THEOREM HiddenTheorem == Spec => []NothingIsHidden
<1>1. ServiceIInv => NothingIsHidden
  <2> SUFFICES ASSUME ServiceIInv, NEW q \in Requests, request[q].pc = "done",
                      NEW s \in request[q].there
               PROVE  /\ (request[q].op \in Gets /\ request[q].res[s] \in {"null", None}
                           => s \in request[q].excused)
                      /\ request[q].op = "exists" => request[q].res[s] # "false"
    BY DEF NothingIsHidden, Gets
  <2> DEFINE r == request[q]
  <2>1. r \in Reqs /\ Placed(r) /\ ReadSound(r, Owed(r), stored["mongo"])
    BY DEF ServiceIInv, RequestsInv, RequestOK
  <2>2. r.op \in Gets => Owed(r) = {}
    BY <2>1 DEF Owed, Placed, Busy
  <2>3. "hit" \notin {"null", None}
    BY NoneIsNothing DEF Results
  <2> QED BY <2>1, <2>2, <2>3 DEF ReadSound
<1> QED BY <1>1, ServiceIInvTheorem, PTL

\* Where the route says healthy, performHealthCheck does, and the breaker lets the
\* next read through or has a trial out that decides; what is live is ready
\* (health/health-check.ts:73-185, hybrid/store.ts:597-633).
THEOREM HealthyTheorem == Spec => []HealthyIsServed
<1>1. ServiceIInv => HealthyIsServed
  <2> SUFFICES ASSUME ServiceIInv, NEW q \in Requests
               PROVE  LET on(store) == Healthy(request[q], store)
                          route == RouteStatus(IsHealthy(request[q]), IsMongoCircuitBreakerOpen)
                          trialOut == \E p \in Requests :
                            request[p].pc = "mongo" /\ request[p].op \in {"get", "batchGet"} IN
                      /\ route = "healthy" =>
                           /\ OverallStatus(on("redis"), on("mongo")) = "healthy"
                           /\ Rejects => trialOut
                      /\ IsLive(on("redis"), on("mongo")) => IsReady(on("redis"), on("mongo"))
    BY DEF HealthyIsServed
  <2> DEFINE onRedis == Healthy(request[q], "redis")
             onMongo == Healthy(request[q], "mongo")
  <2>1. ASSUME RouteStatus(IsHealthy(request[q]), IsMongoCircuitBreakerOpen) = "healthy"
        PROVE  onRedis /\ onMongo /\ breaker.state # "open"
    BY <2>1 DEF RouteStatus, IsHealthy, IsMongoCircuitBreakerOpen, Servers
  <2>2. onRedis /\ onMongo => OverallStatus(onRedis, onMongo) = "healthy"
    BY DEF OverallStatus, BreakerStatus
  <2>3. breaker.state # "open" /\ Rejects =>
          \E p \in Requests : request[p].pc = "mongo" /\ request[p].op \in {"get", "batchGet"}
    <3>1. breaker.state \in {"closed", "open", "halfOpen"}
      BY DEF ServiceIInv, Breakers
    <3> QED BY <3>1 DEF ServiceIInv, TrialOut, Rejects, Gets
  <2>4. IsLive(onRedis, onMongo) => onRedis /\ onMongo
    BY DEF IsLive, OverallStatus, BreakerStatus
  <2>5. onRedis => IsReady(onRedis, onMongo)
    <3> SUFFICES ASSUME onRedis PROVE \E c \in ComponentsOf(onRedis, onMongo) : c.healthy
      BY DEF IsReady
    <3>1. [component |-> "redis", healthy |-> onRedis] \in ComponentsOf(onRedis, onMongo)
      BY DEF ComponentsOf
    <3>2. [component |-> "redis", healthy |-> onRedis].healthy
      OBVIOUS
    <3> QED BY <3>1, <3>2
  <2> HIDE DEF onRedis, onMongo
  <2>6. RouteStatus(IsHealthy(request[q]), IsMongoCircuitBreakerOpen) = "healthy" =>
          /\ OverallStatus(onRedis, onMongo) = "healthy"
          /\ Rejects => \E p \in Requests :
               request[p].pc = "mongo" /\ request[p].op \in {"get", "batchGet"}
    BY <2>1, <2>2, <2>3
  <2> QED BY <2>4, <2>5, <2>6 DEF onRedis, onMongo
<1> QED BY <1>1, ServiceIInvTheorem, PTL
=============================================================================
