------------------------------ MODULE LidCache ------------------------------
(***************************************************************************)
(* LIDMappingCache (src/identity/lid-cache.ts): two keys per mapping on    *)
(* one Redis connection, which carries out the commands of a pipeline      *)
(* together and in the order of the calls.  deleteMapping and clear read   *)
(* first and delete later; mappings may be stored in between.              *)
(***************************************************************************)
EXTENDS Integers, Sequences

CONSTANTS
  Lids, Pns, Callers, None,
  TtlTicks,  \* ttlSeconds, in ticks; 0 is no expiry
  Batches,   \* the batches passed to storeMappings: sequences of [lid, pn]
  MaxClock   \* bound: how many calls may take a stamp

ASSUME LidAssumption ==
  /\ TtlTicks \in Nat /\ MaxClock \in Nat
  /\ Batches \subseteq Seq([lid : Lids, pn : Pns])
  /\ None \notin Lids \cup Pns
  /\ Lids \cap Pns = {}

VARIABLES
  lidKeys,  \* what is stored under each LID: the number, storedAt, the TTL left
  pnKeys,   \* what is stored under each number
  clock,    \* Date.now(), advanced by every call that begins
  caller,   \* the calls
  deleted   \* the LIDs and numbers last deleted, not expired

vars == <<lidKeys, pnKeys, clock, caller, deleted>>

Life == IF TtlTicks = 0 THEN 1 ELSE TtlTicks
Entry(to, at) == [to |-> to, at |-> at, ttl |-> Life]
NoEntry == [to |-> None, at |-> 0, ttl |-> 0]

Idle == [pc |-> "idle", op |-> "clear", at |-> 0, lid |-> None, pn |-> None, left |-> {}, keys |-> {}]

Init ==
  /\ lidKeys = [l \in Lids |-> NoEntry]
  /\ pnKeys = [p \in Pns |-> NoEntry]
  /\ clock = 0
  /\ caller = [c \in Callers |-> Idle]
  /\ deleted = {}

-----------------------------------------------------------------------------
PNForLID(l) == lidKeys[l].to
LIDForPN(p) == pnKeys[p].to
HasLID(l) == lidKeys[l].ttl > 0
HasPN(p) == pnKeys[p].ttl > 0

\* The gets of one pipeline are answered together.
BatchGetPNForLIDs(lids) == [l \in lids |-> PNForLID(l)]

\* getMapping, with the time the mapping was stored.
Mapping(l) == [pn |-> PNForLID(l), storedAt |-> lidKeys[l].at]

LidPositions(batch, l) == {i \in DOMAIN batch : batch[i].lid = l}
PnPositions(batch, p) == {i \in DOMAIN batch : batch[i].pn = p}
LastOf(S) == CHOOSE i \in S : \A j \in S : j <= i

\* Mutant: a number that is known keeps its LID.
WritePnsOnce(batch, at) ==
  [p \in Pns |->
     LET S == PnPositions(batch, p) IN
     IF S = {} \/ LIDForPN(p) # None THEN pnKeys[p] ELSE Entry(batch[LastOf(S)].lid, at)]

\* Mutant: only a new mapping of a number is given a TTL of its own.
WritePnsKeepingTtl(batch, at) ==
  [p \in Pns |->
     LET S == PnPositions(batch, p) IN
     IF S = {} THEN pnKeys[p]
     ELSE [Entry(batch[LastOf(S)].lid, at) EXCEPT
             !.ttl = IF LIDForPN(p) # None THEN pnKeys[p].ttl ELSE @]]

\* The SETs of one pipeline: the last one to a key stays.
WriteLids(batch, at) ==
  [l \in Lids |->
     LET S == LidPositions(batch, l) IN
     IF S = {} THEN lidKeys[l] ELSE Entry(batch[LastOf(S)].pn, at)]

WritePns(batch, at) ==
  [p \in Pns |->
     LET S == PnPositions(batch, p) IN
     IF S = {} THEN pnKeys[p] ELSE Entry(batch[LastOf(S)].lid, at)]

Written(batch) ==
  {batch[i].lid : i \in DOMAIN batch} \cup {batch[i].pn : i \in DOMAIN batch}

StoreMappings(c, batch) ==
  /\ caller[c].pc = "idle" /\ clock < MaxClock
  /\ clock' = clock + 1
  /\ lidKeys' = WriteLids(batch, clock')
  /\ pnKeys' = WritePns(batch, clock')
  /\ deleted' = deleted \ Written(batch)
  /\ UNCHANGED caller

\* The DELs of one pipeline.
Del(keys) ==
  /\ lidKeys' = [l \in Lids |-> IF l \in keys THEN NoEntry ELSE lidKeys[l]]
  /\ pnKeys' = [p \in Pns |-> IF p \in keys THEN NoEntry ELSE pnKeys[p]]
  /\ deleted' = deleted \cup keys

\* deleteMapping: the number is asked for first.
DeleteRead(c, l) ==
  /\ caller[c].pc = "idle" /\ clock < MaxClock
  /\ clock' = clock + 1
  /\ caller' = [caller EXCEPT ![c] =
       [Idle EXCEPT !.pc = "delete", !.at = clock', !.lid = l, !.pn = PNForLID(l)]]
  /\ UNCHANGED <<lidKeys, pnKeys, deleted>>

DeleteBoth(c) ==
  /\ caller[c].pc = "delete"
  /\ Del({caller[c].lid, caller[c].pn} \ {None})
  /\ caller' = [caller EXCEPT ![c] = Idle]
  /\ UNCHANGED clock

\* clear and getStats ask for the keys of the one prefix, then of the other.
ScanBegin(c, o) ==
  /\ caller[c].pc = "idle" /\ clock < MaxClock
  /\ clock' = clock + 1
  /\ caller' = [caller EXCEPT ![c] =
       [Idle EXCEPT !.pc = "scanLids", !.op = o, !.at = clock', !.left = Lids]]
  /\ UNCHANGED <<lidKeys, pnKeys, deleted>>

Found(page) == {l \in page \cap Lids : HasLID(l)} \cup {p \in page \cap Pns : HasPN(p)}

AfterScan(o) == IF o = "clear" THEN "clear" ELSE "counted"

\* Mutant: one page of each SCAN is taken for all of it.
ScanOnce(c) ==
  \E page \in SUBSET caller[c].left \ {{}} :
    /\ caller[c].pc \in {"scanLids", "scanPns"}
    /\ caller' = [caller EXCEPT
         ![c].pc = IF @ = "scanLids" THEN "scanPns" ELSE AfterScan(caller[c].op),
         ![c].left = IF caller[c].pc = "scanLids" THEN Pns ELSE {},
         ![c].keys = @ \cup Found(page)]
    /\ UNCHANGED <<lidKeys, pnKeys, clock, deleted>>

\* One SCAN: a page of the keys, each looked at once; the cursor that comes back
\* is 0 when none is left, and the other prefix follows.
Paged(call, page) ==
  [call EXCEPT
     !.pc = IF page # call.left THEN call.pc
            ELSE IF call.pc = "scanLids" THEN "scanPns" ELSE AfterScan(call.op),
     !.left = IF page = call.left /\ call.pc = "scanLids" THEN Pns ELSE call.left \ page,
     !.keys = call.keys \cup Found(page)]

Scan(c) ==
  \E page \in SUBSET caller[c].left \ {{}} :
    /\ caller[c].pc \in {"scanLids", "scanPns"}
    /\ caller' = [caller EXCEPT ![c] = Paged(caller[c], page)]
    /\ UNCHANGED <<lidKeys, pnKeys, clock, deleted>>

ClearAll(c) ==
  /\ caller[c].pc = "clear"
  /\ Del(caller[c].keys)
  /\ caller' = [caller EXCEPT ![c] = [Idle EXCEPT !.pc = "cleared", !.at = caller[c].at]]
  /\ UNCHANGED clock

Aged(e) == IF e.ttl <= 1 THEN NoEntry ELSE [e EXCEPT !.ttl = @ - 1]

Tick ==
  /\ TtlTicks > 0
  /\ lidKeys' = [l \in Lids |-> Aged(lidKeys[l])]
  /\ pnKeys' = [p \in Pns |-> Aged(pnKeys[p])]
  /\ UNCHANGED <<clock, caller, deleted>>

Next ==
  \/ \E c \in Callers :
       \/ \E batch \in Batches : StoreMappings(c, batch)
       \/ \E l \in Lids : DeleteRead(c, l)
       \/ DeleteBoth(c) \/ Scan(c) \/ ClearAll(c)
       \/ \E o \in {"clear", "stats"} : ScanBegin(c, o)
  \/ Tick

Spec == Init /\ [][Next]_vars

-----------------------------------------------------------------------------
Entries(To) == [to : To \cup {None}, at : Nat, ttl : Nat]

\* The cache's keys and the calls are well formed.
TypeOK ==
  /\ lidKeys \in [Lids -> Entries(Pns)]
  /\ pnKeys \in [Pns -> Entries(Lids)]
  /\ clock \in Nat
  /\ \A c \in Callers :
       /\ caller[c].pc \in {"idle", "delete", "scanLids", "scanPns", "clear", "cleared", "counted"}
       /\ caller[c].at \in Nat
       /\ caller[c].keys \subseteq Lids \cup Pns
  /\ deleted \subseteq Lids \cup Pns

\* When a LID or a number has been mapped anew and the directions disagree, the
\* answer with the later storedAt is the current one: following a mapping and
\* back never leads to something older (storeMappings, whatever deleteMapping and
\* clear do meanwhile).
FollowingLeadsToNewer ==
  /\ \A l \in Lids : HasLID(l) =>
       ~HasPN(PNForLID(l)) \/ pnKeys[PNForLID(l)].at >= Mapping(l).storedAt
  /\ \A p \in Pns : HasPN(p) =>
       ~HasLID(LIDForPN(p)) \/ Mapping(LIDForPN(p)).storedAt >= pnKeys[p].at

\* Expiry never leaves half a mapping: where the way back is missing, it was
\* deleted.
NoHalfExpires ==
  /\ LET pn == BatchGetPNForLIDs(Lids) IN
     \A l \in Lids : HasLID(l) => HasPN(pn[l]) \/ pn[l] \in deleted
  /\ \A p \in Pns : HasPN(p) => HasLID(LIDForPN(p)) \/ LIDForPN(p) \in deleted

StoredSince(at) ==
  {l \in Lids : HasLID(l) /\ lidKeys[l].at > at}
    \cup {p \in Pns : HasPN(p) /\ pnKeys[p].at > at}

\* Whatever is stored while a scan goes from page to page and from prefix to
\* prefix, clear leaves nothing that was stored before it was called, and
\* getStats has counted all that was and still is.
ScansAreComplete ==
  \A c \in Callers :
    LET older == Found(Lids \cup Pns) \ StoredSince(caller[c].at) IN
    /\ caller[c].pc = "cleared" => older = {}
    /\ caller[c].pc = "counted" => older \subseteq caller[c].keys

\* Known not to hold: deleteMapping leaves no number that resolves to the LID.
\* The number the LID was mapped to before still does; and where two LIDs share
\* a number, deleting the one takes the other's way back.
DeleteIsExact ==
  \A p \in Pns : HasPN(p) => LIDForPN(p) \notin deleted
=============================================================================
