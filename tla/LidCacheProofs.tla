--------------------------- MODULE LidCacheProofs ---------------------------
(***************************************************************************)
(* The two directions of the LID mapping cache, for every set of LIDs and  *)
(* numbers, every batch and every TTL.  FollowingLeadsToNewer and          *)
(* NoHalfExpires speak of the entries that are there; inductive is that an *)
(* entry's way back is at least as new and lives at least as long, unless  *)
(* it was deleted.                                                         *)
(***************************************************************************)
EXTENDS LidCache, WellFoundedInduction, TLAPS

Pcs == {"idle", "delete", "scanLids", "scanPns", "clear", "cleared", "counted"}

Callings ==
  [pc : Pcs, op : {"clear", "stats"}, at : Nat, lid : Lids \cup {None},
   pn : Pns \cup {None}, left : SUBSET (Lids \cup Pns), keys : SUBSET (Lids \cup Pns)]

KeysTypeOK ==
  /\ lidKeys \in [Lids -> Entries(Pns)]
  /\ pnKeys \in [Pns -> Entries(Lids)]
  /\ clock \in Nat
  /\ caller \in [Callers -> Callings]
  /\ deleted \subseteq Lids \cup Pns

\* The entries f of X lead to entries g of Y, or to deleted ones.
Leads(X, Y, f, g, gone, now) ==
  \A x \in X : f[x].ttl > 0 =>
    /\ f[x].to \in Y
    /\ f[x].at <= now
    /\ f[x].ttl <= Life
    /\ g[f[x].to].ttl > 0 => g[f[x].to].at >= f[x].at
    /\ f[x].to \in gone \/ g[f[x].to].ttl >= f[x].ttl

\* The entries of X under the keys W are written at a time, and only they.
Overwrites(X, Y, f, f2, W, at) ==
  \A x \in X : \/ x \notin W /\ f2[x] = f[x]
              \/ /\ x \in W
                 /\ f2[x].to \in Y /\ f2[x].to \in W
                 /\ f2[x].at = at /\ f2[x].ttl = Life

\* The keys of X stored no later than at.
OldOf(X, f, at) == {x \in X : f[x].ttl > 0 /\ f[x].at <= at}

\* What was stored before a call is either still to be scanned or found.
ScanKnows(call, f, g, now) ==
  LET oldLids == OldOf(Lids, f, call.at)
      oldPns == OldOf(Pns, g, call.at)
  IN /\ call.at <= now
     /\ call.pc = "scanLids" => oldLids \subseteq call.left \cup call.keys
     /\ call.pc = "scanPns" =>
          oldLids \subseteq call.keys /\ oldPns \subseteq call.left \cup call.keys
     /\ call.pc \in {"clear", "counted"} =>
          oldLids \subseteq call.keys /\ oldPns \subseteq call.keys
     /\ call.pc = "cleared" => oldLids = {} /\ oldPns = {}

ScanInv == \A c \in Callers : ScanKnows(caller[c], lidKeys, pnKeys, clock)

LidInv ==
  /\ KeysTypeOK
  /\ Leads(Lids, Pns, lidKeys, pnKeys, deleted, clock)
  /\ Leads(Pns, Lids, pnKeys, lidKeys, deleted, clock)

-----------------------------------------------------------------------------
(* The last of some positions. *)

LEMMA LastIsThere ==
  ASSUME NEW n \in Nat, NEW S \in SUBSET (1..n), S # {}
  PROVE  LastOf(S) \in S
<1> DEFINE T == {n - i : i \in S}
<1>1. T \subseteq Nat /\ T # {}
  <2>1. \A i \in 1..n : n - i \in Nat
    OBVIOUS
  <2> QED BY <2>1
<1>2. PICK m \in T : \A k \in T : ~(<<k, m>> \in OpToRel(<, Nat))
  <2> HIDE DEF T
  <2> QED BY <1>1, WFMin, NatLessThanWellFounded, Zenon
<1>3. \A k \in T : ~(k < m)
  BY <1>1, <1>2, Zenon DEF OpToRel
<1>4. PICK i \in S : m = n - i
  OBVIOUS
<1>5. \A j \in S : j <= i
  <2> TAKE j \in S
  <2>1. ~(n - j < n - i)
    BY <1>3, <1>4
  <2>2. i \in 1..n /\ j \in 1..n
    OBVIOUS
  <2> QED BY <2>1, <2>2
<1>6. \E k \in S : \A j \in S : j <= k
  BY <1>5
<1> QED BY <1>6, Zenon DEF LastOf

LEMMA LifeType == Life \in Nat \ {0}
BY LidAssumption DEF Life

-----------------------------------------------------------------------------
(* What the writes, the deletions and the ticks do to one direction. *)

LEMMA WriteLeads ==
  ASSUME NEW X, NEW Y, NEW now \in Nat, NEW gone, NEW gone2, NEW W,
         NEW f \in [X -> Entries(Y)], NEW g \in [Y -> Entries(X)],
         NEW f2 \in [X -> Entries(Y)], NEW g2 \in [Y -> Entries(X)],
         Leads(X, Y, f, g, gone, now),
         Overwrites(X, Y, f, f2, W, now + 1), Overwrites(Y, X, g, g2, W, now + 1),
         gone2 = gone \ W
  PROVE  Leads(X, Y, f2, g2, gone2, now + 1)
<1> SUFFICES ASSUME NEW x \in X, f2[x].ttl > 0
             PROVE  /\ f2[x].to \in Y
                    /\ f2[x].at <= now + 1
                    /\ f2[x].ttl <= Life
                    /\ g2[f2[x].to].ttl > 0 => g2[f2[x].to].at >= f2[x].at
                    /\ f2[x].to \in gone2 \/ g2[f2[x].to].ttl >= f2[x].ttl
  BY Zenon DEF Leads
<1>0. Life \in Nat
  BY LifeType
<1>1. f2[x] \in Entries(Y) /\ f2[x].at \in Nat /\ f2[x].ttl \in Nat
  BY DEF Entries
<1>2. \A y \in Y : g2[y].at \in Nat /\ g2[y].ttl \in Nat
  BY DEF Entries
<1>3. CASE f2[x] # f[x]
  <2>1. f2[x].to \in Y /\ f2[x].to \in W /\ f2[x].at = now + 1 /\ f2[x].ttl = Life
    BY <1>3 DEF Overwrites
  <2>2. g2[f2[x].to].at = now + 1 /\ g2[f2[x].to].ttl = Life
    BY <2>1 DEF Overwrites
  <2> QED BY <2>1, <2>2, <1>0
<1>4. CASE f2[x] = f[x]
  <2>1. /\ f2[x].to \in Y
        /\ f2[x].at <= now
        /\ f2[x].ttl <= Life
        /\ g[f2[x].to].ttl > 0 => g[f2[x].to].at >= f2[x].at
        /\ f2[x].to \in gone \/ g[f2[x].to].ttl >= f2[x].ttl
    BY <1>4 DEF Leads
  <2>2. CASE f2[x].to \in W
    <3>1. g2[f2[x].to].at = now + 1 /\ g2[f2[x].to].ttl = Life
      BY <2>1, <2>2 DEF Overwrites
    <3> QED BY <2>1, <3>1, <1>0, <1>1
  <2>3. CASE f2[x].to \notin W
    <3>1. g2[f2[x].to] = g[f2[x].to]
      BY <2>1, <2>3 DEF Overwrites
    <3>2. f2[x].to \in gone => f2[x].to \in gone2
      BY <2>1, <2>3
    <3> QED BY <2>1, <3>1, <3>2, <1>1
  <2> QED BY <2>2, <2>3
<1> QED BY <1>3, <1>4

LEMMA DeleteLeads ==
  ASSUME NEW X, NEW Y, NEW now, NEW gone, NEW keys,
         NEW f, NEW g, NEW f2, NEW g2,
         Leads(X, Y, f, g, gone, now),
         \A x \in X : f2[x] = IF x \in keys THEN NoEntry ELSE f[x],
         \A y \in Y : g2[y] = IF y \in keys THEN NoEntry ELSE g[y]
  PROVE  Leads(X, Y, f2, g2, gone \cup keys, now)
<1> SUFFICES ASSUME NEW x \in X, f2[x].ttl > 0
             PROVE  /\ f2[x].to \in Y
                    /\ f2[x].at <= now
                    /\ f2[x].ttl <= Life
                    /\ g2[f2[x].to].ttl > 0 => g2[f2[x].to].at >= f2[x].at
                    /\ f2[x].to \in gone \cup keys \/ g2[f2[x].to].ttl >= f2[x].ttl
  BY Zenon DEF Leads
<1>0. NoEntry.ttl = 0
  BY DEF NoEntry
<1>1. f2[x] = f[x]
  BY <1>0
<1>2. /\ f2[x].to \in Y
      /\ f2[x].at <= now
      /\ f2[x].ttl <= Life
      /\ g[f2[x].to].ttl > 0 => g[f2[x].to].at >= f2[x].at
      /\ f2[x].to \in gone \/ g[f2[x].to].ttl >= f2[x].ttl
  BY <1>1 DEF Leads
<1>3. CASE f2[x].to \in keys
  <2>1. g2[f2[x].to] = NoEntry
    BY <1>2, <1>3
  <2> QED BY <1>0, <1>2, <1>3, <2>1
<1>4. CASE f2[x].to \notin keys
  <2>1. g2[f2[x].to] = g[f2[x].to]
    BY <1>2, <1>4
  <2> QED BY <1>2, <2>1
<1> QED BY <1>3, <1>4

LEMMA AgedFacts ==
  ASSUME NEW To, NEW e \in Entries(To)
  PROVE  /\ Aged(e) \in Entries(To)
         /\ Aged(e).ttl > 0 =>
              Aged(e).to = e.to /\ Aged(e).at = e.at /\ e.ttl > 1
         /\ e.ttl > 1 => Aged(e).ttl = e.ttl - 1 /\ Aged(e).at = e.at
         /\ Aged(e).ttl <= e.ttl
<1>1. e.ttl \in Nat /\ e.at \in Nat /\ e.to \in To \cup {None}
  BY DEF Entries
<1>2. CASE e.ttl <= 1
  <2>1. Aged(e) = [to |-> None, at |-> 0, ttl |-> 0]
    BY <1>2 DEF Aged, NoEntry
  <2> QED BY <1>1, <1>2, <2>1 DEF Entries
<1>3. CASE e.ttl > 1
  <2>1. Aged(e) = [e EXCEPT !.ttl = e.ttl - 1]
    BY <1>1, <1>3 DEF Aged
  <2>2. \A n \in Nat : /\ [e EXCEPT !.ttl = n] \in Entries(To)
                       /\ [e EXCEPT !.ttl = n].ttl = n
                       /\ [e EXCEPT !.ttl = n].to = e.to
                       /\ [e EXCEPT !.ttl = n].at = e.at
    BY DEF Entries
  <2>3. e.ttl - 1 \in Nat
    BY <1>1, <1>3
  <2> QED BY <1>1, <1>3, <2>1, <2>2, <2>3
<1> QED BY <1>1, <1>2, <1>3

LEMMA AgeLeads ==
  ASSUME NEW X, NEW Y, NEW now, NEW gone,
         NEW f \in [X -> Entries(Y)], NEW g \in [Y -> Entries(X)],
         NEW f2, NEW g2,
         Leads(X, Y, f, g, gone, now),
         \A x \in X : f2[x] = Aged(f[x]),
         \A y \in Y : g2[y] = Aged(g[y])
  PROVE  Leads(X, Y, f2, g2, gone, now)
<1> SUFFICES ASSUME NEW x \in X, f2[x].ttl > 0
             PROVE  /\ f2[x].to \in Y
                    /\ f2[x].at <= now
                    /\ f2[x].ttl <= Life
                    /\ g2[f2[x].to].ttl > 0 => g2[f2[x].to].at >= f2[x].at
                    /\ f2[x].to \in gone \/ g2[f2[x].to].ttl >= f2[x].ttl
  BY Zenon DEF Leads
<1>0. Life \in Nat
  BY LifeType
<1>1. f[x] \in Entries(Y) /\ f[x].ttl \in Nat /\ f[x].at \in Nat
  BY DEF Entries
<1>2. /\ f2[x].to = f[x].to /\ f2[x].at = f[x].at
      /\ f[x].ttl > 1 /\ f2[x].ttl = f[x].ttl - 1
  BY <1>1, AgedFacts
<1>3. /\ f[x].to \in Y
      /\ f[x].at <= now
      /\ f[x].ttl <= Life
      /\ g[f[x].to].ttl > 0 => g[f[x].to].at >= f[x].at
      /\ f[x].to \in gone \/ g[f[x].to].ttl >= f[x].ttl
  BY <1>1, <1>2 DEF Leads
<1> DEFINE y == f[x].to
<1>4. y \in Y /\ g[y] \in Entries(X) /\ g[y].ttl \in Nat /\ g[y].at \in Nat
  BY <1>3 DEF Entries
<1>5. /\ g2[y].ttl > 0 => g2[y].at = g[y].at /\ g[y].ttl > 1
      /\ g[y].ttl > 1 => g2[y].ttl = g[y].ttl - 1 /\ g2[y].at = g[y].at
  BY <1>4, AgedFacts
<1>6. g2[y].ttl > 0 => g2[y].at >= f2[x].at
  BY <1>2, <1>3, <1>4, <1>5
<1>7. y \in gone \/ g2[y].ttl >= f2[x].ttl
  BY <1>1, <1>2, <1>3, <1>4, <1>5
<1> QED BY <1>0, <1>1, <1>2, <1>3, <1>6, <1>7

-----------------------------------------------------------------------------
(* What storeMappings writes. *)

LEMMA Elements ==
  ASSUME NEW T, NEW s \in Seq(T)
  PROVE  /\ DOMAIN s = 1..Len(s) /\ Len(s) \in Nat
         /\ \A i \in 1..Len(s) : s[i] \in T
OBVIOUS

LEMMA EntryType ==
  ASSUME NEW To, NEW to \in To, NEW at \in Nat
  PROVE  /\ Entry(to, at) \in Entries(To)
         /\ Entry(to, at).to = to /\ Entry(to, at).at = at /\ Entry(to, at).ttl = Life
<1>1. Life \in Nat
  BY LifeType
<1>2. Entry(to, at) = [to |-> to, at |-> at, ttl |-> Life]
  BY DEF Entry
<1> QED BY <1>1, <1>2 DEF Entries

LEMMA WrittenLids ==
  ASSUME lidKeys \in [Lids -> Entries(Pns)],
         NEW batch \in Batches, NEW at \in Nat
  PROVE  /\ WriteLids(batch, at) \in [Lids -> Entries(Pns)]
         /\ Overwrites(Lids, Pns, lidKeys, WriteLids(batch, at), Written(batch), at)
<1> SUFFICES ASSUME NEW l \in Lids
             PROVE  /\ WriteLids(batch, at)[l] \in Entries(Pns)
                    /\ \/ l \notin Written(batch) /\ WriteLids(batch, at)[l] = lidKeys[l]
                       \/ /\ l \in Written(batch)
                          /\ WriteLids(batch, at)[l].to \in Pns
                          /\ WriteLids(batch, at)[l].to \in Written(batch)
                          /\ WriteLids(batch, at)[l].at = at
                          /\ WriteLids(batch, at)[l].ttl = Life
  BY DEF WriteLids, Overwrites
<1>1. batch \in Seq([lid : Lids, pn : Pns])
  BY LidAssumption
<1>2. DOMAIN batch = 1..Len(batch) /\ Len(batch) \in Nat
  BY <1>1, Elements
<1> DEFINE S == LidPositions(batch, l)
<1>3. \A i \in S : i \in DOMAIN batch /\ batch[i].lid = l /\ batch[i].pn \in Pns
  <2> TAKE i \in S
  <2>1. i \in DOMAIN batch /\ batch[i].lid = l
    BY DEF LidPositions
  <2>2. batch[i] \in [lid : Lids, pn : Pns]
    BY <1>1, <1>2, <2>1, Elements
  <2> HIDE DEF S
  <2> QED BY <2>1, <2>2
<1>4. CASE S = {}
  <2>1. WriteLids(batch, at)[l] = lidKeys[l]
    BY <1>4 DEF WriteLids
  <2>2. \A i \in DOMAIN batch : batch[i].lid # l
    BY <1>4 DEF LidPositions
  <2>3. \A i \in DOMAIN batch : batch[i].pn # l
    <3>1. \A i \in 1..Len(batch) : batch[i] \in [lid : Lids, pn : Pns]
      BY <1>1, Elements
    <3>2. \A i \in 1..Len(batch) : batch[i].pn \in Pns
      BY <3>1
    <3> QED BY <1>2, <3>2, LidAssumption
  <2> QED BY <2>1, <2>2, <2>3 DEF Written
<1>5. CASE S # {}
  <2>1. LastOf(S) \in S
    <3>1. S \in SUBSET (1..Len(batch))
      BY <1>2, <1>3
    <3> HIDE DEF S
    <3> QED BY <3>1, <1>2, <1>5, LastIsThere
  <2>2. WriteLids(batch, at)[l] = Entry(batch[LastOf(S)].pn, at)
    BY <1>5 DEF WriteLids
  <2>3. batch[LastOf(S)].pn \in Pns /\ LastOf(S) \in DOMAIN batch /\ batch[LastOf(S)].lid = l
    BY <1>3, <2>1
  <2>4. l \in Written(batch) /\ batch[LastOf(S)].pn \in Written(batch)
    BY <2>3 DEF Written
  <2> DEFINE to == batch[LastOf(S)].pn
  <2>5. to \in Pns /\ to \in Written(batch) /\ WriteLids(batch, at)[l] = Entry(to, at)
    BY <2>2, <2>3, <2>4
  <2> HIDE DEF S, to
  <2>6. /\ Entry(to, at) \in Entries(Pns)
        /\ Entry(to, at).to = to /\ Entry(to, at).at = at /\ Entry(to, at).ttl = Life
    BY <2>5, EntryType
  <2> QED BY <2>4, <2>5, <2>6
<1> QED BY <1>4, <1>5

LEMMA WrittenPns ==
  ASSUME pnKeys \in [Pns -> Entries(Lids)],
         NEW batch \in Batches, NEW at \in Nat
  PROVE  /\ WritePns(batch, at) \in [Pns -> Entries(Lids)]
         /\ Overwrites(Pns, Lids, pnKeys, WritePns(batch, at), Written(batch), at)
<1> SUFFICES ASSUME NEW p \in Pns
             PROVE  /\ WritePns(batch, at)[p] \in Entries(Lids)
                    /\ \/ p \notin Written(batch) /\ WritePns(batch, at)[p] = pnKeys[p]
                       \/ /\ p \in Written(batch)
                          /\ WritePns(batch, at)[p].to \in Lids
                          /\ WritePns(batch, at)[p].to \in Written(batch)
                          /\ WritePns(batch, at)[p].at = at
                          /\ WritePns(batch, at)[p].ttl = Life
  BY DEF WritePns, Overwrites
<1>1. batch \in Seq([lid : Lids, pn : Pns])
  BY LidAssumption
<1>2. DOMAIN batch = 1..Len(batch) /\ Len(batch) \in Nat
  BY <1>1, Elements
<1> DEFINE S == PnPositions(batch, p)
<1>3. \A i \in S : i \in DOMAIN batch /\ batch[i].pn = p /\ batch[i].lid \in Lids
  <2> TAKE i \in S
  <2>1. i \in DOMAIN batch /\ batch[i].pn = p
    BY DEF PnPositions
  <2>2. batch[i] \in [lid : Lids, pn : Pns]
    BY <1>1, <1>2, <2>1, Elements
  <2> HIDE DEF S
  <2> QED BY <2>1, <2>2
<1>4. CASE S = {}
  <2>1. WritePns(batch, at)[p] = pnKeys[p]
    BY <1>4 DEF WritePns
  <2>2. \A i \in DOMAIN batch : batch[i].pn # p
    BY <1>4 DEF PnPositions
  <2>3. \A i \in DOMAIN batch : batch[i].lid # p
    <3>1. \A i \in 1..Len(batch) : batch[i] \in [lid : Lids, pn : Pns]
      BY <1>1, Elements
    <3>2. \A i \in 1..Len(batch) : batch[i].lid \in Lids
      BY <3>1
    <3> QED BY <1>2, <3>2, LidAssumption
  <2> QED BY <2>1, <2>2, <2>3 DEF Written
<1>5. CASE S # {}
  <2>1. LastOf(S) \in S
    <3>1. S \in SUBSET (1..Len(batch))
      BY <1>2, <1>3
    <3> HIDE DEF S
    <3> QED BY <3>1, <1>2, <1>5, LastIsThere
  <2>2. WritePns(batch, at)[p] = Entry(batch[LastOf(S)].lid, at)
    BY <1>5 DEF WritePns
  <2>3. batch[LastOf(S)].lid \in Lids /\ LastOf(S) \in DOMAIN batch /\ batch[LastOf(S)].pn = p
    BY <1>3, <2>1
  <2>4. p \in Written(batch) /\ batch[LastOf(S)].lid \in Written(batch)
    BY <2>3 DEF Written
  <2> DEFINE to == batch[LastOf(S)].lid
  <2>5. to \in Lids /\ to \in Written(batch) /\ WritePns(batch, at)[p] = Entry(to, at)
    BY <2>2, <2>3, <2>4
  <2> HIDE DEF S, to
  <2>6. /\ Entry(to, at) \in Entries(Lids)
        /\ Entry(to, at).to = to /\ Entry(to, at).at = at /\ Entry(to, at).ttl = Life
    BY <2>5, EntryType
  <2> QED BY <2>4, <2>5, <2>6
<1> QED BY <1>4, <1>5

-----------------------------------------------------------------------------
(* The invariant *)

LEMMA LidInvInit == Init => LidInv /\ ScanInv
<1> SUFFICES ASSUME Init PROVE LidInv /\ ScanInv
  OBVIOUS
<1>1. NoEntry.ttl = 0 /\ NoEntry \in Entries(Pns) /\ NoEntry \in Entries(Lids)
  BY DEF NoEntry, Entries
<1>2. Idle \in Callings /\ Idle.pc = "idle" /\ Idle.at = 0
  BY DEF Idle, Callings, Pcs
<1>3. KeysTypeOK
  BY <1>1, <1>2 DEF Init, KeysTypeOK
<1>4. (\A l \in Lids : lidKeys[l] = NoEntry) /\ (\A p \in Pns : pnKeys[p] = NoEntry)
  BY DEF Init
<1>5. Leads(Lids, Pns, lidKeys, pnKeys, deleted, clock)
  BY <1>1, <1>4 DEF Leads
<1>6. Leads(Pns, Lids, pnKeys, lidKeys, deleted, clock)
  BY <1>1, <1>4 DEF Leads
<1>7. ScanInv
  <2>1. \A c \in Callers : caller[c].pc = "idle" /\ caller[c].at = 0
    BY <1>2 DEF Init
  <2> QED BY <1>1, <1>4, <2>1 DEF Init, ScanInv, ScanKnows, OldOf
<1> QED BY <1>3, <1>5, <1>6, <1>7 DEF LidInv

\* A call keeps what it knows while only older entries go.
LEMMA ScanKept ==
  ASSUME NEW f, NEW g, NEW f2, NEW g2, NEW now \in Nat, NEW now2 \in Nat, now <= now2,
         NEW call \in Callings, ScanKnows(call, f, g, now),
         OldOf(Lids, f2, call.at) \subseteq OldOf(Lids, f, call.at),
         OldOf(Pns, g2, call.at) \subseteq OldOf(Pns, g, call.at)
  PROVE  ScanKnows(call, f2, g2, now2)
<1>1. call.at \in Nat
  BY DEF Callings
<1>2. call.at <= now2
  BY <1>1 DEF ScanKnows
<1> QED BY <1>2, Zenon DEF ScanKnows

LEMMA WriteAddsNew ==
  ASSUME NEW X, NEW Y, NEW W, NEW f, NEW f2, NEW now \in Nat, NEW at \in Nat, at <= now,
         Overwrites(X, Y, f, f2, W, now + 1)
  PROVE  OldOf(X, f2, at) \subseteq OldOf(X, f, at)
BY DEF OldOf, Overwrites

LEMMA DeleteAddsNone ==
  ASSUME NEW X, NEW f, NEW f2, NEW at, NEW keys,
         \A x \in X : f2[x] = IF x \in keys THEN NoEntry ELSE f[x]
  PROVE  OldOf(X, f2, at) \subseteq OldOf(X, f, at) \ keys
BY DEF OldOf, NoEntry

LEMMA AgeAddsNone ==
  ASSUME NEW X, NEW Y, NEW f \in [X -> Entries(Y)], NEW f2, NEW at,
         \A x \in X : f2[x] = Aged(f[x])
  PROVE  OldOf(X, f2, at) \subseteq OldOf(X, f, at)
<1> SUFFICES ASSUME NEW x \in X, f2[x].ttl > 0, f2[x].at <= at
             PROVE  f[x].ttl > 0 /\ f[x].at <= at
  BY DEF OldOf
<1>1. f[x] \in Entries(Y) /\ f[x].ttl \in Nat
  BY DEF Entries
<1> QED BY <1>1, AgedFacts

LEMMA StoreStep ==
  ASSUME LidInv, ScanInv, NEW c \in Callers, NEW batch \in Batches, StoreMappings(c, batch)
  PROVE  LidInv' /\ ScanInv'
<1>1. clock \in Nat /\ clock' = clock + 1 /\ clock' \in Nat
  BY DEF LidInv, KeysTypeOK, StoreMappings
<1>2. lidKeys' = WriteLids(batch, clock + 1) /\ pnKeys' = WritePns(batch, clock + 1)
  BY <1>1 DEF StoreMappings
<1>3. /\ lidKeys \in [Lids -> Entries(Pns)] /\ pnKeys \in [Pns -> Entries(Lids)]
      /\ deleted \subseteq Lids \cup Pns /\ caller \in [Callers -> Callings]
  BY DEF LidInv, KeysTypeOK
<1>4. /\ lidKeys' \in [Lids -> Entries(Pns)]
      /\ Overwrites(Lids, Pns, lidKeys, lidKeys', Written(batch), clock + 1)
  BY <1>1, <1>2, <1>3, WrittenLids
<1>5. /\ pnKeys' \in [Pns -> Entries(Lids)]
      /\ Overwrites(Pns, Lids, pnKeys, pnKeys', Written(batch), clock + 1)
  BY <1>1, <1>2, <1>3, WrittenPns
<1>6. deleted' = deleted \ Written(batch) /\ caller' = caller
  BY DEF StoreMappings
<1>7. KeysTypeOK'
  BY <1>1, <1>3, <1>4, <1>5, <1>6 DEF KeysTypeOK
<1>8. Leads(Lids, Pns, lidKeys', pnKeys', deleted', clock + 1)
  <2>1. Leads(Lids, Pns, lidKeys, pnKeys, deleted, clock)
    BY DEF LidInv
  <2> QED BY <1>1, <1>3, <1>4, <1>5, <1>6, <2>1, WriteLeads
<1>9. Leads(Pns, Lids, pnKeys', lidKeys', deleted', clock + 1)
  <2>1. Leads(Pns, Lids, pnKeys, lidKeys, deleted, clock)
    BY DEF LidInv
  <2> QED BY <1>1, <1>3, <1>4, <1>5, <1>6, <2>1, WriteLeads
<1>10. ScanInv'
  <2> SUFFICES ASSUME NEW d \in Callers
               PROVE  ScanKnows(caller[d], lidKeys', pnKeys', clock')
    BY <1>6 DEF ScanInv
  <2>1. caller[d] \in Callings /\ ScanKnows(caller[d], lidKeys, pnKeys, clock)
    BY <1>3 DEF ScanInv
  <2>2. caller[d].at \in Nat /\ caller[d].at <= clock
    BY <2>1 DEF Callings, ScanKnows
  <2>4. OldOf(Lids, lidKeys', caller[d].at) \subseteq OldOf(Lids, lidKeys, caller[d].at)
    BY <1>1, <1>4, <1>5, <2>2, WriteAddsNew
  <2>5. OldOf(Pns, pnKeys', caller[d].at) \subseteq OldOf(Pns, pnKeys, caller[d].at)
    BY <1>1, <1>4, <1>5, <2>2, WriteAddsNew
  <2>6. clock <= clock'
    BY <1>1
  <2> QED BY <1>1, <2>1, <2>4, <2>5, <2>6, ScanKept
<1> QED BY <1>1, <1>7, <1>8, <1>9, <1>10 DEF LidInv

\* What the DELs do, whoever sends them.
LEMMA DelAt ==
  ASSUME LidInv, NEW keys \in SUBSET (Lids \cup Pns), Del(keys), UNCHANGED clock
  PROVE  /\ lidKeys' \in [Lids -> Entries(Pns)] /\ pnKeys' \in [Pns -> Entries(Lids)]
         /\ deleted' \subseteq Lids \cup Pns
         /\ Leads(Lids, Pns, lidKeys', pnKeys', deleted', clock')
         /\ Leads(Pns, Lids, pnKeys', lidKeys', deleted', clock')
         /\ \A at : /\ OldOf(Lids, lidKeys', at) \subseteq OldOf(Lids, lidKeys, at) \ keys
                   /\ OldOf(Pns, pnKeys', at) \subseteq OldOf(Pns, pnKeys, at) \ keys
<1>1. /\ lidKeys \in [Lids -> Entries(Pns)] /\ pnKeys \in [Pns -> Entries(Lids)]
      /\ deleted \subseteq Lids \cup Pns
  BY DEF LidInv, KeysTypeOK
<1>2. /\ lidKeys' = [l \in Lids |-> IF l \in keys THEN NoEntry ELSE lidKeys[l]]
      /\ pnKeys' = [p \in Pns |-> IF p \in keys THEN NoEntry ELSE pnKeys[p]]
      /\ deleted' = deleted \cup keys /\ clock' = clock
  BY DEF Del
<1>3. NoEntry \in Entries(Pns) /\ NoEntry \in Entries(Lids)
  BY DEF NoEntry, Entries
<1>4. lidKeys' \in [Lids -> Entries(Pns)] /\ pnKeys' \in [Pns -> Entries(Lids)]
  BY <1>1, <1>2, <1>3
<1>5. /\ \A l \in Lids : lidKeys'[l] = IF l \in keys THEN NoEntry ELSE lidKeys[l]
      /\ \A p \in Pns : pnKeys'[p] = IF p \in keys THEN NoEntry ELSE pnKeys[p]
  BY <1>2
<1>6. /\ Leads(Lids, Pns, lidKeys, pnKeys, deleted, clock)
      /\ Leads(Pns, Lids, pnKeys, lidKeys, deleted, clock)
  BY DEF LidInv
<1>7. Leads(Lids, Pns, lidKeys', pnKeys', deleted \cup keys, clock)
  BY <1>5, <1>6, DeleteLeads
<1>8. Leads(Pns, Lids, pnKeys', lidKeys', deleted \cup keys, clock)
  BY <1>5, <1>6, DeleteLeads
<1>9. ASSUME NEW at
      PROVE  /\ OldOf(Lids, lidKeys', at) \subseteq OldOf(Lids, lidKeys, at) \ keys
             /\ OldOf(Pns, pnKeys', at) \subseteq OldOf(Pns, pnKeys, at) \ keys
  <2>1. OldOf(Lids, lidKeys', at) \subseteq OldOf(Lids, lidKeys, at) \ keys
    BY <1>5, DeleteAddsNone
  <2>2. OldOf(Pns, pnKeys', at) \subseteq OldOf(Pns, pnKeys, at) \ keys
    BY <1>5, DeleteAddsNone
  <2> QED BY <2>1, <2>2
<1> QED BY <1>1, <1>2, <1>4, <1>7, <1>8, <1>9

LEMMA IdleCall ==
  Idle \in Callings /\ Idle.pc = "idle" /\ Idle.at = 0 /\ Idle.left = {}
BY DEF Idle, Callings, Pcs

LEMMA ClearedCall ==
  ASSUME NEW at \in Nat, NEW call, call = [Idle EXCEPT !.pc = "cleared", !.at = at]
  PROVE  call \in Callings /\ call.pc = "cleared" /\ call.at = at
BY DEF Idle, Callings, Pcs

LEMMA ScanCall ==
  ASSUME NEW at \in Nat, NEW o \in {"clear", "stats"}, NEW call,
         call = [Idle EXCEPT !.pc = "scanLids", !.op = o, !.at = at, !.left = Lids]
  PROVE  call \in Callings /\ call.pc = "scanLids" /\ call.at = at /\ call.left = Lids
BY DEF Idle, Callings, Pcs

\* A step of one call that leaves the keys alone.
LEMMA CallStep ==
  ASSUME LidInv, ScanInv, NEW c \in Callers, NEW call \in Callings,
         caller' = [caller EXCEPT ![c] = call],
         UNCHANGED <<lidKeys, pnKeys, deleted>>,
         clock' \in Nat, clock <= clock',
         ScanKnows(call, lidKeys, pnKeys, clock')
  PROVE  LidInv' /\ ScanInv'
<1>1. KeysTypeOK /\ KeysTypeOK'
  BY DEF LidInv, KeysTypeOK
<1>2. /\ Leads(Lids, Pns, lidKeys, pnKeys, deleted, clock)
      /\ Leads(Pns, Lids, pnKeys, lidKeys, deleted, clock)
      /\ clock \in Nat
      /\ lidKeys \in [Lids -> Entries(Pns)] /\ pnKeys \in [Pns -> Entries(Lids)]
  BY DEF LidInv, KeysTypeOK
<1>3. /\ \A l \in Lids : lidKeys[l].at \in Nat
      /\ \A p \in Pns : pnKeys[p].at \in Nat
  BY <1>2 DEF Entries
<1>4. Leads(Lids, Pns, lidKeys, pnKeys, deleted, clock')
  <2>1. \A l \in Lids : lidKeys[l].at <= clock => lidKeys[l].at <= clock'
    BY <1>2, <1>3
  <2> QED BY <1>2, <2>1, Zenon DEF Leads
<1>5. Leads(Pns, Lids, pnKeys, lidKeys, deleted, clock')
  <2>1. \A p \in Pns : pnKeys[p].at <= clock => pnKeys[p].at <= clock'
    BY <1>2, <1>3
  <2> QED BY <1>2, <2>1, Zenon DEF Leads
<1>6. ScanInv'
  <2> SUFFICES ASSUME NEW d \in Callers
               PROVE  ScanKnows(caller'[d], lidKeys, pnKeys, clock')
    BY DEF ScanInv
  <2>1. caller \in [Callers -> Callings] /\ ScanKnows(caller[d], lidKeys, pnKeys, clock)
    BY <1>1 DEF KeysTypeOK, ScanInv
  <2>2. ASSUME d = c PROVE caller'[d] = call
    BY <2>1, <2>2
  <2>3. ASSUME d # c PROVE caller'[d] = caller[d]
    BY <2>1, <2>3
  <2>4. ScanKnows(caller[d], lidKeys, pnKeys, clock')
    BY <1>2, <2>1, ScanKept
  <2> QED BY <2>2, <2>3, <2>4
<1> QED BY <1>1, <1>4, <1>5, <1>6 DEF LidInv

\* A step of one call that sends DELs.
LEMMA DelStep ==
  ASSUME LidInv, ScanInv, NEW c \in Callers, NEW call \in Callings,
         NEW keys \in SUBSET (Lids \cup Pns), Del(keys), UNCHANGED clock,
         caller' = [caller EXCEPT ![c] = call],
         call.at <= clock,
         \/ call.pc = "idle"
         \/ /\ call.pc = "cleared"
            /\ OldOf(Lids, lidKeys, call.at) \subseteq keys
            /\ OldOf(Pns, pnKeys, call.at) \subseteq keys
  PROVE  LidInv' /\ ScanInv'
<1>1. /\ lidKeys' \in [Lids -> Entries(Pns)] /\ pnKeys' \in [Pns -> Entries(Lids)]
      /\ deleted' \subseteq Lids \cup Pns
      /\ Leads(Lids, Pns, lidKeys', pnKeys', deleted', clock')
      /\ Leads(Pns, Lids, pnKeys', lidKeys', deleted', clock')
  BY DelAt
<1>2. \A at : /\ OldOf(Lids, lidKeys', at) \subseteq OldOf(Lids, lidKeys, at) \ keys
             /\ OldOf(Pns, pnKeys', at) \subseteq OldOf(Pns, pnKeys, at) \ keys
  BY DelAt
<1>3. clock \in Nat /\ clock' = clock /\ caller \in [Callers -> Callings]
  BY DEF LidInv, KeysTypeOK
<1>4. KeysTypeOK'
  BY <1>1, <1>3 DEF KeysTypeOK
<1>5. ScanKnows(call, lidKeys', pnKeys', clock')
  <2>1. CASE call.pc = "idle"
    BY <1>3, <2>1 DEF ScanKnows
  <2>2. ASSUME call.pc = "cleared", OldOf(Lids, lidKeys, call.at) \subseteq keys,
               OldOf(Pns, pnKeys, call.at) \subseteq keys
        PROVE  ScanKnows(call, lidKeys', pnKeys', clock')
    <3>1. OldOf(Lids, lidKeys', call.at) = {} /\ OldOf(Pns, pnKeys', call.at) = {}
      BY <1>2, <2>2
    <3> QED BY <1>3, <2>2, <3>1 DEF ScanKnows
  <2> QED BY <2>1, <2>2
<1>6. ScanInv'
  <2> SUFFICES ASSUME NEW d \in Callers
               PROVE  ScanKnows(caller'[d], lidKeys', pnKeys', clock')
    BY DEF ScanInv
  <2>1. caller[d] \in Callings /\ ScanKnows(caller[d], lidKeys, pnKeys, clock)
    BY <1>3 DEF ScanInv
  <2>2. ASSUME d = c PROVE caller'[d] = call
    BY <1>3, <2>2
  <2>3. ASSUME d # c PROVE caller'[d] = caller[d]
    BY <1>3, <2>3
  <2>4. /\ OldOf(Lids, lidKeys', caller[d].at) \subseteq OldOf(Lids, lidKeys, caller[d].at)
        /\ OldOf(Pns, pnKeys', caller[d].at) \subseteq OldOf(Pns, pnKeys, caller[d].at)
    BY <1>2
  <2>5. clock <= clock' /\ clock' \in Nat
    BY <1>3
  <2>6. ScanKnows(caller[d], lidKeys', pnKeys', clock')
    BY <1>3, <2>1, <2>4, <2>5, ScanKept
  <2> QED BY <1>5, <2>2, <2>3, <2>6
<1> QED BY <1>1, <1>4, <1>6 DEF LidInv

LEMMA TickStep ==
  ASSUME LidInv, ScanInv, Tick
  PROVE  LidInv' /\ ScanInv'
<1>1. /\ lidKeys \in [Lids -> Entries(Pns)] /\ pnKeys \in [Pns -> Entries(Lids)]
      /\ clock \in Nat /\ caller \in [Callers -> Callings]
      /\ Leads(Lids, Pns, lidKeys, pnKeys, deleted, clock)
      /\ Leads(Pns, Lids, pnKeys, lidKeys, deleted, clock)
  BY DEF LidInv, KeysTypeOK
<1>2. /\ \A l \in Lids : lidKeys'[l] = Aged(lidKeys[l])
      /\ \A p \in Pns : pnKeys'[p] = Aged(pnKeys[p])
      /\ clock' = clock /\ caller' = caller /\ deleted' = deleted
  BY DEF Tick
<1>3. lidKeys' \in [Lids -> Entries(Pns)] /\ pnKeys' \in [Pns -> Entries(Lids)]
  <2>1. \A l \in Lids : Aged(lidKeys[l]) \in Entries(Pns)
    BY <1>1, AgedFacts
  <2>2. \A p \in Pns : Aged(pnKeys[p]) \in Entries(Lids)
    BY <1>1, AgedFacts
  <2> QED BY <2>1, <2>2 DEF Tick
<1>4. KeysTypeOK'
  BY <1>2, <1>3 DEF LidInv, KeysTypeOK
<1>5. Leads(Lids, Pns, lidKeys', pnKeys', deleted', clock')
  BY <1>1, <1>2, AgeLeads
<1>6. Leads(Pns, Lids, pnKeys', lidKeys', deleted', clock')
  BY <1>1, <1>2, AgeLeads
<1>7. ScanInv'
  <2> SUFFICES ASSUME NEW d \in Callers
               PROVE  ScanKnows(caller[d], lidKeys', pnKeys', clock)
    BY <1>2 DEF ScanInv
  <2>1. caller[d] \in Callings /\ ScanKnows(caller[d], lidKeys, pnKeys, clock)
    BY <1>1 DEF ScanInv
  <2>2. OldOf(Lids, lidKeys', caller[d].at) \subseteq OldOf(Lids, lidKeys, caller[d].at)
    BY <1>1, <1>2, AgeAddsNone
  <2>3. OldOf(Pns, pnKeys', caller[d].at) \subseteq OldOf(Pns, pnKeys, caller[d].at)
    BY <1>1, <1>2, AgeAddsNone
  <2>4. clock <= clock
    BY <1>1
  <2> QED BY <1>1, <2>1, <2>2, <2>3, <2>4, ScanKept
<1> QED BY <1>4, <1>5, <1>6, <1>7 DEF LidInv

LEMMA PagedFacts ==
  ASSUME NEW call \in Callings, NEW page \in SUBSET call.left
  PROVE  /\ Paged(call, page) \in Callings
         /\ Paged(call, page).at = call.at
         /\ Paged(call, page).keys = call.keys \cup Found(page)
         /\ page # call.left =>
              Paged(call, page).pc = call.pc /\ Paged(call, page).left = call.left \ page
         /\ page = call.left /\ call.pc = "scanLids" =>
              Paged(call, page).pc = "scanPns" /\ Paged(call, page).left = Pns
         /\ page = call.left /\ call.pc # "scanLids" =>
              Paged(call, page).pc \in {"clear", "counted"}
<1> DEFINE pc2 == IF page # call.left THEN call.pc
                  ELSE IF call.pc = "scanLids" THEN "scanPns" ELSE AfterScan(call.op)
           left2 == IF page = call.left /\ call.pc = "scanLids" THEN Pns ELSE call.left \ page
           keys2 == call.keys \cup Found(page)
<1>1. Paged(call, page) = [call EXCEPT !.pc = pc2, !.left = left2, !.keys = keys2]
  BY DEF Paged
<1>2. call.pc \in Pcs /\ call.left \subseteq Lids \cup Pns /\ call.keys \subseteq Lids \cup Pns
  BY DEF Callings
<1>3. AfterScan(call.op) \in {"clear", "counted"}
  BY DEF AfterScan
<1>4. pc2 \in Pcs
  BY <1>2, <1>3 DEF Pcs
<1>5. left2 \in SUBSET (Lids \cup Pns) /\ keys2 \in SUBSET (Lids \cup Pns)
  BY <1>2 DEF Found
<1>6. /\ Paged(call, page) \in Callings
      /\ Paged(call, page).pc = pc2 /\ Paged(call, page).left = left2
      /\ Paged(call, page).keys = keys2 /\ Paged(call, page).at = call.at
  <2> HIDE DEF pc2, left2, keys2
  <2> QED BY <1>1, <1>4, <1>5 DEF Callings
<1> QED BY <1>3, <1>6

LEMMA ScanStep ==
  ASSUME LidInv, ScanInv, NEW c \in Callers, Scan(c)
  PROVE  LidInv' /\ ScanInv'
<1> DEFINE call == caller[c]
<1>1. PICK page \in SUBSET call.left :
        /\ call.pc \in {"scanLids", "scanPns"}
        /\ caller' = [caller EXCEPT ![c] = Paged(call, page)]
        /\ UNCHANGED <<lidKeys, pnKeys, clock, deleted>>
  BY DEF Scan
<1>2. call \in Callings /\ ScanKnows(call, lidKeys, pnKeys, clock) /\ clock \in Nat
  BY DEF LidInv, KeysTypeOK, ScanInv
<1>3. call.left \subseteq Lids \cup Pns
  BY <1>2 DEF Callings
<1> DEFINE more == Paged(call, page)
           oldLids == OldOf(Lids, lidKeys, call.at)
           oldPns == OldOf(Pns, pnKeys, call.at)
<1>4. /\ more \in Callings /\ more.at = call.at
      /\ more.keys = call.keys \cup Found(page)
      /\ page # call.left => more.pc = call.pc /\ more.left = call.left \ page
      /\ page = call.left /\ call.pc = "scanLids" => more.pc = "scanPns" /\ more.left = Pns
      /\ page = call.left /\ call.pc # "scanLids" => more.pc \in {"clear", "counted"}
  <2> HIDE DEF call
  <2> QED BY <1>2, PagedFacts
<1>5. /\ call.at <= clock
      /\ call.pc = "scanLids" => oldLids \subseteq call.left \cup call.keys
      /\ call.pc = "scanPns" =>
           oldLids \subseteq call.keys /\ oldPns \subseteq call.left \cup call.keys
  BY <1>2, Zenon DEF ScanKnows
<1>6. /\ \A l \in oldLids : l \in page => l \in Found(page)
      /\ \A p \in oldPns : p \in page => p \in Found(page)
      /\ oldPns \subseteq Pns
  BY DEF OldOf, Found, HasLID, HasPN
<1> HIDE DEF call, more
<1>7. /\ more.pc = "scanLids" => oldLids \subseteq more.left \cup more.keys
      /\ more.pc = "scanPns" =>
           oldLids \subseteq more.keys /\ oldPns \subseteq more.left \cup more.keys
      /\ more.pc \in {"clear", "counted"} =>
           oldLids \subseteq more.keys /\ oldPns \subseteq more.keys
      /\ more.pc # "cleared"
  <2> HIDE DEF oldLids, oldPns
  <2>1. CASE call.pc = "scanLids" /\ page # call.left
    BY <1>4, <1>5, <1>6, <2>1
  <2>2. CASE call.pc = "scanLids" /\ page = call.left
    BY <1>4, <1>5, <1>6, <2>2
  <2>3. CASE call.pc = "scanPns" /\ page # call.left
    BY <1>4, <1>5, <1>6, <2>3
  <2>4. CASE call.pc = "scanPns" /\ page = call.left
    <3>1. oldLids \subseteq more.keys /\ oldPns \subseteq more.keys
      BY <1>4, <1>5, <1>6, <2>4
    <3> QED BY <1>4, <2>4, <3>1
  <2> QED BY <1>1, <2>1, <2>2, <2>3, <2>4
<1>8. ScanKnows(more, lidKeys, pnKeys, clock)
  BY <1>4, <1>5, <1>7, Zenon DEF ScanKnows
<1>9. clock' = clock /\ clock <= clock
  BY <1>1, <1>2
<1>10. caller' = [caller EXCEPT ![c] = more] /\ UNCHANGED <<lidKeys, pnKeys, deleted>>
  BY <1>1 DEF more
<1> QED BY <1>2, <1>4, <1>8, <1>9, <1>10, CallStep

LEMMA LidInvStep == LidInv /\ ScanInv /\ [Next]_vars => LidInv' /\ ScanInv'
<1> SUFFICES ASSUME LidInv, ScanInv, [Next]_vars PROVE LidInv' /\ ScanInv'
  OBVIOUS
<1>0. /\ clock \in Nat /\ clock <= clock /\ clock <= clock + 1 /\ clock + 1 \in Nat
      /\ \A c \in Callers : caller[c] \in Callings
      /\ lidKeys \in [Lids -> Entries(Pns)]
  BY DEF LidInv, KeysTypeOK
<1>1. ASSUME NEW c \in Callers, NEW batch \in Batches, StoreMappings(c, batch)
      PROVE  LidInv' /\ ScanInv'
  BY <1>1, StoreStep
<1>2. ASSUME NEW c \in Callers, NEW l \in Lids, DeleteRead(c, l)
      PROVE  LidInv' /\ ScanInv'
  <2> DEFINE pn == PNForLID(l)
             call == [Idle EXCEPT !.pc = "delete", !.at = clock + 1, !.lid = l, !.pn = pn]
  <2>1. pn \in Pns \cup {None}
    BY <1>0 DEF PNForLID, Entries
  <2>2. call \in Callings /\ call.pc = "delete" /\ call.at = clock + 1
    <3> HIDE DEF pn
    <3> QED BY <1>0, <2>1 DEF Idle, Callings, Pcs
  <2>3. /\ caller' = [caller EXCEPT ![c] = call] /\ clock' = clock + 1
        /\ UNCHANGED <<lidKeys, pnKeys, deleted>>
    BY <1>2 DEF DeleteRead
  <2> HIDE DEF call
  <2>4. ScanKnows(call, lidKeys, pnKeys, clock')
    BY <1>0, <2>2, <2>3 DEF ScanKnows
  <2> QED BY <1>0, <2>2, <2>3, <2>4, CallStep
<1>3. ASSUME NEW c \in Callers, DeleteBoth(c) PROVE LidInv' /\ ScanInv'
  <2> DEFINE keys == {caller[c].lid, caller[c].pn} \ {None}
  <2>1. keys \in SUBSET (Lids \cup Pns)
    BY <1>0 DEF Callings
  <2>2. Del(keys) /\ caller' = [caller EXCEPT ![c] = Idle] /\ UNCHANGED clock
    BY <1>3 DEF DeleteBoth
  <2>3. Idle \in Callings /\ Idle.pc = "idle" /\ Idle.at <= clock
    <3>1. 0 <= clock
      BY <1>0
    <3> QED BY <3>1, IdleCall
  <2> HIDE DEF keys
  <2> QED BY <2>1, <2>2, <2>3, DelStep
<1>4. ASSUME NEW c \in Callers, NEW o \in {"clear", "stats"}, ScanBegin(c, o)
      PROVE  LidInv' /\ ScanInv'
  <2> DEFINE call == [Idle EXCEPT !.pc = "scanLids", !.op = o, !.at = clock + 1, !.left = Lids]
  <2>1. call \in Callings /\ call.pc = "scanLids" /\ call.at = clock + 1 /\ call.left = Lids
    BY <1>0, ScanCall
  <2>2. /\ caller' = [caller EXCEPT ![c] = call] /\ clock' = clock + 1
        /\ UNCHANGED <<lidKeys, pnKeys, deleted>>
    BY <1>4 DEF ScanBegin
  <2> HIDE DEF call
  <2>3. ScanKnows(call, lidKeys, pnKeys, clock')
    BY <1>0, <2>1, <2>2 DEF ScanKnows, OldOf
  <2> QED BY <1>0, <2>1, <2>2, <2>3, CallStep
<1>5. ASSUME NEW c \in Callers, Scan(c) PROVE LidInv' /\ ScanInv'
  BY <1>5, ScanStep
<1>6. ASSUME NEW c \in Callers, ClearAll(c) PROVE LidInv' /\ ScanInv'
  <2> DEFINE at == caller[c].at
             call == [Idle EXCEPT !.pc = "cleared", !.at = at]
             keys == caller[c].keys
  <2>1. keys \in SUBSET (Lids \cup Pns) /\ at \in Nat
    BY <1>0 DEF Callings
  <2>2. call \in Callings /\ call.pc = "cleared" /\ call.at = at
    BY <2>1, ClearedCall
  <2>3. ScanKnows(caller[c], lidKeys, pnKeys, clock) /\ caller[c].pc = "clear"
    BY <1>6 DEF ScanInv, ClearAll
  <2>4. /\ at <= clock
        /\ OldOf(Lids, lidKeys, at) \subseteq keys /\ OldOf(Pns, pnKeys, at) \subseteq keys
    BY <2>3 DEF ScanKnows
  <2>5. Del(keys) /\ UNCHANGED clock /\ caller' = [caller EXCEPT ![c] = call]
    BY <1>6 DEF ClearAll
  <2> HIDE DEF at, call, keys
  <2> QED BY <2>1, <2>2, <2>4, <2>5, DelStep
<1>7. CASE Tick
  BY <1>7, TickStep
<1>8. CASE UNCHANGED vars
  BY <1>8 DEF vars, LidInv, KeysTypeOK, ScanInv
<1> QED BY <1>1, <1>2, <1>3, <1>4, <1>5, <1>6, <1>7, <1>8 DEF Next

-----------------------------------------------------------------------------
(* The theorems *)

LEMMA LidInvHolds == Spec => [](LidInv /\ ScanInv)
BY LidInvInit, LidInvStep, PTL DEF Spec

\* The keys, the clock and the calls are well formed.
THEOREM LidTypeTheorem == Spec => []TypeOK
<1>1. LidInv => TypeOK
  BY DEF LidInv, KeysTypeOK, TypeOK, Callings, Pcs
<1> QED BY <1>1, LidInvHolds, PTL

\* Whatever is stored, deleted, cleared or expires between the steps of the
\* others, following a mapping and back never leads to something older
\* (storeMappings, lid-cache.ts:97-132).
THEOREM NewerTheorem == Spec => []FollowingLeadsToNewer
<1>1. LidInv => FollowingLeadsToNewer
  <2> SUFFICES ASSUME LidInv PROVE FollowingLeadsToNewer
    OBVIOUS
  <2>1. ASSUME NEW l \in Lids, HasLID(l), HasPN(PNForLID(l))
        PROVE  pnKeys[PNForLID(l)].at >= Mapping(l).storedAt
    BY <2>1 DEF LidInv, Leads, HasLID, HasPN, PNForLID, Mapping
  <2>2. ASSUME NEW p \in Pns, HasPN(p), HasLID(LIDForPN(p))
        PROVE  Mapping(LIDForPN(p)).storedAt >= pnKeys[p].at
    BY <2>2 DEF LidInv, Leads, HasLID, HasPN, LIDForPN, Mapping
  <2> QED BY <2>1, <2>2 DEF FollowingLeadsToNewer
<1> QED BY <1>1, LidInvHolds, PTL

\* The two keys of a mapping expire together, or the longer-lived one is found
\* through the other: half a mapping comes from a deletion only
\* (lid-cache.ts:105-121, where both SETs carry the same EX).
THEOREM ExpiryTheorem == Spec => []NoHalfExpires
<1>1. LidInv => NoHalfExpires
  <2> SUFFICES ASSUME LidInv PROVE NoHalfExpires
    OBVIOUS
  <2>1. ASSUME NEW l \in Lids, HasLID(l)
        PROVE  HasPN(PNForLID(l)) \/ PNForLID(l) \in deleted
    <3>1. /\ lidKeys[l].to \in Pns
          /\ lidKeys[l].to \in deleted \/ pnKeys[lidKeys[l].to].ttl >= lidKeys[l].ttl
      BY <2>1 DEF LidInv, Leads, HasLID
    <3>2. lidKeys[l].ttl \in Nat /\ pnKeys[lidKeys[l].to].ttl \in Nat
      BY <3>1 DEF LidInv, KeysTypeOK, Entries
    <3> QED BY <2>1, <3>1, <3>2 DEF HasLID, HasPN, PNForLID
  <2>2. ASSUME NEW p \in Pns, HasPN(p)
        PROVE  HasLID(LIDForPN(p)) \/ LIDForPN(p) \in deleted
    <3>1. /\ pnKeys[p].to \in Lids
          /\ pnKeys[p].to \in deleted \/ lidKeys[pnKeys[p].to].ttl >= pnKeys[p].ttl
      BY <2>2 DEF LidInv, Leads, HasPN
    <3>2. pnKeys[p].ttl \in Nat /\ lidKeys[pnKeys[p].to].ttl \in Nat
      BY <3>1 DEF LidInv, KeysTypeOK, Entries
    <3> QED BY <2>2, <3>1, <3>2 DEF HasLID, HasPN, LIDForPN
  <2> QED BY <2>1, <2>2 DEF NoHalfExpires, BatchGetPNForLIDs
<1> QED BY <1>1, LidInvHolds, PTL

\* A clear leaves nothing that was stored before it was called, and getStats has
\* counted all that was and still is, whatever pages the SCANs come in
\* (lid-cache.ts:310-386).
THEOREM ScanTheorem == Spec => []ScansAreComplete
<1>1. LidInv /\ ScanInv => ScansAreComplete
  <2> SUFFICES ASSUME LidInv, ScanInv, NEW c \in Callers
               PROVE  LET older == Found(Lids \cup Pns) \ StoredSince(caller[c].at) IN
                      /\ caller[c].pc = "cleared" => older = {}
                      /\ caller[c].pc = "counted" => older \subseteq caller[c].keys
    BY DEF ScansAreComplete
  <2> DEFINE at == caller[c].at
  <2>1. /\ \A l \in Lids : lidKeys[l].at \in Nat
        /\ \A p \in Pns : pnKeys[p].at \in Nat
        /\ at \in Nat
    BY DEF LidInv, KeysTypeOK, Entries, Callings
  <2>2. Found(Lids \cup Pns) \ StoredSince(at) \subseteq OldOf(Lids, lidKeys, at) \cup OldOf(Pns, pnKeys, at)
    BY <2>1 DEF Found, StoredSince, OldOf, HasLID, HasPN
  <2>3. /\ caller[c].pc = "cleared" =>
             OldOf(Lids, lidKeys, at) = {} /\ OldOf(Pns, pnKeys, at) = {}
        /\ caller[c].pc = "counted" =>
             OldOf(Lids, lidKeys, at) \subseteq caller[c].keys /\ OldOf(Pns, pnKeys, at) \subseteq caller[c].keys
    BY DEF ScanInv, ScanKnows
  <2> HIDE DEF at
  <2> QED BY <2>2, <2>3 DEF at
<1> QED BY <1>1, LidInvHolds, PTL
=============================================================================
