-------------------------- MODULE ClientCache_proofs --------------------------
(***************************************************************************)
(* Proofs about ClientCache, for every set of requests and every bound.    *)
(***************************************************************************)
EXTENDS ClientCache, SequenceTheorems, TLAPS

(* The requests that own a client nobody else knows: one whose handshake   *)
(* runs, or a tested one that waits to be promoted.                        *)
Owners == {r \in Requests : pc[r] \in {"handshake", "probing", "swapping"}}

(* Client objects are constructed one after the other. *)
Fresh ==
  /\ \A c \in Clients : c > made => conn[c] = "none"
  /\ \A r \in Requests : held[r] <= made /\ victim[r] <= made
  /\ \A k \in Caches : cached[k] <= made

Owned ==
  /\ \A r \in Owners :
       /\ held[r] # 0
       /\ conn[held[r]] = (IF pc[r] = "swapping" THEN "open" ELSE "opening")
       /\ \A k \in Caches : cached[k] # held[r]
       /\ \A x \in Requests : victim[x] # held[r]
  /\ \A r, x \in Owners : held[r] = held[x] => r = x

(* The caches share no client. *)
Distinct == \A k, l \in Caches : cached[k] # 0 /\ cached[k] = cached[l] => k = l

Victims == \A r \in Requests : victim[r] # 0 => conn[victim[r]] \in {"open", "closed"}

CacheInv ==
  /\ ClientTypes
  /\ Fresh
  /\ Owned
  /\ Distinct
  /\ Victims
  /\ CachedClientsOpen
-----------------------------------------------------------------------------
LEMMA LeavingTheLock ==
  ASSUME ClientTypes, NEW r \in Requests, Unlock(r)
  PROVE  lockq' \in [Caches -> Seq(Requests)]
<1> DEFINE q == lockq[CacheOf(r)]
<1>1. CacheOf(r) \in Caches
  BY DEF CacheOf, Caches
<1>2. q \in Seq(Requests)
  BY <1>1 DEF ClientTypes
<1>3. PICK i \in DOMAIN q : lockq' = [lockq EXCEPT ![CacheOf(r)] = RemoveAt(q, i)]
  BY DEF Unlock
<1>4. RemoveAt(q, i) \in Seq(Requests)
  BY <1>2 DEF RemoveAt
<1> QED BY <1>1, <1>3, <1>4 DEF ClientTypes

(* A new client object is in no cache and in nobody's hands. *)
LEMMA ConstructIsFresh ==
  ASSUME CacheInv, NEW r \in Requests, NEW v \in Versions, Construct(r, v)
  PROVE  LET c == made + 1 IN
         /\ c \in Clients
         /\ made' = c /\ held' = [held EXCEPT ![r] = c]
         /\ conn' = [conn EXCEPT ![c] = "opening"]
         /\ conn' \in [Clients -> {"none", "opening", "open", "closed"}]
         /\ config' \in [Clients -> Versions]
         /\ made' \in 0..MaxClients
         /\ held' \in [Requests -> Clients \union {0}]
         /\ \A x \in Requests : held[x] # c /\ victim[x] # c
         /\ \A k \in Caches : cached[k] # c
<1> DEFINE c == made + 1
<1>1. /\ MaxClients \in Nat
      /\ made \in 0..MaxClients
      /\ made < MaxClients
  BY ClientBounds DEF CacheInv, ClientTypes, Construct
<1>2. c \in Clients /\ c \in 0..MaxClients /\ c > made
  BY <1>1 DEF Clients
<1>3. /\ made' = c
      /\ held' = [held EXCEPT ![r] = c]
      /\ conn' = [conn EXCEPT ![c] = "opening"]
      /\ config' = [config EXCEPT ![c] = v]
  BY DEF Construct
<1>4. /\ \A x \in Requests : held[x] # c /\ victim[x] # c
      /\ \A k \in Caches : cached[k] # c
  <2>1. /\ \A x \in Requests : held[x] \in Int /\ victim[x] \in Int
        /\ \A k \in Caches : cached[k] \in Int
    BY DEF CacheInv, ClientTypes, Clients
  <2> QED BY <2>1, <1>1 DEF CacheInv, Fresh
<1> QED BY <1>1, <1>2, <1>3, <1>4 DEF CacheInv, ClientTypes

(* A request that owns nothing yet begins to construct its client. *)
LEMMA ConstructPreserves ==
  ASSUME CacheInv, NEW r \in Requests \ Owners, NEW v \in Versions, Construct(r, v),
         NEW where \in {"handshake", "probing"}, Goto(r, where),
         UNCHANGED <<cached, victim, storeVars>>,
         backoff' \in BOOLEAN,
         op' \in [Requests -> Ops],
         read' \in [Requests -> Versions],
         lockq' \in [Caches -> Seq(Requests)]
  PROVE  CacheInv'
<1> DEFINE c == made + 1
<1>1. /\ c \in Clients
      /\ made' = c /\ held' = [held EXCEPT ![r] = c]
      /\ conn' = [conn EXCEPT ![c] = "opening"]
      /\ conn' \in [Clients -> {"none", "opening", "open", "closed"}]
      /\ config' \in [Clients -> Versions]
      /\ made' \in 0..MaxClients
      /\ held' \in [Requests -> Clients \union {0}]
      /\ \A x \in Requests : held[x] # c /\ victim[x] # c
      /\ \A k \in Caches : cached[k] # c
  BY ConstructIsFresh, Zenon
<1>2. ClientTypes'
  BY <1>1 DEF CacheInv, ClientTypes, Goto, Pcs, storeVars
<1>3. Fresh'
  <2>1. /\ made \in Nat
        /\ \A x \in Requests : held[x] \in Nat /\ victim[x] \in Nat
        /\ \A k \in Caches : cached[k] \in Nat
        /\ Clients \subseteq Nat
    BY ClientBounds DEF CacheInv, ClientTypes, Clients
  <2>2. /\ \A x \in Requests : held'[x] <= made' /\ victim'[x] <= made'
        /\ \A k \in Caches : cached'[k] <= made'
    BY <1>1, <2>1 DEF CacheInv, ClientTypes, Fresh
  <2>3. ASSUME NEW d \in Clients, d > made' PROVE conn'[d] = "none"
    BY <1>1, <2>1, <2>3 DEF CacheInv, ClientTypes, Fresh
  <2> QED BY <2>2, <2>3 DEF Fresh
<1>4. Owners' = Owners \union {r}
  BY DEF CacheInv, ClientTypes, Goto, Owners
<1>5. \A x \in Owners : /\ pc'[x] = pc[x] /\ held'[x] = held[x]
                        /\ held[x] \in Clients /\ conn'[held[x]] = conn[held[x]]
  BY <1>1 DEF CacheInv, ClientTypes, Owned, Goto, Owners
<1>6. Owned'
  <2>1. /\ pc'[r] \in {"handshake", "probing"} /\ held'[r] = c
        /\ conn'[c] = "opening" /\ c # 0
    BY <1>1 DEF CacheInv, ClientTypes, Goto, Clients
  <2> QED BY <1>1, <1>4, <1>5, <2>1 DEF CacheInv, Owned, Owners
<1>7. Victims'
  BY <1>1 DEF CacheInv, ClientTypes, Victims
<1>8. CachedClientsOpen' /\ Distinct'
  BY <1>1 DEF CacheInv, ClientTypes, CachedClientsOpen, Distinct
<1> QED BY <1>2, <1>3, <1>6, <1>7, <1>8 DEF CacheInv

(* A request that owns no client before or after changes no client. *)
LEMMA BystanderPreserves ==
  ASSUME CacheInv, NEW r \in Requests \ Owners,
         NEW where \in Pcs \ {"handshake", "probing", "swapping"}, Goto(r, where),
         UNCHANGED clientVars,
         UNCHANGED <<cached, victim>>,
         NEW h \in {held[r]} \union {cached[k] : k \in Caches},
         held' = [held EXCEPT ![r] = h],
         stored' \in Versions, edits' \in Versions,
         backoff' \in BOOLEAN,
         op' \in [Requests -> Ops],
         read' \in [Requests -> Versions],
         lockq' \in [Caches -> Seq(Requests)]
  PROVE  CacheInv'
<1>1. ClientTypes'
  BY DEF CacheInv, ClientTypes, Goto, clientVars
<1>2. /\ Owners' = Owners
      /\ \A x \in Owners : held'[x] = held[x] /\ pc'[x] = pc[x]
  BY DEF CacheInv, ClientTypes, Goto, Owners
<1>3. Fresh'
  BY DEF CacheInv, ClientTypes, Fresh, clientVars
<1>4. Owned'
  BY <1>2 DEF CacheInv, Owned, Owners, clientVars
<1>5. Victims' /\ CachedClientsOpen' /\ Distinct'
  BY DEF CacheInv, Victims, CachedClientsOpen, Distinct, clientVars
<1> QED BY <1>1, <1>3, <1>4, <1>5 DEF CacheInv

LEMMA LookupPreserves ==
  ASSUME CacheInv, NEW r \in Requests \ Owners, NEW k \in Caches,
         NEW refused, Lookup(r, k, refused),
         UNCHANGED <<cached, victim, storeVars>>,
         backoff' \in BOOLEAN,
         op' \in [Requests -> Ops]
  PROVE  CacheInv'
<1>1. /\ read' \in [Requests -> Versions]
      /\ stored \in Versions /\ edits \in Versions
      /\ stored' \in Versions /\ edits' \in Versions
  BY DEF CacheInv, ClientTypes, Lookup, storeVars
<1>2. CASE UNCHANGED <<lockq, clientVars, held>> /\ Goto(r, "ended")
  <2>1. /\ lockq' \in [Caches -> Seq(Requests)]
        /\ held' = [held EXCEPT ![r] = held[r]]
    BY <1>2 DEF CacheInv, ClientTypes
  <2> QED BY <1>1, <1>2, <2>1, BystanderPreserves DEF Pcs
<1>3. CASE /\ held' = [held EXCEPT ![r] = cached[k]]
           /\ Goto(r, "using")
           /\ UNCHANGED <<lockq, clientVars>>
  <2>1. lockq' \in [Caches -> Seq(Requests)]
    BY <1>3 DEF CacheInv, ClientTypes
  <2> QED BY <1>1, <1>3, <2>1, BystanderPreserves DEF Pcs
<1>4. CASE /\ lockq' = [lockq EXCEPT ![k] = Append(@, r)]
           /\ \/ Construct(r, stored) /\ Goto(r, "handshake")
              \/ Goto(r, "queued") /\ UNCHANGED <<clientVars, held>>
  <2>1. lockq' \in [Caches -> Seq(Requests)]
    BY <1>4 DEF CacheInv, ClientTypes
  <2>2. CASE Construct(r, stored) /\ Goto(r, "handshake")
    BY <1>1, <2>1, <2>2, ConstructPreserves
  <2>3. CASE Goto(r, "queued") /\ UNCHANGED <<clientVars, held>>
    <3>1. held' = [held EXCEPT ![r] = held[r]]
      BY <2>3 DEF CacheInv, ClientTypes
    <3> QED BY <1>1, <2>1, <2>3, <3>1, BystanderPreserves DEF Pcs
  <2> QED BY <1>4, <2>2, <2>3
<1> QED BY <1>2, <1>3, <1>4 DEF Lookup

(* A request that owns no client takes the cached one out. *)
LEMMA PopPreserves ==
  ASSUME CacheInv, NEW r \in Requests \ Owners,
         NEW next \in Pcs \ {"handshake", "probing", "swapping"},
         NEW otherwise \in Pcs \ {"handshake", "probing", "swapping"},
         PopAndClose(r, next, otherwise),
         UNCHANGED <<lockq, clientVars, held>>,
         stored' \in Versions, edits' \in Versions,
         backoff' \in BOOLEAN,
         op' \in [Requests -> Ops],
         read' \in [Requests -> Versions]
  PROVE  CacheInv'
<1> DEFINE c == cached["api"]
<1>1. /\ "api" \in Caches
      /\ victim' = [victim EXCEPT ![r] = c]
      /\ cached' = [cached EXCEPT !["api"] = 0]
      /\ c \in Clients \union {0}
      /\ c # 0 => conn[c] = "open"
      /\ c <= made
  BY DEF PopAndClose, CacheInv, ClientTypes, Fresh, CachedClientsOpen, Caches
<1>2. PICK where \in Pcs \ {"handshake", "probing", "swapping"} : Goto(r, where)
  BY DEF PopAndClose
<1>3. ClientTypes'
  BY <1>1, <1>2 DEF CacheInv, ClientTypes, Goto, clientVars
<1>4. /\ Owners' = Owners
      /\ \A x \in Owners : held'[x] = held[x] /\ pc'[x] = pc[x]
  BY <1>2 DEF CacheInv, ClientTypes, Goto, Owners
<1>5. 0 <= made /\ Fresh'
  <2>1. 0 <= made
    BY ClientBounds DEF CacheInv, ClientTypes
  <2> QED BY <1>1, <2>1 DEF CacheInv, ClientTypes, Fresh, clientVars
<1>6. Owned'
  <2>1. \A x \in Owners : held[x] # c /\ held[x] # 0
    BY <1>1 DEF CacheInv, Owned
  <2> QED BY <1>1, <1>4, <2>1 DEF CacheInv, ClientTypes, Owned, Owners, clientVars
<1>7. Victims'
  BY <1>1 DEF CacheInv, ClientTypes, Victims, clientVars
<1>8. CachedClientsOpen' /\ Distinct'
  <2>1. \A k \in Caches : cached'[k] # 0 =>
          k # "api" /\ cached'[k] = cached[k] /\ cached[k] # c
    BY <1>1 DEF CacheInv, ClientTypes, Distinct
  <2> QED BY <1>1, <2>1 DEF CacheInv, ClientTypes, CachedClientsOpen, Distinct, clientVars
<1> QED BY <1>3, <1>5, <1>6, <1>7, <1>8 DEF CacheInv

(* A handshake ends: its request gives up ownership of the client.         *)
LEMMA OwnerLeavesPreserves ==
  ASSUME CacheInv, NEW r \in Owners, pc[r] # "swapping",
         NEW st \in {"open", "closed"}, conn' = [conn EXCEPT ![held[r]] = st],
         NEW where \in Pcs \ {"handshake", "probing", "swapping"}, Goto(r, where),
         UNCHANGED <<storeVars, config, made, op, read, held>>,
         backoff' \in BOOLEAN,
         lockq' \in [Caches -> Seq(Requests)],
         NEW v \in {0, victim[r], cached["api"]}, victim' = [victim EXCEPT ![r] = v],
         \/ UNCHANGED cached
         \/ cached' = [cached EXCEPT !["api"] = 0]
         \/ /\ st = "open"
            /\ \E k \in Caches : cached' = [cached EXCEPT ![k] = held[r]],
         v # 0 /\ v = cached["api"] => cached'["api"] = 0
  PROVE  CacheInv'
<1> DEFINE c == held[r]
<1>1. /\ r \in Requests
      /\ c \in Clients /\ c # 0 /\ conn[c] = "opening"
      /\ \A k \in Caches : cached[k] # c
      /\ \A x \in Requests : victim[x] # c
      /\ c <= made
      /\ "api" \in Caches
  BY DEF CacheInv, ClientTypes, Owned, Owners, Fresh, Caches
<1>2. /\ Owners' = Owners \ {r}
      /\ \A x \in Owners \ {r} : /\ pc'[x] = pc[x] /\ held[x] # c
                                 /\ held[x] \in Clients /\ conn'[held[x]] = conn[held[x]]
  BY <1>1 DEF CacheInv, ClientTypes, Goto, Owners, Owned
<1>3. ClientTypes'
  BY <1>1 DEF CacheInv, ClientTypes, Goto, storeVars
<1>4. Fresh'
  <2>1. made \in Nat /\ 0 <= made /\ Clients \subseteq Nat
    BY ClientBounds DEF CacheInv, ClientTypes, Clients
  <2>2. \A d \in Clients : d > made => conn'[d] = "none"
    BY <1>1, <2>1 DEF CacheInv, ClientTypes, Fresh
  <2>3. /\ \A x \in Requests : held'[x] <= made' /\ victim'[x] <= made'
        /\ \A k \in Caches : cached'[k] <= made'
    BY <1>1, <2>1 DEF CacheInv, ClientTypes, Fresh
  <2> QED BY <2>2, <2>3 DEF Fresh
<1>5. \A k \in Caches : cached'[k] \in {0, c, cached[k]}
  BY DEF CacheInv, ClientTypes
<1>6. \A x \in Requests : victim'[x] # 0 =>
        \/ \E y \in Requests : victim'[x] = victim[y]
        \/ x = r /\ victim'[x] = cached["api"]
  BY DEF CacheInv, ClientTypes
<1>7. Owned'
  <2> SUFFICES ASSUME NEW x \in Owners \ {r}
               PROVE  /\ \A k \in Caches : cached'[k] # held[x]
                      /\ \A y \in Requests : victim'[y] # held[x]
    BY <1>2 DEF CacheInv, Owned, Owners
  <2>1. /\ \A k \in Caches : cached[k] # held[x]
        /\ \A y \in Requests : victim[y] # held[x]
        /\ held[x] # 0
    BY DEF CacheInv, Owned
  <2> QED BY <1>1, <1>2, <1>5, <1>6, <2>1
<1>8. Victims'
  <2> SUFFICES ASSUME NEW x \in Requests, victim'[x] # 0
               PROVE  conn'[victim'[x]] \in {"open", "closed"}
    BY DEF Victims
  <2>1. victim'[x] # c /\ victim'[x] \in Clients /\ conn[victim'[x]] \in {"open", "closed"}
    BY <1>1, <1>6 DEF CacheInv, ClientTypes, Victims, CachedClientsOpen
  <2> QED BY <2>1 DEF CacheInv, ClientTypes
<1>9. CachedClientsOpen' /\ Distinct'
  <2>1. ASSUME NEW k \in Caches, cached'[k] # 0
        PROVE  /\ conn'[cached'[k]] = "open"
               /\ \A x \in Requests : victim'[x] # cached'[k]
    <3>1. CASE cached'[k] = c
      <4>1. st = "open"
        BY <1>1, <2>1, <3>1 DEF CacheInv, ClientTypes
      <4>2. \A x \in Requests : victim'[x] # c
        BY <1>1, <1>6
      <4> QED BY <1>1, <3>1, <4>1, <4>2 DEF CacheInv, ClientTypes
    <3>2. CASE cached'[k] = cached[k] /\ cached[k] # c
      <4>1. /\ conn[cached[k]] = "open"
            /\ \A x \in Requests : victim[x] # cached[k]
            /\ cached[k] \in Clients
        BY <2>1, <3>2 DEF CacheInv, ClientTypes, CachedClientsOpen
      <4>2. victim'[r] # cached[k]
        <5>1. victim'[r] = v
          BY <1>1 DEF CacheInv, ClientTypes
        <5>2. v = cached["api"] /\ v # 0 => k # "api" /\ cached[k] # v
          BY <1>1, <2>1, <3>2 DEF CacheInv, Distinct
        <5> QED BY <1>1, <4>1, <5>1, <5>2, <2>1, <3>2
      <4> QED BY <1>1, <3>2, <4>1, <4>2 DEF CacheInv, ClientTypes
    <3> QED BY <1>1, <1>5, <2>1, <3>1, <3>2
  <2>2. Distinct'
    BY <1>1 DEF CacheInv, ClientTypes, Distinct
  <2> QED BY <2>1, <2>2 DEF CachedClientsOpen
<1> QED BY <1>3, <1>4, <1>7, <1>8, <1>9 DEF CacheInv

(* A tested client whose place in the cache is taken waits for it. *)
LEMMA SwapPreserves ==
  ASSUME CacheInv, NEW r \in Requests, ProbeSucceeded(r), cached["api"] # 0
  PROVE  CacheInv'
<1> DEFINE c == held[r]
           old == cached["api"]
<1>1. /\ r \in Owners
      /\ c \in Clients /\ c # 0 /\ conn[c] = "opening" /\ c <= made
      /\ \A k \in Caches : cached[k] # c
      /\ \A x \in Requests : victim[x] # c
      /\ "api" \in Caches /\ old \in Clients /\ old # c /\ conn[old] = "open"
      /\ old <= made
      /\ \A k \in Caches : k # "api" => cached[k] # old
  BY DEF ProbeSucceeded, CacheInv, ClientTypes, Owned, Owners, Fresh, Caches,
         CachedClientsOpen, Distinct
<1>2. /\ conn'   = [conn EXCEPT ![c] = "open"]
      /\ victim' = [victim EXCEPT ![r] = old]
      /\ cached' = [cached EXCEPT !["api"] = 0]
      /\ pc' = [pc EXCEPT ![r] = "swapping"]
      /\ UNCHANGED <<lockq, backoff, stored, edits, config, made, op, read, held>>
  BY DEF ProbeSucceeded, Goto, storeVars
<1>3. ClientTypes'
  BY <1>1, <1>2 DEF CacheInv, ClientTypes, Pcs
<1>4. Fresh'
  <2>1. made \in Nat /\ 0 <= made /\ Clients \subseteq Nat
    BY ClientBounds DEF CacheInv, ClientTypes, Clients
  <2> QED BY <1>1, <1>2, <2>1 DEF CacheInv, ClientTypes, Fresh
<1>5. /\ Owners' = Owners
      /\ \A x \in Owners \ {r} : /\ pc'[x] = pc[x] /\ held[x] # c /\ held[x] # old
                                 /\ held[x] \in Clients /\ conn'[held[x]] = conn[held[x]]
  BY <1>1, <1>2 DEF CacheInv, ClientTypes, Owners, Owned
<1>6. Owned'
  <2>1. \A k \in Caches : cached'[k] \in {0, cached[k]}
    BY <1>2 DEF CacheInv, ClientTypes
  <2>2. \A x \in Requests : victim'[x] \in {old, victim[x]}
    BY <1>2 DEF CacheInv, ClientTypes
  <2>3. pc'[r] = "swapping" /\ conn'[c] = "open"
    BY <1>1, <1>2 DEF CacheInv, ClientTypes
  <2> QED BY <1>1, <1>2, <1>5, <2>1, <2>2, <2>3 DEF CacheInv, Owned, Owners
<1>7. Victims'
  BY <1>1, <1>2 DEF CacheInv, ClientTypes, Victims
<1>8. CachedClientsOpen' /\ Distinct'
  BY <1>1, <1>2 DEF CacheInv, ClientTypes, CachedClientsOpen, Distinct
<1> QED BY <1>3, <1>4, <1>6, <1>7, <1>8 DEF CacheInv

(* The tested client is promoted. *)
LEMMA PromotePreserves ==
  ASSUME CacheInv, NEW r \in Requests, Promote(r)
  PROVE  CacheInv'
<1> DEFINE c == held[r]
<1>1. /\ r \in Owners
      /\ c \in Clients /\ c # 0 /\ conn[c] = "open" /\ c <= made
      /\ \A k \in Caches : cached[k] # c
      /\ \A x \in Requests : victim[x] # c
      /\ "api" \in Caches
  BY DEF Promote, CacheInv, ClientTypes, Owned, Owners, Fresh, Caches
<1>2. /\ cached' = [cached EXCEPT !["api"] = c]
      /\ pc' = [pc EXCEPT ![r] = "ended"]
      /\ UNCHANGED <<lockq, backoff, stored, edits, conn, config, made,
                     op, read, held, victim>>
  BY DEF Promote, Goto, storeVars, clientVars
<1>3. ClientTypes'
  BY <1>1, <1>2 DEF CacheInv, ClientTypes, Pcs
<1>4. Fresh'
  BY <1>1, <1>2 DEF CacheInv, ClientTypes, Fresh
<1>5. /\ Owners' = Owners \ {r}
      /\ \A x \in Owners \ {r} : pc'[x] = pc[x] /\ held[x] # c
  BY <1>1, <1>2 DEF CacheInv, ClientTypes, Owners, Owned
<1>6. Owned'
  BY <1>1, <1>2, <1>5 DEF CacheInv, ClientTypes, Owned, Owners
<1>7. Victims'
  BY <1>2 DEF CacheInv, Victims
<1>8. CachedClientsOpen' /\ Distinct'
  BY <1>1, <1>2 DEF CacheInv, ClientTypes, CachedClientsOpen, Distinct
<1> QED BY <1>3, <1>4, <1>6, <1>7, <1>8 DEF CacheInv

(* A client that was taken out is closed. *)
LEMMA ClosePreserves ==
  ASSUME CacheInv, NEW r \in Requests, CloseVictim(r)
  PROVE  CacheInv'
<1> DEFINE c == victim[r]
<1>1. /\ c \in Clients /\ c # 0 /\ c <= made
      /\ \A k \in Caches : cached[k] # c
      /\ \A x \in Owners : held[x] # c
  BY DEF CloseVictim, CacheInv, ClientTypes, Owned, CachedClientsOpen, Fresh
<1>2. /\ conn'   = [conn EXCEPT ![c] = "closed"]
      /\ victim' = [victim EXCEPT ![r] = 0]
      /\ pc' = [pc EXCEPT ![r] = pc'[r]] /\ pc'[r] \in {pc[r], "ended"}
      /\ pc'[r] = "ended" => pc[r] \in {"clearing", "reclearing", "ended"}
      /\ UNCHANGED <<cached, lockq, backoff, stored, edits, config, made, op, read, held>>
  BY DEF CloseVictim, Goto, storeVars, cacheVars, CacheInv, ClientTypes
<1>3. ClientTypes'
  BY <1>1, <1>2 DEF CacheInv, ClientTypes, Pcs
<1>4. Fresh'
  <2>1. made \in Nat /\ 0 <= made /\ Clients \subseteq Nat
    BY ClientBounds DEF CacheInv, ClientTypes, Clients
  <2> QED BY <1>1, <1>2, <2>1 DEF CacheInv, ClientTypes, Fresh
<1>5. /\ Owners' = Owners
      /\ \A x \in Owners : pc'[x] = pc[x]
  BY <1>2 DEF CacheInv, ClientTypes, Owners
<1>6. Owned'
  BY <1>1, <1>2, <1>5 DEF CacheInv, ClientTypes, Owned, Owners
<1>7. Victims'
  BY <1>1, <1>2 DEF CacheInv, ClientTypes, Victims
<1>8. CachedClientsOpen' /\ Distinct'
  BY <1>1, <1>2 DEF CacheInv, ClientTypes, CachedClientsOpen, Distinct
<1> QED BY <1>3, <1>4, <1>6, <1>7, <1>8 DEF CacheInv

(* An edit clears its key once more. *)
LEMMA ClearAgainPreserves ==
  ASSUME CacheInv, NEW r \in Requests, ClearAgain(r)
  PROVE  CacheInv'
<1>1. r \in Requests \ Owners
  BY DEF ClearAgain, Owners
<1>2. /\ stored' \in Versions /\ edits' \in Versions /\ backoff' \in BOOLEAN
      /\ op' \in [Requests -> Ops] /\ read' \in [Requests -> Versions]
      /\ PopAndClose(r, "reclearing", "ended")
      /\ UNCHANGED <<lockq, clientVars, held>>
  BY DEF ClearAgain, CacheInv, ClientTypes, storeVars
<1> QED BY <1>1, <1>2, PopPreserves DEF Pcs

-----------------------------------------------------------------------------
LEMMA InitHolds == ClientInit => CacheInv
<1> SUFFICES ASSUME ClientInit PROVE CacheInv
  OBVIOUS
<1>1. 1 \in Versions /\ 0 \in Versions /\ 0 \in 0..MaxClients
  BY ClientBounds DEF Versions
<1>2. ClientTypes
  <2>1. lockq \in [Caches -> Seq(Requests)]
    <3>1. <<>> \in Seq(Requests)
      OBVIOUS
    <3> HIDE DEF Caches
    <3> QED BY <3>1 DEF ClientInit
  <2> QED BY <1>1, <2>1 DEF ClientInit, ClientTypes, Ops, Pcs
<1>3. Fresh /\ Owned /\ Victims /\ Distinct /\ CachedClientsOpen
  BY DEF ClientInit, Fresh, Owned, Owners, Victims, Distinct, CachedClientsOpen
<1> QED BY <1>2, <1>3 DEF CacheInv

LEMMA ArrivePreserves ==
  ASSUME CacheInv, NEW r \in Requests, Arrive(r) PROVE CacheInv'
<1>1. /\ stored \in Versions /\ edits \in Versions /\ backoff \in BOOLEAN
      /\ op \in [Requests -> Ops] /\ read \in [Requests -> Versions]
      /\ lockq \in [Caches -> Seq(Requests)]
      /\ held = [held EXCEPT ![r] = held[r]]
  BY DEF CacheInv, ClientTypes
<1>2. "api" \in Caches /\ "state" \in Caches
  BY DEF Caches
<1>3. r \in Requests \ Owners
  BY DEF Arrive, Get, EditServer, RemoveServer, Save, AddServer, Probe, Owners
<1>4. ASSUME NEW o \in {"page", "browse", "run"}, Get(r, o) PROVE CacheInv'
  <2>1. /\ op' \in [Requests -> Ops] /\ backoff' \in BOOLEAN
        /\ UNCHANGED <<cached, victim, storeVars>>
    BY <1>1, <1>4 DEF Get, Ops
  <2>2. CASE o = "run"
    BY <1>2, <1>3, <1>4, <2>1, <2>2, LookupPreserves DEF Get
  <2>3. CASE o # "run"
    BY <1>2, <1>3, <1>4, <2>1, <2>3, LookupPreserves DEF Get
  <2> QED BY <2>2, <2>3
<1>5. ASSUME NEW o \in {"edit", "remove"}, NEW version \in Versions, Save(r, o, version),
             edits' \in Versions
      PROVE  CacheInv'
  <2>1. /\ op' \in [Requests -> Ops] /\ stored' \in Versions
        /\ backoff' \in BOOLEAN /\ read' \in [Requests -> Versions]
    BY <1>1, <1>5 DEF Save, Ops
  <2> QED BY <1>3, <1>5, <2>1, PopPreserves DEF Save, Pcs
<1>6. CASE EditServer(r)
  <2>1. edits + 1 \in Versions /\ edits' \in Versions
    BY <1>1, <1>6, ClientBounds DEF EditServer, Versions
  <2> QED BY <1>5, <1>6, <2>1 DEF EditServer
<1>7. CASE RemoveServer(r)
  <2>1. 0 \in Versions /\ edits' \in Versions
    BY <1>1, <1>7, ClientBounds DEF RemoveServer, Versions
  <2> QED BY <1>5, <1>7, <2>1 DEF RemoveServer
<1>8. CASE AddServer(r)
  <2>1. /\ stored' \in Versions /\ edits' \in Versions
        /\ op' \in [Requests -> Ops]
        /\ UNCHANGED <<cached, lockq, backoff, victim, read, held, clientVars>>
    BY <1>1, <1>8, ClientBounds DEF AddServer, Versions, Ops, cacheVars
  <2> QED BY <1>1, <1>3, <1>8, <2>1, BystanderPreserves DEF AddServer, Pcs
<1>9. CASE Probe(r)
  <2>1. /\ op' \in [Requests -> Ops] /\ read' \in [Requests -> Versions]
        /\ UNCHANGED <<cached, lockq, backoff, victim, storeVars>>
    BY <1>1, <1>9 DEF Probe, Ops, cacheVars
  <2> QED BY <1>1, <1>3, <1>9, <2>1, ConstructPreserves DEF Probe
<1> QED BY <1>4, <1>6, <1>7, <1>8, <1>9 DEF Arrive

(* The ways out of a failed call or handshake. *)
LEMMA FailRequestEnds ==
  ASSUME CacheInv, NEW r \in Requests, NEW before \in BOOLEAN, FailRequest(r, before)
  PROVE  /\ \E where \in {"clearing", "ended"} : Goto(r, where)
         /\ backoff' \in BOOLEAN
         /\ \/ /\ victim' = [victim EXCEPT ![r] = cached["api"]]
               /\ cached' = [cached EXCEPT !["api"] = 0]
               /\ PopAndClose(r, "clearing", "ended")
            \/ /\ victim' = [victim EXCEPT ![r] = victim[r]]
               /\ UNCHANGED <<cached, victim>>
               /\ Goto(r, "ended")
BY DEF FailRequest, PopAndClose, CacheInv, ClientTypes

LEMMA ProbeEndsPreserves ==
  ASSUME CacheInv, NEW r \in Requests, ProbeSucceeded(r) \/ ProbeFailed(r)
  PROVE  CacheInv'
<1>1. /\ r \in Owners /\ pc[r] # "swapping" /\ "api" \in Caches
      /\ backoff \in BOOLEAN /\ lockq \in [Caches -> Seq(Requests)]
      /\ victim = [victim EXCEPT ![r] = victim[r]]
      /\ victim[r] # 0 => victim[r] # cached["api"]
  BY DEF ProbeSucceeded, ProbeFailed, Owners, Caches, CacheInv, ClientTypes, CachedClientsOpen
<1>2. CASE ProbeSucceeded(r) /\ cached["api"] # 0
  BY <1>2, SwapPreserves
<1>3. CASE ProbeSucceeded(r) /\ cached["api"] = 0
  <2>1. /\ Goto(r, "ended") /\ conn' = [conn EXCEPT ![held[r]] = "open"]
        /\ victim' = [victim EXCEPT ![r] = 0]
        /\ cached' = [cached EXCEPT !["api"] = held[r]]
        /\ UNCHANGED <<storeVars, config, made, op, read, held, lockq, backoff>>
    BY <1>3 DEF ProbeSucceeded
  <2> QED BY <1>1, <2>1, OwnerLeavesPreserves DEF Pcs
<1>4. CASE ProbeFailed(r)
  <2>1. /\ Goto(r, "ended") /\ conn' = [conn EXCEPT ![held[r]] = "closed"]
        /\ UNCHANGED <<cached, victim, storeVars, config, made, op, read, held, lockq, backoff>>
    BY <1>4 DEF ProbeFailed, cacheVars
  <2> QED BY <1>1, <2>1, OwnerLeavesPreserves DEF Pcs
<1> QED BY <1>2, <1>3, <1>4

LEMMA HandshakeEndsPreserves ==
  ASSUME CacheInv, NEW r \in Requests,
         Connected(r) \/ ConnectFailed(r) \/ (RunCancelled(r) /\ pc[r] = "handshake")
  PROVE  CacheInv'
<1>1. /\ r \in Owners /\ pc[r] # "swapping"
      /\ CacheOf(r) \in Caches /\ backoff \in BOOLEAN
      /\ victim = [victim EXCEPT ![r] = victim[r]]
      /\ \A k \in Caches : victim[r] # 0 => victim[r] # cached[k]
      /\ "api" \in Caches
  BY DEF Connected, ConnectFailed, RunCancelled, Owners, Caches, CacheOf, CacheInv,
         ClientTypes, CachedClientsOpen
<1>2. lockq' \in [Caches -> Seq(Requests)]
  BY LeavingTheLock DEF Connected, ConnectFailed, RunCancelled, CacheInv
<1>3. CASE Connected(r)
  <2>1. /\ Goto(r, "using") /\ conn' = [conn EXCEPT ![held[r]] = "open"]
        /\ backoff' \in BOOLEAN
        /\ cached' = [cached EXCEPT ![CacheOf(r)] = held[r]]
        /\ UNCHANGED <<victim, storeVars, config, made, op, read, held>>
    BY <1>1, <1>3 DEF Connected
  <2> QED BY <1>1, <1>2, <2>1, OwnerLeavesPreserves DEF Pcs
<1>4. CASE ConnectFailed(r)
  <2>1. /\ conn' = [conn EXCEPT ![held[r]] = "closed"]
        /\ UNCHANGED <<storeVars, config, made, op, read, held>>
        /\ FailRequest(r, CacheOf(r) = "api" \/ backoff)
    BY <1>4 DEF ConnectFailed
  <2>2. PICK where \in {"clearing", "ended"} : Goto(r, where)
    BY <2>1, FailRequestEnds, Zenon
  <2>3. /\ backoff' \in BOOLEAN
        /\ \/ /\ victim' = [victim EXCEPT ![r] = cached["api"]]
              /\ cached' = [cached EXCEPT !["api"] = 0]
           \/ /\ victim' = [victim EXCEPT ![r] = victim[r]]
              /\ UNCHANGED <<cached, victim>>
    BY <2>1, FailRequestEnds, Zenon
  <2>4. where \in Pcs \ {"handshake", "probing", "swapping"}
    BY <2>2 DEF Pcs
  <2>5. CASE /\ victim' = [victim EXCEPT ![r] = cached["api"]]
             /\ cached' = [cached EXCEPT !["api"] = 0]
    <3>1. cached'["api"] = 0
      BY <1>1, <2>5 DEF CacheInv, ClientTypes
    <3> QED BY <1>1, <1>2, <2>1, <2>2, <2>3, <2>4, <2>5, <3>1, OwnerLeavesPreserves
  <2>6. CASE UNCHANGED <<cached, victim>>
    BY <1>1, <1>2, <2>1, <2>2, <2>3, <2>4, <2>6, OwnerLeavesPreserves
  <2> QED BY <2>3, <2>5, <2>6
<1>5. CASE RunCancelled(r) /\ pc[r] = "handshake"
  <2>1. PICK left \in {"open", "closed"} : conn' = [conn EXCEPT ![held[r]] = left]
    BY <1>5 DEF RunCancelled
  <2>2. /\ Goto(r, "ended")
        /\ UNCHANGED <<cached, victim, backoff, storeVars, config, made, op, read, held>>
    BY <1>5 DEF RunCancelled
  <2> QED BY <1>1, <1>2, <2>1, <2>2, OwnerLeavesPreserves DEF Pcs
<1> QED BY <1>3, <1>4, <1>5

LEMMA UsePreserves ==
  ASSUME CacheInv, NEW r \in Requests,
         \/ Served(r) \/ UseFailed(r) \/ StartRead(r) \/ EndRead(r)
         \/ Relogin(r) \/ ReloginGet(r)
  PROVE  CacheInv'
<1>1. /\ stored \in Versions /\ edits \in Versions /\ backoff \in BOOLEAN
      /\ op \in [Requests -> Ops] /\ read \in [Requests -> Versions]
      /\ lockq \in [Caches -> Seq(Requests)]
      /\ held = [held EXCEPT ![r] = held[r]]
  BY DEF CacheInv, ClientTypes
<1>2. "api" \in Caches /\ r \in Requests \ Owners
  BY DEF Caches, Owners, Served, UseFailed, StartRead, EndRead, Relogin, ReloginGet
<1>3. CASE Served(r) \/ StartRead(r) \/ EndRead(r)
  <2>1. UNCHANGED <<cached, lockq, backoff, stored, edits, clientVars, op, read, held, victim>>
    BY <1>3 DEF Served, StartRead, EndRead, cacheVars, storeVars
  <2>2. PICK where \in {"reading", "ended"} : Goto(r, where)
    BY <1>3 DEF Served, StartRead, EndRead
  <2> QED BY <1>1, <1>2, <2>1, <2>2, BystanderPreserves DEF Pcs
<1>4. CASE UseFailed(r)
  <2>1. /\ FailRequest(r, backoff)
        /\ UNCHANGED <<lockq, stored, edits, clientVars, op, read, held>>
    BY <1>4 DEF UseFailed, storeVars
  <2>2. backoff' \in BOOLEAN
    BY <1>1, <2>1, FailRequestEnds, Zenon
  <2>3. CASE PopAndClose(r, "clearing", "ended")
    BY <1>1, <1>2, <2>1, <2>2, <2>3, PopPreserves DEF Pcs
  <2>4. CASE UNCHANGED <<cached, victim>> /\ Goto(r, "ended")
    BY <1>1, <1>2, <2>1, <2>2, <2>4, BystanderPreserves DEF Pcs
  <2> QED BY <1>1, <2>1, <2>3, <2>4, FailRequestEnds, Zenon
<1>5. CASE Relogin(r)
  <2>1. op' \in [Requests -> Ops] /\ UNCHANGED storeVars
    BY <1>1, <1>5 DEF Relogin, Ops
  <2>2. CASE cached["api"] # 0
    <3>1. /\ PopAndClose(r, "relogging", "relogging")
          /\ UNCHANGED <<lockq, backoff, clientVars, read, held, stored, edits>>
      BY <1>5, <2>1, <2>2 DEF Relogin, storeVars
    <3> QED BY <1>1, <1>2, <2>1, <3>1, PopPreserves DEF Pcs
  <2>3. CASE cached["api"] = 0
    <3>1. /\ Lookup(r, "api", FALSE)
          /\ backoff' \in BOOLEAN
          /\ UNCHANGED <<cached, victim, storeVars>>
      BY <1>5, <2>1, <2>3 DEF Relogin
    <3> QED BY <1>2, <2>1, <3>1, LookupPreserves
  <2> QED BY <2>2, <2>3
<1>6. CASE ReloginGet(r)
  <2>1. /\ Lookup(r, "api", FALSE)
        /\ backoff' \in BOOLEAN /\ op' \in [Requests -> Ops]
        /\ UNCHANGED <<cached, victim, storeVars>>
    BY <1>1, <1>6 DEF ReloginGet
  <2> QED BY <1>2, <2>1, LookupPreserves
<1> QED BY <1>3, <1>4, <1>5, <1>6

LEMMA WaitEndsPreserves ==
  ASSUME CacheInv, NEW r \in Requests,
         Locked(r) \/ (RunCancelled(r) /\ pc[r] # "handshake")
  PROVE  CacheInv'
<1>1. /\ stored \in Versions /\ edits \in Versions /\ backoff \in BOOLEAN
      /\ op \in [Requests -> Ops] /\ read \in [Requests -> Versions]
      /\ read[r] \in Versions
      /\ lockq \in [Caches -> Seq(Requests)]
      /\ held = [held EXCEPT ![r] = held[r]]
  BY DEF CacheInv, ClientTypes
<1>2. CacheOf(r) \in Caches /\ r \in Requests \ Owners
  BY DEF Caches, CacheOf, Owners, Locked, RunCancelled
<1>3. Unlock(r) => lockq' \in [Caches -> Seq(Requests)]
  BY LeavingTheLock DEF CacheInv
<1>4. CASE Locked(r)
  <2>1. UNCHANGED <<cached, backoff, stored, edits, storeVars, op, read, victim>>
    BY <1>4 DEF Locked, storeVars
  <2>2. CASE /\ held' = [held EXCEPT ![r] = cached[CacheOf(r)]]
             /\ Unlock(r) /\ Goto(r, "using")
             /\ UNCHANGED clientVars
    BY <1>1, <1>2, <1>3, <2>1, <2>2, BystanderPreserves DEF Pcs
  <2>3. CASE Unlock(r) /\ Goto(r, "ended") /\ UNCHANGED <<held, clientVars>>
    BY <1>1, <1>2, <1>3, <2>1, <2>3, BystanderPreserves DEF Pcs
  <2>4. CASE Construct(r, read[r]) /\ Goto(r, "handshake") /\ UNCHANGED lockq
    BY <1>1, <1>2, <2>1, <2>4, ConstructPreserves
  <2> QED BY <1>4, <2>2, <2>3, <2>4 DEF Locked
<1>5. CASE RunCancelled(r) /\ pc[r] # "handshake"
  <2>1. /\ Unlock(r) /\ Goto(r, "ended")
        /\ UNCHANGED <<cached, backoff, stored, edits, clientVars, op, read, held, victim>>
    BY <1>5 DEF RunCancelled, storeVars, clientVars
  <2> QED BY <1>1, <1>2, <1>3, <2>1, BystanderPreserves DEF Pcs
<1> QED BY <1>4, <1>5

LEMMA CacheStep ==
  ASSUME CacheInv, [ClientNext]_clientCacheVars PROVE CacheInv'
<1>1. ASSUME NEW r \in Requests, Arrive(r) PROVE CacheInv'
  BY <1>1, ArrivePreserves
<1>2. ASSUME NEW r \in Requests, Advance(r) PROVE CacheInv'
  BY <1>2, WaitEndsPreserves, HandshakeEndsPreserves, UsePreserves, ClosePreserves,
     ClearAgainPreserves, ProbeEndsPreserves, PromotePreserves DEF Advance
<1>3. ASSUME NEW r \in Requests, EndRead(r) \/ Relogin(r) PROVE CacheInv'
  BY <1>3, UsePreserves
<1>4. ASSUME NEW r \in Requests, RunCancelled(r) PROVE CacheInv'
  BY <1>4, WaitEndsPreserves, HandshakeEndsPreserves
<1>5. CASE RetryTimePasses
  BY <1>5 DEF RetryTimePasses, CacheInv, ClientTypes, Fresh, Owned, Owners, Distinct,
     Victims, CachedClientsOpen, storeVars, clientVars, requestVars
<1>6. CASE UNCHANGED clientCacheVars
  BY <1>6 DEF CacheInv, ClientTypes, Fresh, Owned, Owners, Distinct, Victims,
     CachedClientsOpen, clientCacheVars, cacheVars, storeVars, clientVars, requestVars
<1> QED BY <1>1, <1>2, <1>3, <1>4, <1>5, <1>6 DEF ClientNext

(* The inductive invariant: what a handshake or a connection test works on *)
(* is its own, what is being closed has left the caches, and the caches    *)
(* share no client, for any number of requests, clients and edits.         *)
THEOREM CacheInvariant == ClientSpec => []CacheInv
<1>1. ClientInit => CacheInv
  BY InitHolds
<1>2. CacheInv /\ [ClientNext]_clientCacheVars => CacheInv'
  BY CacheStep
<1> QED BY <1>1, <1>2, PTL DEF ClientSpec

(* Whatever the requests and in whatever order they await, what a cache    *)
(* holds is connected and nobody is closing it.                            *)
THEOREM CachedClientsStayOpen == ClientSpec => []CachedClientsOpen
<1>1. CacheInv => CachedClientsOpen
  BY DEF CacheInv
<1> QED BY <1>1, CacheInvariant, PTL

-----------------------------------------------------------------------------
(***************************************************************************)
(* The locks and the reach of every connection.                            *)
(***************************************************************************)
(* A queue without repetitions loses just the element that is taken out,   *)
(* and its head only if that is the one.                                   *)
LEMMA OneLess ==
  ASSUME NEW S, NEW q \in Seq(S), IsInjective(q), NEW i \in DOMAIN q
  PROVE  /\ RemoveAt(q, i) \in Seq(S)
         /\ IsInjective(RemoveAt(q, i))
         /\ Range(RemoveAt(q, i)) = Range(q) \ {q[i]}
         /\ i # 1 => RemoveAt(q, i) # <<>> /\ Head(RemoveAt(q, i)) = Head(q)
<1> DEFINE p == RemoveAt(q, i)
           n == Len(q)
<1>1. /\ n \in Nat /\ i \in 1..n /\ DOMAIN q = 1..n
      /\ \A j \in 1..n : q[j] \in S
  OBVIOUS
<1>2. /\ p \in Seq(S) /\ Len(p) = n - 1
      /\ \A j \in 1..(n - 1) : p[j] = (IF j < i THEN q[j] ELSE q[j + 1])
  <2> DEFINE a == SubSeq(q, 1, i - 1)
             b == SubSeq(q, i + 1, n)
  <2>1. /\ a \in Seq(S) /\ Len(a) = i - 1
        /\ \A j \in 1..(i - 1) : a[j] = q[j]
    BY <1>1
  <2>2. /\ b \in Seq(S) /\ Len(b) = n - i
        /\ \A j \in 1..(n - i) : b[j] = q[i + j]
    <3>1. b \in Seq(S) /\ Len(b) = n - i
      BY <1>1, SubSeqProperties
    <3>2. ASSUME NEW j \in 1..(n - i) PROVE b[j] = q[i + j]
      <4>1. j \in 1..(n - (i + 1) + 1) /\ i + 1 + j - 1 = i + j
        BY <1>1
      <4> QED BY <1>1, <4>1, SubSeqProperties
    <3> QED BY <3>1, <3>2
  <2>3. p = a \o b
    BY DEF RemoveAt
  <2> HIDE DEF a, b, p
  <2>4. /\ p \in Seq(S) /\ Len(p) = Len(a) + Len(b)
        /\ \A j \in 1..(Len(a) + Len(b)) : p[j] = (IF j <= Len(a) THEN a[j] ELSE b[j - Len(a)])
    BY <2>1, <2>2, <2>3, ConcatProperties
  <2>5. ASSUME NEW j \in 1..(n - 1) PROVE p[j] = (IF j < i THEN q[j] ELSE q[j + 1])
    <3>1. CASE j < i
      BY <1>1, <2>1, <2>2, <2>4, <3>1
    <3>2. CASE ~(j < i)
      <4>1. j - (i - 1) \in 1..(n - i) /\ i + (j - (i - 1)) = j + 1
        BY <1>1, <3>2
      <4>2. j \in 1..(Len(a) + Len(b)) /\ ~(j <= Len(a)) /\ j - Len(a) = j - (i - 1)
        <5>1. Len(a) = i - 1 /\ Len(b) = n - i /\ n \in Nat /\ i \in 1..n /\ j \in 1..(n - 1)
          BY <1>1, <2>1, <2>2
        <5> QED BY <3>2, <5>1
      <4>3. p[j] = b[j - (i - 1)]
        BY <2>4, <4>2
      <4>4. b[j - (i - 1)] = q[i + (j - (i - 1))]
        BY <2>2, <4>1
      <4> QED BY <3>2, <4>1, <4>3, <4>4
    <3> QED BY <3>1, <3>2
  <2> QED BY <1>1, <2>1, <2>2, <2>4, <2>5
<1>3. DOMAIN p = 1..(n - 1)
  BY <1>2
<1> HIDE DEF p
<1>4. IsInjective(p)
  <2> SUFFICES ASSUME NEW a \in 1..(n - 1), NEW b \in 1..(n - 1), p[a] = p[b] PROVE a = b
    BY <1>3 DEF IsInjective
  <2> DEFINE up(j) == IF j < i THEN j ELSE j + 1
  <2>1. /\ up(a) \in 1..n /\ up(b) \in 1..n
        /\ p[a] = q[up(a)] /\ p[b] = q[up(b)]
    BY <1>1, <1>2
  <2>2. up(a) = up(b)
    BY <1>1, <2>1 DEF IsInjective
  <2> QED BY <1>1, <2>2
<1>5. Range(p) = Range(q) \ {q[i]}
  <2>1. ASSUME NEW j \in 1..(n - 1) PROVE p[j] \in Range(q) /\ p[j] # q[i]
    <3>1. CASE j < i
      BY <1>1, <1>2, <2>1, <3>1 DEF IsInjective, Range
    <3>2. CASE ~(j < i)
      <4>1. j + 1 \in 1..n /\ j + 1 # i /\ p[j] = q[j + 1]
        BY <1>1, <1>2, <3>2
      <4> QED BY <1>1, <4>1 DEF IsInjective, Range
    <3> QED BY <3>1, <3>2
  <2>2. ASSUME NEW j \in 1..n, j # i PROVE \E m \in 1..(n - 1) : p[m] = q[j]
    <3>1. CASE j < i
      <4>1. j \in 1..(n - 1) /\ p[j] = q[j]
        BY <1>1, <1>2, <3>1
      <4> QED BY <4>1
    <3>2. CASE j > i
      <4>1. j - 1 \in 1..(n - 1) /\ ~(j - 1 < i) /\ j - 1 + 1 = j
        BY <1>1, <3>2
      <4>2. p[j - 1] = q[j - 1 + 1]
        BY <1>2, <4>1
      <4> QED BY <4>1, <4>2
    <3> QED BY <1>1, <2>2, <3>1, <3>2
  <2>3. \A x \in Range(p) : x \in Range(q) \ {q[i]}
    BY <1>3, <2>1 DEF Range
  <2>4. \A x \in Range(q) \ {q[i]} : x \in Range(p)
    BY <1>1, <1>3, <2>2 DEF Range
  <2> QED BY <2>3, <2>4
<1>6. i # 1 => p # <<>> /\ Head(p) = Head(q)
  <2> SUFFICES ASSUME i # 1 PROVE p # <<>> /\ Head(p) = Head(q)
    OBVIOUS
  <2>1. 1 \in 1..(n - 1) /\ 1 < i
    BY <1>1
  <2>2. p[1] = q[1]
    BY <1>2, <2>1
  <2> QED BY <1>1, <1>2, <2>1, <2>2
<1> QED BY <1>2, <1>4, <1>5, <1>6 DEF p

(* It gains just the element that is appended, behind its head. *)
LEMMA OneMore ==
  ASSUME NEW S, NEW q \in Seq(S), NEW x \in S, IsInjective(q), x \notin Range(q)
  PROVE  /\ IsInjective(Append(q, x))
         /\ Range(Append(q, x)) = Range(q) \union {x}
         /\ q # <<>> => Head(Append(q, x)) = Head(q)
         /\ Append(q, x) # <<>>
         /\ q = <<>> => Head(Append(q, x)) = x
<1> DEFINE p == Append(q, x)
           n == Len(q)
<1>1. /\ n \in Nat /\ DOMAIN q = 1..n /\ DOMAIN p = 1..(n + 1) /\ p \in Seq(S)
      /\ \A j \in 1..n : p[j] = q[j]
      /\ p[n + 1] = x
  OBVIOUS
<1>2. \A j \in 1..n : p[j] # x
  BY <1>1 DEF Range
<1> HIDE DEF p
<1>3. IsInjective(p)
  BY <1>1, <1>2 DEF IsInjective
<1>4. Range(p) = Range(q) \union {x}
  <2>1. \A y \in Range(p) : y \in Range(q) \union {x}
    BY <1>1 DEF Range
  <2>2. \A y \in Range(q) : y \in Range(p)
    BY <1>1 DEF Range
  <2>3. n + 1 \in DOMAIN p
    BY <1>1
  <2> QED BY <1>1, <2>1, <2>2, <2>3 DEF Range
<1>5. /\ q # <<>> => Head(p) = Head(q)
      /\ p # <<>>
      /\ q = <<>> => Head(p) = x
  BY DEF p
<1> QED BY <1>3, <1>4, <1>5 DEF p

(* Where a request stands in a lock. *)
Connecting == {"queued", "handshake"}

(* A step of one request leaves the others where they are. *)
Moves(r) ==
  \A x \in Requests \ {r} :
    pc'[x] = pc[x] /\ op'[x] = op[x] /\ victim'[x] = victim[x] /\ held'[x] = held[x]

(* Who connects holds the lock. *)
HeadConnects == \A r \in Requests : pc[r] = "handshake" => AtHead(r)

(* A request that finds no client goes to the end of the queue, and        *)
(* connects at once only if nobody is in it.                               *)
LEMMA JoinKeeps ==
  ASSUME ClientTypes, LockTasks, HeadConnects, NEW r \in Requests, Moves(r),
         NEW k \in Caches, lockq' = [lockq EXCEPT ![k] = Append(@, r)],
         pc[r] \notin Connecting, pc'[r] \in Connecting, CacheOf(r)' = k,
         pc'[r] = "handshake" => lockq[k] = <<>>
  PROVE  LockTasks' /\ HeadConnects'
<1>1. lockq[k] \in Seq(Requests) /\ IsInjective(lockq[k]) /\ r \notin Range(lockq[k])
  BY DEF ClientTypes, LockTasks, Connecting
<1>2. lockq'[k] = Append(lockq[k], r) /\ \A l \in Caches \ {k} : lockq'[l] = lockq[l]
  BY DEF ClientTypes
<1>3. /\ IsInjective(lockq'[k])
      /\ Range(lockq'[k]) = Range(lockq[k]) \union {r}
      /\ lockq[k] # <<>> => Head(lockq'[k]) = Head(lockq[k])
      /\ lockq'[k] # <<>>
      /\ lockq[k] = <<>> => Head(lockq'[k]) = r
  BY <1>1, <1>2, OneMore
<1>4. \A x \in Requests \ {r} : CacheOf(x)' = CacheOf(x) /\ pc'[x] = pc[x]
  BY DEF Moves, CacheOf
<1>5. LockTasks'
  <2> SUFFICES ASSUME NEW l \in Caches
               PROVE  /\ IsInjective(lockq'[l])
                      /\ Range(lockq'[l]) =
                           {x \in Requests : CacheOf(x)' = l /\ pc'[x] \in Connecting}
    BY DEF LockTasks, Connecting
  <2>1. /\ IsInjective(lockq[l])
        /\ Range(lockq[l]) = {x \in Requests : CacheOf(x) = l /\ pc[x] \in Connecting}
    BY DEF LockTasks, Connecting
  <2>2. CASE l = k
    BY <1>3, <1>4, <2>1, <2>2
  <2>3. CASE l # k
    BY <1>2, <1>4, <2>1, <2>3
  <2> QED BY <2>2, <2>3
<1>6. HeadConnects'
  <2> SUFFICES ASSUME NEW x \in Requests, pc'[x] = "handshake"
               PROVE  lockq'[CacheOf(x)'] # <<>> /\ Head(lockq'[CacheOf(x)']) = x
    BY DEF HeadConnects, AtHead
  <2>1. CASE x = r
    BY <1>3, <2>1
  <2>2. CASE x # r
    <3>1. lockq[CacheOf(x)] # <<>> /\ Head(lockq[CacheOf(x)]) = x /\ CacheOf(x)' = CacheOf(x)
      BY <1>4, <2>2 DEF HeadConnects, AtHead
    <3>2. CacheOf(x) \in Caches
      BY DEF CacheOf, Caches
    <3> QED BY <1>2, <1>3, <3>1, <3>2
  <2> QED BY <2>1, <2>2
<1> QED BY <1>5, <1>6

(* A holder lets the next one be the head, a waiter that gives up lets the *)
(* head be.                                                                *)
LEMMA LeaveKeeps ==
  ASSUME ClientTypes, LockTasks, HeadConnects, NEW r \in Requests, Moves(r),
         Unlock(r), pc'[r] \notin Connecting
  PROVE  LockTasks' /\ HeadConnects'
<1> DEFINE k == CacheOf(r)
           q == lockq[CacheOf(r)]
<1>1. k \in Caches
  BY DEF CacheOf, Caches
<1>2. q \in Seq(Requests) /\ IsInjective(q)
  BY <1>1 DEF ClientTypes, LockTasks
<1>3. PICK i \in DOMAIN q : q[i] = r /\ lockq' = [lockq EXCEPT ![k] = RemoveAt(q, i)]
  BY DEF Unlock
<1>4. lockq'[k] = RemoveAt(q, i) /\ \A l \in Caches \ {k} : lockq'[l] = lockq[l]
  BY <1>1, <1>3 DEF ClientTypes
<1>5. /\ IsInjective(lockq'[k])
      /\ Range(lockq'[k]) = Range(q) \ {r}
      /\ i # 1 => lockq'[k] # <<>> /\ Head(lockq'[k]) = Head(q)
  BY <1>2, <1>3, <1>4, OneLess
<1>6. \A x \in Requests \ {r} : CacheOf(x)' = CacheOf(x) /\ pc'[x] = pc[x]
  BY DEF Moves, CacheOf
<1>7. LockTasks'
  <2> SUFFICES ASSUME NEW l \in Caches
               PROVE  /\ IsInjective(lockq'[l])
                      /\ Range(lockq'[l]) =
                           {x \in Requests : CacheOf(x)' = l /\ pc'[x] \in Connecting}
    BY DEF LockTasks, Connecting
  <2>1. /\ IsInjective(lockq[l])
        /\ Range(lockq[l]) = {x \in Requests : CacheOf(x) = l /\ pc[x] \in Connecting}
    BY DEF LockTasks, Connecting
  <2>2. CASE l = k
    BY <1>5, <1>6, <2>1, <2>2
  <2>3. CASE l # k
    BY <1>4, <1>6, <2>1, <2>3
  <2> QED BY <2>2, <2>3
<1>8. HeadConnects'
  <2> SUFFICES ASSUME NEW x \in Requests, pc'[x] = "handshake"
               PROVE  lockq'[CacheOf(x)'] # <<>> /\ Head(lockq'[CacheOf(x)']) = x
    BY DEF HeadConnects, AtHead
  <2>1. x # r /\ CacheOf(x)' = CacheOf(x) /\ pc[x] = "handshake"
    BY <1>6 DEF Connecting
  <2>2. lockq[CacheOf(x)] # <<>> /\ Head(lockq[CacheOf(x)]) = x /\ CacheOf(x) \in Caches
    BY <2>1 DEF HeadConnects, AtHead, CacheOf, Caches
  <2>3. CASE CacheOf(x) # k
    BY <1>4, <2>1, <2>2, <2>3
  <2>4. CASE CacheOf(x) = k
    <3>1. i # 1
      BY <1>2, <1>3, <2>1, <2>2, <2>4
    <3> QED BY <1>5, <2>1, <2>2, <2>4, <3>1
  <2> QED BY <2>3, <2>4
<1> QED BY <1>7, <1>8

(* Whoever begins to connect while the queues stay was at the head. *)
LEMMA StayKeeps ==
  ASSUME LockTasks, HeadConnects, UNCHANGED lockq,
         \A x \in Requests : pc'[x] \in Connecting <=> pc[x] \in Connecting,
         \A x \in Requests : pc[x] \in Connecting => CacheOf(x)' = CacheOf(x),
         \A x \in Requests : pc'[x] = "handshake" => pc[x] = "handshake" \/ AtHead(x)
  PROVE  LockTasks' /\ HeadConnects'
<1>1. LockTasks'
  <2> SUFFICES ASSUME NEW l \in Caches
               PROVE  /\ IsInjective(lockq'[l])
                      /\ Range(lockq'[l]) =
                           {x \in Requests : CacheOf(x)' = l /\ pc'[x] \in Connecting}
    BY DEF LockTasks, Connecting
  <2>1. /\ IsInjective(lockq[l])
        /\ Range(lockq[l]) = {x \in Requests : CacheOf(x) = l /\ pc[x] \in Connecting}
    BY DEF LockTasks, Connecting
  <2> QED BY <2>1
<1>2. HeadConnects'
  <2> SUFFICES ASSUME NEW x \in Requests, pc'[x] = "handshake"
               PROVE  lockq'[CacheOf(x)'] # <<>> /\ Head(lockq'[CacheOf(x)']) = x
    BY DEF HeadConnects, AtHead
  <2>1. AtHead(x) /\ CacheOf(x)' = CacheOf(x)
    BY DEF HeadConnects, Connecting
  <2> QED BY <2>1 DEF AtHead
<1> QED BY <1>1, <1>2

(* What a request may be while it is at each place, and where it may still *)
(* have a client to close.                                                 *)
StageOf(r) ==
  /\ pc[r] = "idle" => op[r] = "none"
  /\ pc[r] \in Connecting => op[r] \in {"page", "relogin", "browse", "run"}
  /\ pc[r] = "relogging" => op[r] = "relogin"
  /\ pc[r] \in {"probing", "swapping"} => op[r] = "probe"
  /\ victim[r] # 0 => pc[r] \in {"clearing", "reclearing", "relogging", "swapping"}

Stages == \A r \in Requests : StageOf(r)

(* The locks, with what their tasks are. *)
LockInv == Stages /\ LockTasks /\ HeadConnects

(* Any step of a request. *)
Step(r) == Arrive(r) \/ Advance(r) \/ EndRead(r) \/ Relogin(r) \/ RunCancelled(r)

(* What a getter does to its request and its queue. *)
LEMMA LookupMoves ==
  ASSUME ClientTypes, NEW r \in Requests, NEW k \in Caches, NEW refused, Lookup(r, k, refused)
  PROVE  /\ \A x \in Requests \ {r} : pc'[x] = pc[x] /\ held'[x] = held[x]
         /\ pc'[r] \in {"ended", "using", "queued", "handshake"}
         /\ pc'[r] \in Connecting =>
              /\ lockq' = [lockq EXCEPT ![k] = Append(@, r)]
              /\ cached[k] = 0 /\ ~refused
         /\ pc'[r] \notin Connecting => UNCHANGED lockq
         /\ pc'[r] = "handshake" => lockq[k] = <<>>
<1>1. pc' \in [Requests -> Pcs] /\ held \in [Requests -> Clients \union {0}]
      /\ pc \in [Requests -> Pcs]
  BY DEF Lookup, Goto, ClientTypes, Pcs
<1>2. /\ \A x \in Requests \ {r} : pc'[x] = pc[x] /\ held'[x] = held[x]
      /\ pc'[r] \in {"ended", "using", "queued", "handshake"}
  BY <1>1 DEF Lookup, Goto, Construct
<1>3. CASE pc'[r] \in Connecting
  BY <1>1, <1>2, <1>3 DEF Lookup, Goto, Connecting
<1>4. CASE pc'[r] \notin Connecting
  BY <1>1, <1>2, <1>4 DEF Lookup, Goto, Connecting
<1> QED BY <1>2, <1>3, <1>4 DEF Connecting

LEMMA FailMoves ==
  ASSUME ClientTypes, NEW r \in Requests, NEW before \in BOOLEAN, FailRequest(r, before)
  PROVE  /\ \A x \in Requests \ {r} : pc'[x] = pc[x] /\ victim'[x] = victim[x]
         /\ pc'[r] \in {"clearing", "ended"}
         /\ pc'[r] = "ended" => victim'[r] \in {0, victim[r]}
BY DEF FailRequest, PopAndClose, Goto, ClientTypes

LEMMA StepMovesOne ==
  ASSUME ClientTypes, NEW r \in Requests, Step(r) PROVE Moves(r)
<1>1. backoff \in BOOLEAN /\ "api" \in Caches /\ "state" \in Caches
  BY DEF ClientTypes, Caches
<1>2. ASSUME NEW o \in {"page", "browse", "run"}, Get(r, o) PROVE Moves(r)
  <2>1. PICK k \in Caches : \E refused \in BOOLEAN : Lookup(r, k, refused)
    BY <1>1, <1>2 DEF Get
  <2>2. PICK refused \in BOOLEAN : Lookup(r, k, refused)
    BY <2>1
  <2>3. \A x \in Requests \ {r} : pc'[x] = pc[x] /\ held'[x] = held[x]
    BY <2>2, LookupMoves, Zenon
  <2> QED BY <1>2, <2>3 DEF Get, Moves, ClientTypes
<1>3. CASE EditServer(r) \/ RemoveServer(r)
  BY <1>3 DEF EditServer, RemoveServer, Save, PopAndClose, Goto, Moves, ClientTypes
<1>4. CASE AddServer(r) \/ Probe(r)
  BY <1>4 DEF AddServer, Probe, Construct, Goto, Moves, ClientTypes
<1>5. CASE Locked(r)
  BY <1>5 DEF Locked, Construct, Goto, Moves, ClientTypes
<1>6. CASE \/ Connected(r) \/ Served(r) \/ StartRead(r) \/ EndRead(r)
           \/ ProbeFailed(r) \/ Promote(r) \/ RunCancelled(r)
  BY <1>6 DEF Connected, Served, StartRead, EndRead, ProbeFailed, Promote, RunCancelled, Goto, Moves, ClientTypes
<1>7. CASE ConnectFailed(r) \/ UseFailed(r)
  <2>1. PICK before \in BOOLEAN : FailRequest(r, before)
    BY <1>1, <1>7 DEF ConnectFailed, UseFailed
  <2>2. \A x \in Requests \ {r} : pc'[x] = pc[x] /\ victim'[x] = victim[x]
    BY <2>1, FailMoves
  <2> QED BY <1>7, <2>2 DEF ConnectFailed, UseFailed, Moves
<1>8. CASE CloseVictim(r) \/ ClearAgain(r) \/ ProbeSucceeded(r)
  BY <1>8 DEF CloseVictim, ClearAgain, ProbeSucceeded, PopAndClose, Goto, Moves, ClientTypes
<1>9. CASE ReloginGet(r)
  <2>1. Lookup(r, "api", FALSE) /\ UNCHANGED <<op, victim>>
    BY <1>9 DEF ReloginGet
  <2>2. \A x \in Requests \ {r} : pc'[x] = pc[x] /\ held'[x] = held[x]
    BY <1>1, <2>1, LookupMoves
  <2> QED BY <2>1, <2>2 DEF Moves
<1>10. CASE Relogin(r)
  <2>1. op' = [op EXCEPT ![r] = "relogin"]
    BY <1>10 DEF Relogin
  <2>2. CASE cached["api"] # 0
    BY <1>10, <2>1, <2>2 DEF Relogin, PopAndClose, Goto, Moves, ClientTypes
  <2>3. CASE cached["api"] = 0
    <3>1. Lookup(r, "api", FALSE) /\ UNCHANGED victim
      BY <1>10, <2>3 DEF Relogin
    <3>2. \A x \in Requests \ {r} : pc'[x] = pc[x] /\ held'[x] = held[x]
      BY <1>1, <3>1, LookupMoves
    <3> QED BY <2>1, <3>1, <3>2 DEF Moves, ClientTypes
  <2> QED BY <2>2, <2>3
<1> QED BY <1>2, <1>3, <1>4, <1>5, <1>6, <1>7, <1>8, <1>9, <1>10 DEF Step, Arrive, Advance

(* How a step of a request enters, leaves or keeps a lock. *)
Joins(r) ==
  LET k == CacheOf(r)' IN
  /\ pc[r] \notin Connecting /\ pc'[r] \in Connecting
  /\ lockq' = [lockq EXCEPT ![k] = Append(@, r)]
  /\ pc'[r] = "handshake" => lockq[k] = <<>>
  /\ cached[k] = 0 /\ UNCHANGED cached

Leaves(r) == Unlock(r) /\ pc[r] \in Connecting /\ pc'[r] \notin Connecting

Stays(r) ==
  /\ UNCHANGED lockq
  /\ pc'[r] \in Connecting <=> pc[r] \in Connecting
  /\ pc[r] \in Connecting => op'[r] = op[r]
  /\ pc'[r] = "handshake" => /\ pc[r] = "queued" /\ AtHead(r)
                              /\ cached[CacheOf(r)] = 0 /\ UNCHANGED cached

LEMMA LookupSteps ==
  ASSUME ClientTypes, NEW r \in Requests, NEW k \in Caches, NEW refused, Lookup(r, k, refused),
         pc[r] \notin Connecting, CacheOf(r)' = k, op'[r] \in {"page", "relogin", "browse", "run"},
         victim'[r] = 0, UNCHANGED cached
  PROVE  StageOf(r)' /\ (Joins(r) \/ Stays(r))
<1>1. /\ pc'[r] \in {"ended", "using", "queued", "handshake"}
      /\ pc'[r] \in Connecting =>
           lockq' = [lockq EXCEPT ![k] = Append(@, r)] /\ cached[k] = 0
      /\ pc'[r] \notin Connecting => UNCHANGED lockq
      /\ pc'[r] = "handshake" => lockq[k] = <<>>
  BY LookupMoves, Zenon
<1>2. StageOf(r)'
  BY <1>1 DEF StageOf
<1>3. CASE pc'[r] \in Connecting
  BY <1>1, <1>2, <1>3 DEF Joins
<1>4. CASE pc'[r] \notin Connecting
  BY <1>1, <1>2, <1>4 DEF Stays, Connecting
<1> QED BY <1>2, <1>3, <1>4

(* Each step leads to a stage that fits and enters, leaves or keeps the    *)
(* lock.                                                                   *)
LEMMA StepStages ==
  ASSUME ClientTypes, NEW r \in Requests, StageOf(r), Step(r)
  PROVE  StageOf(r)' /\ (Joins(r) \/ Leaves(r) \/ Stays(r))
<1> USE DEF Connecting
<1>1. /\ backoff \in BOOLEAN /\ "api" \in Caches /\ "state" \in Caches
      /\ pc \in [Requests -> Pcs] /\ op \in [Requests -> Ops]
      /\ victim \in [Requests -> Clients \union {0}]
  BY DEF ClientTypes, Caches
<1>2. ASSUME NEW o \in {"page", "browse", "run"}, Get(r, o)
      PROVE  StageOf(r)' /\ (Joins(r) \/ Stays(r))
  <2>1. /\ pc[r] \notin Connecting /\ op'[r] = o /\ victim'[r] = 0 /\ UNCHANGED cached
    BY <1>1, <1>2 DEF Get, StageOf
  <2>2. CASE o = "run"
    BY <1>1, <1>2, <2>1, <2>2, LookupSteps DEF Get, CacheOf
  <2>3. CASE o # "run"
    BY <1>1, <1>2, <2>1, <2>3, LookupSteps DEF Get, CacheOf
  <2> QED BY <2>2, <2>3
<1>3. CASE EditServer(r) \/ RemoveServer(r)
  BY <1>1, <1>3 DEF EditServer, RemoveServer, Save, PopAndClose, Goto, StageOf, Stays
<1>4. CASE AddServer(r) \/ Probe(r)
  BY <1>1, <1>4 DEF AddServer, Probe, Goto, StageOf, Stays, cacheVars
<1>5. CASE Locked(r)
  <2>1. /\ pc[r] = "queued" /\ AtHead(r) /\ UNCHANGED <<op, victim, cached>>
        /\ \/ Unlock(r) /\ pc'[r] \in {"using", "ended"}
           \/ pc'[r] = "handshake" /\ UNCHANGED lockq /\ cached[CacheOf(r)] = 0
    BY <1>1, <1>5 DEF Locked, Goto
  <2> QED BY <2>1 DEF StageOf, Leaves, Stays
<1>6. CASE Connected(r) \/ RunCancelled(r)
  <2>1. /\ pc[r] \in Connecting /\ UNCHANGED <<op, victim>>
        /\ Unlock(r) /\ pc'[r] \in {"using", "ended"}
    BY <1>1, <1>6 DEF Connected, RunCancelled, Goto
  <2> QED BY <2>1 DEF StageOf, Leaves
<1>7. CASE Served(r) \/ StartRead(r) \/ EndRead(r) \/ ProbeFailed(r) \/ Promote(r)
  BY <1>1, <1>7 DEF Served, StartRead, EndRead, ProbeFailed, Promote, Goto, StageOf, Stays,
     cacheVars
<1>8. CASE ConnectFailed(r) \/ UseFailed(r)
  <2>1. PICK before \in BOOLEAN : FailRequest(r, before)
    BY <1>1, <1>8 DEF ConnectFailed, UseFailed
  <2>2. /\ pc'[r] \in {"clearing", "ended"}
        /\ pc'[r] = "ended" => victim'[r] \in {0, victim[r]}
    BY <2>1, FailMoves
  <2>3. pc[r] \in {"handshake", "using"} /\ UNCHANGED op
    BY <1>8 DEF ConnectFailed, UseFailed
  <2>4. StageOf(r)'
    BY <2>2, <2>3 DEF StageOf
  <2>5. CASE ConnectFailed(r)
    BY <2>2, <2>4, <2>5 DEF ConnectFailed, Leaves
  <2>6. CASE UseFailed(r)
    BY <2>2, <2>4, <2>6 DEF UseFailed, Stays
  <2> QED BY <1>8, <2>4, <2>5, <2>6
<1>9. CASE CloseVictim(r)
  <2>1. /\ victim[r] # 0 /\ victim'[r] = 0
        /\ pc'[r] \in {pc[r], "ended"} /\ UNCHANGED <<op, lockq>>
    BY <1>1, <1>9 DEF CloseVictim, Goto, cacheVars
  <2> QED BY <2>1 DEF StageOf, Stays
<1>10. CASE ClearAgain(r) \/ ProbeSucceeded(r)
  BY <1>1, <1>10 DEF ClearAgain, ProbeSucceeded, PopAndClose, Goto, StageOf, Stays
<1>11. CASE ReloginGet(r)
  <2>1. /\ Lookup(r, "api", FALSE) /\ UNCHANGED <<op, victim, cached>>
        /\ pc[r] = "relogging" /\ victim[r] = 0
    BY <1>11 DEF ReloginGet
  <2>2. op'[r] = "relogin" /\ victim'[r] = 0 /\ CacheOf(r)' = "api"
    BY <2>1 DEF StageOf, CacheOf
  <2> QED BY <1>1, <2>1, <2>2, LookupSteps
<1>12. CASE Relogin(r)
  <2>1. op'[r] = "relogin" /\ CacheOf(r)' = "api" /\ pc[r] = "using" /\ victim[r] = 0
    BY <1>1, <1>12 DEF Relogin, CacheOf, StageOf
  <2>2. CASE cached["api"] # 0
    <3>1. PopAndClose(r, "relogging", "relogging") /\ UNCHANGED lockq
      BY <1>12, <2>2 DEF Relogin
    <3> QED BY <1>1, <2>1, <3>1 DEF PopAndClose, Goto, StageOf, Stays
  <2>3. CASE cached["api"] = 0
    <3>1. Lookup(r, "api", FALSE) /\ UNCHANGED <<victim, cached>>
      BY <1>12, <2>3 DEF Relogin
    <3> QED BY <1>1, <2>1, <3>1, LookupSteps
  <2> QED BY <2>2, <2>3
<1> QED BY <1>2, <1>3, <1>4, <1>5, <1>6, <1>7, <1>8, <1>9, <1>10, <1>11, <1>12
        DEF Step, Arrive, Advance

LEMMA LockStep ==
  ASSUME ClientTypes, LockInv, NEW r \in Requests, Step(r) PROVE LockInv'
<1>1. Moves(r)
  BY StepMovesOne
<1>2. StageOf(r)
  BY DEF LockInv, Stages, StageOf
<1>3. StageOf(r)' /\ (Joins(r) \/ Leaves(r) \/ Stays(r))
  BY <1>2, StepStages
<1>4. Stages'
  BY <1>1, <1>3 DEF LockInv, Stages, StageOf, Moves
<1>5. LockTasks /\ HeadConnects
  BY DEF LockInv
<1>6. CASE Joins(r)
  <2>1. CacheOf(r)' \in Caches
    BY DEF CacheOf, Caches
  <2>2. PICK k \in Caches : CacheOf(r)' = k
    BY <2>1
  <2>3. /\ pc[r] \notin Connecting /\ pc'[r] \in Connecting
        /\ lockq' = [lockq EXCEPT ![k] = Append(@, r)]
        /\ pc'[r] = "handshake" => lockq[k] = <<>>
    BY <1>6, <2>2 DEF Joins
  <2>4. LockTasks' /\ HeadConnects'
    BY <1>1, <1>5, <2>2, <2>3, JoinKeeps
  <2> QED BY <1>4, <2>4 DEF LockInv
<1>7. CASE Leaves(r)
  <2>1. LockTasks' /\ HeadConnects'
    BY <1>1, <1>5, <1>7, LeaveKeeps DEF Leaves
  <2> QED BY <1>4, <2>1 DEF LockInv
<1>8. CASE Stays(r)
  <2>1. /\ UNCHANGED lockq
        /\ \A x \in Requests : pc'[x] \in Connecting <=> pc[x] \in Connecting
        /\ \A x \in Requests : pc[x] \in Connecting => CacheOf(x)' = CacheOf(x)
        /\ \A x \in Requests : pc'[x] = "handshake" => pc[x] = "handshake" \/ AtHead(x)
    BY <1>1, <1>8 DEF Stays, Moves, CacheOf
  <2>2. LockTasks' /\ HeadConnects'
    BY <1>5, <2>1, StayKeeps
  <2> QED BY <1>4, <2>2 DEF LockInv
<1> QED BY <1>3, <1>6, <1>7, <1>8

(* A client in a cache, being closed, or of a cancelled test run. *)
Reachable(c) ==
  \/ \E k \in Caches : cached[k] = c
  \/ \E r \in Requests : victim[r] = c
  \/ \E r \in Requests : op[r] = "run" /\ pc[r] = "ended" /\ held[r] = c

(* No connection test has been asked for. *)
NoProbe == \A r \in Requests : op[r] # "probe"

(* Without one every open client can be reached, and whoever connects does *)
(* so for an empty entry, which its client will not overwrite.             *)
LeakInv ==
  NoProbe =>
    /\ \A c \in Clients : conn[c] = "open" => Reachable(c)
    /\ \A r \in Requests : pc[r] = "handshake" => cached[CacheOf(r)] = 0

LEMMA ProbesStay ==
  ASSUME ClientTypes, LockInv, NEW r \in Requests, Step(r), NoProbe' PROVE NoProbe
<1>1. Moves(r)
  BY StepMovesOne
<1>2. StageOf(r) /\ op \in [Requests -> Ops]
  BY DEF LockInv, Stages, StageOf, ClientTypes
<1>3. op[r] = "probe" => op'[r] = op[r]
  <2>1. CASE Arrive(r)
    <3>1. pc[r] = "idle"
      BY <2>1 DEF Arrive, Get, EditServer, RemoveServer, Save, AddServer, Probe
    <3> QED BY <1>2, <3>1 DEF StageOf
  <2>2. CASE Advance(r)
    BY <2>2 DEF Advance, Locked, Connected, ConnectFailed, Served, UseFailed, StartRead,
       ReloginGet, CloseVictim, ClearAgain, ProbeSucceeded, Promote, ProbeFailed
  <2>3. CASE EndRead(r) \/ Relogin(r)
    BY <2>3 DEF EndRead, Relogin
  <2>4. CASE RunCancelled(r)
    BY <2>4 DEF RunCancelled
  <2> QED BY <2>1, <2>2, <2>3, <2>4 DEF Step
<1> QED BY <1>1, <1>3 DEF NoProbe, Moves

(* What a step that is no connection test does to the clients. *)
Effects(r) ==
  /\ \A c \in Clients : conn'[c] = "open" =>
       conn[c] = "open" \/ (c = held[r] /\ (Connected(r) \/ RunCancelled(r)))
  /\ \A k \in Caches : cached'[k] # cached[k] =>
       \/ cached'[k] = 0 /\ victim'[r] = cached[k]
       \/ k = CacheOf(r) /\ Connected(r)
  /\ victim[r] # 0 => victim'[r] = victim[r] \/ conn'[victim[r]] = "closed"

LEMMA FailEffects ==
  ASSUME ClientTypes, NEW r \in Requests, NEW before \in BOOLEAN, FailRequest(r, before)
  PROVE  \A k \in Caches : cached'[k] # cached[k] => cached'[k] = 0 /\ victim'[r] = cached[k]
BY DEF FailRequest, PopAndClose, ClientTypes

LEMMA QuietEffects ==
  ASSUME NEW r \in Requests, UNCHANGED cached,
         \A c \in Clients : conn'[c] = "open" => conn[c] = "open",
         victim[r] # 0 => victim'[r] = victim[r]
  PROVE  Effects(r)
BY DEF Effects

LEMMA LookupOpensNothing ==
  ASSUME ClientTypes, NEW r \in Requests, NEW k \in Caches, NEW refused, Lookup(r, k, refused)
  PROVE  \A c \in Clients : conn'[c] = "open" => conn[c] = "open"
BY DEF Lookup, Construct, clientVars, ClientTypes

LEMMA StepEffects ==
  ASSUME ClientTypes, NEW r \in Requests, StageOf(r), Step(r), op[r] # "probe", op'[r] # "probe"
  PROVE  Effects(r)
<1>1. /\ backoff \in BOOLEAN /\ "api" \in Caches /\ "state" \in Caches
      /\ op \in [Requests -> Ops] /\ pc \in [Requests -> Pcs]
      /\ victim \in [Requests -> Clients \union {0}]
      /\ cached \in [Caches -> Clients \union {0}]
      /\ conn \in [Clients -> {"none", "opening", "open", "closed"}]
  BY DEF ClientTypes, Caches
<1>2. ASSUME NEW o \in {"page", "browse", "run"}, Get(r, o) PROVE Effects(r)
  <2>1. PICK k \in Caches : \E refused \in BOOLEAN : Lookup(r, k, refused)
    BY <1>1, <1>2 DEF Get
  <2>2. PICK refused \in BOOLEAN : Lookup(r, k, refused)
    BY <2>1
  <2>3. \A c \in Clients : conn'[c] = "open" => conn[c] = "open"
    BY <2>2, LookupOpensNothing, Zenon
  <2> QED BY <1>2, <2>3, QuietEffects DEF Get
<1>3. CASE EditServer(r) \/ RemoveServer(r)
  <2>1. /\ pc[r] = "idle" /\ PopAndClose(r, "clearing", "ended") /\ UNCHANGED conn
    BY <1>3 DEF EditServer, RemoveServer, Save, clientVars
  <2> QED BY <1>1, <2>1 DEF PopAndClose, Effects, StageOf
<1>4. CASE AddServer(r) \/ Served(r) \/ StartRead(r) \/ EndRead(r)
  <2>1. UNCHANGED <<conn, cached, victim>>
    BY <1>4 DEF AddServer, Served, StartRead, EndRead, clientVars, cacheVars
  <2> QED BY <2>1, QuietEffects
<1>5. CASE Probe(r) \/ ProbeSucceeded(r) \/ ProbeFailed(r) \/ Promote(r)
  BY <1>1, <1>5 DEF Probe, ProbeSucceeded, ProbeFailed, Promote, StageOf
<1>6. CASE Locked(r)
  <2>1. /\ \A c \in Clients : conn'[c] = "open" => conn[c] = "open"
        /\ UNCHANGED <<cached, victim>>
    BY <1>1, <1>6 DEF Locked, Construct, clientVars
  <2> QED BY <2>1, QuietEffects
<1>7. CASE Connected(r)
  <2>1. /\ conn' = [conn EXCEPT ![held[r]] = "open"]
        /\ cached' = [cached EXCEPT ![CacheOf(r)] = held[r]]
        /\ UNCHANGED victim
    BY <1>7 DEF Connected
  <2> QED BY <1>1, <1>7, <2>1 DEF Effects
<1>8. CASE RunCancelled(r)
  <2>1. /\ \A c \in Clients : conn'[c] = "open" => conn[c] = "open" \/ c = held[r]
        /\ UNCHANGED <<cached, victim>>
    BY <1>1, <1>8 DEF RunCancelled
  <2> QED BY <1>8, <2>1 DEF Effects
<1>9. CASE ConnectFailed(r) \/ UseFailed(r)
  <2>1. PICK before \in BOOLEAN : FailRequest(r, before)
    BY <1>1, <1>9 DEF ConnectFailed, UseFailed
  <2>2. \A k \in Caches : cached'[k] # cached[k] => cached'[k] = 0 /\ victim'[r] = cached[k]
    BY <2>1, FailEffects
  <2>3. /\ \A c \in Clients : conn'[c] = "open" => conn[c] = "open"
        /\ victim[r] = 0
    BY <1>1, <1>9 DEF ConnectFailed, UseFailed, StageOf, clientVars
  <2> QED BY <2>2, <2>3 DEF Effects
<1>10. CASE CloseVictim(r)
  <2>1. conn' = [conn EXCEPT ![victim[r]] = "closed"] /\ UNCHANGED cached
    BY <1>10 DEF CloseVictim, cacheVars
  <2> QED BY <1>1, <2>1 DEF Effects
<1>11. CASE ClearAgain(r)
  <2>1. victim[r] = 0 /\ PopAndClose(r, "reclearing", "ended") /\ UNCHANGED conn
    BY <1>11 DEF ClearAgain, clientVars
  <2> QED BY <1>1, <2>1 DEF PopAndClose, Effects
<1>12. CASE ReloginGet(r)
  <2>1. Lookup(r, "api", FALSE) /\ UNCHANGED <<cached, victim>>
    BY <1>12 DEF ReloginGet
  <2>2. \A c \in Clients : conn'[c] = "open" => conn[c] = "open"
    BY <1>1, <2>1, LookupOpensNothing
  <2> QED BY <2>1, <2>2, QuietEffects
<1>13. CASE Relogin(r)
  <2>1. victim[r] = 0
    BY <1>13 DEF Relogin, StageOf
  <2>2. CASE cached["api"] # 0
    <3>1. PopAndClose(r, "relogging", "relogging") /\ UNCHANGED conn
      BY <1>13, <2>2 DEF Relogin, clientVars
    <3> QED BY <1>1, <2>1, <3>1 DEF PopAndClose, Effects
  <2>3. CASE cached["api"] = 0
    <3>1. Lookup(r, "api", FALSE) /\ UNCHANGED <<victim, cached>>
      BY <1>13, <2>3 DEF Relogin
    <3>2. \A c \in Clients : conn'[c] = "open" => conn[c] = "open"
      BY <1>1, <3>1, LookupOpensNothing
    <3> QED BY <3>1, <3>2, QuietEffects
  <2> QED BY <2>2, <2>3
<1> QED BY <1>2, <1>3, <1>4, <1>5, <1>6, <1>7, <1>8, <1>9, <1>10, <1>11, <1>12, <1>13
        DEF Step, Arrive, Advance

(* A request that ended stays as it is, so what a cancelled run left open  *)
(* is still known.                                                         *)
LEMMA EndedTakesNoStep ==
  ASSUME NEW r \in Requests, StageOf(r), Step(r) PROVE pc[r] # "ended"
<1>1. CASE Arrive(r)
  BY <1>1 DEF Arrive, Get, EditServer, RemoveServer, Save, AddServer, Probe
<1>2. CASE Advance(r)
  BY <1>2 DEF Advance, Locked, Connected, ConnectFailed, Served, UseFailed, StartRead,
     ReloginGet, CloseVictim, ClearAgain, ProbeSucceeded, Promote, ProbeFailed, StageOf
<1>3. CASE EndRead(r) \/ Relogin(r) \/ RunCancelled(r)
  BY <1>3 DEF EndRead, Relogin, RunCancelled
<1> QED BY <1>1, <1>2, <1>3 DEF Step

LEMMA LeakStep ==
  ASSUME CacheInv, LockInv, LeakInv, NEW r \in Requests, Step(r) PROVE LeakInv'
<1> SUFFICES ASSUME NoProbe'
             PROVE  /\ \A c \in Clients : conn'[c] = "open" => Reachable(c)'
                    /\ \A x \in Requests : pc'[x] = "handshake" => cached'[CacheOf(x)'] = 0
  BY DEF LeakInv
<1>1. ClientTypes
  BY DEF CacheInv
<1>2. NoProbe
  BY <1>1, ProbesStay
<1>3. /\ \A c \in Clients : conn[c] = "open" => Reachable(c)
      /\ \A x \in Requests : pc[x] = "handshake" => cached[CacheOf(x)] = 0
  BY <1>2 DEF LeakInv
<1>4. Moves(r)
  BY <1>1, StepMovesOne
<1>5. StageOf(r) /\ op[r] # "probe" /\ op'[r] # "probe"
  BY <1>2 DEF LockInv, Stages, StageOf, NoProbe
<1>6. Effects(r)
  BY <1>1, <1>5, StepEffects
<1>7. pc[r] # "ended"
  BY <1>5, EndedTakesNoStep
<1>8. \A c \in Clients : c # 0
  BY DEF Clients
<1>9. ASSUME NEW c \in Clients, conn'[c] = "open" PROVE Reachable(c)'
  <2>1. CASE c = held[r] /\ Connected(r)
    <3>1. CacheOf(r) \in Caches /\ cached'[CacheOf(r)] = c
      BY <1>1, <2>1 DEF Connected, CacheOf, Caches, ClientTypes
    <3> QED BY <3>1 DEF Reachable
  <2>2. CASE c = held[r] /\ RunCancelled(r)
    <3>1. op'[r] = "run" /\ pc'[r] = "ended" /\ held'[r] = c
      BY <1>1, <2>2 DEF RunCancelled, Goto, ClientTypes
    <3> QED BY <3>1 DEF Reachable
  <2>3. CASE conn[c] = "open"
    <3>1. CASE \E k \in Caches : cached[k] = c
      <4>1. PICK k \in Caches : cached[k] = c
        BY <3>1
      <4>2. CASE cached'[k] = c
        BY <4>2 DEF Reachable
      <4>3. CASE victim'[r] = c
        BY <4>3 DEF Reachable
      <4>4. CASE k = CacheOf(r) /\ Connected(r)
        <5>1. cached[k] = 0
          BY <1>3, <4>4 DEF Connected
        <5> QED BY <1>8, <4>1, <5>1
      <4> QED BY <1>6, <4>1, <4>2, <4>3, <4>4 DEF Effects
    <3>2. CASE \E x \in Requests : victim[x] = c
      <4>1. PICK x \in Requests : victim[x] = c
        BY <3>2
      <4>2. victim'[x] = c
        BY <1>4, <1>6, <1>8, <1>9, <4>1 DEF Moves, Effects
      <4> QED BY <4>2 DEF Reachable
    <3>3. CASE \E x \in Requests : op[x] = "run" /\ pc[x] = "ended" /\ held[x] = c
      <4>1. PICK x \in Requests : op[x] = "run" /\ pc[x] = "ended" /\ held[x] = c
        BY <3>3
      <4>2. op'[x] = "run" /\ pc'[x] = "ended" /\ held'[x] = c
        BY <1>4, <1>7, <4>1 DEF Moves
      <4> QED BY <4>2 DEF Reachable
    <3> QED BY <1>3, <2>3, <3>1, <3>2, <3>3 DEF Reachable
  <2> QED BY <1>6, <1>9, <2>1, <2>2, <2>3 DEF Effects
<1>10. ASSUME NEW x \in Requests, pc'[x] = "handshake" PROVE cached'[CacheOf(x)'] = 0
  <2>1. Joins(r) \/ Leaves(r) \/ Stays(r)
    BY <1>1, <1>5, StepStages
  <2>2. CASE pc[x] # "handshake"
    <3>1. x = r
      BY <1>4, <1>10, <2>2 DEF Moves
    <3>2. CASE Joins(r)
      BY <3>1, <3>2 DEF Joins
    <3>3. CASE Leaves(r)
      BY <1>10, <3>1, <3>3 DEF Leaves, Connecting
    <3>4. CASE Stays(r)
      <4>1. pc[r] = "queued" /\ op'[r] = op[r] /\ cached[CacheOf(r)] = 0 /\ UNCHANGED cached
        BY <1>10, <3>1, <3>4 DEF Stays, Connecting
      <4>2. CacheOf(r)' = CacheOf(r)
        BY <4>1 DEF CacheOf
      <4> QED BY <3>1, <4>1, <4>2
    <3> QED BY <2>1, <3>2, <3>3, <3>4
  <2>3. CASE pc[x] = "handshake"
    <3>1. cached[CacheOf(x)] = 0 /\ CacheOf(x) \in Caches
      BY <1>3, <2>3 DEF CacheOf, Caches
    <3>2. CASE x = r
      <4>1. Stays(r)
        BY <1>10, <2>1, <2>3, <3>2 DEF Joins, Leaves, Connecting
      <4>2. pc[r] = "queued"
        BY <1>10, <3>2, <4>1 DEF Stays
      <4> QED BY <2>3, <3>2, <4>2
    <3>3. CASE x # r
      <4>1. CacheOf(x)' = CacheOf(x)
        BY <1>4, <3>3 DEF Moves, CacheOf
      <4>2. ~(CacheOf(x) = CacheOf(r) /\ Connected(r))
        <5> SUFFICES ASSUME CacheOf(x) = CacheOf(r), Connected(r) PROVE FALSE
          OBVIOUS
        <5>1. AtHead(x) /\ AtHead(r)
          BY <2>3 DEF LockInv, HeadConnects, Connected
        <5> QED BY <3>3, <5>1 DEF AtHead
      <4> QED BY <1>6, <3>1, <4>1, <4>2 DEF Effects
    <3> QED BY <3>2, <3>3
  <2> QED BY <2>2, <2>3
<1> QED BY <1>9, <1>10

(* Only a page that is not turned away connects, and only while the retry  *)
(* time is not to come.                                                    *)
LEMMA HandshakesRespectBackoff ==
  ASSUME ClientTypes, NEW r \in Requests, StageOf(r), Step(r),
         pc[r] # "handshake", pc'[r] = "handshake", op'[r] \in {"page", "browse"}
  PROVE  ~backoff
<1>1. /\ "api" \in Caches /\ pc \in [Requests -> Pcs] /\ op \in [Requests -> Ops]
  BY DEF ClientTypes, Caches
<1>2. ASSUME NEW o \in {"page", "browse", "run"}, Get(r, o) PROVE ~backoff
  <2>1. o \in {"page", "browse"}
    BY <1>1, <1>2 DEF Get
  <2>2. Lookup(r, "api", backoff)
    BY <1>2, <2>1 DEF Get
  <2>3. pc'[r] \in Connecting
    BY DEF Connecting
  <2> QED BY <1>1, <2>2, <2>3, LookupMoves
<1>3. CASE Locked(r)
  <2>1. pc[r] = "queued" /\ UNCHANGED op
    BY <1>3 DEF Locked
  <2>2. CacheOf(r) = "api"
    BY <2>1 DEF CacheOf
  <2> QED BY <1>1, <1>3, <2>2 DEF Locked, Goto
<1>4. ~ReloginGet(r) /\ ~Relogin(r)
  BY <1>1 DEF ReloginGet, Relogin, StageOf
<1>5. ~EditServer(r) /\ ~RemoveServer(r) /\ ~AddServer(r) /\ ~Probe(r)
  BY <1>1 DEF EditServer, RemoveServer, Save, PopAndClose, AddServer, Probe, Goto
<1>6. /\ ~Connected(r) /\ ~Served(r) /\ ~StartRead(r) /\ ~EndRead(r)
      /\ ~ProbeSucceeded(r) /\ ~Promote(r) /\ ~ProbeFailed(r)
  BY <1>1 DEF Connected, Served, StartRead, EndRead, ProbeSucceeded, Promote, ProbeFailed, Goto
<1>7. ~ConnectFailed(r) /\ ~UseFailed(r)
  BY <1>1 DEF ConnectFailed, UseFailed, FailRequest, PopAndClose, Goto
<1>8. ~CloseVictim(r) /\ ~ClearAgain(r) /\ ~RunCancelled(r)
  BY <1>1 DEF CloseVictim, ClearAgain, PopAndClose, RunCancelled, Goto
<1> QED BY <1>2, <1>3, <1>4, <1>5, <1>6, <1>7, <1>8 DEF Step, Arrive, Advance

-----------------------------------------------------------------------------
LockAndLeakInv == CacheInv /\ LockInv /\ LeakInv

LEMMA LockAndLeakInit == ClientInit => LockAndLeakInv
<1> SUFFICES ASSUME ClientInit PROVE LockInv /\ LeakInv
  BY InitHolds DEF LockAndLeakInv
<1>1. LockTasks
  <2>1. \A k \in Caches : lockq[k] = <<>>
    BY DEF ClientInit
  <2>2. IsInjective(<<>>) /\ Range(<<>>) = {}
    BY DEF IsInjective, Range
  <2>3. \A r \in Requests : pc[r] = "idle"
    BY DEF ClientInit
  <2> QED BY <2>1, <2>2, <2>3 DEF LockTasks
<1>2. Stages /\ HeadConnects
  BY DEF ClientInit, Stages, StageOf, HeadConnects, Connecting
<1>3. LeakInv
  BY DEF ClientInit, LeakInv, Clients
<1> QED BY <1>1, <1>2, <1>3 DEF LockInv

LEMMA LockAndLeakStep ==
  ASSUME LockAndLeakInv, [ClientNext]_clientCacheVars PROVE LockAndLeakInv'
<1>1. CacheInv /\ LockInv /\ LeakInv /\ CacheInv' /\ ClientTypes
  BY CacheStep DEF LockAndLeakInv, CacheInv
<1>2. ASSUME NEW r \in Requests, Step(r) PROVE LockInv' /\ LeakInv'
  BY <1>1, <1>2, LockStep, LeakStep
<1>3. CASE UNCHANGED <<cached, lockq, conn, op, pc, held, victim>>
  <2>1. \A r \in Requests : CacheOf(r)' = CacheOf(r)
    BY <1>3 DEF CacheOf
  <2>2. Stages' /\ HeadConnects'
    BY <1>1, <1>3, <2>1 DEF LockInv, Stages, StageOf, HeadConnects, AtHead
  <2>3. LockTasks'
    BY <1>1, <1>3, <2>1 DEF LockInv, LockTasks
  <2>4. \A c \in Clients : conn'[c] = "open" /\ Reachable(c) => Reachable(c)'
    BY <1>3 DEF Reachable
  <2>5. LeakInv'
    BY <1>1, <1>3, <2>1, <2>4 DEF LeakInv, NoProbe
  <2> QED BY <1>1, <2>2, <2>3, <2>5 DEF LockInv, LockAndLeakInv
<1>4. RetryTimePasses \/ UNCHANGED clientCacheVars
        => UNCHANGED <<cached, lockq, conn, op, pc, held, victim>>
  BY DEF RetryTimePasses, clientCacheVars, cacheVars, clientVars, requestVars
<1> QED BY <1>1, <1>2, <1>3, <1>4 DEF ClientNext, Step, LockAndLeakInv

(* The inductive invariant of the locks and of the connections. *)
THEOREM LockAndLeakInvariant == ClientSpec => []LockAndLeakInv
<1>1. ClientInit => LockAndLeakInv
  BY LockAndLeakInit
<1>2. LockAndLeakInv /\ [ClientNext]_clientCacheVars => LockAndLeakInv'
  BY LockAndLeakStep
<1> QED BY <1>1, <1>2, PTL DEF ClientSpec

(* The per-key locks of get_mcp_client_for_server hold each waiting or     *)
(* connecting task once and no other, for any number of requests: no way   *)
(* out of a getter leaves its task behind.                                 *)
THEOREM LocksHoldTheirTasks == ClientSpec => []ClientTypeOK
<1>1. LockAndLeakInv => ClientTypeOK
  BY DEF LockAndLeakInv, CacheInv, LockInv, ClientTypeOK
<1> QED BY <1>1, LockAndLeakInvariant, PTL

(* Without a connection test no MCPClient stays open out of reach: it is   *)
(* in a cache, somebody is closing it, or a stopped run was connecting it. *)
THEOREM NoClientLeaks == ClientSpec => []NothingLeaks
<1>1. LockAndLeakInv => NothingLeaks
  BY DEF LockAndLeakInv, LeakInv, NoProbe, Reachable, NothingLeaks
<1> QED BY <1>1, LockAndLeakInvariant, PTL

(* A page never begins a handshake before _connection_backoff lets it, the *)
(* pages that waited for the lock while the server failed included.        *)
THEOREM TheBackoffIsRespected == ClientSpec => BackoffRespected
<1> DEFINE Kept == \A r \in Requests :
                     (pc[r] # "handshake" /\ pc'[r] = "handshake"
                        /\ op'[r] \in {"page", "browse"}) => ~backoff
<1>1. LockAndLeakInv /\ [ClientNext]_clientCacheVars => [Kept]_clientCacheVars
  <2> SUFFICES ASSUME LockAndLeakInv, ClientNext PROVE Kept
    OBVIOUS
  <2>1. ClientTypes /\ LockInv
    BY DEF LockAndLeakInv, CacheInv
  <2>2. ASSUME NEW x \in Requests, Step(x) PROVE Kept
    <3>1. Moves(x) /\ StageOf(x)
      BY <2>1, <2>2, StepMovesOne DEF LockInv, Stages, StageOf
    <3> QED BY <2>1, <2>2, <3>1, HandshakesRespectBackoff DEF Moves
  <2>3. CASE RetryTimePasses
    BY <2>3 DEF RetryTimePasses, requestVars
  <2> QED BY <2>2, <2>3 DEF ClientNext, Step
<1> QED BY <1>1, LockAndLeakInvariant, PTL DEF ClientSpec, BackoffRespected
=============================================================================
