---------------------------- MODULE ServingProofs ----------------------------
(***************************************************************************)
(* Serving, for every value of its constants.                              *)
(***************************************************************************)
EXTENDS Serving, Sequences, FiniteSets, FiniteSetTheorems, SequenceTheorems, TLAPS

-----------------------------------------------------------------------------
(* Tickets.                                                                *)

(* The verify list never loses its current key, and it is written before   *)
(* the secret: a verb under way has its key listed.                        *)
StoreInv ==
    /\ list # None => list.current \in list.keys
    /\ secret # None => list # None
    /\ verb # None => verb.key \in Ticket!ListedKeys
    /\ Ticket!SigningListed

(* The reader was let in when the ticket was minted, and the ticket lives  *)
(* at most the cap.                                                        *)
Lawful(t) == t.iat <= lastAllowed /\ t.exp <= t.iat + Cap

TimeInv ==
    /\ lastAllowed <= now
    /\ allowed => lastAllowed = now
    /\ ticket # None => Lawful(ticket)
    /\ served # None => Lawful(served.ticket)
    /\ Ticket!AccessEndsInTime

(* A minted ticket's key stays listed until the operator drops it: a fresh *)
(* store is only made when no secret was ever there to sign.               *)
KeyInv ==
    ticket # None => secret # None /\ ticket.key \in Ticket!ListedKeys \cup dropped

TicketsInv == Ticket!TypeOK /\ StoreInv /\ TimeInv /\ KeyInv

LEMMA TicketsInit ==
    ASSUME Ticket!TicketsAssumption, Ticket!Init
    PROVE  TicketsInv
<1>. USE DEF Ticket!TicketsAssumption, Ticket!Init
<1>1. Ticket!TypeOK
  <2>1. now \in 0..MaxNow /\ lastAllowed \in 0..MaxNow
    OBVIOUS
  <2>. QED  BY <2>1, Zenon DEF Ticket!TypeOK
<1>2. StoreInv /\ TimeInv /\ KeyInv
  BY DEF StoreInv, TimeInv, KeyInv, Ticket!SigningListed, Ticket!AccessEndsInTime
<1>. QED  BY <1>1, <1>2 DEF TicketsInv

(* The key verbs.                                                          *)
LEMMA KeyVerbStep ==
    ASSUME Ticket!TicketsAssumption, TicketsInv,
           \/ Ticket!CacheKeyInit \/ Ticket!CacheKeyRepairAudit \/ Ticket!CacheKeyRotate
           \/ Ticket!WriteSigningFile \/ Ticket!AuditRow \/ Ticket!VerbDies
           \/ \E k \in Keys: Ticket!CacheKeyDrop(k)
    PROVE  TicketsInv'
<1>. USE DEF TicketsInv, Ticket!TicketsAssumption
<1>1. UNCHANGED <<tierKeys, skew, now, allowed, lastAllowed, ticket, served>>
  BY DEF Ticket!CacheKeyInit, Ticket!CacheKeyRepairAudit, Ticket!CacheKeyRotate,
         Ticket!WriteSigningFile, Ticket!AuditRow, Ticket!VerbDies, Ticket!CacheKeyDrop,
         Ticket!world
<1>2. TimeInv'
  BY <1>1 DEF TimeInv, Lawful, Ticket!AccessEndsInTime
<1>3. CASE Ticket!CacheKeyInit
  <2>1. PICK k \in fresh: /\ list' = [keys |-> {k}, current |-> k] /\ fresh' = fresh \ {k}
                          /\ verb' = [step |-> "secret", key |-> k, name |-> "init"]
    BY <1>3 DEF Ticket!CacheKeyInit
  <2>2. k \in Keys
    BY DEF Ticket!TypeOK
  <2>3. secret = None /\ ticket = None /\ UNCHANGED <<secret, initRow, dropped>>
    BY <1>3 DEF Ticket!CacheKeyInit, StoreInv, KeyInv
  <2>4. list' \in Ticket!VerifyKeys /\ list'.keys # {} /\ verb' \in Ticket!Verb
    BY <2>1, <2>2 DEF Ticket!VerifyKeys, Ticket!Verb
  <2>5. Ticket!TypeOK'
    BY <1>1, <2>1, <2>3, <2>4 DEF Ticket!TypeOK
  <2>. QED
    BY <1>1, <1>2, <2>1, <2>3, <2>4, <2>5
    DEF StoreInv, KeyInv, Ticket!SigningListed, Ticket!ListedKeys
<1>4. CASE Ticket!CacheKeyRotate
  <2>1. PICK k \in fresh:
           /\ list' = [keys |-> list.keys \cup {k}, current |-> k] /\ fresh' = fresh \ {k}
           /\ verb' = [step |-> "secret", key |-> k, name |-> "rotate"]
    BY <1>4 DEF Ticket!CacheKeyRotate
  <2>2. /\ k \in Keys /\ list \in Ticket!VerifyKeys
        /\ UNCHANGED <<secret, initRow, dropped>> /\ list # None
    BY <1>4 DEF Ticket!TypeOK, Ticket!CacheKeyRotate
  <2>3. list' \in Ticket!VerifyKeys /\ list'.keys # {} /\ verb' \in Ticket!Verb
    BY <2>1, <2>2 DEF Ticket!VerifyKeys, Ticket!Verb
  <2>4. Ticket!TypeOK'
    BY <1>1, <2>1, <2>2, <2>3 DEF Ticket!TypeOK
  <2>. QED
    BY <1>1, <1>2, <2>1, <2>2, <2>3, <2>4
    DEF StoreInv, KeyInv, Ticket!SigningListed, Ticket!ListedKeys
<1>5. CASE Ticket!WriteSigningFile
  <2>1. /\ verb \in Ticket!Verb /\ secret' = verb.key /\ verb' = [verb EXCEPT !.step = "audit"]
        /\ UNCHANGED <<list, initRow, fresh, dropped>>
    BY <1>5 DEF Ticket!WriteSigningFile, Ticket!TypeOK
  <2>2. verb' \in Ticket!Verb /\ verb'.key = verb.key /\ secret' \in Keys
    BY <2>1 DEF Ticket!Verb
  <2>3. Ticket!TypeOK'
    BY <1>1, <2>1, <2>2 DEF Ticket!TypeOK
  <2>4. secret' \in Ticket!ListedKeys /\ list # None
    BY <2>1 DEF StoreInv, Ticket!ListedKeys
  <2>. QED
    BY <1>1, <1>2, <2>1, <2>2, <2>3, <2>4
    DEF StoreInv, KeyInv, Ticket!SigningListed, Ticket!ListedKeys
<1>6. CASE Ticket!CacheKeyRepairAudit \/ Ticket!AuditRow \/ Ticket!VerbDies
  <2>1. UNCHANGED <<list, secret, fresh, dropped>> /\ initRow' \in BOOLEAN /\ verb' \in {verb, None}
    BY <1>6 DEF Ticket!CacheKeyRepairAudit, Ticket!AuditRow, Ticket!VerbDies, Ticket!TypeOK
  <2>2. Ticket!TypeOK'
    BY <1>1, <2>1 DEF Ticket!TypeOK
  <2>. QED
    BY <1>1, <1>2, <2>1, <2>2 DEF StoreInv, KeyInv, Ticket!SigningListed, Ticket!ListedKeys
<1>7. CASE \E k \in Keys: Ticket!CacheKeyDrop(k)
  <2>1. PICK k \in Keys: Ticket!CacheKeyDrop(k)
    BY <1>7
  <2>2. /\ verb = None /\ k \in list.keys /\ list.current # k /\ list # None
        /\ list \in Ticket!VerifyKeys
        /\ list' = [list EXCEPT !.keys = list.keys \ {k}] /\ dropped' = dropped \cup {k}
        /\ UNCHANGED <<secret, initRow, verb, fresh>>
    BY <2>1 DEF Ticket!CacheKeyDrop, Ticket!ListedKeys, Ticket!TypeOK
  <2>3. /\ list' \in Ticket!VerifyKeys /\ list'.current = list.current
        /\ list'.keys = list.keys \ {k} /\ list'.current \in list'.keys
    BY <2>2 DEF Ticket!VerifyKeys, StoreInv
  <2>4. Ticket!TypeOK'
    BY <1>1, <2>2, <2>3 DEF Ticket!TypeOK
  <2>. QED
    BY <1>1, <1>2, <2>2, <2>3, <2>4
    DEF StoreInv, KeyInv, Ticket!SigningListed, Ticket!ListedKeys
<1>. QED  BY <1>3, <1>4, <1>5, <1>6, <1>7

(* Minting, serving and time.                                              *)
LEMMA TicketStep ==
    ASSUME Ticket!TicketsAssumption, TicketsInv,
           \/ \E ttl \in 0..(Cap + 1): Ticket!Mint(ttl)
           \/ Ticket!TierServe \/ Ticket!TierRestart \/ Ticket!Tick \/ Ticket!Revoke
    PROVE  TicketsInv'
<1>. USE DEF TicketsInv, Ticket!TicketsAssumption
<1>1. UNCHANGED Ticket!store
  BY DEF Ticket!Mint, Ticket!TierServe, Ticket!TierRestart, Ticket!Tick, Ticket!Revoke
<1>2. StoreInv' /\ Ticket!ListedKeys' = Ticket!ListedKeys /\ Ticket!ListedKeys \subseteq Keys
  BY <1>1
  DEF Ticket!store, StoreInv, Ticket!SigningListed, Ticket!ListedKeys, Ticket!TypeOK,
      Ticket!VerifyKeys
<1>3. CASE \E ttl \in 0..(Cap + 1): Ticket!Mint(ttl)
  <2>1. PICK ttl \in 0..(Cap + 1): Ticket!Mint(ttl)
    BY <1>3
  <2>2. /\ secret \in Keys /\ secret # None /\ ttl <= Cap /\ allowed
        /\ ticket' = [key |-> secret, iat |-> now, exp |-> now + ttl]
        /\ UNCHANGED <<tierKeys, skew, now, allowed, lastAllowed, served>>
    BY <2>1 DEF Ticket!Mint, Ticket!LoadSigningKey, Ticket!TypeOK, Ticket!world
  <2>3. /\ ticket' \in Ticket!Ticket /\ ticket'.key = secret /\ ticket'.iat = now
        /\ ticket'.exp <= now + Cap
    BY <2>2 DEF Ticket!Ticket, Ticket!TypeOK
  <2>4. Ticket!TypeOK'
    BY <1>1, <2>2, <2>3 DEF Ticket!TypeOK, Ticket!store
  <2>5. TimeInv'
    BY <2>2, <2>3 DEF TimeInv, Lawful, Ticket!AccessEndsInTime, Ticket!TypeOK
  <2>6. KeyInv'
    BY <1>1, <1>2, <2>2, <2>3 DEF KeyInv, StoreInv, Ticket!SigningListed, Ticket!store
  <2>. QED  BY <1>2, <2>4, <2>5, <2>6
<1>4. CASE Ticket!TierServe
  <2>1. /\ ticket # None /\ ticket \in Ticket!Ticket
        /\ now + skew < ticket.exp
        /\ served' = [at |-> now, ticket |-> ticket]
        /\ UNCHANGED <<tierKeys, skew, now, allowed, lastAllowed, ticket>>
    BY <1>4 DEF Ticket!TierServe, Ticket!VerifyTicket, Ticket!TypeOK, Ticket!Ticket, Ticket!world
  <2>2. served' \in Ticket!Acceptance /\ served'.at = now /\ served'.ticket = ticket
    BY <2>1 DEF Ticket!Acceptance, Ticket!TypeOK
  <2>3. Ticket!TypeOK'
    BY <1>1, <2>1, <2>2 DEF Ticket!TypeOK, Ticket!store
  <2>4. now < lastAllowed + Cap + MaxSkew
    <3>1. /\ ticket.exp \in Int /\ ticket.iat \in Int /\ lastAllowed \in Int /\ now \in Int
          /\ skew \in Int /\ -MaxSkew <= skew
      BY <2>1 DEF Ticket!TypeOK, Ticket!Ticket
    <3>2. ticket.iat <= lastAllowed /\ ticket.exp <= ticket.iat + Cap
      BY <2>1 DEF TimeInv, Lawful
    <3>. QED  BY <2>1, <3>1, <3>2
  <2>5. TimeInv'
    BY <2>1, <2>2, <2>4 DEF TimeInv, Lawful, Ticket!AccessEndsInTime
  <2>6. KeyInv'
    BY <1>1, <1>2, <2>1 DEF KeyInv, Ticket!store
  <2>. QED  BY <1>2, <2>3, <2>5, <2>6
<1>5. CASE Ticket!TierRestart
  <2>1. /\ tierKeys' = Ticket!ListedKeys
        /\ UNCHANGED <<skew, now, allowed, lastAllowed, ticket, served>>
    BY <1>5 DEF Ticket!TierRestart, Ticket!world
  <2>2. Ticket!TypeOK'
    BY <1>1, <1>2, <2>1 DEF Ticket!TypeOK, Ticket!store
  <2>. QED
    BY <1>1, <1>2, <2>1, <2>2 DEF TimeInv, Lawful, Ticket!AccessEndsInTime, KeyInv, Ticket!store
<1>6. CASE Ticket!Tick \/ Ticket!Revoke
  <2>1. UNCHANGED <<tierKeys, skew, ticket, served>>
    BY <1>6 DEF Ticket!Tick, Ticket!Revoke
  <2>2. /\ now' \in 0..MaxNow /\ lastAllowed' \in 0..MaxNow /\ allowed' \in BOOLEAN
        /\ lastAllowed <= lastAllowed' /\ lastAllowed' <= now'
        /\ allowed' => lastAllowed' = now'
    <3>1. now \in 0..MaxNow /\ lastAllowed \in 0..MaxNow /\ lastAllowed <= now
      BY DEF Ticket!TypeOK, TimeInv
    <3>2. CASE Ticket!Tick
      <4>1. now < MaxNow /\ now' = now + 1 /\ allowed' = allowed /\ allowed \in BOOLEAN
        BY <3>2 DEF Ticket!Tick, Ticket!TypeOK
      <4>2. CASE allowed
        <5>1. lastAllowed' = now + 1
          BY <3>2, <4>2 DEF Ticket!Tick
        <5>. QED  BY <3>1, <4>1, <5>1
      <4>3. CASE ~allowed
        <5>1. lastAllowed' = lastAllowed /\ ~allowed'
          BY <3>2, <4>1, <4>3 DEF Ticket!Tick
        <5>. QED  BY <3>1, <4>1, <5>1
      <4>. QED  BY <4>2, <4>3
    <3>3. CASE Ticket!Revoke
      <4>1. UNCHANGED <<now, lastAllowed>> /\ ~allowed' /\ allowed' \in BOOLEAN
        BY <3>3 DEF Ticket!Revoke
      <4>. QED  BY <3>1, <4>1
    <3>. QED  BY <1>6, <3>2, <3>3
  <2>3. Ticket!TypeOK'
    BY <1>1, <2>1, <2>2 DEF Ticket!TypeOK, Ticket!store
  <2>4. TimeInv'
    <3>1. lastAllowed \in Int /\ lastAllowed' \in Int
      BY <2>2 DEF Ticket!TypeOK
    <3>2. ASSUME NEW t \in Ticket!Ticket, Lawful(t)
          PROVE  t.iat <= lastAllowed' /\ t.exp <= t.iat + Cap
      BY <2>2, <3>1, <3>2 DEF Lawful, Ticket!Ticket
    <3>3. served # None => served.ticket \in Ticket!Ticket /\ served.at \in Int
      BY DEF Ticket!TypeOK, Ticket!Acceptance
    <3>4. ticket # None => Lawful(ticket)'
      BY <2>1, <3>2 DEF TimeInv, Lawful, Ticket!TypeOK
    <3>5. served # None => Lawful(served.ticket)'
      BY <2>1, <3>2, <3>3 DEF TimeInv, Lawful
    <3>6. Ticket!AccessEndsInTime'
      <4>1. served # None => served.at < lastAllowed + Cap + MaxSkew
        BY DEF TimeInv, Ticket!AccessEndsInTime
      <4>2. served # None => served.at < lastAllowed' + Cap + MaxSkew
        BY <2>2, <3>1, <3>3, <4>1
      <4>3. served # None => served.ticket.iat <= lastAllowed'
        BY <3>5, <2>1 DEF Lawful
      <4>. QED  BY <2>1, <4>2, <4>3 DEF Ticket!AccessEndsInTime
    <3>. QED  BY <2>1, <2>2, <3>4, <3>5, <3>6 DEF TimeInv, Lawful
  <2>5. KeyInv'
    BY <1>1, <1>2, <2>1 DEF KeyInv, Ticket!store
  <2>. QED  BY <1>2, <2>3, <2>4, <2>5
<1>. QED  BY <1>3, <1>4, <1>5, <1>6

LEMMA TicketsNext ==
    ASSUME Ticket!TicketsAssumption, TicketsInv, [Ticket!Next]_(Ticket!vars)
    PROVE  TicketsInv'
<1>1. CASE UNCHANGED Ticket!vars
  BY <1>1
  DEF Ticket!vars, TicketsInv, Ticket!TypeOK, StoreInv, TimeInv, KeyInv, Lawful, Ticket!ListedKeys,
      Ticket!SigningListed, Ticket!AccessEndsInTime
<1>. QED  BY <1>1, KeyVerbStep, TicketStep DEF Ticket!Next

(* What the store and the times say of a ticket is what the origin checks. *)
LEMMA TicketsHold ==
    ASSUME Ticket!TicketsAssumption, TicketsInv
    PROVE  Ticket!TicketsHonest
<1>1. Ticket!MintedVerifies
  <2>. SUFFICES ASSUME ticket # None, now < ticket.exp, ticket.key \notin dropped
                PROVE  Ticket!OriginAccepts(ticket)
    BY DEF Ticket!MintedVerifies
  <2>1. ticket.key \in Ticket!ListedKeys
    BY DEF TicketsInv, KeyInv
  <2>2. /\ ticket.iat \in Int /\ ticket.exp \in Int /\ now \in Int /\ lastAllowed \in Int
        /\ Cap \in Nat /\ IatSkew \in Nat
    BY DEF TicketsInv, Ticket!TypeOK, Ticket!Ticket, Ticket!TicketsAssumption
  <2>3. /\ ticket.exp - ticket.iat <= Cap /\ ticket.iat <= now + IatSkew
        /\ ticket.exp <= now + Cap
    BY <2>2 DEF TicketsInv, TimeInv, Lawful
  <2>. QED  BY <2>1, <2>2, <2>3 DEF Ticket!OriginAccepts, Ticket!VerifyTicket
<1>. QED  BY <1>1 DEF TicketsInv, StoreInv, TimeInv, Ticket!TicketsHonest

-----------------------------------------------------------------------------
(* Snapshots.                                                              *)

(* A pass reads the clock once and writes later; what it selected, it      *)
(* selected before.                                                        *)
PassType == [pc: {"idle", "list", "check", "delete", "write"}, now: 0..SnapClock,
             expired: SUBSET Snaps, rowless: SUBSET Snaps, deleted: SUBSET Snaps]

(* Every tree under an unexpired row has its row.                          *)
TreesHeld ==
    \A f \in Snap!DbFiles, s \in Snaps:
        Snap!Live(snapRows[f][s], snapClock) =>
            Snap!Closure(snapRows[f][s].tree) \subseteq treeRows[f]

(* Until it deletes, a pass has deleted nothing.                           *)
NothingDeleted ==
    \A g \in Passes: pass[g].pc \in {"idle", "list", "check"} => pass[g].deleted = {}

SnapshotsInv == Snap!TypeOK /\ pass \in [Passes -> PassType] /\ NothingDeleted /\ TreesHeld

LEMMA ClosureTrees ==
    ASSUME Snap!SnapshotsAssumption, NEW t \in Trees
    PROVE  Snap!Closure(t) \subseteq Trees
BY DEF Snap!SnapshotsAssumption, Snap!Closure

LEMMA RowTimes ==
    ASSUME Snap!SnapshotsAssumption, NEW entry \in Snap!Row
    PROVE  entry.created \in Nat /\ entry.ttl \in Nat
<1>1. SnapClock \in Nat /\ Ttls \subseteq Nat
  BY DEF Snap!SnapshotsAssumption
<1>2. entry.created \in 0..SnapClock /\ entry.ttl \in Ttls
  BY DEF Snap!Row
<1>3. entry.created \in Nat
  BY <1>1, <1>2, SMT
<1>4. entry.ttl \in Nat
  BY <1>1, <1>2, Zenon
<1>. QED  BY <1>3, <1>4

(* What is unexpired now was unexpired at any earlier reading of the       *)
(* clock.                                                                  *)
LEMMA LiveEarlier ==
    ASSUME Snap!SnapshotsAssumption, NEW entry \in Snap!Row \cup {None}, NEW n \in 0..SnapClock,
           NEW m \in 0..n, Snap!Live(entry, n)
    PROVE  Snap!Live(entry, m) /\ entry \in Snap!Row
<1>1. entry \in Snap!Row
  BY DEF Snap!Live
<1>2. entry.created \in Nat /\ entry.ttl \in Nat
  BY <1>1, RowTimes
<1>3. entry # None
  BY <1>1 DEF Snap!SnapshotsAssumption
<1>. QED  BY <1>1, <1>2, <1>3 DEF Snap!Live, Snap!Expires, Snap!SnapshotsAssumption

LEMMA SnapshotsInit ==
    ASSUME Snap!SnapshotsAssumption, Snap!Init
    PROVE  SnapshotsInv
<1>. USE DEF Snap!SnapshotsAssumption, Snap!Init
<1>1. Snap!NoPass \in PassType
  BY DEF Snap!NoPass, PassType
<1>2. pass \in [Passes -> PassType]
  BY <1>1
<1>3. \A g \in Passes: /\ pass[g].pc = "idle" /\ pass[g].now = 0 /\ pass[g].deleted = {}
  BY DEF Snap!NoPass
<1>4. /\ snapClock \in 0..SnapClock /\ 0 \in 0..snapClock
      /\ treeRows \in [Snap!DbFiles -> SUBSET Trees]
  OBVIOUS
<1>5. Snap!TypeOK
  BY <1>3, <1>4 DEF Snap!TypeOK
<1>6. TreesHeld /\ NothingDeleted
  BY <1>3 DEF TreesHeld, Snap!Live, NothingDeleted
<1>. QED  BY <1>2, <1>5, <1>6 DEF SnapshotsInv

(* The clock and the requests: only the POST's commit writes rows, and it  *)
(* writes the closure's tree rows with them.                               *)
LEMMA RequestStep ==
    ASSUME Snap!SnapshotsAssumption, SnapshotsInv,
           \/ Snap!Tick
           \/ \E r \in SnapRepos, s \in Snaps, b \in Blobs: Snap!PutBlob(r, s, b)
           \/ \E r \in SnapRepos, s \in Snaps, t \in Trees, p \in Principals, ttl \in Ttls:
                 Snap!CreateBegin(r, s, t, p, ttl)
           \/ Snap!CreateCommit
           \/ \E r \in SnapRepos, b \in Blobs: Snap!Redact(r, b)
    PROVE  SnapshotsInv'
<1>. USE DEF SnapshotsInv
<1>0. SnapClock \in Nat /\ snapClock \in 0..SnapClock
  BY DEF Snap!SnapshotsAssumption, Snap!TypeOK
<1>1. CASE Snap!Tick
  <2>1. /\ snapClock' = snapClock + 1 /\ snapClock' \in 0..SnapClock /\ snapClock \in 0..snapClock'
        /\ UNCHANGED <<snapRows, dir, treeRows, redacted, post, pass>>
    BY <1>0, <1>1 DEF Snap!Tick
  <2>2. \A s \in Snaps: dir'[s] # None => dir'[s].mtime <= snapClock' /\ dir'[s].blobs # {}
    BY <1>0, <2>1 DEF Snap!TypeOK, Snap!Dir
  <2>3. \A g \in Passes: pass'[g].now \in 0..snapClock'
    BY <1>0, <2>1 DEF Snap!TypeOK
  <2>4. Snap!TypeOK'
    BY <2>1, <2>2, <2>3 DEF Snap!TypeOK
  <2>5. TreesHeld'
    <3>. SUFFICES ASSUME NEW f \in Snap!DbFiles, NEW s \in Snaps,
                         Snap!Live(snapRows[f][s], snapClock')
                  PROVE  Snap!Closure(snapRows[f][s].tree) \subseteq treeRows[f]
      BY <2>1 DEF TreesHeld, Snap!Live
    <3>1. snapRows[f][s] \in Snap!Row \cup {None}
      BY DEF Snap!TypeOK
    <3>. QED  BY <2>1, <3>1, LiveEarlier DEF TreesHeld
  <2>. QED  BY <2>1, <2>4, <2>5 DEF NothingDeleted
<1>2. CASE \E r \in SnapRepos, s \in Snaps, b \in Blobs: Snap!PutBlob(r, s, b)
  <2>1. PICK r \in SnapRepos, s \in Snaps, b \in Blobs: Snap!PutBlob(r, s, b)
    BY <1>2
  <2>. DEFINE d == IF dir[s] = None THEN [mtime |-> snapClock, blobs |-> {b}]
                   ELSE [dir[s] EXCEPT !.blobs = dir[s].blobs \cup {b}]
  <2>2. /\ dir' = [dir EXCEPT ![s] = d]
        /\ UNCHANGED <<snapClock, snapRows, treeRows, redacted, post, pass>>
    <3>1. CASE dir[s] = None
      BY <2>1, <3>1 DEF Snap!PutBlob
    <3>2. CASE dir[s] # None
      BY <2>1, <3>2, Zenon DEF Snap!PutBlob
    <3>. QED  BY <3>1, <3>2
  <2>3. d \in Snap!Dir /\ d.mtime <= snapClock /\ d.blobs # {}
    <3>1. CASE dir[s] = None
      BY <1>0, <3>1 DEF Snap!Dir
    <3>2. CASE dir[s] # None
      <4>1. dir[s] \in Snap!Dir /\ dir[s].mtime <= snapClock
        BY <3>2 DEF Snap!TypeOK
      <4>. QED  BY <3>2, <4>1 DEF Snap!Dir
    <3>. QED  BY <3>1, <3>2
  <2>. HIDE DEF d
  <2>4. Snap!TypeOK'
    BY <2>2, <2>3 DEF Snap!TypeOK
  <2>. QED  BY <2>2, <2>4 DEF TreesHeld, Snap!Live, NothingDeleted
<1>3. CASE \E r \in SnapRepos, s \in Snaps, t \in Trees, p \in Principals, ttl \in Ttls:
               Snap!CreateBegin(r, s, t, p, ttl)
  <2>1. PICK r \in SnapRepos, s \in Snaps, t \in Trees, p \in Principals, ttl \in Ttls:
               Snap!CreateBegin(r, s, t, p, ttl)
    BY <1>3
  <2>2. [repo |-> r, tree |-> t, owner |-> p, created |-> snapClock, ttl |-> ttl] \in Snap!Row
    BY <1>0 DEF Snap!Row
  <2>3. post' \in Snap!Post /\ UNCHANGED <<snapClock, snapRows, dir, treeRows, redacted, pass>>
    BY <2>1, <2>2 DEF Snap!CreateBegin, Snap!Post
  <2>4. Snap!TypeOK'
    BY <2>3 DEF Snap!TypeOK
  <2>. QED  BY <2>3, <2>4 DEF TreesHeld, Snap!Live, NothingDeleted
<1>4. CASE Snap!CreateCommit
  <2>. DEFINE new == post.row  s == post.snap  f == FileOf[new.repo]
  <2>1. post' = None /\ UNCHANGED <<snapClock, dir, redacted, pass>>
    BY <1>4 DEF Snap!CreateCommit
  <2>2. s \in Snaps /\ new \in Snap!Row /\ f \in Snap!DbFiles /\ new.tree \in Trees
    BY <1>4 DEF Snap!CreateCommit, Snap!TypeOK, Snap!Post, Snap!Row, Snap!DbFiles
  <2>3. CASE Snap!Admissible(new, s)
    <3>1. /\ snapRows' = [snapRows EXCEPT ![f][s] = new]
          /\ treeRows' = [treeRows EXCEPT ![f] = @ \cup Snap!Closure(new.tree)]
      BY <1>4, <2>3 DEF Snap!CreateCommit
    <3>. HIDE DEF new, s, f
    <3>2. snapRows' \in [Snap!DbFiles -> [Snaps -> Snap!Row \cup {None}]]
      BY <2>2, <3>1 DEF Snap!TypeOK
    <3>3. treeRows' \in [Snap!DbFiles -> SUBSET Trees]
      BY <2>2, <3>1, ClosureTrees DEF Snap!TypeOK
    <3>4. Snap!TypeOK'
      BY <2>1, <3>2, <3>3 DEF Snap!TypeOK
    <3>5. TreesHeld'
      <4>. SUFFICES ASSUME NEW g \in Snap!DbFiles, NEW q \in Snaps,
                           Snap!Live(snapRows'[g][q], snapClock)
                    PROVE  Snap!Closure(snapRows'[g][q].tree) \subseteq treeRows'[g]
        BY <2>1 DEF TreesHeld, Snap!Live
      <4>1. treeRows[g] \subseteq treeRows'[g]
        BY <2>2, <3>1 DEF Snap!TypeOK
      <4>2. CASE g = f /\ q = s
        BY <2>2, <3>1, <4>2 DEF Snap!TypeOK
      <4>3. CASE ~(g = f /\ q = s)
        <5>1. snapRows'[g][q] = snapRows[g][q]
          BY <2>2, <3>1, <4>3 DEF Snap!TypeOK
        <5>. QED  BY <4>1, <5>1 DEF TreesHeld
      <4>. QED  BY <4>2, <4>3
    <3>. QED  BY <2>1, <3>4, <3>5 DEF NothingDeleted
  <2>4. CASE ~Snap!Admissible(new, s)
    <3>1. UNCHANGED <<snapRows, treeRows>>
      BY <1>4, <2>4 DEF Snap!CreateCommit
    <3>2. Snap!TypeOK'
      BY <2>1, <3>1 DEF Snap!TypeOK
    <3>. QED  BY <2>1, <3>1, <3>2 DEF TreesHeld, Snap!Live, NothingDeleted
  <2>. QED  BY <2>3, <2>4
<1>5. CASE \E r \in SnapRepos, b \in Blobs: Snap!Redact(r, b)
  <2>1. /\ redacted' \in [SnapRepos -> SUBSET Blobs]
        /\ UNCHANGED <<snapClock, snapRows, dir, treeRows, post, pass>>
    BY <1>5 DEF Snap!Redact, Snap!TypeOK
  <2>2. Snap!TypeOK'
    BY <2>1 DEF Snap!TypeOK
  <2>. QED  BY <2>1, <2>2 DEF TreesHeld, Snap!Live, NothingDeleted
<1>. QED  BY <1>1, <1>2, <1>3, <1>4, <1>5

(* The steps of a pass before its batch.                                   *)
LEMMA PassStep ==
    ASSUME Snap!SnapshotsAssumption, SnapshotsInv, NEW g \in Passes,
           \/ Snap!GcBegin(g) \/ Snap!GcList(g) \/ Snap!GcCheck(g) \/ Snap!GcDeleted(g)
           \/ \E s \in Snaps: Snap!GcDelete(g, s)
    PROVE  SnapshotsInv'
<1>. USE DEF SnapshotsInv
<1>. DEFINE Fit(p) == /\ p \in PassType /\ p.now \in 0..snapClock
                      /\ p.deleted \subseteq p.expired \cup p.rowless
                      /\ p.pc \in {"idle", "list", "check"} => p.deleted = {}
<1>1. UNCHANGED <<snapClock, snapRows, treeRows, redacted, post>> /\ SnapClock \in Nat
      /\ snapClock \in 0..SnapClock
  BY DEF Snap!GcBegin, Snap!GcList, Snap!GcCheck, Snap!GcDeleted, Snap!GcDelete,
         Snap!SnapshotsAssumption, Snap!TypeOK
<1>2. Fit(pass[g])
  BY DEF Snap!TypeOK, NothingDeleted
<1>3. \E p: pass' = [pass EXCEPT ![g] = p] /\ Fit(p)
  <2>1. CASE Snap!GcBegin(g)
    <3>. DEFINE p == [Snap!NoPass EXCEPT !.pc = "list", !.now = snapClock,
                                         !.expired = Snap!SnapshotsExpired(snapClock)]
    <3>1. pass' = [pass EXCEPT ![g] = p]
      BY <2>1 DEF Snap!GcBegin
    <3>2. Fit(p)
      <4>1. Snap!SnapshotsExpired(snapClock) \in SUBSET Snaps /\ snapClock \in 0..snapClock
        BY <1>1 DEF Snap!SnapshotsExpired
      <4>2. Snap!NoPass \in PassType /\ Snap!NoPass.deleted = {}
        BY <1>1 DEF PassType, Snap!NoPass
      <4>. QED  BY <1>1, <4>1, <4>2 DEF PassType
    <3>. QED  BY <3>1, <3>2
  <2>2. CASE Snap!GcList(g)
    <3>. DEFINE p == [pass[g] EXCEPT !.pc = "check", !.rowless = Snap!RowlessDirs(pass[g].now)]
    <3>1. pass' = [pass EXCEPT ![g] = p] /\ pass[g].pc = "list"
      BY <2>2 DEF Snap!GcList
    <3>2. Fit(p)
      <4>1. Snap!RowlessDirs(pass[g].now) \in SUBSET Snaps
        BY DEF Snap!RowlessDirs
      <4>. QED  BY <1>2, <3>1, <4>1 DEF PassType
    <3>. QED  BY <3>1, <3>2
  <2>3. CASE Snap!GcCheck(g)
    <3>. DEFINE left == {s \in pass[g].rowless: ~Snap!SnapshotsExist(s)}
                p == [pass[g] EXCEPT !.pc = "delete", !.rowless = left]
    <3>1. pass' = [pass EXCEPT ![g] = p] /\ pass[g].pc = "check"
      BY <2>3 DEF Snap!GcCheck
    <3>2. Fit(p)
      <4>1. left \in SUBSET Snaps
        BY <1>2 DEF PassType
      <4>. HIDE DEF left
      <4>. QED  BY <1>2, <3>1, <4>1 DEF PassType
    <3>. QED  BY <3>1, <3>2
  <2>4. CASE Snap!GcDeleted(g)
    <3>. DEFINE p == [pass[g] EXCEPT !.pc = "write"]
    <3>1. pass' = [pass EXCEPT ![g] = p]
      BY <2>4 DEF Snap!GcDeleted
    <3>2. Fit(p)
      BY <1>2 DEF PassType
    <3>. QED  BY <3>1, <3>2
  <2>5. CASE \E s \in Snaps: Snap!GcDelete(g, s)
    <3>1. PICK s \in Snaps: Snap!GcDelete(g, s)
      BY <2>5
    <3>. DEFINE p == [pass[g] EXCEPT !.deleted = pass[g].deleted \cup {s}]
    <3>2. /\ pass' = [pass EXCEPT ![g] = p] /\ pass[g].pc = "delete"
          /\ s \in pass[g].expired \cup pass[g].rowless
      BY <3>1 DEF Snap!GcDelete
    <3>3. Fit(p)
      BY <1>2, <3>2 DEF PassType
    <3>. QED  BY <3>2, <3>3
  <2>. QED  BY <2>1, <2>2, <2>3, <2>4, <2>5
<1>4. PICK p: pass' = [pass EXCEPT ![g] = p] /\ Fit(p)
  BY <1>3
<1>5. pass' \in [Passes -> PassType] /\ \A h \in Passes: pass'[h] = IF h = g THEN p ELSE pass[h]
  BY <1>4
<1>6. dir' \in [Snaps -> Snap!Dir \cup {None}] /\ \A s \in Snaps: dir'[s] \in {dir[s], None}
  BY DEF Snap!GcBegin, Snap!GcList, Snap!GcCheck, Snap!GcDeleted, Snap!GcDelete, Snap!TypeOK
<1>7. Snap!TypeOK'
  BY <1>1, <1>4, <1>5, <1>6 DEF Snap!TypeOK, PassType
<1>8. TreesHeld' /\ NothingDeleted'
  BY <1>1, <1>4, <1>5 DEF TreesHeld, Snap!Live, NothingDeleted
<1>. QED  BY <1>5, <1>7, <1>8

(* The batch of a pass: what it sweeps, it sweeps by its own old clock,    *)
(* under which every row unexpired now was unexpired too.                  *)
LEMMA BatchStep ==
    ASSUME Snap!SnapshotsAssumption, SnapshotsInv, NEW g \in Passes, Snap!GcWrite(g)
    PROVE  SnapshotsInv'
<1>. DEFINE purgable == pass[g].expired \cap pass[g].deleted
            kept(f) == [s \in Snaps |-> IF s \in purgable THEN None ELSE snapRows[f][s]]
<1>. USE DEF SnapshotsInv
<1>1. /\ UNCHANGED <<snapClock, dir, redacted, post>> /\ pass' = [pass EXCEPT ![g] = Snap!NoPass]
      /\ \/ UNCHANGED <<snapRows, treeRows>>
         \/ /\ snapRows' = [f \in Snap!DbFiles |-> kept(f)]
            /\ treeRows' = [f \in Snap!DbFiles |->
                    treeRows[f] \ Snap!UnprotectedTrees(f, pass[g].now, kept(f))]
  BY DEF Snap!GcWrite
<1>2. snapClock \in 0..SnapClock /\ SnapClock \in Nat /\ pass[g].now \in 0..snapClock
  BY DEF Snap!TypeOK, Snap!SnapshotsAssumption
<1>3. /\ pass' \in [Passes -> PassType]
      /\ \A h \in Passes: pass'[h] = IF h = g THEN Snap!NoPass ELSE pass[h]
  <2>1. Snap!NoPass \in PassType
    BY <1>2 DEF Snap!NoPass, PassType
  <2>. QED  BY <1>1, <2>1
<1>4. /\ snapRows' \in [Snap!DbFiles -> [Snaps -> Snap!Row \cup {None}]]
      /\ treeRows' \in [Snap!DbFiles -> SUBSET Trees]
      /\ \A f \in Snap!DbFiles, s \in Snaps: snapRows'[f][s] \in {snapRows[f][s], None}
  <2>1. \A f \in Snap!DbFiles: kept(f) \in [Snaps -> Snap!Row \cup {None}]
    BY DEF Snap!TypeOK
  <2>2. \A f \in Snap!DbFiles, s \in Snaps: kept(f)[s] \in {snapRows[f][s], None}
    OBVIOUS
  <2>. HIDE DEF kept
  <2>. QED  BY <1>1, <2>1, <2>2 DEF Snap!TypeOK
<1>5. Snap!TypeOK'
  <2>1. \A h \in Passes:
          /\ pass'[h].pc \in {"idle", "list", "check", "delete", "write"}
          /\ pass'[h].now \in 0..snapClock
          /\ pass'[h].deleted \subseteq pass'[h].expired \cup pass'[h].rowless
    BY <1>2, <1>3 DEF Snap!TypeOK, Snap!NoPass
  <2>. QED  BY <1>1, <1>4, <2>1 DEF Snap!TypeOK
<1>6. NothingDeleted'
  BY <1>3 DEF NothingDeleted, Snap!NoPass
<1>7. TreesHeld'
  <2>. SUFFICES ASSUME NEW f \in Snap!DbFiles, NEW s \in Snaps,
                       Snap!Live(snapRows'[f][s], snapClock)
                PROVE  Snap!Closure(snapRows'[f][s].tree) \subseteq treeRows'[f]
    BY <1>1 DEF TreesHeld, Snap!Live
  <2>1. snapRows'[f][s] = snapRows[f][s] /\ snapRows[f][s] \in Snap!Row \cup {None}
    BY <1>4 DEF Snap!Live, Snap!TypeOK
  <2>2. Snap!Closure(snapRows[f][s].tree) \subseteq treeRows[f]
    BY <2>1 DEF TreesHeld
  <2>3. Snap!Live(snapRows[f][s], pass[g].now)
    BY <1>2, <2>1, LiveEarlier
  <2>4. CASE UNCHANGED <<snapRows, treeRows>>
    BY <2>1, <2>2, <2>4
  <2>5. CASE /\ snapRows' = [h \in Snap!DbFiles |-> kept(h)]
             /\ treeRows' = [h \in Snap!DbFiles |->
                    treeRows[h] \ Snap!UnprotectedTrees(h, pass[g].now, kept(h))]
    <3>1. kept(f)[s] = snapRows[f][s]
      BY <2>1, <2>5
    <3>2. treeRows'[f] = treeRows[f] \ Snap!UnprotectedTrees(f, pass[g].now, kept(f))
      BY <2>5
    <3>. HIDE DEF kept
    <3>3. \A t \in Snap!Closure(snapRows[f][s].tree):
             t \notin Snap!UnprotectedTrees(f, pass[g].now, kept(f))
      BY <2>3, <3>1 DEF Snap!UnprotectedTrees
    <3>. QED  BY <2>1, <2>2, <3>2, <3>3
  <2>. QED  BY <1>1, <2>4, <2>5
<1>. QED  BY <1>3, <1>5, <1>6, <1>7

LEMMA SnapshotsNext ==
    ASSUME Snap!SnapshotsAssumption, SnapshotsInv, [Snap!Next]_(Snap!vars)
    PROVE  SnapshotsInv'
<1>1. CASE UNCHANGED Snap!vars
  BY <1>1 DEF Snap!vars, SnapshotsInv, Snap!TypeOK, TreesHeld, Snap!Live, NothingDeleted
<1>. QED  BY <1>1, RequestStep, PassStep, BatchStep DEF Snap!Next, Snap!Collecting

LEMMA SnapshotsHold == SnapshotsInv => Snap!LiveTreesServe
BY DEF SnapshotsInv, TreesHeld, Snap!LiveTreesServe, Snap!OwnedUnexpired, Snap!GetSnapshotTree,
       Snap!DbFiles

-----------------------------------------------------------------------------
(* The cache tier.                                                         *)

(* What a snapshot or a finished walk says: the epoch is that of an        *)
(* earlier set of marks than the one the blobs were read under.            *)
Truthful(t, epoch, blobs) ==
    \E m, n \in SUBSET cacheMarks:
        m \subseteq n /\ epoch = Cardinality(m) /\ blobs = In[t] \ n

MapInv == \A i \in DOMAIN map: Truthful(map[i].tree, map[i].epoch, map[i].blobs)

(* What a request knows where it is.                                       *)
KnowsWalk(r) ==
    /\ cachePc[r] = "walk2" => /\ walk[r] \in Cache!Walk
                               /\ \E m \in SUBSET cacheMarks: walk[r].epoch = Cardinality(m)
    /\ cachePc[r] = "insert" => /\ walk[r] \in Cache!Walk
                                /\ Truthful(cacheAsk[r].tree, walk[r].epoch, walk[r].blobs)
                                /\ walk[r].blobs \cap before[r] = {}

InScope(r) ==
    cachePc[r] \in {"serve", "fetch", "store"} =>
             /\ cacheAsk[r].id \in In[cacheAsk[r].tree]
             /\ ~swapped[r] => cacheAsk[r].id \notin before[r]

Honest(r) == cacheAnswer[r] = "bytes" /\ ~swapped[r] => cacheAsk[r].id \notin before[r]

Asked(r) ==
    /\ before[r] \subseteq cacheMarks
    /\ cachePc[r] # "idle" => cacheAsk[r] \in Cache!Ask /\ cacheAnswer[r] # "bytes"

RequestInv == \A r \in Requests: Asked(r) /\ KnowsWalk(r) /\ InScope(r) /\ Honest(r)

(* A request whose probe found its epoch current may trust every snapshot  *)
(* of that epoch, whoever inserted it and when: those that stand, and      *)
(* those that are read and not yet inserted.                               *)
Trusts(r, epoch, blobs) == epoch = recorded[r] => blobs \cap before[r] = {}

TrustMap ==
    \A r \in Requests: cachePc[r] = "reread" =>
        \A i \in DOMAIN map: Trusts(r, map[i].epoch, map[i].blobs)
TrustWalk ==
    \A r, q \in Requests:
        cachePc[r] = "reread" /\ cachePc[q] = "insert" => Trusts(r, walk[q].epoch, walk[q].blobs)

CacheInv == Cache!TypeOK /\ MapInv /\ RequestInv /\ TrustMap /\ TrustWalk

(* The map without a tree's entry has the others, in their order.          *)
LEMMA WithoutTree ==
    ASSUME NEW s \in Seq(Cache!Entry), NEW t,
           \A i, j \in DOMAIN s: s[i].tree = s[j].tree => i = j
    PROVE  /\ Cache!Without(s, t) \in Seq(Cache!Entry) /\ Len(Cache!Without(s, t)) <= Len(s)
           /\ \A i \in DOMAIN Cache!Without(s, t):
                Cache!Without(s, t)[i].tree # t /\ \E k \in DOMAIN s: Cache!Without(s, t)[i] = s[k]
           /\ \A i, j \in DOMAIN Cache!Without(s, t):
                Cache!Without(s, t)[i].tree = Cache!Without(s, t)[j].tree => i = j
<1>1. CASE \A i \in DOMAIN s: s[i].tree # t
  BY <1>1 DEF Cache!Without
<1>2. CASE \E i \in DOMAIN s: s[i].tree = t
  <2>. DEFINE k == CHOOSE i \in DOMAIN s: s[i].tree = t
              left == SubSeq(s, 1, k - 1)
              right == SubSeq(s, k + 1, Len(s))
              rest == left \o right
  <2>1. k \in 1..Len(s) /\ s[k].tree = t
    BY <1>2
  <2>2. Cache!Without(s, t) = rest
    BY <1>2 DEF Cache!Without, Cache!RemoveAt
  <2>. HIDE DEF k
  <2>3. /\ left \in Seq(Cache!Entry) /\ Len(left) = k - 1
        /\ \A i \in 1..(k - 1): left[i] = s[i]
    BY <2>1
  <2>4. /\ right \in Seq(Cache!Entry) /\ Len(right) = Len(s) - k
        /\ \A i \in 1..(Len(s) - k): right[i] = s[i + k]
    BY <2>1
  <2>. HIDE DEF left, right
  <2>5. rest \in Seq(Cache!Entry) /\ Len(rest) = Len(s) - 1
    <3>1. \A a, b \in Seq(Cache!Entry): a \o b \in Seq(Cache!Entry) /\ Len(a \o b) = Len(a) + Len(b)
      <4>. QED  BY ConcatProperties
    <3>3. rest \in Seq(Cache!Entry) /\ Len(rest) = Len(left) + Len(right)
      BY <2>3, <2>4, <3>1
    <3>. HIDE DEF rest
    <3>2. Len(s) \in Nat
      OBVIOUS
    <3>. QED  BY <2>1, <2>3, <2>4, <3>2, <3>3
  <2>6. \A i \in 1..(Len(s) - 1): rest[i] = s[IF i < k THEN i ELSE i + 1]
    <3>1. SUFFICES ASSUME NEW i \in 1..(Len(s) - 1)
                   PROVE  rest[i] = s[IF i < k THEN i ELSE i + 1]
      OBVIOUS
    <3>2. CASE i < k
      BY <2>1, <2>3, <2>4, <3>2
    <3>3. CASE ~(i < k)
      <4>1. rest[i] = right[i - Len(left)] /\ i - Len(left) \in 1..(Len(s) - k)
        BY SMTT(20), <2>1, <2>3, <2>4, <3>3
      <4>2. right[i - Len(left)] = s[i + 1]
        BY <2>1, <2>3, <2>4, <4>1
      <4>. QED  BY <3>3, <4>1, <4>2
    <3>. QED  BY <3>2, <3>3
  <2>. HIDE DEF rest
  <2>. DEFINE at(i) == IF i < k THEN i ELSE i + 1
  <2>7. \A i \in DOMAIN rest: at(i) \in DOMAIN s /\ at(i) # k /\ rest[i] = s[at(i)]
    BY <2>1, <2>5, <2>6
  <2>8. \A i \in DOMAIN rest: rest[i].tree # t /\ \E j \in DOMAIN s: rest[i] = s[j]
    <3>. HIDE DEF at
    <3>. QED  BY <2>1, <2>7
  <2>9. \A i, j \in DOMAIN rest: rest[i].tree = rest[j].tree => i = j
    <3>1. SUFFICES ASSUME NEW i \in DOMAIN rest, NEW j \in DOMAIN rest,
                          rest[i].tree = rest[j].tree
                   PROVE  i = j
      OBVIOUS
    <3>2. at(i) = at(j)
      <4>. HIDE DEF at
      <4>. QED  BY <2>7, <3>1
    <3>. QED  BY <2>1, <2>5, <3>2
  <2>. QED  BY <2>2, <2>5, <2>8, <2>9
<1>. QED  BY <1>1, <1>2

LEMMA MarksCounted ==
    ASSUME Cache!CacheAssumption, cacheMarks \subseteq Blobs
    PROVE  /\ \A m \in SUBSET cacheMarks: /\ Cardinality(m) \in Cache!Epochs
                                          /\ Cardinality(m) = Cardinality(cacheMarks) =>
                                               m = cacheMarks
           /\ Cache!TombstoneEpoch = Cardinality(cacheMarks)
<1>0. IsFiniteSet(Blobs)
  BY DEF Cache!CacheAssumption, Cache!IsFiniteSet, IsFiniteSet
<1>1. IsFiniteSet(cacheMarks) /\ IsFiniteSet(Blobs)
  BY <1>0, FS_Subset
<1>2. \A m \in SUBSET cacheMarks: /\ IsFiniteSet(m)
                                  /\ Cardinality(m) = Cardinality(cacheMarks) => m = cacheMarks
  BY <1>1, FS_Subset
<1>3. \A m \in SUBSET cacheMarks: Cardinality(m) \in Nat /\ Cardinality(m) <= Cardinality(Blobs)
  BY <1>1, <1>2, FS_Subset, FS_CardinalityType
<1>4. Cardinality(Blobs) \in Nat
  BY <1>1, FS_CardinalityType
<1>5. /\ Cache!Cardinality(Blobs) = Cardinality(Blobs)
      /\ Cache!Cardinality(cacheMarks) = Cardinality(cacheMarks)
  BY DEF Cache!Cardinality, Cardinality
<1>. QED  BY <1>2, <1>3, <1>4, <1>5 DEF Cache!Epochs, Cache!TombstoneEpoch

(* What the epoch is for.                                                  *)
LEMMA EpochIsEnough ==
    ASSUME Cache!CacheAssumption, cacheMarks \subseteq Blobs, NEW t, NEW epoch, NEW blobs,
           Truthful(t, epoch, blobs), epoch = Cache!TombstoneEpoch
    PROVE  blobs = In[t] \ cacheMarks
BY MarksCounted DEF Truthful

LEMMA CacheInit ==
    ASSUME Cache!CacheAssumption, Cache!Init
    PROVE  CacheInv
<1>. USE DEF Cache!CacheAssumption, Cache!Init
<1>1. Cache!TypeOK
  <2>1. /\ map \in Seq(Cache!Entry) /\ Len(map) = 0 /\ DOMAIN map = {}
    OBVIOUS
  <2>. QED  BY <2>1 DEF Cache!TypeOK, Cache!PCs
<1>2. MapInv
  BY DEF MapInv
<1>3. RequestInv /\ TrustMap /\ TrustWalk
  BY DEF RequestInv, Asked, KnowsWalk, InScope, Honest, TrustMap, TrustWalk
<1>. QED  BY <1>1, <1>2, <1>3 DEF CacheInv

LEMMA TruthStands ==
    ASSUME cacheMarks \subseteq cacheMarks', NEW t, NEW epoch, NEW blobs, Truthful(t, epoch, blobs)
    PROVE  Truthful(t, epoch, blobs)'
BY DEF Truthful

LEMMA MarkStep ==
    ASSUME Cache!CacheAssumption, CacheInv, NEW b \in Blobs, Cache!Mark(b)
    PROVE  CacheInv'
<1>. USE DEF CacheInv
<1>1. /\ cacheMarks' = cacheMarks \cup {b}
      /\ UNCHANGED <<map, local, cachePc, cacheAsk, recorded, walk, cacheAnswer, before, swapped>>
  BY DEF Cache!Mark, Cache!history
<1>2. Cache!TypeOK'
  BY <1>1 DEF Cache!TypeOK
<1>3. MapInv'
  BY <1>1, TruthStands DEF MapInv
<1>4. TrustMap' /\ TrustWalk'
  BY <1>1 DEF TrustMap, TrustWalk, Trusts
<1>5. ASSUME NEW r \in Requests
      PROVE  Asked(r)' /\ KnowsWalk(r)' /\ InScope(r)' /\ Honest(r)'
  <2>1. Asked(r) /\ KnowsWalk(r) /\ InScope(r) /\ Honest(r)
    BY DEF RequestInv
  <2>2. Asked(r)' /\ InScope(r)' /\ Honest(r)'
    BY <1>1, <2>1 DEF Asked, InScope, Honest
  <2>3. KnowsWalk(r)'
    BY <1>1, <2>1, TruthStands DEF KnowsWalk
  <2>. QED  BY <2>2, <2>3
<1>. QED  BY <1>2, <1>3, <1>4, <1>5 DEF RequestInv

(* A request's step leaves the others where they are.                      *)
LEMMA OthersKept ==
    ASSUME NEW q, cacheMarks' = cacheMarks,
           cachePc'[q] = cachePc[q], cacheAsk'[q] = cacheAsk[q], walk'[q] = walk[q],
           cacheAnswer'[q] = cacheAnswer[q], before'[q] = before[q], swapped'[q] = swapped[q],
           Asked(q), KnowsWalk(q), InScope(q), Honest(q)
    PROVE  Asked(q)' /\ KnowsWalk(q)' /\ InScope(q)' /\ Honest(q)'
<1>1. Asked(q)' /\ InScope(q)' /\ Honest(q)'
  BY DEF Asked, InScope, Honest
<1>2. KnowsWalk(q)'
  BY SMTT(20) DEF KnowsWalk, Truthful
<1>. QED  BY <1>1, <1>2

(* A request that begins.                                                  *)
LEMMA GetObjectStep ==
    ASSUME Cache!CacheAssumption, CacheInv, NEW r \in Requests, Cache!GetObject(r)
    PROVE  CacheInv'
<1>. USE DEF CacheInv
<1>1. PICK t \in Trees, b \in Blobs: cacheAsk' = [cacheAsk EXCEPT ![r] = [tree |-> t, id |-> b]]
  BY DEF Cache!GetObject
<1>2. /\ cachePc[r] = "idle" /\ cachePc' = [cachePc EXCEPT ![r] = "look"]
      /\ cacheAnswer' = [cacheAnswer EXCEPT ![r] = None]
      /\ before' = [before EXCEPT ![r] = cacheMarks]
      /\ swapped' = [swapped EXCEPT ![r] = FALSE]
      /\ UNCHANGED <<cacheMarks, map, local, recorded, walk>>
  BY DEF Cache!GetObject, Cache!Goto
<1>3. /\ cachePc \in [Requests -> Cache!PCs] /\ cacheAsk \in [Requests -> Cache!Ask \cup {None}]
      /\ cacheAnswer \in [Requests -> Cache!Answers \cup {None}]
      /\ before \in [Requests -> SUBSET Blobs] /\ swapped \in [Requests -> BOOLEAN]
      /\ cacheMarks \subseteq Blobs
  BY DEF Cache!TypeOK
<1>4. /\ cachePc' \in [Requests -> Cache!PCs] /\ cacheAsk' \in [Requests -> Cache!Ask \cup {None}]
      /\ cacheAnswer' \in [Requests -> Cache!Answers \cup {None}]
      /\ before' \in [Requests -> SUBSET Blobs]
  BY <1>1, <1>2, <1>3 DEF Cache!PCs, Cache!Ask
<1>5. swapped' \in [Requests -> BOOLEAN] /\ \A q \in Requests \ {r}: swapped'[q] = swapped[q]
  BY <1>2, <1>3
<1>6. Cache!TypeOK'
  BY <1>2, <1>4, <1>5 DEF Cache!TypeOK
<1>7. MapInv'
  BY <1>2 DEF MapInv, Truthful
<1>8. TrustMap' /\ TrustWalk'
  <2>1. \A q \in Requests: cachePc'[q] \in {"reread", "insert"} =>
                              q # r /\ cachePc[q] = cachePc'[q] /\ before'[q] = before[q]
    BY <1>2, <1>3
  <2>. QED  BY <1>2, <2>1 DEF TrustMap, TrustWalk, Trusts
<1>9. Asked(r)' /\ KnowsWalk(r)' /\ InScope(r)' /\ Honest(r)'
  <2>1. /\ cachePc'[r] = "look" /\ cacheAnswer'[r] = None /\ before'[r] = cacheMarks
        /\ cacheAsk'[r] \in Cache!Ask
    BY <1>1, <1>2, <1>3 DEF Cache!Ask
  <2>2. cacheAnswer'[r] # "bytes"
    BY <2>1 DEF Cache!CacheAssumption, Cache!Answers
  <2>. QED  BY <1>2, <2>1, <2>2 DEF Asked, KnowsWalk, InScope, Honest
<1>10. ASSUME NEW q \in Requests \ {r}
       PROVE  Asked(q)' /\ KnowsWalk(q)' /\ InScope(q)' /\ Honest(q)'
  <2>1. Asked(q) /\ KnowsWalk(q) /\ InScope(q) /\ Honest(q)
    BY DEF RequestInv
  <2>. QED  BY <1>1, <1>2, <1>3, <1>5, <2>1, OthersKept
<1>. QED  BY <1>6, <1>7, <1>8, <1>9, <1>10 DEF RequestInv

(* A step of an open request.                                              *)
OpenStep(r) ==
    \/ Cache!ScopeLook(r) \/ Cache!ReadRecorded(r) \/ Cache!ProbeEpoch(r)
    \/ Cache!RereadSnapshot(r) \/ Cache!WalkRead(r) \/ Cache!Insert(r)
    \/ Cache!ServeLocal(r) \/ Cache!LocalFails(r) \/ Cache!FetchObject(r)
    \/ Cache!FetchAndStore(r) \/ Cache!FetchPassthrough(r) \/ Cache!DeleteLocal(r)
    \/ Cache!OriginUnreachable(r)

(* What it changes: its own place, answer, epoch and walk; the map only    *)
(* when it inserts, and its own history when it trusts a snapshot.         *)
LEMMA OpenFrame ==
    ASSUME NEW r \in Requests, Cache!TypeOK, OpenStep(r)
    PROVE  /\ cachePc[r] # "idle" /\ UNCHANGED <<cacheMarks, cacheAsk, before>>
           /\ \A q \in Requests \ {r}:
                /\ cachePc'[q] = cachePc[q] /\ cacheAnswer'[q] = cacheAnswer[q]
                /\ recorded'[q] = recorded[q] /\ walk'[q] = walk[q] /\ swapped'[q] = swapped[q]
           /\ map' = map \/ Cache!Insert(r)
           /\ swapped' = swapped \/ Cache!RereadSnapshot(r)
           /\ swapped' \in [Requests -> BOOLEAN]
<1>1. /\ cachePc[r] # "idle" /\ UNCHANGED <<cacheMarks, cacheAsk, before>>
      /\ (map' = map \/ Cache!Insert(r))
  BY DEF OpenStep, Cache!ScopeLook, Cache!ReadRecorded, Cache!ProbeEpoch, Cache!RereadSnapshot,
         Cache!WalkRead, Cache!Insert, Cache!ServeLocal, Cache!LocalFails, Cache!FetchObject,
         Cache!FetchAndStore, Cache!FetchPassthrough, Cache!DeleteLocal,
         Cache!OriginUnreachable, Cache!history
<1>2. \A q \in Requests \ {r}: /\ cachePc'[q] = cachePc[q] /\ cacheAnswer'[q] = cacheAnswer[q]
                              /\ recorded'[q] = recorded[q] /\ walk'[q] = walk[q]
  BY DEF OpenStep, Cache!ScopeLook, Cache!ReadRecorded, Cache!ProbeEpoch, Cache!RereadSnapshot,
         Cache!WalkRead, Cache!Insert, Cache!ServeLocal, Cache!LocalFails, Cache!FetchObject,
         Cache!FetchAndStore, Cache!FetchPassthrough, Cache!DeleteLocal,
         Cache!OriginUnreachable, Cache!Goto, Cache!Answer, Cache!TypeOK
<1>3. swapped' = swapped \/ Cache!RereadSnapshot(r)
  BY DEF OpenStep, Cache!ScopeLook, Cache!ReadRecorded, Cache!ProbeEpoch, Cache!WalkRead,
         Cache!Insert, Cache!ServeLocal, Cache!LocalFails, Cache!FetchObject,
         Cache!FetchAndStore, Cache!FetchPassthrough, Cache!DeleteLocal,
         Cache!OriginUnreachable, Cache!history
<1>4. /\ swapped' \in [Requests -> BOOLEAN]
      /\ \A q \in Requests \ {r}: swapped'[q] = swapped[q]
  <2>1. swapped \in [Requests -> BOOLEAN]
    BY DEF Cache!TypeOK
  <2>2. CASE swapped' = swapped
    BY <2>1, <2>2
  <2>3. CASE Cache!RereadSnapshot(r)
    <3>. DEFINE v == Cache!HasSnapshot(cacheAsk[r].tree)
                       /\ Cache!Snapshot(cacheAsk[r].tree).epoch # recorded[r]
    <3>1. swapped' = [swapped EXCEPT ![r] = v] /\ v \in BOOLEAN
      BY <2>3, Zenon DEF Cache!RereadSnapshot
    <3>. HIDE DEF v
    <3>. QED  BY <2>1, <3>1
  <2>. QED  BY <1>3, <2>2, <2>3
<1>. QED  BY <1>1, <1>2, <1>3, <1>4

(* A tree with a snapshot has one, and Snapshot is it.                     *)
LEMMA SnapshotIsIt ==
    ASSUME Cache!TypeOK, NEW t, Cache!HasSnapshot(t)
    PROVE  /\ Cache!Snapshot(t) \in Cache!Entry
           /\ \E i \in DOMAIN map: map[i] = Cache!Snapshot(t) /\ map[i].tree = t
           /\ \A i \in Cache!Standing(t): map[i] = Cache!Snapshot(t)
<1>1. PICK i \in Cache!Standing(t): Cache!Snapshot(t) = map[i]
  BY DEF Cache!HasSnapshot, Cache!Snapshot
<1>2. i \in DOMAIN map /\ map[i].tree = t /\ map[i] \in Cache!Entry
  BY <1>1 DEF Cache!Standing, Cache!TypeOK
<1>3. \A j \in Cache!Standing(t): j = i
  BY <1>1 DEF Cache!Standing, Cache!TypeOK
<1>. QED  BY <1>1, <1>2, <1>3

(* The walk reads the epoch first, then the blobs.                         *)
LEMMA WalkReadIs ==
    ASSUME NEW r \in Requests, Cache!WalkRead(r)
    PROVE  \/ /\ cachePc[r] = "walk1" /\ cachePc' = [cachePc EXCEPT ![r] = "walk2"]
              /\ walk' = [walk EXCEPT ![r] = [epoch |-> Cache!TombstoneEpoch, blobs |-> {}]]
           \/ /\ cachePc[r] = "walk2" /\ cachePc' = [cachePc EXCEPT ![r] = "insert"]
              /\ walk' = [walk EXCEPT ![r] =
                            [walk[r] EXCEPT !.blobs = In[cacheAsk[r].tree] \ cacheMarks]]
<1>1. PICK i \in {1, 2}:
        /\ cachePc[r] = <<"walk1", "walk2">>[i]
        /\ LET seen == IF i = 1 THEN [epoch |-> 0, blobs |-> {}] ELSE walk[r] IN
             walk' = [walk EXCEPT ![r] =
                        IF Cache!WalkReads[i] = "epoch"
                          THEN [seen EXCEPT !.epoch = Cache!TombstoneEpoch]
                          ELSE [seen EXCEPT !.blobs = Cache!CacheMembership(cacheAsk[r].tree)]]
        /\ cachePc' = [cachePc EXCEPT ![r] = <<"walk2", "insert">>[i]]
  BY DEF Cache!WalkRead, Cache!Goto
<1>2. Cache!WalkReads[1] = "epoch" /\ Cache!WalkReads[2] = "blobs"
  BY DEF Cache!WalkReads
<1>3. CASE i = 1
  <2>1. /\ cachePc[r] = "walk1" /\ cachePc' = [cachePc EXCEPT ![r] = "walk2"]
        /\ walk' = [walk EXCEPT ![r] = [[epoch |-> 0, blobs |-> {}] EXCEPT
                                         !.epoch = Cache!TombstoneEpoch]]
    BY <1>1, <1>2, <1>3
  <2>2. \A e: [[epoch |-> 0, blobs |-> {}] EXCEPT !.epoch = e] = [epoch |-> e, blobs |-> {}]
    OBVIOUS
  <2>. QED  BY <2>1, <2>2, Zenon
<1>4. CASE i = 2
  BY <1>1, <1>2, <1>4 DEF Cache!CacheMembership
<1>. QED  BY <1>3, <1>4

(* The map after an insert: the new entry, and others that stood before.   *)
LEMMA InsertMap ==
    ASSUME Cache!CacheAssumption, Cache!TypeOK, NEW r \in Requests, cacheAsk[r] \in Cache!Ask,
           walk[r] \in Cache!Walk, Cache!Insert(r)
    PROVE  /\ map' \in Seq(Cache!Entry) /\ Len(map') <= MaxEntries + 1
           /\ \A i, j \in DOMAIN map': map'[i].tree = map'[j].tree => i = j
           /\ \A i \in DOMAIN map':
                \/ \E k \in DOMAIN map: map'[i] = map[k]
                \/ map'[i] = [tree |-> cacheAsk[r].tree, epoch |-> walk[r].epoch,
                              blobs |-> walk[r].blobs]
<1>. DEFINE t == cacheAsk[r].tree
            entry == [tree |-> t, epoch |-> walk[r].epoch, blobs |-> walk[r].blobs]
<1>0. \E kept \in Cache!BoundMembership: map' = Append(Cache!Without(kept, t), entry)
  BY Zenon DEF Cache!Insert
<1>1. PICK kept \in Cache!BoundMembership: map' = Append(Cache!Without(kept, t), entry)
  BY <1>0
<1>2. PICK k \in 0..Len(map): Len(map) - k <= MaxEntries /\ kept = SubSeq(map, k + 1, Len(map))
  BY <1>1 DEF Cache!BoundMembership
<1>3. /\ map \in Seq(Cache!Entry) /\ MaxEntries \in Nat
      /\ \A i, j \in DOMAIN map: map[i].tree = map[j].tree => i = j
  BY DEF Cache!TypeOK, Cache!CacheAssumption
<1>4. entry \in Cache!Entry /\ entry.tree = t
  BY DEF Cache!Entry, Cache!Ask, Cache!Walk
<1>5. /\ kept \in Seq(Cache!Entry) /\ Len(kept) = Len(map) - k
      /\ \A i \in 1..Len(kept): i + k \in DOMAIN map /\ kept[i] = map[i + k]
  BY <1>2, <1>3
<1>6. \A i, j \in DOMAIN kept: kept[i].tree = kept[j].tree => i = j
  <2>1. SUFFICES ASSUME NEW i \in DOMAIN kept, NEW j \in DOMAIN kept, kept[i].tree = kept[j].tree
                 PROVE  i = j
    OBVIOUS
  <2>2. i \in 1..Len(kept) /\ j \in 1..Len(kept)
    BY <1>5
  <2>3. i + k = j + k
    BY <1>3, <1>5, <2>1, <2>2
  <2>. QED  BY <1>2, <2>2, <2>3
<1>. DEFINE rest == Cache!Without(kept, t)
<1>7. /\ rest \in Seq(Cache!Entry) /\ Len(rest) <= Len(kept)
      /\ \A i \in DOMAIN rest: rest[i].tree # t /\ \E j \in DOMAIN kept: rest[i] = kept[j]
      /\ \A i, j \in DOMAIN rest: rest[i].tree = rest[j].tree => i = j
  BY <1>5, <1>6, WithoutTree
<1>8. map' = Append(rest, entry)
  BY <1>1
<1>. HIDE DEF rest, entry, t
<1>9. /\ map' \in Seq(Cache!Entry) /\ Len(map') = Len(rest) + 1
      /\ \A i \in 1..Len(rest): map'[i] = rest[i]
      /\ map'[Len(rest) + 1] = entry
      /\ DOMAIN map' = 1..(Len(rest) + 1) /\ DOMAIN rest = 1..Len(rest) /\ Len(rest) \in Nat
  BY <1>4, <1>7, <1>8
<1>10. Len(map') <= MaxEntries + 1
  BY <1>2, <1>3, <1>5, <1>7, <1>9
<1>11. \A i, j \in DOMAIN map': map'[i].tree = map'[j].tree => i = j
  <2>1. \A i \in DOMAIN map': i \in DOMAIN rest \/ i = Len(rest) + 1
    BY <1>9
  <2>. QED  BY <1>4, <1>7, <1>9, <2>1
<1>12. \A i \in DOMAIN map': map'[i] = entry \/ \E j \in DOMAIN map: map'[i] = map[j]
  <2>1. \A i \in DOMAIN rest: \E j \in DOMAIN map: rest[i] = map[j]
    <3>1. \A j \in DOMAIN kept: j \in 1..Len(kept)
      BY <1>5
    <3>2. ASSUME NEW i \in DOMAIN rest
          PROVE  \E j \in DOMAIN map: rest[i] = map[j]
      <4>1. PICK j \in DOMAIN kept: rest[i] = kept[j]
        BY <1>7
      <4>. QED  BY <1>5, <3>1, <4>1
    <3>. QED  BY <3>2
  <2>2. \A i \in DOMAIN map': i \in DOMAIN rest \/ i = Len(rest) + 1
    BY <1>9
  <2>. QED  BY <1>9, <2>1, <2>2
<1>. QED  BY <1>9, <1>10, <1>11, <1>12 DEF entry, t

(* An open request's step keeps the types.                                 *)
LEMMA OpenTypes ==
    ASSUME Cache!CacheAssumption, CacheInv, NEW r \in Requests, OpenStep(r)
    PROVE  Cache!TypeOK'
<1>. USE DEF CacheInv
<1>1. /\ cachePc \in [Requests -> Cache!PCs] /\ recorded \in [Requests -> Cache!Epochs \cup {None}]
      /\ walk \in [Requests -> Cache!Walk \cup {None}]
      /\ cacheAnswer \in [Requests -> Cache!Answers \cup {None}]
      /\ local \subseteq Blobs /\ cacheMarks \subseteq Blobs
  BY DEF Cache!TypeOK
<1>2. /\ cachePc[r] # "idle" /\ UNCHANGED <<cacheMarks, cacheAsk, before>>
      /\ (map' = map \/ Cache!Insert(r))
      /\ swapped' \in [Requests -> BOOLEAN]
  BY OpenFrame
<1>3. cacheAsk[r] \in Cache!Ask
  BY <1>2 DEF RequestInv, Asked
<1>4. /\ map' \in Seq(Cache!Entry) /\ Len(map') <= MaxEntries + 1
      /\ \A i, j \in DOMAIN map': map'[i].tree = map'[j].tree => i = j
  <2>1. CASE map' = map
    BY <2>1 DEF Cache!TypeOK
  <2>2. CASE Cache!Insert(r)
    <3>1. walk[r] \in Cache!Walk
      BY <2>2 DEF RequestInv, KnowsWalk, Cache!Insert
    <3>. QED  BY <1>3, <2>2, <3>1, InsertMap
  <2>. QED  BY <1>2, <2>1, <2>2
<1>5. local' \subseteq Blobs
  BY <1>1, <1>3 DEF OpenStep, Cache!ScopeLook, Cache!ReadRecorded, Cache!ProbeEpoch,
         Cache!RereadSnapshot, Cache!WalkRead, Cache!Insert, Cache!ServeLocal, Cache!LocalFails,
         Cache!FetchObject, Cache!FetchAndStore, Cache!FetchPassthrough, Cache!DeleteLocal,
         Cache!OriginUnreachable, Cache!Ask
<1>6. /\ cachePc' \in [Requests -> Cache!PCs]
      /\ cacheAnswer' \in [Requests -> Cache!Answers \cup {None}]
  BY <1>1 DEF OpenStep, Cache!ScopeLook, Cache!ReadRecorded, Cache!ProbeEpoch,
         Cache!RereadSnapshot, Cache!WalkRead, Cache!Insert, Cache!ServeLocal, Cache!LocalFails,
         Cache!FetchObject, Cache!FetchAndStore, Cache!FetchPassthrough, Cache!DeleteLocal,
         Cache!OriginUnreachable, Cache!Goto, Cache!Answer, Cache!PCs, Cache!Answers
<1>7. recorded' \in [Requests -> Cache!Epochs \cup {None}]
  <2>1. Cache!HasSnapshot(cacheAsk[r].tree) =>
            Cache!Snapshot(cacheAsk[r].tree).epoch \in Cache!Epochs
    BY SnapshotIsIt DEF Cache!Entry
  <2>. QED
    BY <1>1, <2>1 DEF OpenStep, Cache!ScopeLook, Cache!ReadRecorded, Cache!ProbeEpoch,
         Cache!RereadSnapshot, Cache!WalkRead, Cache!Insert, Cache!ServeLocal, Cache!LocalFails,
         Cache!FetchObject, Cache!FetchAndStore, Cache!FetchPassthrough, Cache!DeleteLocal,
         Cache!OriginUnreachable, Cache!Goto, Cache!Answer
<1>8. walk' \in [Requests -> Cache!Walk \cup {None}]
  <2>1. CASE Cache!WalkRead(r)
    <3>1. Cache!TombstoneEpoch \in Cache!Epochs
      BY <1>1, MarksCounted
    <3>2. cachePc[r] = "walk2" => walk[r] \in Cache!Walk
      BY DEF RequestInv, KnowsWalk
    <3>3. In[cacheAsk[r].tree] \ cacheMarks \subseteq Blobs
      BY <1>3 DEF Cache!CacheAssumption, Cache!Ask
    <3>. QED  BY <1>1, <2>1, <3>1, <3>2, <3>3, WalkReadIs DEF Cache!Walk
  <2>2. CASE ~Cache!WalkRead(r)
    BY <1>1, <2>2 DEF OpenStep, Cache!ScopeLook, Cache!ReadRecorded, Cache!ProbeEpoch,
         Cache!RereadSnapshot, Cache!Insert, Cache!ServeLocal, Cache!LocalFails,
         Cache!FetchObject, Cache!FetchAndStore, Cache!FetchPassthrough, Cache!DeleteLocal,
         Cache!OriginUnreachable, Cache!Goto, Cache!Answer
  <2>. QED  BY <2>1, <2>2
<1>9. /\ cacheMarks' \subseteq Blobs /\ cacheAsk' \in [Requests -> Cache!Ask \cup {None}]
      /\ before' \in [Requests -> SUBSET Blobs]
  BY <1>2 DEF Cache!TypeOK
<1>. QED  BY <1>2, <1>4, <1>5, <1>6, <1>7, <1>8, <1>9 DEF Cache!TypeOK

(* What an open request knows after its step.                              *)
LEMMA OwnStep ==
    ASSUME Cache!CacheAssumption, CacheInv, NEW r \in Requests, OpenStep(r)
    PROVE  Asked(r)' /\ KnowsWalk(r)' /\ InScope(r)' /\ Honest(r)'
<1>1. /\ cachePc[r] # "idle" /\ UNCHANGED <<cacheMarks, cacheAsk, before>>
      /\ swapped' = swapped \/ Cache!RereadSnapshot(r)
      /\ Asked(r) /\ KnowsWalk(r) /\ InScope(r) /\ Honest(r)
      /\ before[r] \subseteq cacheMarks /\ cacheAsk[r] \in Cache!Ask /\ cacheAnswer[r] # "bytes"
  BY OpenFrame DEF CacheInv, RequestInv, Asked
<1>2. /\ Cache!TypeOK /\ MapInv /\ cacheMarks \subseteq Blobs
      /\ cachePc \in [Requests -> Cache!PCs] /\ recorded \in [Requests -> Cache!Epochs \cup {None}]
      /\ walk \in [Requests -> Cache!Walk \cup {None}]
      /\ cacheAnswer \in [Requests -> Cache!Answers \cup {None}]
      /\ swapped \in [Requests -> BOOLEAN]
  BY DEF CacheInv, Cache!TypeOK
<1>. DEFINE Rest == Asked(r)' /\ KnowsWalk(r)' /\ InScope(r)' /\ Honest(r)'
<1>. SUFFICES Rest
  OBVIOUS
<1>4. ASSUME cachePc'[r] \in {"idle", "look", "read", "probe", "reread", "walk1", "delegate", "erase"},
             \/ cacheAnswer'[r] # "bytes"
             \/ cachePc'[r] = "idle" /\ (~swapped'[r] => cacheAsk[r].id \notin before[r])
      PROVE  Rest
  BY <1>1, <1>4 DEF Asked, KnowsWalk, InScope, Honest
<1>5. ASSUME cachePc'[r] \in {"serve", "fetch", "store"}, cacheAnswer'[r] = cacheAnswer[r],
             cacheAsk[r].id \in In[cacheAsk[r].tree],
             ~swapped'[r] => cacheAsk[r].id \notin before[r]
      PROVE  Rest
  BY <1>1, <1>5 DEF Asked, KnowsWalk, InScope, Honest
<1>. HIDE DEF Rest
<1>6. CASE Cache!ScopeLook(r)
  <2>1. cachePc'[r] \in {"read", "walk1"} /\ cacheAnswer' = cacheAnswer
    BY <1>2, <1>6 DEF Cache!ScopeLook, Cache!Goto
  <2>. QED  BY <1>1, <1>4, <2>1
<1>7. CASE Cache!ReadRecorded(r)
  <2>1. CASE Cache!HasSnapshot(cacheAsk[r].tree)
    <3>1. cachePc'[r] = "probe" /\ cacheAnswer' = cacheAnswer
      BY <1>2, <1>7, <2>1 DEF Cache!ReadRecorded, Cache!Goto
    <3>. QED  BY <1>1, <1>4, <3>1
  <2>2. CASE ~Cache!HasSnapshot(cacheAsk[r].tree)
    <3>1. cachePc'[r] = "idle" /\ cacheAnswer'[r] = "panic"
      BY <1>2, <1>7, <2>2 DEF Cache!ReadRecorded, Cache!Goto, Cache!Answer
    <3>. QED  BY <1>4, <3>1
  <2>. QED  BY <2>1, <2>2
<1>8. CASE Cache!ProbeEpoch(r)
  <2>1. cachePc'[r] \in {"reread", "walk1"} /\ cacheAnswer' = cacheAnswer
    BY <1>2, <1>8 DEF Cache!ProbeEpoch, Cache!Goto
  <2>. QED  BY <1>1, <1>4, <2>1
<1>9. CASE Cache!RereadSnapshot(r)
  <2>1. CASE /\ Cache!HasSnapshot(cacheAsk[r].tree)
             /\ cacheAsk[r].id \in Cache!Snapshot(cacheAsk[r].tree).blobs
    <3>1. cachePc[r] = "reread" /\ cachePc'[r] = "serve" /\ cacheAnswer' = cacheAnswer
      BY <1>2, <1>9, <2>1 DEF Cache!RereadSnapshot, Cache!Goto
    <3>2. PICK i \in DOMAIN map: /\ map[i] = Cache!Snapshot(cacheAsk[r].tree)
                                 /\ map[i].tree = cacheAsk[r].tree
      BY <1>2, <2>1, SnapshotIsIt
    <3>3. Truthful(cacheAsk[r].tree, map[i].epoch, map[i].blobs)
      BY <1>2, <3>2 DEF MapInv
    <3>4. cacheAsk[r].id \in In[cacheAsk[r].tree]
      BY <2>1, <3>2, <3>3 DEF Truthful
    <3>5. map[i].epoch = recorded[r] => map[i].blobs \cap before[r] = {}
      BY <3>1, <3>2 DEF CacheInv, TrustMap, Trusts
    <3>6. ~swapped'[r] => map[i].epoch = recorded[r]
      BY <1>2, <1>9, <2>1, <3>2 DEF Cache!RereadSnapshot
    <3>. QED  BY <1>5, <2>1, <3>1, <3>2, <3>4, <3>5, <3>6
  <2>2. CASE ~(/\ Cache!HasSnapshot(cacheAsk[r].tree)
               /\ cacheAsk[r].id \in Cache!Snapshot(cacheAsk[r].tree).blobs)
    <3>1. cachePc'[r] = "idle" /\ cacheAnswer'[r] \in {"panic", "missing"}
      BY <1>2, <1>9, <2>2 DEF Cache!RereadSnapshot, Cache!Goto, Cache!Answer
    <3>. QED  BY <1>4, <3>1
  <2>. QED  BY <2>1, <2>2
<1>10. CASE Cache!WalkRead(r)
  <2>1. cacheAnswer' = cacheAnswer
    BY <1>10 DEF Cache!WalkRead
  <2>2. CASE cachePc'[r] = "walk2"
    <3>1. walk'[r] = [epoch |-> Cache!TombstoneEpoch, blobs |-> {}]
      BY <1>2, <1>10, <2>2, WalkReadIs
    <3>2. Cache!TombstoneEpoch = Cardinality(cacheMarks) /\ Cache!TombstoneEpoch \in Cache!Epochs
      BY <1>2, MarksCounted
    <3>3. walk'[r] \in Cache!Walk /\ walk'[r].epoch = Cardinality(cacheMarks)
      BY <3>1, <3>2 DEF Cache!Walk
    <3>4. KnowsWalk(r)'
      BY <1>1, <2>2, <3>3 DEF KnowsWalk
    <3>. QED  BY <1>1, <2>1, <2>2, <3>4 DEF Rest, Asked, InScope, Honest
  <2>3. CASE cachePc'[r] = "insert"
    <3>1. /\ cachePc[r] = "walk2"
          /\ walk'[r] = [walk[r] EXCEPT !.blobs = In[cacheAsk[r].tree] \ cacheMarks]
      BY <1>2, <1>10, <2>3, WalkReadIs
    <3>2. walk[r] \in Cache!Walk /\ \E m \in SUBSET cacheMarks: walk[r].epoch = Cardinality(m)
      BY <1>1, <3>1 DEF KnowsWalk
    <3>3. In[cacheAsk[r].tree] \ cacheMarks \subseteq Blobs
      BY <1>1 DEF Cache!CacheAssumption, Cache!Ask
    <3>4. /\ walk'[r] \in Cache!Walk /\ walk'[r].epoch = walk[r].epoch
          /\ walk'[r].blobs = In[cacheAsk[r].tree] \ cacheMarks
      BY <3>1, <3>2, <3>3 DEF Cache!Walk
    <3>5. Truthful(cacheAsk[r].tree, walk'[r].epoch, walk'[r].blobs)
      BY <3>2, <3>4 DEF Truthful
    <3>6. Truthful(cacheAsk[r].tree, walk[r].epoch, walk[r].blobs)'
      BY <1>1, <3>5 DEF Truthful
    <3>7. KnowsWalk(r)'
      BY <1>1, <2>3, <3>4, <3>6 DEF KnowsWalk
    <3>. QED  BY <1>1, <2>1, <2>3, <3>7 DEF Rest, Asked, InScope, Honest
  <2>4. cachePc'[r] = "walk2" \/ cachePc'[r] = "insert"
    BY <1>2, <1>10, WalkReadIs
  <2>. QED  BY <2>2, <2>3, <2>4
<1>11. CASE Cache!Insert(r)
  <2>1. CASE cacheAsk[r].id \in walk[r].blobs
    <3>1. cachePc[r] = "insert" /\ cachePc'[r] = "serve" /\ cacheAnswer' = cacheAnswer
      BY <1>2, <1>11, <2>1 DEF Cache!Insert, Cache!Goto
    <3>2. /\ Truthful(cacheAsk[r].tree, walk[r].epoch, walk[r].blobs)
          /\ walk[r].blobs \cap before[r] = {}
      BY <1>1, <3>1 DEF KnowsWalk
    <3>3. cacheAsk[r].id \in In[cacheAsk[r].tree] /\ cacheAsk[r].id \notin before[r]
      BY <2>1, <3>2 DEF Truthful
    <3>. QED  BY <1>5, <3>1, <3>3
  <2>2. CASE cacheAsk[r].id \notin walk[r].blobs
    <3>1. \/ cachePc'[r] = "idle" /\ cacheAnswer'[r] = "missing"
          \/ cachePc'[r] = "delegate" /\ cacheAnswer' = cacheAnswer
      BY <1>2, <1>11, <2>2 DEF Cache!Insert, Cache!Goto, Cache!Answer
    <3>. QED  BY <1>1, <1>4, <3>1
  <2>. QED  BY <2>1, <2>2
<1>12. CASE Cache!ServeLocal(r) \/ Cache!FetchAndStore(r)
  <2>1. cachePc[r] \in {"serve", "store"} /\ cachePc'[r] = "idle" /\ swapped' = swapped
    BY <1>2, <1>12 DEF Cache!ServeLocal, Cache!FetchAndStore, Cache!Goto, Cache!Answer,
                       Cache!history
  <2>2. ~swapped[r] => cacheAsk[r].id \notin before[r]
    BY <1>1, <2>1 DEF InScope
  <2>. QED  BY <1>4, <2>1, <2>2
<1>13. CASE Cache!LocalFails(r)
  <2>1. /\ cachePc[r] = "serve" /\ cachePc'[r] = "fetch" /\ cacheAnswer' = cacheAnswer
        /\ swapped' = swapped
    BY <1>2, <1>13 DEF Cache!LocalFails, Cache!Goto, Cache!history
  <2>. QED  BY <1>1, <1>5, <2>1 DEF InScope
<1>14. CASE Cache!FetchObject(r)
  <2>1. /\ cachePc[r] = "fetch" /\ swapped' = swapped
        /\ \/ cachePc'[r] = "idle" /\ cacheAnswer'[r] = "gone"
           \/ cachePc'[r] = "store" /\ cacheAnswer' = cacheAnswer
    BY <1>2, <1>14 DEF Cache!FetchObject, Cache!Goto, Cache!Answer, Cache!history
  <2>2. cacheAsk[r].id \in In[cacheAsk[r].tree] /\ (~swapped[r] => cacheAsk[r].id \notin before[r])
    BY <1>1, <2>1 DEF InScope
  <2>. QED  BY <1>4, <1>5, <2>1, <2>2
<1>15. CASE Cache!FetchPassthrough(r)
  <2>1. CASE cacheAsk[r].id \in cacheMarks
    <3>1. cachePc'[r] = "erase" /\ cacheAnswer' = cacheAnswer
      BY <1>2, <1>15, <2>1 DEF Cache!FetchPassthrough, Cache!Goto
    <3>. QED  BY <1>1, <1>4, <3>1
  <2>2. CASE cacheAsk[r].id \notin cacheMarks
    <3>1. cachePc'[r] = "idle"
      BY <1>2, <1>15, <2>2 DEF Cache!FetchPassthrough, Cache!Goto, Cache!Answer
    <3>2. cacheAsk[r].id \notin before[r]
      BY <1>1, <2>2
    <3>. QED  BY <1>4, <3>1, <3>2
  <2>. QED  BY <2>1, <2>2
<1>16. CASE Cache!DeleteLocal(r) \/ Cache!OriginUnreachable(r)
  <2>1. cachePc'[r] = "idle" /\ cacheAnswer'[r] \in {"gone", "error"}
    BY <1>2, <1>16 DEF Cache!DeleteLocal, Cache!OriginUnreachable, Cache!Goto, Cache!Answer
  <2>. QED  BY <1>4, <2>1
<1>. QED
  BY <1>6, <1>7, <1>8, <1>9, <1>10, <1>11, <1>12, <1>13, <1>14, <1>15, <1>16
     DEF OpenStep

(* What the requests that trust an epoch know after another's step: a      *)
(* snapshot of the present epoch was read under all the marks there are,   *)
(* and so is every walk that ends now.                                     *)
LEMMA TrustStep ==
    ASSUME Cache!CacheAssumption, CacheInv, NEW r \in Requests, OpenStep(r)
    PROVE  TrustMap' /\ TrustWalk'
<1>1. /\ cachePc[r] # "idle" /\ UNCHANGED <<cacheMarks, cacheAsk, before>>
      /\ \A q \in Requests \ {r}: /\ cachePc'[q] = cachePc[q] /\ recorded'[q] = recorded[q]
                                  /\ walk'[q] = walk[q]
      /\ map' = map \/ Cache!Insert(r)
      /\ Cache!TypeOK /\ MapInv /\ TrustMap /\ TrustWalk /\ cacheMarks \subseteq Blobs
      /\ \A q \in Requests: Asked(q) /\ KnowsWalk(q) /\ before[q] \subseteq cacheMarks
      /\ cachePc \in [Requests -> Cache!PCs]
  BY OpenFrame DEF CacheInv, RequestInv, Asked, Cache!TypeOK
<1>2. CASE cachePc'[r] = "reread"
  <2>1. Cache!ProbeEpoch(r)
    BY <1>1, <1>2 DEF OpenStep, Cache!ScopeLook, Cache!ReadRecorded,
         Cache!RereadSnapshot, Cache!WalkRead, Cache!Insert, Cache!ServeLocal, Cache!LocalFails,
         Cache!FetchObject, Cache!FetchAndStore, Cache!FetchPassthrough, Cache!DeleteLocal,
         Cache!OriginUnreachable, Cache!Goto, Cache!Answer
  <2>2. /\ Cache!TombstoneEpoch = recorded[r] /\ cachePc[r] = "probe"
        /\ UNCHANGED <<map, recorded, walk>>
    BY <1>1, <1>2, <2>1 DEF Cache!ProbeEpoch, Cache!Goto
  <2>3. \A i \in DOMAIN map: Trusts(r, map[i].epoch, map[i].blobs)
    <3>1. SUFFICES ASSUME NEW i \in DOMAIN map, map[i].epoch = Cache!TombstoneEpoch
                   PROVE  map[i].blobs \cap before[r] = {}
      BY <2>2 DEF Trusts
    <3>2. map[i].blobs = In[map[i].tree] \ cacheMarks
      BY <1>1, <3>1, EpochIsEnough DEF MapInv
    <3>. QED  BY <1>1, <3>2
  <2>4. \A q \in Requests: cachePc[q] = "insert" => Trusts(r, walk[q].epoch, walk[q].blobs)
    <3>1. SUFFICES ASSUME NEW q \in Requests, cachePc[q] = "insert",
                          walk[q].epoch = Cache!TombstoneEpoch
                   PROVE  walk[q].blobs \cap before[r] = {}
      BY <2>2 DEF Trusts
    <3>2. Truthful(cacheAsk[q].tree, walk[q].epoch, walk[q].blobs)
      BY <1>1, <3>1 DEF KnowsWalk
    <3>3. walk[q].blobs = In[cacheAsk[q].tree] \ cacheMarks
      BY <1>1, <3>1, <3>2, EpochIsEnough
    <3>. QED  BY <1>1, <3>3
  <2>5. \A q \in Requests: cachePc'[q] \in {"reread", "insert"} => q = r \/ cachePc[q] = cachePc'[q]
    BY <1>1
  <2>6. TrustMap'
    BY <1>1, <2>2, <2>3, <2>5 DEF TrustMap, Trusts
  <2>7. TrustWalk'
    <3>1. SUFFICES ASSUME NEW p \in Requests, NEW q \in Requests,
                          cachePc'[p] = "reread", cachePc'[q] = "insert"
                   PROVE  Trusts(p, walk[q].epoch, walk[q].blobs)
      BY <1>1, <2>2 DEF TrustWalk, Trusts
    <3>2. q # r /\ cachePc[q] = "insert"
      BY <1>1, <1>2, <3>1
    <3>3. CASE p = r
      BY <2>4, <3>2, <3>3
    <3>4. CASE p # r
      BY <1>1, <3>1, <3>2, <3>4 DEF TrustWalk
    <3>. QED  BY <3>3, <3>4
  <2>. QED  BY <2>6, <2>7
<1>3. CASE cachePc'[r] # "reread"
  <2>1. \A p \in Requests: cachePc'[p] = "reread" =>
            p # r /\ cachePc[p] = "reread" /\ recorded'[p] = recorded[p] /\ before'[p] = before[p]
    BY <1>1, <1>3
  <2>2. TrustMap'
    <3>1. SUFFICES ASSUME NEW p \in Requests, cachePc[p] = "reread", NEW i \in DOMAIN map'
                   PROVE  Trusts(p, map'[i].epoch, map'[i].blobs)
      BY <2>1 DEF TrustMap, Trusts
    <3>2. CASE map' = map
      BY <1>1, <3>1, <3>2 DEF TrustMap
    <3>3. CASE Cache!Insert(r)
      <4>. DEFINE entry == [tree |-> cacheAsk[r].tree, epoch |-> walk[r].epoch,
                            blobs |-> walk[r].blobs]
      <4>1. cachePc[r] = "insert" /\ cacheAsk[r] \in Cache!Ask /\ walk[r] \in Cache!Walk
        BY <1>1, <3>3 DEF Asked, KnowsWalk, Cache!Insert
      <4>2. map'[i] = entry \/ \E k \in DOMAIN map: map'[i] = map[k]
        BY <1>1, <3>1, <3>3, <4>1, InsertMap
      <4>3. entry.epoch = walk[r].epoch /\ entry.blobs = walk[r].blobs
        OBVIOUS
      <4>. HIDE DEF entry
      <4>4. CASE map'[i] = entry
        BY <1>1, <3>1, <4>1, <4>3, <4>4 DEF TrustWalk
      <4>5. CASE \E k \in DOMAIN map: map'[i] = map[k]
        BY <1>1, <3>1, <4>5 DEF TrustMap
      <4>. QED  BY <4>2, <4>4, <4>5
    <3>. QED  BY <1>1, <3>2, <3>3
  <2>3. TrustWalk'
    <3>1. SUFFICES ASSUME NEW p \in Requests, NEW q \in Requests, p # r,
                          cachePc[p] = "reread", cachePc'[q] = "insert"
                   PROVE  Trusts(p, walk'[q].epoch, walk'[q].blobs)
      BY <2>1 DEF TrustWalk, Trusts
    <3>2. CASE q # r
      BY <1>1, <3>1, <3>2 DEF TrustWalk
    <3>3. CASE q = r
      <4>1. Cache!WalkRead(r)
        BY <1>1, <3>1, <3>3 DEF OpenStep, Cache!ScopeLook, Cache!ReadRecorded, Cache!ProbeEpoch,
             Cache!RereadSnapshot, Cache!Insert, Cache!ServeLocal, Cache!LocalFails,
             Cache!FetchObject, Cache!FetchAndStore, Cache!FetchPassthrough, Cache!DeleteLocal,
             Cache!OriginUnreachable, Cache!Goto, Cache!Answer
      <4>2. /\ cachePc[r] = "walk2"
            /\ walk' = [walk EXCEPT ![r] =
                          [walk[r] EXCEPT !.blobs = In[cacheAsk[r].tree] \ cacheMarks]]
        BY <1>1, <3>1, <3>3, <4>1, WalkReadIs
      <4>3. walk[r] \in Cache!Walk /\ walk \in [Requests -> Cache!Walk \cup {None}]
        BY <1>1, <4>2 DEF KnowsWalk, Cache!TypeOK
      <4>4. walk'[r].blobs = In[cacheAsk[r].tree] \ cacheMarks
        BY <4>2, <4>3 DEF Cache!Walk
      <4>. QED  BY <1>1, <3>3, <4>4 DEF Trusts
    <3>. QED  BY <3>2, <3>3
  <2>. QED  BY <2>2, <2>3
<1>. QED  BY <1>2, <1>3

(* An open request's step.                                                 *)
LEMMA OpenRequestStep ==
    ASSUME Cache!CacheAssumption, CacheInv, NEW r \in Requests, OpenStep(r)
    PROVE  CacheInv'
<1>1. /\ UNCHANGED <<cacheMarks, cacheAsk, before>>
      /\ \A q \in Requests \ {r}: /\ cachePc'[q] = cachePc[q] /\ cacheAnswer'[q] = cacheAnswer[q]
                                  /\ walk'[q] = walk[q] /\ swapped'[q] = swapped[q]
      /\ map' = map \/ Cache!Insert(r)
      /\ Cache!TypeOK /\ MapInv
      /\ \A q \in Requests: Asked(q) /\ KnowsWalk(q) /\ InScope(q) /\ Honest(q)
  BY OpenFrame DEF CacheInv, RequestInv
<1>2. Cache!TypeOK'
  BY OpenTypes
<1>3. MapInv'
  <2>1. CASE map' = map
    BY <1>1, <2>1 DEF MapInv, Truthful
  <2>2. CASE Cache!Insert(r)
    <3>1. /\ cacheAsk[r] \in Cache!Ask /\ walk[r] \in Cache!Walk
          /\ Truthful(cacheAsk[r].tree, walk[r].epoch, walk[r].blobs)
      BY <1>1, <2>2 DEF Asked, KnowsWalk, Cache!Insert
    <3>. DEFINE entry == [tree |-> cacheAsk[r].tree, epoch |-> walk[r].epoch,
                          blobs |-> walk[r].blobs]
    <3>2. \A i \in DOMAIN map': map'[i] = entry \/ \E k \in DOMAIN map: map'[i] = map[k]
      BY <1>1, <2>2, <3>1, InsertMap
    <3>3. /\ entry.tree = cacheAsk[r].tree /\ entry.epoch = walk[r].epoch
          /\ entry.blobs = walk[r].blobs
      OBVIOUS
    <3>. HIDE DEF entry
    <3>4. \A i \in DOMAIN map': Truthful(map'[i].tree, map'[i].epoch, map'[i].blobs)
      BY <1>1, <3>1, <3>2, <3>3 DEF MapInv
    <3>. QED  BY <1>1, <3>4 DEF MapInv, Truthful
  <2>. QED  BY <1>1, <2>1, <2>2
<1>4. TrustMap' /\ TrustWalk'
  BY TrustStep
<1>5. ASSUME NEW q \in Requests \ {r}
      PROVE  Asked(q)' /\ KnowsWalk(q)' /\ InScope(q)' /\ Honest(q)'
  <2>1. /\ Asked(q) /\ KnowsWalk(q) /\ InScope(q) /\ Honest(q)
        /\ cachePc'[q] = cachePc[q] /\ cacheAsk'[q] = cacheAsk[q]
        /\ walk'[q] = walk[q] /\ cacheAnswer'[q] = cacheAnswer[q] /\ before'[q] = before[q]
        /\ swapped'[q] = swapped[q] /\ cacheMarks' = cacheMarks
    BY <1>1
  <2>. QED  BY <2>1, OthersKept
<1>6. Asked(r)' /\ KnowsWalk(r)' /\ InScope(r)' /\ Honest(r)'
  BY OwnStep
<1>7. RequestInv'
  <2>1. \A q \in Requests: q = r \/ q \in Requests \ {r}
    OBVIOUS
  <2>. QED  BY <1>5, <1>6, <2>1 DEF RequestInv
<1>. QED  BY <1>2, <1>3, <1>4, <1>7 DEF CacheInv

LEMMA RestartStep ==
    ASSUME Cache!CacheAssumption, CacheInv, Cache!Restart
    PROVE  CacheInv'
<1>1. /\ map' = <<>> /\ cachePc' = [r \in Requests |-> "idle"]
      /\ cacheAnswer' = [r \in Requests |-> IF cachePc[r] = "idle" THEN cacheAnswer[r] ELSE "error"]
      /\ recorded' = [r \in Requests |-> None] /\ walk' = [r \in Requests |-> None]
      /\ UNCHANGED <<cacheMarks, local, cacheAsk, before, swapped>>
  BY DEF Cache!Restart, Cache!history
<1>2. Cache!TypeOK'
  <2>1. map' \in Seq(Cache!Entry) /\ Len(map') = 0 /\ DOMAIN map' = {}
    BY <1>1
  <2>2. Len(map') <= MaxEntries + 1
    BY <2>1 DEF Cache!CacheAssumption
  <2>. QED  BY <1>1, <2>1, <2>2 DEF CacheInv, Cache!TypeOK, Cache!PCs, Cache!Answers
<1>3. MapInv'
  BY <1>1 DEF MapInv
<1>4. TrustMap' /\ TrustWalk'
  BY <1>1 DEF TrustMap, TrustWalk
<1>5. RequestInv'
  <2>1. ASSUME NEW r \in Requests
        PROVE  Asked(r)' /\ KnowsWalk(r)' /\ InScope(r)' /\ Honest(r)'
    BY <1>1 DEF CacheInv, RequestInv, Asked, KnowsWalk, InScope, Honest
  <2>. QED  BY <2>1 DEF RequestInv
<1>. QED  BY <1>2, <1>3, <1>4, <1>5 DEF CacheInv

LEMMA CacheNext ==
    ASSUME Cache!CacheAssumption, CacheInv, [Cache!Next]_(Cache!vars)
    PROVE  CacheInv'
<1>1. CASE Cache!Next
  <2>1. ASSUME NEW r \in Requests, Cache!Step(r)
        PROVE  CacheInv'
    BY <2>1, GetObjectStep, OpenRequestStep DEF Cache!Step, OpenStep
  <2>. QED  BY <1>1, <2>1, MarkStep, RestartStep DEF Cache!Next
<1>2. CASE UNCHANGED Cache!vars
  <2>1. UNCHANGED cacheVars
    BY <1>2 DEF Cache!vars, cacheVars
  <2>2. Cache!TypeOK' /\ MapInv' /\ TrustMap' /\ TrustWalk'
    BY <2>1 DEF cacheVars, CacheInv, Cache!TypeOK, MapInv, Truthful, TrustMap, TrustWalk, Trusts
  <2>3. RequestInv'
    BY <2>1, OthersKept DEF cacheVars, CacheInv, RequestInv
  <2>. QED  BY <2>2, <2>3 DEF CacheInv
<1>. QED  BY <1>1, <1>2

LEMMA CacheHolds ==
    ASSUME Cache!CacheAssumption, CacheInv
    PROVE  Cache!TierHonest
<1>1. MapInv /\ RequestInv /\ cacheMarks \subseteq Blobs
  BY DEF CacheInv, Cache!TypeOK
<1>2. Cache!EpochTellsMarks
  BY <1>1, EpochIsEnough DEF MapInv, Cache!EpochTellsMarks
<1>3. Cache!HonestUnlessSwapped /\ Cache!ScopeKept
  BY <1>1 DEF RequestInv, Honest, InScope, Cache!HonestUnlessSwapped, Cache!ScopeKept
<1>. QED  BY <1>2, <1>3 DEF Cache!TierHonest

-----------------------------------------------------------------------------
(* The limiter of failed authentications.                                  *)

(* As long as the clock does not step back, it is past every row, and the  *)
(* rows less than a window old are in the windows.                         *)
WindowsHold ==
    ~stepped =>
        \A i \in DOMAIN failRows:
            /\ failRows[i].at <= failClock
            /\ failRows[i].at + Window > failClock =>
                 i \in rowWindow /\ i \in buckets[failRows[i].key]

FailuresInv == Fail!TypeOK /\ WindowsHold /\ Fail!FloodBounded

LEMMA RowTypes ==
    ASSUME Fail!TypeOK
    PROVE  /\ Len(failRows) \in Nat /\ DOMAIN failRows = 1..Len(failRows)
           /\ \A i \in DOMAIN failRows:
                /\ failRows[i] \in [key: Credentials, at: 0..FailClock]
                /\ failRows[i].at \in 0..FailClock /\ failRows[i].key \in Credentials
<1>. DEFINE Entry == [key: Credentials, at: 0..FailClock]
<1>1. failRows \in Seq(Entry)
  BY DEF Fail!TypeOK
<1>2. \A x \in Entry: x.at \in 0..FailClock /\ x.key \in Credentials
  OBVIOUS
<1>. HIDE DEF Entry
<1>3. /\ Len(failRows) \in Nat /\ DOMAIN failRows = 1..Len(failRows)
      /\ \A i \in DOMAIN failRows: failRows[i] \in Entry
  BY <1>1
<1>. QED  BY <1>2, <1>3 DEF Entry

(* What is still fresh of a window that has room has room for one more.    *)
LEMMA RoomForOne ==
    ASSUME NEW n \in Nat, NEW S, S \subseteq 1..n, NEW cap \in Nat, Fail!Cardinality(S) < cap,
           NEW T, T \subseteq S \cup {n + 1}
    PROVE  Fail!Cardinality(T) <= cap
<1>1. Fail!Cardinality(S) = Cardinality(S) /\ Fail!Cardinality(T) = Cardinality(T)
  BY DEF Fail!Cardinality, Cardinality
<1>2. IsFiniteSet(S) /\ Cardinality(S) \in Nat
  <2>1. IsFiniteSet(1..n)
    BY FS_Interval
  <2>. QED  BY <2>1, FS_Subset, FS_CardinalityType
<1>3. IsFiniteSet(S \cup {n + 1}) /\ Cardinality(S \cup {n + 1}) = Cardinality(S) + 1
  <2>1. n + 1 \notin S
    OBVIOUS
  <2>. QED  BY <1>2, <2>1, FS_AddElement
<1>4. IsFiniteSet(T) /\ Cardinality(T) \in Nat /\ Cardinality(T) <= Cardinality(S \cup {n + 1})
  BY <1>3, FS_Subset, FS_CardinalityType
<1>. QED  BY <1>1, <1>2, <1>3, <1>4

LEMMA EmptyCounts == Fail!Cardinality({}) = 0
<1>1. Fail!Cardinality({}) = Cardinality({})
  BY DEF Fail!Cardinality, Cardinality
<1>. QED  BY <1>1, FS_EmptySet

LEMMA FailuresInit ==
    ASSUME Fail!FailuresAssumption, Fail!Init
    PROVE  FailuresInv
<1>. USE DEF Fail!FailuresAssumption, Fail!Init
<1>1. DOMAIN failRows = {} /\ failRows \in Seq([key: Credentials, at: 0..FailClock])
  OBVIOUS
<1>2. Fail!TypeOK
  <2>1. buckets \in [Credentials -> SUBSET DOMAIN failRows] /\ rowWindow \subseteq DOMAIN failRows
    OBVIOUS
  <2>2. stepped \in BOOLEAN
    BY Zenon
  <2>3. failClock \in 0..FailClock
    OBVIOUS
  <2>. QED  BY <1>1, <2>1, <2>2, <2>3 DEF Fail!TypeOK
<1>3. WindowsHold
  BY <1>1 DEF WindowsHold
<1>4. Fail!FloodBounded
  <2>1. \A from \in 0..FailClock: /\ Fail!Inside(from) = {}
                                  /\ \A k: {i \in Fail!Inside(from): failRows[i].key = k} = {}
    BY <1>1 DEF Fail!Inside
  <2>2. \A from \in 0..FailClock:
           /\ Fail!Cardinality(Fail!Inside(from)) = 0
           /\ \A k: Fail!Cardinality({i \in Fail!Inside(from): failRows[i].key = k}) = 0
    BY <2>1, EmptyCounts, Zenon
  <2>3. 0 <= GlobalRowCap /\ 0 <= PerKeyLimit
    OBVIOUS
  <2>. HIDE DEF Fail!Init
  <2>4. ASSUME NEW from \in 0..FailClock, NEW k
        PROVE  /\ Fail!Cardinality(Fail!Inside(from)) <= GlobalRowCap
               /\ Fail!Cardinality({i \in Fail!Inside(from): failRows[i].key = k}) <= PerKeyLimit
    <3>1. /\ Fail!Cardinality(Fail!Inside(from)) = 0
          /\ Fail!Cardinality({i \in Fail!Inside(from): failRows[i].key = k}) = 0
      BY <2>2
    <3>. QED  BY <2>3, <3>1, Zenon
  <2>. QED  BY <2>4, Zenon DEF Fail!FloodBounded
<1>. QED  BY <1>2, <1>3, <1>4 DEF FailuresInv

(* A failure beyond a limit is counted and leaves the log as it is.        *)
LEMMA CountedOnly ==
    ASSUME Fail!FailuresAssumption, FailuresInv, NEW k \in Credentials, Fail!TickAuthFailure(k),
           ~Fail!HasBudget(Fail!Fresh(buckets[k]), Fail!Fresh(rowWindow))
    PROVE  FailuresInv'
<1>. USE DEF FailuresInv, Fail!FailuresAssumption
<1>1. /\ buckets' = [buckets EXCEPT ![k] = Fail!Fresh(buckets[k])]
      /\ rowWindow' = Fail!Fresh(rowWindow) /\ UNCHANGED <<failRows, failClock, stepped>>
  BY DEF Fail!TickAuthFailure
<1>2. Fail!TypeOK'
  BY <1>1 DEF Fail!TypeOK, Fail!Fresh
<1>3. WindowsHold'
  <2>1. SUFFICES ASSUME ~stepped, NEW i \in DOMAIN failRows
                 PROVE  /\ failRows[i].at <= failClock
                        /\ failRows[i].at + Window > failClock =>
                                 i \in rowWindow' /\ i \in buckets'[failRows[i].key]
    BY <1>1 DEF WindowsHold
  <2>2. /\ failRows[i].at \in 0..FailClock /\ failRows[i].key \in Credentials
        /\ failClock \in 0..FailClock
    BY RowTypes DEF Fail!TypeOK
  <2>3. /\ failRows[i].at <= failClock
        /\ failRows[i].at + Window > failClock => i \in rowWindow /\ i \in buckets[failRows[i].key]
    BY <2>1 DEF WindowsHold
  <2>. DEFINE at == failRows[i].at
  <2>4. \A S: i \in S /\ at + Window > failClock => i \in Fail!Fresh(S)
    <3>1. at \in Nat /\ at <= failClock /\ failClock \in Nat
      BY <2>2, <2>3
    <3>. HIDE DEF at
    <3>2. at + Window > failClock => (IF failClock > at THEN failClock - at ELSE 0) < Window
      BY <3>1
    <3>. QED  BY <3>2 DEF Fail!Fresh, at
  <2>5. at + Window > failClock =>
            i \in Fail!Fresh(rowWindow) /\ i \in Fail!Fresh(buckets[failRows[i].key])
    BY <2>3, <2>4
  <2>6. buckets \in [Credentials -> SUBSET DOMAIN failRows]
    BY DEF Fail!TypeOK
  <2>. QED  BY <1>1, <2>2, <2>3, <2>5, <2>6
<1>4. Fail!FloodBounded'
  BY <1>1 DEF Fail!FloodBounded, Fail!Inside
<1>. QED  BY <1>2, <1>3, <1>4

(* A failure that gets a row was let in by windows that hold every row of  *)
(* a window's time, so that none of that length overflows.                 *)
LEMMA Rowed ==
    ASSUME Fail!FailuresAssumption, FailuresInv, NEW k \in Credentials, Fail!TickAuthFailure(k),
           Fail!HasBudget(Fail!Fresh(buckets[k]), Fail!Fresh(rowWindow))
    PROVE  FailuresInv'
<1>. USE DEF Fail!FailuresAssumption
<1>. DEFINE n == Len(failRows)
            entry == [key |-> k, at |-> failClock]
            window == Fail!Fresh(rowWindow)
            bucket == Fail!Fresh(buckets[k])
<1>1. /\ failClock \in 0..FailClock /\ buckets \in [Credentials -> SUBSET DOMAIN failRows]
      /\ rowWindow \subseteq DOMAIN failRows
      /\ failRows \in Seq([key: Credentials, at: 0..FailClock])
      /\ stepped \in BOOLEAN /\ WindowsHold /\ Fail!FloodBounded
  BY DEF FailuresInv, Fail!TypeOK
<1>2. /\ buckets' = [buckets EXCEPT ![k] = bucket \cup {n + 1}]
      /\ rowWindow' = window \cup {n + 1} /\ failRows' = Append(failRows, entry)
      /\ UNCHANGED <<failClock, stepped>>
  BY DEF Fail!TickAuthFailure
<1>3. /\ n \in Nat /\ DOMAIN failRows = 1..n /\ DOMAIN failRows' = 1..(n + 1)
      /\ failRows' \in Seq([key: Credentials, at: 0..FailClock])
      /\ \A i \in 1..n: /\ failRows'[i] = failRows[i]
                        /\ failRows[i] \in [key: Credentials, at: 0..FailClock]
      /\ failRows'[n + 1] = entry /\ entry.key = k /\ entry.at = failClock
  <2>1. entry \in [key: Credentials, at: 0..FailClock] /\ entry.key = k /\ entry.at = failClock
    BY <1>1
  <2>2. /\ n \in Nat /\ DOMAIN failRows = 1..n
        /\ \A i \in 1..n: failRows[i] \in [key: Credentials, at: 0..FailClock]
    BY RowTypes DEF FailuresInv
  <2>. HIDE DEF entry
  <2>. DEFINE Entry == [key: Credentials, at: 0..FailClock]
  <2>3. failRows \in Seq(Entry) /\ entry \in Entry
    BY <1>1, <2>1
  <2>. HIDE DEF Entry
  <2>4. /\ failRows' \in Seq(Entry) /\ Len(failRows') = n + 1 /\ DOMAIN failRows' = 1..(n + 1)
        /\ failRows'[n + 1] = entry /\ \A i \in 1..n: failRows'[i] = failRows[i]
    BY <1>2, <2>2, <2>3
  <2>. QED  BY <2>1, <2>2, <2>4 DEF Entry
<1>4. \A i \in DOMAIN failRows': i \in 1..n \/ i = n + 1
  BY <1>3
<1>5. window \subseteq 1..n /\ bucket \subseteq 1..n
  BY <1>1, <1>3 DEF Fail!Fresh
<1>. HIDE DEF n, entry
<1>6. Fail!TypeOK'
  <2>1. \A q \in Credentials: buckets[q] \subseteq 1..(n + 1)
    BY <1>1, <1>3
  <2>2. bucket \cup {n + 1} \subseteq 1..(n + 1) /\ window \cup {n + 1} \subseteq 1..(n + 1)
    BY <1>3, <1>5
  <2>. HIDE DEF bucket, window
  <2>. QED  BY <1>1, <1>2, <1>3, <2>1, <2>2 DEF Fail!TypeOK
<1>7. ASSUME ~stepped, NEW i \in 1..n
      PROVE  /\ failRows[i].at <= failClock
             /\ failRows[i].at + Window > failClock =>
                      /\ i \in window /\ i \in buckets[failRows[i].key]
                      /\ failRows[i].key = k => i \in bucket
  <2>1. failRows[i].at \in 0..FailClock /\ i \in DOMAIN failRows
    BY <1>3
  <2>2. /\ failRows[i].at <= failClock
        /\ failRows[i].at + Window > failClock => i \in rowWindow /\ i \in buckets[failRows[i].key]
    BY <1>1, <1>7, <2>1 DEF WindowsHold
  <2>3. failRows[i].at + Window > failClock =>
              (IF failClock > failRows[i].at THEN failClock - failRows[i].at ELSE 0) < Window
    <3>. DEFINE at == failRows[i].at
    <3>. HIDE DEF at
    <3>1. at \in Nat /\ at <= failClock /\ failClock \in Nat
      BY <1>1, <2>1, <2>2 DEF at
    <3>2. at + Window > failClock => (IF failClock > at THEN failClock - at ELSE 0) < Window
      BY <3>1
    <3>. QED  BY <3>2 DEF at
  <2>. QED  BY <2>2, <2>3 DEF Fail!Fresh
<1>. HIDE DEF bucket, window
<1>8. WindowsHold'
  <2>1. ASSUME ~stepped, NEW i \in DOMAIN failRows',
               failRows'[i].at + Window > failClock \/ i = n + 1
        PROVE  i \in rowWindow' /\ i \in buckets'[failRows'[i].key]
    <3>1. CASE i = n + 1
      BY <1>1, <1>2, <1>3, <3>1
    <3>2. CASE i \in 1..n
      <4>1. /\ i \in window /\ i \in buckets[failRows[i].key]
            /\ failRows[i].key = k => i \in bucket
            /\ failRows'[i] = failRows[i] /\ failRows[i].key \in Credentials
        BY <1>3, <1>7, <2>1, <3>2
      <4>. QED  BY <1>1, <1>2, <4>1
    <3>. QED  BY <1>4, <3>1, <3>2
  <2>2. ASSUME ~stepped, NEW i \in DOMAIN failRows'
        PROVE  failRows'[i].at <= failClock
    BY <1>1, <1>3, <1>4, <1>7, <2>2
  <2>. QED  BY <1>2, <2>1, <2>2 DEF WindowsHold
<1>9. Fail!FloodBounded'
  <2>1. SUFFICES ASSUME ~stepped, NEW from \in 0..FailClock
                 PROVE  /\ Fail!Cardinality(Fail!Inside(from)') <= GlobalRowCap
                        /\ \A q \in Credentials:
                             Fail!Cardinality({i \in Fail!Inside(from)': failRows'[i].key = q})
                               <= PerKeyLimit
    BY <1>2 DEF Fail!FloodBounded
  <2>. DEFINE ofKey(q) == {i \in Fail!Inside(from): failRows[i].key = q}
              ofKeyNow(q) == {i \in Fail!Inside(from)': failRows'[i].key = q}
  <2>2. /\ Fail!Inside(from)' =
             {i \in 1..(n + 1): failRows'[i].at >= from /\ failRows'[i].at < from + Window}
        /\ Fail!Inside(from) =
             {i \in 1..n: failRows[i].at >= from /\ failRows[i].at < from + Window}
    BY <1>3 DEF Fail!Inside
  <2>3. /\ Fail!Cardinality(Fail!Inside(from)) <= GlobalRowCap
        /\ \A q \in Credentials: Fail!Cardinality(ofKey(q)) <= PerKeyLimit
    BY <1>1, <2>1 DEF Fail!FloodBounded
  <2>4. ASSUME NEW q \in Credentials, q # k
        PROVE  Fail!Cardinality(ofKeyNow(q)) <= PerKeyLimit
    <3>1. ofKeyNow(q) = ofKey(q)
      BY <1>3, <1>4, <2>2, <2>4
    <3>. QED  BY <2>3, <3>1
  <2>5. CASE failClock >= from /\ failClock < from + Window
    <3>1. \A i \in 1..n: failRows[i].at >= from => failRows[i].at + Window > failClock
      BY <1>1, <1>3, <2>5
    <3>2. Fail!Inside(from)' \subseteq window \cup {n + 1}
      BY <1>3, <1>7, <2>1, <2>2, <3>1
    <3>3. ofKeyNow(k) \subseteq bucket \cup {n + 1}
      BY <1>3, <1>7, <2>1, <2>2, <3>1
    <3>4. Fail!Cardinality(window) < GlobalRowCap /\ Fail!Cardinality(bucket) < PerKeyLimit
      BY DEF Fail!HasBudget, window, bucket
    <3>. HIDE DEF ofKeyNow
    <3>5. Fail!Cardinality(Fail!Inside(from)') <= GlobalRowCap
      BY <1>3, <1>5, <3>2, <3>4, RoomForOne
    <3>6. Fail!Cardinality(ofKeyNow(k)) <= PerKeyLimit
      BY <1>3, <1>5, <3>3, <3>4, RoomForOne
    <3>. QED  BY <2>4, <3>5, <3>6 DEF ofKeyNow
  <2>6. CASE ~(failClock >= from /\ failClock < from + Window)
    <3>1. Fail!Inside(from)' = Fail!Inside(from) /\ ofKeyNow(k) = ofKey(k)
      BY <1>1, <1>3, <1>4, <2>2, <2>6
    <3>. QED  BY <2>3, <2>4, <3>1
  <2>. QED  BY <2>5, <2>6
<1>. QED  BY <1>6, <1>8, <1>9 DEF FailuresInv

LEMMA ClockMovesStep ==
    ASSUME Fail!FailuresAssumption, FailuresInv, Fail!ClockMoves
    PROVE  FailuresInv'
<1>. USE DEF FailuresInv
<1>1. /\ failClock' \in 0..FailClock /\ stepped' = (stepped \/ failClock' < failClock)
      /\ UNCHANGED <<buckets, rowWindow, failRows>>
  BY DEF Fail!ClockMoves
<1>2. Fail!TypeOK'
  <2>1. stepped' \in BOOLEAN
    BY <1>1, Zenon
  <2>. QED  BY <1>1, <2>1 DEF Fail!TypeOK
<1>3. ~stepped' => ~stepped /\ failClock' >= failClock
  <2>1. failClock \in Nat /\ failClock' \in Nat
    BY <1>1 DEF Fail!TypeOK
  <2>2. ~stepped' => ~stepped /\ ~(failClock' < failClock)
    BY <1>1, Zenon
  <2>. QED  BY <2>1, <2>2
<1>4. WindowsHold'
  <2>1. \A i \in DOMAIN failRows: failRows[i].at \in 0..FailClock
    BY RowTypes
  <2>. QED  BY <1>1, <1>3, <2>1 DEF WindowsHold, Fail!TypeOK, Fail!FailuresAssumption
<1>5. Fail!FloodBounded'
  BY <1>1, <1>3 DEF Fail!FloodBounded, Fail!Inside
<1>. QED  BY <1>2, <1>4, <1>5

LEMMA FailuresNext ==
    ASSUME Fail!FailuresAssumption, FailuresInv, [Fail!Next]_(Fail!vars)
    PROVE  FailuresInv'
<1>1. CASE UNCHANGED Fail!vars
  BY <1>1 DEF Fail!vars, FailuresInv, Fail!TypeOK, WindowsHold, Fail!FloodBounded, Fail!Inside
<1>. QED  BY <1>1, CountedOnly, Rowed, ClockMovesStep DEF Fail!Next

-----------------------------------------------------------------------------
(* Redaction.                                                              *)

(* What the pass carries from commit to commit: changesets while it takes  *)
(* their rows, blobs afterwards.                                           *)
BatchKinds ==
    /\ purge.stage = "rows" => purge.batch \subseteq RedChangesets
    /\ purge.stage \in {"bytes", "stamp", "catalog"} => purge.batch \subseteq Blobs

(* Between the deletion of the bytes and that of the catalog rows every    *)
(* slot is held: no tree comes to name what lost its bytes.                *)
BatchUnreferenced ==
    purge.stage \in {"stamp", "catalog"} =>
        \A c \in trees: Refs[c] \cap purge.batch = {}

(* A create looks only at what its entries name; what it inherits is there *)
(* because a tree that stands is whole, its changeset's row gone or not.   *)
TreesWhole == \A c \in trees: Refs[c] \subseteq bytes \cap objects

MarkBudget == marking # None => marks < MaxMarks

RedactionInv ==
    /\ Red!TypeOK /\ BatchKinds /\ BatchUnreferenced /\ MarkBudget
    /\ TreesWhole /\ Red!PurgedIsGone

USE DEF Red!RedactionAssumption, Red!Ids, Red!Stages

RedactionPassType == [stage: Red!Stages, batch: SUBSET Red!Ids, left: SUBSET Repos, phase: {1, 2}]

LEMMA PassTypes ==
    /\ Red!Idle \in RedactionPassType
    /\ [stage |-> "blobs", batch |-> {}, left |-> {}, phase |-> 2] \in RedactionPassType
    /\ \A batch \in SUBSET Red!Ids, left \in SUBSET Repos:
          [stage |-> "rows", batch |-> batch, left |-> left, phase |-> 1] \in RedactionPassType
    /\ \A batch \in SUBSET Red!Ids, phase \in {1, 2}:
          [stage |-> "stamp", batch |-> batch, left |-> Repos, phase |-> phase]
             \in RedactionPassType
BY DEF RedactionPassType, Red!Idle

LEMMA RedactionInit ==
    ASSUME Red!RedactionAssumption, Red!Init
    PROVE  RedactionInv
BY DEF Red!Init, RedactionInv, Red!TypeOK, Red!Idle, BatchKinds, BatchUnreferenced, MarkBudget,
       TreesWhole, Red!PurgedIsGone

LEMMA MarkProbeStep ==
    ASSUME Red!RedactionAssumption, RedactionInv, NEW r \in Repos, NEW i \in Red!Ids,
           Red!MarkProbe(r, i)
    PROVE  RedactionInv'
<1>. USE DEF RedactionInv, Red!MarkProbe
<1>1. marking' \in [repo: Repos, id: Red!Ids]
  OBVIOUS
<1>2. Red!TypeOK'
  BY <1>1 DEF Red!TypeOK
<1>. QED
  BY <1>2 DEF BatchKinds, BatchUnreferenced, MarkBudget, TreesWhole, Red!PurgedIsGone

(* A mark makes a tombstone active, never purged.                          *)
LEMMA RedactionMarkStep ==
    ASSUME Red!RedactionAssumption, RedactionInv, Red!RedactionMark
    PROVE  RedactionInv'
<1>. USE DEF RedactionInv
<1>. DEFINE r == marking.repo
            i == marking.id
            to == IF tomb[r][i] = "none" THEN "active" ELSE Red!Classify(r, i)
<1>1. /\ marking # None /\ marking' = None /\ marks' = marks + 1
      /\ tomb' = [tomb EXCEPT ![r][i] = to]
      /\ marked' = IF i \in Blobs /\ to # tomb[r][i]
                     THEN [marked EXCEPT ![r][i] = marks'] ELSE marked
      /\ UNCHANGED <<csRows, trees, pinned, member, objects, touched, bytes, upload, purge,
                     crashes>>
  BY DEF Red!RedactionMark
<1>2. r \in Repos /\ i \in Red!Ids
  BY <1>1 DEF Red!TypeOK
<1>3. /\ to \in {"none", "active", "purged"}
      /\ to = "purged" => tomb[r][i] = "purged" /\ i \notin csRows
  BY <1>2 DEF Red!TypeOK, Red!Classify
<1>. HIDE DEF r, i, to
<1>4. Red!TypeOK'
  <2>1. tomb' \in [Repos -> [Red!Ids -> {"none", "active", "purged"}]]
    BY <1>1, <1>2, <1>3 DEF Red!TypeOK
  <2>2. marks' \in 0..MaxMarks
    BY <1>1 DEF Red!TypeOK, MarkBudget
  <2>3. marked' \in [Repos -> [Blobs -> 0..MaxMarks]]
    BY <1>1, <1>2, <2>2 DEF Red!TypeOK
  <2>. QED  BY <1>1, <2>1, <2>2, <2>3 DEF Red!TypeOK
<1>5. BatchKinds' /\ BatchUnreferenced' /\ MarkBudget' /\ TreesWhole'
  BY <1>1 DEF BatchKinds, BatchUnreferenced, MarkBudget, TreesWhole
<1>6. Red!PurgedIsGone'
  BY <1>1, <1>2, <1>3 DEF Red!PurgedIsGone, Red!TypeOK
<1>. QED  BY <1>4, <1>5, <1>6

(* The writes of clients and of the reachability sweep: all of them but    *)
(* the put of an upload take a slot, so none runs inside a batch.          *)
LEMMA ClientStep ==
    ASSUME Red!RedactionAssumption, RedactionInv,
           \/ \E r \in Repos, b \in Blobs: Red!UploadProbe(r, b)
           \/ Red!UploadPut \/ Red!UploadRecord
           \/ \E c \in RedChangesets: Red!MoveRef(c)
           \/ Red!GraceEnds \/ Red!SweepTrees \/ Red!Crash
    PROVE  RedactionInv'
<1>. USE DEF RedactionInv
<1>1. CASE \E r \in Repos, b \in Blobs: Red!UploadProbe(r, b)
  <2>1. upload' \in [repo: Repos, blob: Blobs, step: {"put", "record"}]
    BY <1>1 DEF Red!UploadProbe
  <2>2. UNCHANGED <<tomb, marked, marking, csRows, trees, pinned, member, objects, touched,
                    bytes, purge, marks, crashes>>
    BY <1>1 DEF Red!UploadProbe
  <2>3. Red!TypeOK'
    BY <2>1, <2>2 DEF Red!TypeOK
  <2>. QED
    BY <2>2, <2>3 DEF BatchKinds, BatchUnreferenced, MarkBudget, TreesWhole, Red!PurgedIsGone
<1>2. CASE Red!UploadPut
  BY <1>2 DEF Red!UploadPut, Red!TypeOK, BatchKinds, BatchUnreferenced, MarkBudget, TreesWhole,
              Red!PurgedIsGone
<1>3. CASE Red!UploadRecord
  <2>1. upload.repo \in Repos /\ upload.blob \in Blobs
    BY <1>3 DEF Red!UploadRecord, Red!TypeOK
  <2>2. /\ objects \subseteq objects' /\ objects' \subseteq Blobs
        /\ touched' \subseteq objects'
        /\ member' \in [Repos -> SUBSET Blobs]
    <3>1. CASE UNCHANGED <<objects, touched, member>>
      BY <3>1 DEF Red!TypeOK
    <3>2. CASE /\ objects' = objects \cup {upload.blob}
               /\ touched' = touched \cup {upload.blob}
               /\ member' = [member EXCEPT ![upload.repo] = @ \cup {upload.blob}]
      BY <2>1, <3>2 DEF Red!TypeOK
    <3>. QED  BY <1>3, <3>1, <3>2 DEF Red!UploadRecord
  <2>3. /\ upload' = None
        /\ UNCHANGED <<tomb, marked, marking, csRows, trees, pinned, bytes, purge, marks, crashes>>
    BY <1>3 DEF Red!UploadRecord
  <2>4. Red!TypeOK'
    BY <2>2, <2>3 DEF Red!TypeOK
  <2>. QED
    BY <2>2, <2>3, <2>4
    DEF BatchKinds, BatchUnreferenced, MarkBudget, TreesWhole, Red!PurgedIsGone
<1>4. CASE \E c \in RedChangesets: Red!MoveRef(c)
  <2>1. pinned' \subseteq RedChangesets
    BY <1>4 DEF Red!MoveRef, Red!TypeOK
  <2>2. UNCHANGED <<tomb, marked, marking, csRows, trees, member, objects, touched, bytes,
                    upload, purge, marks, crashes>>
    BY <1>4 DEF Red!MoveRef
  <2>3. Red!TypeOK'
    BY <2>1, <2>2 DEF Red!TypeOK
  <2>. QED
    BY <2>2, <2>3 DEF BatchKinds, BatchUnreferenced, MarkBudget, TreesWhole, Red!PurgedIsGone
<1>5. CASE Red!GraceEnds
  BY <1>5 DEF Red!GraceEnds, Red!TypeOK, BatchKinds, BatchUnreferenced, MarkBudget, TreesWhole,
              Red!PurgedIsGone
<1>6. CASE Red!SweepTrees
  BY <1>6 DEF Red!SweepTrees, Red!TypeOK, BatchKinds, BatchUnreferenced, MarkBudget, TreesWhole,
              Red!PurgedIsGone
<1>7. CASE Red!Crash
  <2>1. Red!TypeOK'
    <3>1. purge' \in RedactionPassType /\ crashes' \in 0..MaxCrashes
      BY <1>7, PassTypes DEF Red!Crash, Red!TypeOK
    <3>. QED  BY <1>7, <3>1 DEF Red!Crash, Red!TypeOK, RedactionPassType
  <2>. QED
    BY <1>7, <2>1 DEF Red!Crash, Red!Idle, BatchKinds, BatchUnreferenced, MarkBudget, TreesWhole,
                      Red!PurgedIsGone
<1>. QED  BY <1>1, <1>2, <1>3, <1>4, <1>5, <1>6, <1>7

(* A create probes the tombstones and the store in the slot, for what its  *)
(* entries name; the rest of its tree is its parent's.                     *)
LEMMA CreateStep ==
    ASSUME Red!RedactionAssumption, RedactionInv, NEW c \in RedChangesets,
           Red!CreateChangeset(c)
    PROVE  RedactionInv'
<1>. USE DEF RedactionInv, Red!CreateChangeset
<1>1. Red!TypeOK'
  BY DEF Red!TypeOK
<1>2. BatchKinds' /\ BatchUnreferenced' /\ MarkBudget'
  BY DEF BatchKinds, BatchUnreferenced, MarkBudget, Red!SlotsFree
<1>3. TreesWhole'
  <2>1. Refs[c] \subseteq bytes \cap objects
    <3>1. CASE RedParent[c] = None
      BY <3>1
    <3>2. CASE RedParent[c] # None
      <4>1. RedParent[c] \in trees /\ Refs[c] \subseteq Changes[c] \cup Refs[RedParent[c]]
        BY <3>2
      <4>. QED  BY <4>1 DEF TreesWhole
    <3>. QED  BY <3>1, <3>2
  <2>. QED  BY <2>1 DEF TreesWhole
<1>4. Red!PurgedIsGone'
  BY DEF Red!PurgedIsGone, Red!RedactionActive, Red!GateIds
<1>. QED  BY <1>1, <1>2, <1>3, <1>4

(* The selections of the pass.                                             *)
LEMMA SelectStep ==
    ASSUME Red!RedactionAssumption, RedactionInv, Red!PurgeStart \/ Red!SelectCs \/ Red!SelectBlobs
    PROVE  RedactionInv'
<1>. USE DEF RedactionInv, Red!Enter
<1>1. CASE Red!PurgeStart
  BY <1>1 DEF Red!PurgeStart, Red!TypeOK, BatchKinds, BatchUnreferenced, MarkBudget, TreesWhole,
              Red!PurgedIsGone
<1>2. CASE Red!SelectCs
  <2>1. Red!PurgeableCs \subseteq RedChangesets /\ {Owner[c]: c \in Red!PurgeableCs} \subseteq Repos
    BY DEF Red!PurgeableCs, Red!TypeOK
  <2>2. Red!TypeOK'
    <3>1. CASE Red!PurgeableCs = {}
      <4>1. purge' = [stage |-> "blobs", batch |-> {}, left |-> {}, phase |-> 2]
        BY <1>2, <3>1 DEF Red!SelectCs
      <4>. QED  BY <1>2, <4>1, PassTypes DEF Red!SelectCs, Red!TypeOK, RedactionPassType
    <3>2. CASE Red!PurgeableCs # {}
      <4>1. purge' = [stage |-> "rows", batch |-> Red!PurgeableCs,
                      left |-> {Owner[c]: c \in Red!PurgeableCs}, phase |-> 1]
        BY <1>2, <3>2 DEF Red!SelectCs
      <4>2. purge' \in RedactionPassType
        BY <2>1, <4>1, PassTypes
      <4>. QED  BY <1>2, <4>2 DEF Red!SelectCs, Red!TypeOK, RedactionPassType
    <3>. QED  BY <3>1, <3>2
  <2>. QED
    BY <1>2, <2>1, <2>2
    DEF Red!SelectCs, BatchKinds, BatchUnreferenced, MarkBudget, TreesWhole, Red!PurgedIsGone
<1>3. CASE Red!SelectBlobs
  <2>1. Red!BlobPage \subseteq Blobs
    BY DEF Red!BlobPage, Red!ActiveMarks
  <2>. QED
    BY <1>3, <2>1
    DEF Red!SelectBlobs, Red!TypeOK, BatchKinds, BatchUnreferenced, MarkBudget, TreesWhole,
        Red!PurgedIsGone
<1>. QED  BY <1>1, <1>2, <1>3

(* The rows of one repo and the stamps of their tombstones go together.    *)
LEMMA CollectCsStep ==
    ASSUME Red!RedactionAssumption, RedactionInv, NEW r \in Repos, Red!CollectCsRepo(r)
    PROVE  RedactionInv'
<1>. DEFINE mine == {c \in purge.batch \cap RedChangesets: Owner[c] = r}
<1>. USE DEF RedactionInv, Red!CollectCsRepo, Red!Enter
<1>1. purge.batch \subseteq RedChangesets /\ UNION {Changes[c]: c \in purge.batch} \subseteq Blobs
  BY DEF BatchKinds
<1>2. csRows' = csRows \ mine
  OBVIOUS
<1>3. tomb' = [tomb EXCEPT ![r] = [i \in Red!Ids |-> IF i \in mine THEN "purged" ELSE @[i]]]
  OBVIOUS
<1>. HIDE DEF mine
<1>4. tomb' \in [Repos -> [Red!Ids -> {"none", "active", "purged"}]]
  BY <1>3 DEF Red!TypeOK
<1>5. purge' \in [stage: Red!Stages, batch: SUBSET Red!Ids, left: SUBSET Repos, phase: {1, 2}]
  BY <1>1 DEF Red!TypeOK
<1>6. Red!TypeOK'
  BY <1>2, <1>4, <1>5 DEF Red!TypeOK
<1>7. BatchKinds' /\ BatchUnreferenced'
  BY <1>1 DEF BatchKinds, BatchUnreferenced
<1>8. MarkBudget' /\ TreesWhole'
  BY <1>2 DEF MarkBudget, TreesWhole
<1>9. Red!PurgedIsGone'
  <2>. SUFFICES ASSUME NEW c \in RedChangesets, tomb'[Owner[c]][c] = "purged"
                PROVE  c \notin csRows'
    BY DEF Red!PurgedIsGone
  <2>1. CASE c \in mine
    BY <2>1, <1>2
  <2>2. CASE c \notin mine
    BY <2>2, <1>2, <1>3 DEF Red!PurgedIsGone, Red!TypeOK
  <2>. QED  BY <2>1, <2>2
<1>. QED  BY <1>6, <1>7, <1>8, <1>9

(* Bytes go only of what no row and no tree references.                    *)
LEMMA DeleteBytesStep ==
    ASSUME Red!RedactionAssumption, RedactionInv, Red!DeleteBytes
    PROVE  RedactionInv'
<1>. DEFINE gone == Red!ExclusivelyUnreferenced(purge.batch)
<1>. USE DEF RedactionInv, Red!DeleteBytes, Red!Enter, Red!Idle
<1>1. gone \subseteq purge.batch /\ purge.batch \subseteq Blobs
  BY DEF BatchKinds, Red!ExclusivelyUnreferenced
<1>2. \A c \in trees: Refs[c] \cap gone = {}
  BY DEF Red!ExclusivelyUnreferenced, Red!BlobReferenced
<1>3. /\ bytes' = bytes \ gone
      /\ \/ gone # {} /\ purge' = [stage |-> "stamp", batch |-> gone, left |-> Repos,
                                   phase |-> purge.phase]
         \/ purge' = [stage |-> "blobs", batch |-> {}, left |-> {}, phase |-> 2]
         \/ purge' = Red!Idle
  OBVIOUS
<1>. HIDE DEF gone
<1>4. Red!TypeOK'
  <2>1. purge.phase \in {1, 2}
    BY DEF Red!TypeOK
  <2>3. gone \in SUBSET Red!Ids
    BY <1>1
  <2>2. purge' \in RedactionPassType
    BY ONLY <1>3, <2>1, <2>3, PassTypes DEF Red!Ids
  <2>. QED  BY <1>3, <2>2 DEF Red!TypeOK, RedactionPassType
<1>5. BatchKinds' /\ BatchUnreferenced' /\ MarkBudget'
  BY <1>1, <1>2, <1>3 DEF BatchKinds, BatchUnreferenced, MarkBudget
<1>6. TreesWhole' /\ Red!PurgedIsGone'
  BY <1>2, <1>3 DEF TreesWhole, Red!PurgedIsGone
<1>. QED  BY <1>4, <1>5, <1>6

(* The membership rows and stamps of blobs touch no changeset's tombstone. *)
LEMMA CollectBlobsStep ==
    ASSUME Red!RedactionAssumption, RedactionInv, NEW r \in Repos, Red!CollectBlobsRepo(r)
    PROVE  RedactionInv'
<1>. USE DEF RedactionInv, Red!CollectBlobsRepo, Red!Enter
<1>1. Red!TypeOK'
  <2>1. tomb' \in [Repos -> [Red!Ids -> {"none", "active", "purged"}]]
    BY DEF Red!TypeOK
  <2>2. member' \in [Repos -> SUBSET Blobs]
    BY DEF Red!TypeOK
  <2>3. /\ purge.batch \in SUBSET Red!Ids /\ purge.left \ {r} \in SUBSET Repos
        /\ purge.phase \in {1, 2}
    BY DEF Red!TypeOK
  <2>4. purge' \in RedactionPassType
    BY <2>3 DEF RedactionPassType
  <2>. QED  BY <2>1, <2>2, <2>4 DEF Red!TypeOK, RedactionPassType
<1>3. BatchKinds' /\ BatchUnreferenced' /\ MarkBudget' /\ TreesWhole'
  BY DEF BatchKinds, BatchUnreferenced, MarkBudget, TreesWhole
<1>4. \A c \in RedChangesets: tomb'[Owner[c]][c] = tomb[Owner[c]][c]
  BY DEF BatchKinds, Red!TypeOK
<1>5. Red!PurgedIsGone'
  BY <1>4 DEF Red!PurgedIsGone
<1>. QED  BY <1>1, <1>3, <1>5

(* The catalog rows go of what no row references.                          *)
LEMMA CatalogStep ==
    ASSUME Red!RedactionAssumption, RedactionInv, Red!CollectBlobsCatalog
    PROVE  RedactionInv'
<1>. USE DEF RedactionInv, Red!CollectBlobsCatalog, Red!Enter, Red!Idle
<1>1. Red!TypeOK'
  <2>1. purge' \in RedactionPassType
    BY PassTypes
  <2>2. objects' \subseteq Blobs /\ touched' \subseteq objects'
    BY DEF Red!TypeOK
  <2>. QED  BY <2>1, <2>2 DEF Red!TypeOK, RedactionPassType
<1>2. BatchKinds' /\ BatchUnreferenced' /\ MarkBudget' /\ Red!PurgedIsGone'
  BY DEF BatchKinds, BatchUnreferenced, MarkBudget, Red!PurgedIsGone
<1>3. TreesWhole'
  BY DEF TreesWhole, BatchUnreferenced
<1>. QED  BY <1>1, <1>2, <1>3

LEMMA RedactionNext ==
    ASSUME Red!RedactionAssumption, RedactionInv, [Red!Next]_(Red!vars)
    PROVE  RedactionInv'
<1>1. CASE UNCHANGED Red!vars
  BY <1>1 DEF Red!vars, RedactionInv, Red!TypeOK, BatchKinds, BatchUnreferenced, MarkBudget,
              TreesWhole, Red!PurgedIsGone
<1>. QED
  BY <1>1, MarkProbeStep, RedactionMarkStep, ClientStep, CreateStep, SelectStep, CollectCsStep,
     DeleteBytesStep, CollectBlobsStep, CatalogStep
  DEF Red!Next, Red!Purging

LEMMA RedactionHolds == RedactionInv => Red!PurgeSound
BY DEF RedactionInv, Red!TypeOK, TreesWhole, Red!PurgeSound, Red!PurgeNeverDangles

(* The membership rows, the rows and the trees a step adds pass the gates, *)
(* or were the parent's.                                                   *)
LEMMA GainsNothingStep ==
    ASSUME Red!RedactionAssumption, RedactionInv, [Red!Next]_(Red!vars)
    PROVE  [\A r \in Repos, i \in Red!Ids:
              Red!RedactionActive(r, i) => Red!GainsNothing(r, i)]_(Red!vars)
<1>. SUFFICES ASSUME Red!Next, NEW r \in Repos, NEW i \in Red!Ids, Red!RedactionActive(r, i)
              PROVE  Red!GainsNothing(r, i)
  OBVIOUS
<1>0. Red!TypeOK
  BY DEF RedactionInv
<1>1. CASE \E d \in RedChangesets: Red!CreateChangeset(d)
  <2>1. PICK d \in RedChangesets: Red!CreateChangeset(d)
    BY <1>1
  <2>2. /\ csRows' = csRows \cup {d} /\ trees' = trees \cup {d}
        /\ member' = [member EXCEPT ![Owner[d]] = @ \cup Changes[d]]
        /\ RedParent[d] \in trees \cup {None}
        /\ Owner[d] = r => i \notin {d} \cup Changes[d]
    BY <2>1 DEF Red!CreateChangeset, Red!GateIds
  <2>3. i \in member'[r] => i \in member[r]
    BY <1>0, <2>2 DEF Red!TypeOK
  <2>4. Red!InTrees(trees', r, i) => Red!InTrees(trees, r, i)
    <3>1. SUFFICES ASSUME Owner[d] = r, i \in Refs[d]
                   PROVE  Red!InTrees(trees, r, i)
      BY <2>2 DEF Red!InTrees
    <3>2. RedParent[d] # None
      BY <2>2, <3>1
    <3>3. RedParent[d] \in trees /\ Owner[RedParent[d]] = r /\ i \in Refs[RedParent[d]]
      BY <2>2, <3>1, <3>2
    <3>. QED  BY <3>3 DEF Red!InTrees
  <2>. QED  BY <2>2, <2>3, <2>4 DEF Red!GainsNothing
<1>2. CASE Red!UploadRecord
  <2>1. UNCHANGED <<csRows, trees>> /\ upload.repo \in Repos
    BY <1>0, <1>2 DEF Red!UploadRecord, Red!TypeOK
  <2>2. i \in member'[r] => i \in member[r]
    <3>1. CASE UNCHANGED member
      BY <3>1
    <3>2. CASE /\ ~Red!RedactionActive(upload.repo, upload.blob)
               /\ member' = [member EXCEPT ![upload.repo] = @ \cup {upload.blob}]
      <4>1. upload.repo # r \/ upload.blob # i
        BY <3>2
      <4>2. member \in [Repos -> SUBSET Blobs]
        BY <1>0 DEF Red!TypeOK
      <4>. QED  BY <2>1, <3>2, <4>1, <4>2
    <3>. QED  BY <1>2, <3>1, <3>2 DEF Red!UploadRecord
  <2>. QED  BY <2>1, <2>2 DEF Red!GainsNothing
<1>3. CASE \E q \in Repos: Red!CollectCsRepo(q)
  BY <1>3 DEF Red!CollectCsRepo, Red!GainsNothing
<1>4. CASE \E q \in Repos: Red!CollectBlobsRepo(q)
  BY <1>0, <1>4 DEF Red!CollectBlobsRepo, Red!GainsNothing, Red!TypeOK
<1>5. CASE Red!SweepTrees
  <2>1. UNCHANGED <<csRows, member>> /\ trees' \subseteq trees
    BY <1>0, <1>5 DEF Red!SweepTrees, Red!TypeOK
  <2>. QED  BY <2>1 DEF Red!GainsNothing, Red!InTrees
<1>6. CASE UNCHANGED <<csRows, trees, member>>
  BY <1>6 DEF Red!GainsNothing
<1>. QED
  BY <1>1, <1>2, <1>3, <1>4, <1>5, <1>6
  DEF Red!Next, Red!Purging, Red!MarkProbe, Red!RedactionMark, Red!UploadProbe, Red!UploadPut,
      Red!MoveRef, Red!GraceEnds, Red!Crash, Red!PurgeStart, Red!SelectCs, Red!DeleteBytes,
      Red!CollectBlobsCatalog, Red!SelectBlobs

HIDE DEF Red!RedactionAssumption, Red!Ids, Red!Stages

-----------------------------------------------------------------------------
(* The derive queue.                                                       *)

(* A server that is down holds nothing in memory.                          *)
DownIdle == ~up => inflight = None /\ queue = Queue!Idle

(* The create in flight has its row, no mark, and nothing derived yet.     *)
InFlight ==
    inflight # None => inflight \in changesets \ csMarks /\ row[inflight] = None

(* What a derive row r of changeset c with n strikes keeps: it outlives    *)
(* its changeset only where a mark let the collector take it, an attempt   *)
(* is left while it waits, and the four promises of QueueSound row by row. *)
RowGood(c, r, n) ==
    r # None =>
        /\ c \in changesets \cup csMarks
        /\ Queue!Waiting(r) => c \in changesets /\ r.attempts < MaxAttempts
        /\ r.attempts <= n
        /\ r.state = "done" /\ ~r.exact => r.tainted

RowsGood == \A c \in Changesets: RowGood(c, row[c], strikes[c])

Holding == {"leased", "derived", "release"}

(* The row of the node the pass works on has an attempt left; it is absent *)
(* only when the collector took it meanwhile.                              *)
LeaseBudget ==
    queue.pc \in Holding =>
        /\ row[queue.cs] = None => queue.cs \in csMarks
        /\ row[queue.cs] # None => row[queue.cs].attempts < MaxAttempts

(* What the deriver computed of a hole, it computed as tainted.            *)
OutputTaint == queue.pc = "derived" /\ ~queue.exact => queue.tainted

QueuePassType == [pc: {"idle", "pick", "picked", "leased", "derived", "release"},
             cs: Changesets \cup {None}, outcome: Queue!Outcomes \cup {None},
             tainted: BOOLEAN, exact: BOOLEAN]

(* While the marker is set, and from the probe that lets the backfill set  *)
(* it on, a changeset without a row is in flight or its enqueue failed.    *)
Covered ==
    up /\ (marker \/ backfill = "mark") => Queue!Rowless \subseteq {inflight} \cup unqueued

QueueInv == /\ Queue!TypeOK
       /\ queue \in QueuePassType
       /\ DownIdle
       /\ InFlight
       /\ RowsGood
       /\ LeaseBudget
       /\ OutputTaint
       /\ Covered

USE DEF Queue!DeriveAssumption

(* The statements.                                                         *)

LEMMA QueuePassTypes ==
    /\ Queue!Idle \in QueuePassType /\ Queue!Idle.pc = "idle"
    /\ [Queue!Idle EXCEPT !.pc = "pick"] \in QueuePassType
    /\ \A c \in Changesets: [Queue!Idle EXCEPT !.pc = "picked", !.cs = c] \in QueuePassType
BY DEF Queue!Idle, QueuePassType

LEMMA FreshRow ==
    ASSUME Queue!DeriveAssumption, NEW st \in {"pending", "deriving", "done", "poison"}
    PROVE  /\ Queue!Fresh(st) \in Queue!Row
           /\ Queue!Fresh(st).attempts = 0 /\ Queue!Fresh(st).state = st
BY DEF Queue!Fresh, Queue!Row

LEMMA OutputRow ==
    ASSUME Queue!DeriveAssumption, NEW t \in BOOLEAN, NEW e \in BOOLEAN,
           NEW r, r = [Queue!Fresh("done") EXCEPT !.tainted = t, !.exact = e]
    PROVE  r \in Queue!Row /\ r.state = "done" /\ r.attempts = 0 /\ r.tainted = t /\ r.exact = e
<1>1. /\ Queue!Fresh("done") \in Queue!Row
      /\ Queue!Fresh("done").attempts = 0 /\ Queue!Fresh("done").state = "done"
  BY FreshRow
<1>. QED  BY <1>1 DEF Queue!Row

(* An attempt is charged within the budget, and to a strike.               *)
LEMMA FailAttemptGood ==
    ASSUME Queue!DeriveAssumption, NEW c \in Changesets,
           NEW r \in Queue!Row \cup {None}, NEW n \in Nat,
           RowGood(c, r, n), r # None => r.attempts < MaxAttempts
    PROVE  /\ Queue!FailAttempt(r, c) \in Queue!Row \cup {None}
           /\ Queue!FailAttempt(r, c) = None => r = None /\ c \notin changesets
           /\ RowGood(c, Queue!FailAttempt(r, c), n + 1)
<1>. DEFINE a == 1 + IF r = None THEN 0 ELSE r.attempts
            s == IF a >= MaxAttempts THEN "poison" ELSE "pending"
<1>1. CASE c \notin changesets
  <2>1. Queue!FailAttempt(r, c) = r
    BY <1>1 DEF Queue!FailAttempt
  <2>2. RowGood(c, r, n + 1)
    BY DEF RowGood, Queue!Row
  <2>. QED  BY <1>1, <2>1, <2>2
<1>2. CASE c \in changesets
  <2>1. /\ a \in 1..MaxAttempts /\ a <= n + 1
        /\ s \in {"pending", "poison"} /\ (s = "pending" => a < MaxAttempts)
    BY DEF RowGood, Queue!Row
  <2>2. Queue!FailAttempt(r, c) = [state |-> s, attempts |-> a, tainted |-> FALSE, exact |-> FALSE]
    BY <1>2 DEF Queue!FailAttempt, Queue!Fresh
  <2>. HIDE DEF a, s
  <2>3. Queue!FailAttempt(r, c) \in Queue!Row
    BY <2>1, <2>2 DEF Queue!Row
  <2>4. RowGood(c, Queue!FailAttempt(r, c), n + 1)
    BY <1>2, <2>1, <2>2 DEF RowGood, Queue!Waiting
  <2>. QED  BY <2>3, <2>4
<1>. QED  BY <1>1, <1>2

(* A quarantine needs only that the changeset is known.                    *)
LEMMA PoisonGood ==
    ASSUME Queue!DeriveAssumption, NEW c \in Changesets,
           NEW r \in Queue!Row \cup {None}, NEW n \in Nat,
           RowGood(c, r, n), r = None => c \in changesets \cup csMarks
    PROVE  Queue!PoisonNow(r) \in Queue!Row /\ RowGood(c, Queue!PoisonNow(r), n)
<1>1. CASE r = None
  BY <1>1, FreshRow DEF Queue!PoisonNow, RowGood, Queue!Waiting, Queue!Fresh
<1>2. CASE r # None
  <2>1. Queue!PoisonNow(r) = [r EXCEPT !.state = "poison"]
    BY <1>2 DEF Queue!PoisonNow
  <2>. QED  BY <1>2, <2>1 DEF RowGood, Queue!Waiting, Queue!Row
<1>. QED  BY <1>1, <1>2

(* The taint a deriver reads off the parents' rows covers every hole: a    *)
(* settled parent that is not exact is quarantined or tainted itself.      *)
LEMMA TaintCovers ==
    ASSUME Queue!DeriveAssumption, Queue!TypeOK, RowsGood, NEW c \in Changesets
    PROVE  /\ Queue!CollapseTaint(c) \in BOOLEAN /\ Queue!ParentOutputsExact(c) \in BOOLEAN
           /\ ~Queue!ParentOutputsExact(c) => Queue!CollapseTaint(c)
<1>1. Queue!CollapseTaint(c) \in BOOLEAN /\ Queue!ParentOutputsExact(c) \in BOOLEAN
  BY DEF Queue!CollapseTaint, Queue!ParentOutputsExact
<1>2. ASSUME NEW p \in Parents[c], row[p] # None, ~Queue!Waiting(row[p]),
             ~(row[p].state = "done" /\ row[p].exact)
      PROVE  Queue!CollapseTaint(c)
  <2>1. p \in Changesets /\ row[p] \in Queue!Row
    BY <1>2 DEF Queue!TypeOK
  <2>2. row[p].state \in {"done", "poison"} /\ (row[p].state = "done" => row[p].tainted)
    BY <1>2, <2>1 DEF Queue!Row, Queue!Waiting, RowsGood, RowGood
  <2>. QED  BY <1>2, <2>2 DEF Queue!CollapseTaint
<1>. QED  BY <1>1, <1>2 DEF Queue!ParentOutputsExact

(* One row is written, in a hold of the slot or by the create in flight.   *)
LEMMA RowUpdate ==
    ASSUME Queue!DeriveAssumption, QueueInv, NEW c \in Changesets, NEW r \in Queue!Row \cup {None},
           row' = [row EXCEPT ![c] = r],
           r = None => row[c] = None /\ inflight = None,
           inflight \in {None, c}, inflight' = None,
           UNCHANGED <<up, changesets, marker, unqueued, backfill, csMarks>>,
           strikes' \in [Changesets -> Nat],
           \A d \in Changesets: strikes[d] <= strikes'[d],
           RowGood(c, r, strikes'[c])
    PROVE  /\ row' \in [Changesets -> Queue!Row \cup {None}]
           /\ InFlight' /\ RowsGood' /\ Covered'
<1>. USE DEF QueueInv
<1>1. row' \in [Changesets -> Queue!Row \cup {None}] /\ row'[c] = r
  BY DEF Queue!TypeOK
<1>2. InFlight'
  BY DEF InFlight
<1>3. RowsGood'
  <2>. SUFFICES ASSUME NEW d \in Changesets
                PROVE  RowGood(d, row[d], strikes[d])'
    BY DEF RowsGood
  <2>1. CASE d = c
    BY <1>1, <2>1 DEF RowGood, Queue!Waiting
  <2>2. CASE d # c
    <3>1. row'[d] = row[d] /\ RowGood(d, row[d], strikes[d])
      BY <2>2 DEF Queue!TypeOK, RowsGood
    <3>2. strikes[d] \in Nat /\ strikes'[d] \in Nat /\ strikes[d] <= strikes'[d]
      BY DEF Queue!TypeOK
    <3>3. row[d] # None => row[d].attempts \in Nat
      BY DEF Queue!TypeOK, Queue!Row
    <3>4. row[d] # None => row[d].attempts <= strikes[d]
      BY <3>1 DEF RowGood
    <3>5. row[d] # None => row[d].attempts <= strikes'[d]
      BY ONLY <3>2, <3>3, <3>4
    <3>. QED  BY <3>1, <3>5 DEF RowGood, Queue!Waiting
  <2>. QED  BY <2>1, <2>2
<1>4. Covered'
  BY <1>1 DEF Covered, Queue!Rowless, Queue!TypeOK
<1>. QED  BY <1>1, <1>2, <1>3, <1>4

(* The rows stay and changesets come.                                      *)
LEMMA RowsKept ==
    ASSUME RowsGood, UNCHANGED <<row, strikes, csMarks>>, changesets \subseteq changesets'
    PROVE  RowsGood'
BY DEF RowsGood, RowGood, Queue!Waiting

(* The steps.                                                              *)

LEMMA QueueInit ==
    ASSUME Queue!DeriveAssumption, Queue!Init
    PROVE  QueueInv
<1>1. queue \in QueuePassType /\ queue.pc = "idle" /\ queue.outcome = None
  BY QueuePassTypes DEF Queue!Init, Queue!Idle
<1>2. Queue!TypeOK
  <2>1. row \in [Changesets -> Queue!Row \cup {None}] /\ strikes \in [Changesets -> Nat]
    BY DEF Queue!Init
  <2>2. faults \in 0..MaxFaults
    BY DEF Queue!Init
  <2>. QED  BY <1>1, <2>1, <2>2 DEF Queue!Init, Queue!TypeOK
<1>3. DownIdle /\ Covered /\ InFlight
  <2>1. ~up /\ inflight = None /\ queue = Queue!Idle
    BY DEF Queue!Init
  <2>. QED  BY <2>1, Zenon DEF DownIdle, Covered, InFlight
<1>4. RowsGood /\ LeaseBudget /\ OutputTaint
  BY <1>1 DEF Queue!Init, RowsGood, RowGood, LeaseBudget, Holding, OutputTaint
<1>. QED  BY <1>1, <1>2, <1>3, <1>4 DEF QueueInv

(* The server and its writers, as long as they write no derive row.        *)
LEMMA ServerStep ==
    ASSUME Queue!DeriveAssumption, QueueInv,
           \/ \E c \in Changesets: Queue!Import(c) \/ Queue!CreateInsert(c)
           \/ Queue!Boot \/ Queue!EnqueueFails \/ Queue!Crash
    PROVE  QueueInv'
<1>. USE DEF QueueInv
<1>1. CASE \E c \in Changesets: Queue!Import(c)
  <2>1. ~up /\ ~up' /\ UNCHANGED <<inflight, queue>>
    BY <1>1 DEF Queue!Import
  <2>2. RowsGood'
    BY <1>1, RowsKept DEF Queue!Import
  <2>3. Covered' /\ DownIdle'
    BY <2>1, Zenon DEF Covered, DownIdle
  <2>4. Queue!TypeOK'
    BY <1>1 DEF Queue!Import, Queue!TypeOK
  <2>. QED
    BY <1>1, <2>1, <2>2, <2>3, <2>4 DEF Queue!Import, InFlight, LeaseBudget, OutputTaint
<1>2. CASE \E c \in Changesets: Queue!CreateInsert(c)
  <2>1. PICK c \in Changesets: Queue!CreateInsert(c)
    BY <1>2
  <2>2. RowsGood'
    BY <2>1, RowsKept DEF Queue!CreateInsert
  <2>3. row[c] = None
    BY <2>1 DEF Queue!CreateInsert, RowsGood, RowGood
  <2>4. Covered'
    BY <2>1 DEF Queue!CreateInsert, Covered, Queue!Rowless, Queue!TypeOK
  <2>. QED
    BY <2>1, <2>2, <2>3, <2>4
    DEF Queue!CreateInsert, Queue!TypeOK, DownIdle, InFlight, LeaseBudget, OutputTaint
<1>3. CASE Queue!Boot
  <2>1. RowsGood'
    BY <1>3, RowsKept DEF Queue!Boot
  <2>. QED
    BY <1>3, <2>1
    DEF Queue!Boot, Queue!TypeOK, DownIdle, InFlight, LeaseBudget, OutputTaint, Covered
<1>4. CASE Queue!EnqueueFails
  <2>1. RowsGood'
    BY <1>4, RowsKept DEF Queue!EnqueueFails
  <2>2. faults' \in 0..MaxFaults
    BY <1>4 DEF Queue!EnqueueFails, Queue!TypeOK
  <2>3. Queue!TypeOK'
    BY <1>4, <2>2 DEF Queue!EnqueueFails, Queue!TypeOK
  <2>4. Covered'
    BY <1>4 DEF Queue!EnqueueFails, Covered, Queue!Rowless
  <2>. QED
    BY <1>4, <2>1, <2>3, <2>4
    DEF Queue!EnqueueFails, DownIdle, InFlight, LeaseBudget, OutputTaint
<1>5. CASE Queue!Crash
  <2>1. RowsGood'
    BY <1>5, RowsKept DEF Queue!Crash
  <2>2. queue' \in QueuePassType /\ queue'.pc = "idle" /\ queue'.outcome = None
    BY <1>5, QueuePassTypes DEF Queue!Crash, Queue!Idle
  <2>3. faults' \in 0..MaxFaults
    BY <1>5 DEF Queue!Crash, Queue!TypeOK
  <2>4. Queue!TypeOK'
    BY <1>5, <2>2, <2>3 DEF Queue!Crash, Queue!TypeOK
  <2>. QED
    BY <1>5, <2>1, <2>2, <2>4
    DEF Queue!Crash, DownIdle, InFlight, LeaseBudget, Holding, OutputTaint, Covered
<1>. QED  BY <1>1, <1>2, <1>3, <1>4, <1>5

(* The backfill's end: it reads that no row is missing before it says so,  *)
(* and what comes without a row from then on is in flight or failed.       *)
LEMMA BackfillEndStep ==
    ASSUME Queue!DeriveAssumption, QueueInv,
           \/ Queue!BackfillEnds \/ Queue!BackfillProbe \/ Queue!BackfillMark
           \/ Queue!BackfillGivesUp
    PROVE  QueueInv'
<1>. USE DEF QueueInv
<1>1. /\ UNCHANGED <<up, eager, imports, changesets, row, inflight, unqueued, queue, csMarks,
                     strikes>>
      /\ backfill' \in {"off", "probe", "mark", "done"} /\ cursor' \in {0, cursor}
  BY DEF Queue!BackfillEnds, Queue!BackfillProbe, Queue!BackfillMark, Queue!BackfillGivesUp
<1>2. RowsGood' /\ DownIdle' /\ InFlight' /\ LeaseBudget' /\ OutputTaint'
  BY <1>1, RowsKept DEF DownIdle, InFlight, LeaseBudget, OutputTaint
<1>3. marker' \in BOOLEAN /\ faults' \in 0..MaxFaults
  <2>1. CASE Queue!BackfillEnds \/ Queue!BackfillProbe \/ Queue!BackfillMark
    BY <2>1 DEF Queue!BackfillEnds, Queue!BackfillProbe, Queue!BackfillMark, Queue!TypeOK
  <2>2. CASE Queue!BackfillGivesUp
    BY <2>2 DEF Queue!BackfillGivesUp, Queue!TypeOK
  <2>. QED  BY <2>1, <2>2
<1>4. Queue!TypeOK'
  BY <1>1, <1>3 DEF Queue!TypeOK
<1>5. Queue!Rowless' = Queue!Rowless
  BY <1>1 DEF Queue!Rowless
<1>6. \/ Queue!Rowless = {}
      \/ (marker' \/ backfill' = "mark") => (marker \/ backfill = "mark")
  BY DEF Queue!BackfillEnds, Queue!BackfillProbe, Queue!BackfillMark, Queue!BackfillGivesUp
<1>7. Covered'
  BY <1>1, <1>5, <1>6 DEF Covered
<1>. QED  BY <1>1, <1>2, <1>4, <1>7

(* The steps of the pass that write no row.                                *)
LEMMA QueuePassStep ==
    ASSUME Queue!DeriveAssumption, QueueInv,
           Queue!Pick \/ Queue!Derive \/ Queue!Busy \/ Queue!LeaveLease
    PROVE  QueueInv'
<1>. USE DEF QueueInv
<1>1. /\ UNCHANGED <<up, eager, imports, changesets, row, marker, inflight, unqueued, backfill,
                     cursor, csMarks, strikes>>
      /\ up
  BY DEF Queue!Pick, Queue!Derive, Queue!Busy, Queue!LeaveLease
<1>2. InFlight' /\ Covered' /\ RowsGood' /\ DownIdle'
  BY <1>1, RowsKept DEF InFlight, Covered, Queue!Rowless, DownIdle
<1>3. faults' \in 0..MaxFaults
  <2>1. Queue!Pick \/ Queue!Derive \/ Queue!Busy => faults' = faults
    BY DEF Queue!Pick, Queue!Derive, Queue!Busy
  <2>2. Queue!LeaveLease => faults < MaxFaults /\ faults' = faults + 1
    BY DEF Queue!LeaveLease
  <2>. QED  BY <2>1, <2>2 DEF Queue!TypeOK
<1>4. /\ queue' \in QueuePassType
      /\ queue'.pc \in {"picked", "leased", "derived", "release"} => queue'.cs \in Changesets
      /\ LeaseBudget' /\ OutputTaint'
  <2>1. CASE Queue!Pick
    BY <1>1, <2>1, QueuePassTypes
    DEF Queue!Pick, Queue!PickNext, Queue!Idle, LeaseBudget, Holding, OutputTaint
  <2>2. CASE Queue!Derive
    <3>1. queue.cs \in Changesets /\ queue.pc = "leased"
      BY <2>2 DEF Queue!Derive, Queue!TypeOK
    <3>2. PICK o \in Queue!Outcomes:
             queue' = [queue EXCEPT !.pc = "derived", !.outcome = o,
                            !.tainted = Queue!CollapseTaint(queue.cs),
                            !.exact = Queue!ParentOutputsExact(queue.cs)]
      BY <2>2 DEF Queue!Derive, Queue!Outcomes
    <3>3. /\ queue' \in QueuePassType /\ queue'.cs = queue.cs /\ queue'.pc = "derived"
          /\ queue'.tainted = Queue!CollapseTaint(queue.cs)
          /\ queue'.exact = Queue!ParentOutputsExact(queue.cs)
      BY <3>1, <3>2, TaintCovers DEF QueuePassType
    <3>4. OutputTaint'
      BY <3>1, <3>3, TaintCovers DEF OutputTaint
    <3>. QED  BY <1>1, <3>1, <3>3, <3>4 DEF LeaseBudget, Holding
  <2>3. CASE Queue!Busy
    <3>1. CASE queue.pc = "picked"
      BY <2>3, <3>1, QueuePassTypes DEF Queue!Busy, Queue!Idle, LeaseBudget, Holding, OutputTaint
    <3>2. CASE queue.pc # "picked"
      <4>1. queue' = [queue EXCEPT !.pc = "release"] /\ queue.pc \in {"leased", "derived"}
        BY <2>3, <3>2 DEF Queue!Busy
      <4>. QED
        BY <1>1, <4>1 DEF QueuePassType, Queue!TypeOK, LeaseBudget, Holding, OutputTaint
    <3>. QED  BY <3>1, <3>2
  <2>4. CASE Queue!LeaveLease
    BY <2>4, QueuePassTypes DEF Queue!LeaveLease, Queue!Idle, LeaseBudget, Holding, OutputTaint
  <2>. QED  BY <2>1, <2>2, <2>3, <2>4
<1>5. Queue!TypeOK'
  BY <1>1, <1>3, <1>4 DEF Queue!TypeOK, QueuePassType
<1>. QED  BY <1>2, <1>4, <1>5

(* The create in flight writes the first row of its changeset.             *)
LEMMA EnqueueStep ==
    ASSUME Queue!DeriveAssumption, QueueInv, Queue!EnqueueChangeset
    PROVE  QueueInv'
<1>. DEFINE c == inflight
<1>. USE DEF QueueInv
<1>1. /\ c \in Changesets /\ c \in changesets /\ c \notin csMarks /\ row[c] = None
      /\ UNCHANGED <<up, eager, imports, changesets, marker, unqueued, backfill, cursor, queue,
                     csMarks, faults>>
      /\ inflight' = None /\ up
  BY DEF Queue!EnqueueChangeset, InFlight, Queue!TypeOK
<1>2. strikes[c] \in Nat /\ RowGood(c, None, strikes[c])
  BY <1>1 DEF Queue!TypeOK, RowGood
<1>3. \E r \in Queue!Row:
         /\ row' = [row EXCEPT ![c] = r]
         /\ \/ strikes' = strikes /\ RowGood(c, r, strikes[c])
            \/ /\ strikes' = [strikes EXCEPT ![c] = @ + 1]
               /\ RowGood(c, r, strikes[c] + 1)
  <2>1. CASE ~eager
    <3>1. row' = [row EXCEPT ![c] = Queue!Fresh("pending")] /\ strikes' = strikes
      BY <1>1, <2>1 DEF Queue!EnqueueChangeset
    <3>2. Queue!Fresh("pending") \in Queue!Row /\ RowGood(c, Queue!Fresh("pending"), strikes[c])
      BY <1>1, <1>2, FreshRow DEF RowGood
    <3>. QED  BY <3>1, <3>2
  <2>2. CASE eager
    <3>. DEFINE output == [Queue!Fresh("done") EXCEPT !.tainted = Queue!CollapseTaint(c),
                                                !.exact = Queue!ParentOutputsExact(c)]
    <3>1. \/ row' = [row EXCEPT ![c] = output] /\ strikes' = strikes
          \/ row' = [row EXCEPT ![c] = Queue!PoisonNow(None)] /\ strikes' = strikes
          \/ /\ row' = [row EXCEPT ![c] = Queue!FailAttempt(None, c)]
             /\ strikes' = [strikes EXCEPT ![c] = @ + 1]
      BY <1>1, <2>2 DEF Queue!EnqueueChangeset
    <3>2. output \in Queue!Row /\ RowGood(c, output, strikes[c])
      <4>1. /\ Queue!CollapseTaint(c) \in BOOLEAN /\ Queue!ParentOutputsExact(c) \in BOOLEAN
            /\ ~Queue!ParentOutputsExact(c) => Queue!CollapseTaint(c)
        BY <1>1, TaintCovers
      <4>2. /\ output \in Queue!Row /\ output.state = "done" /\ output.attempts = 0
            /\ output.tainted = Queue!CollapseTaint(c) /\ output.exact = Queue!ParentOutputsExact(c)
        BY <4>1, OutputRow
      <4>. HIDE DEF output
      <4>. QED  BY <1>1, <1>2, <4>1, <4>2 DEF RowGood, Queue!Waiting
    <3>3. Queue!PoisonNow(None) \in Queue!Row /\ RowGood(c, Queue!PoisonNow(None), strikes[c])
      BY <1>1, <1>2, PoisonGood
    <3>4. /\ Queue!FailAttempt(None, c) \in Queue!Row
          /\ RowGood(c, Queue!FailAttempt(None, c), strikes[c] + 1)
      BY <1>1, <1>2, FailAttemptGood
    <3>. HIDE DEF output
    <3>. QED  BY <3>1, <3>2, <3>3, <3>4
  <2>. QED  BY <2>1, <2>2 DEF Queue!TypeOK
<1>4. PICK r \in Queue!Row:
         /\ row' = [row EXCEPT ![c] = r]
         /\ \/ strikes' = strikes /\ RowGood(c, r, strikes[c])
            \/ /\ strikes' = [strikes EXCEPT ![c] = @ + 1]
               /\ RowGood(c, r, strikes[c] + 1)
  BY <1>3
<1>5. /\ strikes' \in [Changesets -> Nat] /\ RowGood(c, r, strikes'[c])
      /\ \A d \in Changesets: strikes[d] <= strikes'[d]
  BY <1>1, <1>4 DEF Queue!TypeOK
<1>6. r # None
  BY DEF Queue!Row
<1>7. /\ row' \in [Changesets -> Queue!Row \cup {None}]
      /\ InFlight' /\ RowsGood' /\ Covered'
  BY <1>1, <1>4, <1>5, <1>6, RowUpdate
<1>8. Queue!TypeOK'
  BY <1>1, <1>5, <1>7 DEF Queue!TypeOK
<1>9. LeaseBudget' /\ OutputTaint' /\ DownIdle'
  BY <1>1, <1>4 DEF LeaseBudget, Holding, OutputTaint, DownIdle, Queue!TypeOK
<1>. QED  BY <1>1, <1>7, <1>8, <1>9

(* A mark poisons the row it finds.                                        *)
LEMMA QueueMarkStep ==
    ASSUME Queue!DeriveAssumption, QueueInv, NEW c \in Changesets, Queue!RedactionMark(c)
    PROVE  QueueInv'
<1>. DEFINE r == IF row[c] = None THEN None ELSE [row[c] EXCEPT !.state = "poison"]
<1>. USE DEF QueueInv
<1>1. /\ row' = [row EXCEPT ![c] = r] /\ csMarks' = csMarks \cup {c} /\ c \in changesets
      /\ inflight = None
      /\ UNCHANGED <<up, eager, imports, changesets, marker, inflight, unqueued, backfill, cursor,
                     queue, strikes, faults>>
  BY DEF Queue!RedactionMark
<1>2. /\ r \in Queue!Row \cup {None} /\ (r = None <=> row[c] = None)
      /\ r # None => ~Queue!Waiting(r) /\ r.state = "poison" /\ r.attempts = row[c].attempts
  BY DEF Queue!TypeOK, Queue!Row, Queue!Waiting
<1>. HIDE DEF r
<1>3. Queue!TypeOK'
  BY <1>1, <1>2 DEF Queue!TypeOK
<1>4. \A d \in Changesets: row'[d] = IF d = c THEN r ELSE row[d]
  BY <1>1 DEF Queue!TypeOK
<1>5. RowsGood'
  BY <1>1, <1>2, <1>4 DEF RowsGood, RowGood, Queue!Waiting
<1>6. InFlight' /\ OutputTaint' /\ DownIdle'
  BY <1>1 DEF InFlight, OutputTaint, DownIdle
<1>7. Covered'
  BY <1>1, <1>2, <1>4 DEF Covered, Queue!Rowless, Queue!TypeOK
<1>8. LeaseBudget'
  BY <1>1, <1>2, <1>4 DEF LeaseBudget, Holding, Queue!TypeOK
<1>. QED  BY <1>1, <1>3, <1>5, <1>6, <1>7, <1>8

(* The collector takes the row with the changeset.                         *)
LEMMA CollectStep ==
    ASSUME Queue!DeriveAssumption, QueueInv, NEW c \in Changesets, Queue!Collect(c)
    PROVE  QueueInv'
<1>. USE DEF QueueInv
<1>1. /\ row' = [row EXCEPT ![c] = None] /\ c \in csMarks /\ changesets' = changesets \ {c}
      /\ inflight = None
      /\ UNCHANGED <<up, eager, imports, marker, inflight, unqueued, backfill, cursor, queue,
                     csMarks, strikes, faults>>
  BY DEF Queue!Collect
<1>2. Queue!TypeOK'
  BY <1>1 DEF Queue!TypeOK
<1>3. \A d \in Changesets: row'[d] = IF d = c THEN None ELSE row[d]
  BY <1>1 DEF Queue!TypeOK
<1>4. RowsGood'
  BY <1>1, <1>3 DEF RowsGood, RowGood, Queue!Waiting
<1>5. InFlight' /\ OutputTaint' /\ DownIdle'
  BY <1>1 DEF InFlight, OutputTaint, DownIdle
<1>6. Covered'
  BY <1>1, <1>3 DEF Covered, Queue!Rowless, Queue!TypeOK
<1>7. LeaseBudget'
  BY <1>1, <1>3 DEF LeaseBudget, Holding, Queue!TypeOK
<1>. QED  BY <1>1, <1>2, <1>4, <1>5, <1>6, <1>7

(* The backfill writes the first row of a changeset that has none.         *)
LEMMA BackfillStep ==
    ASSUME Queue!DeriveAssumption, QueueInv, Queue!BackfillBatch
    PROVE  QueueInv'
<1>. USE DEF QueueInv
<1>1. /\ UNCHANGED <<up, eager, imports, changesets, marker, inflight, unqueued, backfill, queue,
                     csMarks, strikes, faults>>
      /\ inflight = None
  BY DEF Queue!BackfillBatch
<1>2. PICK c \in Queue!Ahead:
         row' = [row EXCEPT ![c] = Queue!Fresh("pending")] /\ cursor' = Generation[c]
  BY DEF Queue!BackfillBatch
<1>3. c \in Changesets /\ c \in changesets /\ row[c] = None /\ cursor' \in Nat
  BY <1>2 DEF Queue!Ahead, Queue!Rowless, Queue!TypeOK
<1>4. /\ Queue!Fresh("pending") \in Queue!Row /\ Queue!Fresh("pending") # None
      /\ RowGood(c, Queue!Fresh("pending"), strikes[c]) /\ Queue!Fresh("pending").attempts = 0
  BY <1>3, FreshRow DEF RowGood, Queue!TypeOK
<1>5. /\ row' \in [Changesets -> Queue!Row \cup {None}]
      /\ InFlight' /\ RowsGood' /\ Covered'
  <2>1. strikes' \in [Changesets -> Nat] /\ \A d \in Changesets: strikes[d] <= strikes'[d]
    BY <1>1 DEF Queue!TypeOK
  <2>. QED  BY <1>1, <1>2, <1>3, <1>4, <2>1, RowUpdate
<1>6. Queue!TypeOK'
  BY <1>1, <1>3, <1>5 DEF Queue!TypeOK
<1>7. LeaseBudget' /\ OutputTaint' /\ DownIdle'
  BY <1>1, <1>2, <1>3, <1>4 DEF LeaseBudget, Holding, OutputTaint, DownIdle, Queue!TypeOK
<1>. QED  BY <1>1, <1>5, <1>6, <1>7

(* The lease is taken over a pending row, which has an attempt left.       *)
LEMMA LeaseStep ==
    ASSUME Queue!DeriveAssumption, QueueInv, Queue!Lease
    PROVE  QueueInv'
<1>. DEFINE c == queue.cs
<1>. USE DEF QueueInv
<1>1. /\ c \in Changesets /\ row[c] \in Queue!Row \cup {None} /\ up /\ inflight = None
      /\ UNCHANGED <<up, eager, imports, changesets, marker, inflight, unqueued, backfill, cursor,
                     csMarks, strikes, faults>>
  BY DEF Queue!Lease, Queue!TypeOK
<1>2. DownIdle'
  BY <1>1 DEF DownIdle
<1>3. CASE row[c] # None /\ row[c].state = "pending"
  <2>. DEFINE r == [row[c] EXCEPT !.state = "deriving"]
  <2>1. row' = [row EXCEPT ![c] = r] /\ queue' = [queue EXCEPT !.pc = "leased"]
    BY <1>1, <1>3 DEF Queue!Lease, Queue!TypeOK
  <2>2. /\ r \in Queue!Row /\ r.attempts = row[c].attempts /\ r.state = "deriving"
        /\ Queue!Waiting(row[c])
    BY <1>1, <1>3 DEF Queue!Row, Queue!Waiting
  <2>. HIDE DEF r
  <2>3. r # None /\ RowGood(c, r, strikes[c]) /\ r.attempts < MaxAttempts
    BY <1>1, <1>3, <2>2 DEF RowGood, RowsGood
  <2>4. strikes' \in [Changesets -> Nat] /\ \A d \in Changesets: strikes[d] <= strikes'[d]
    BY <1>1 DEF Queue!TypeOK
  <2>5. /\ row' \in [Changesets -> Queue!Row \cup {None}]
        /\ InFlight' /\ RowsGood' /\ Covered'
    BY <1>1, <2>1, <2>2, <2>3, <2>4, RowUpdate
  <2>6. queue' \in QueuePassType /\ queue'.pc = "leased" /\ queue'.cs = c
    BY <2>1 DEF QueuePassType
  <2>7. Queue!TypeOK'
    BY <1>1, <2>5, <2>6 DEF Queue!TypeOK, QueuePassType
  <2>8. LeaseBudget' /\ OutputTaint'
    BY <1>1, <2>1, <2>3, <2>6 DEF LeaseBudget, Holding, OutputTaint, Queue!TypeOK
  <2>. QED  BY <1>2, <2>5, <2>6, <2>7, <2>8
<1>4. CASE ~(row[c] # None /\ row[c].state = "pending")
  <2>1. row' = row /\ queue' = [Queue!Idle EXCEPT !.pc = "pick"]
    BY <1>1, <1>4 DEF Queue!Lease
  <2>2. queue' \in QueuePassType /\ queue'.pc = "pick"
    BY <2>1, QueuePassTypes DEF Queue!Idle
  <2>3. Queue!TypeOK'
    BY <1>1, <2>1, <2>2 DEF Queue!TypeOK, QueuePassType
  <2>4. RowsGood' /\ InFlight' /\ Covered'
    BY <1>1, <2>1, RowsKept DEF InFlight, Covered, Queue!Rowless
  <2>. QED  BY <1>2, <2>2, <2>3, <2>4 DEF LeaseBudget, Holding, OutputTaint
<1>. QED  BY <1>3, <1>4

(* The pass, or the sweep for it, writes its node's row and lets go.       *)
LEMMA PassEnds ==
    ASSUME Queue!DeriveAssumption, QueueInv, NEW c \in Changesets, NEW r \in Queue!Row \cup {None},
           row' = [row EXCEPT ![c] = r], r = None => row[c] = None,
           up, inflight = None, queue' \in QueuePassType, queue'.pc \in {"idle", "pick"},
           UNCHANGED <<up, eager, imports, changesets, marker, inflight, unqueued, backfill,
                       cursor, csMarks, faults>>,
           \/ strikes' = strikes /\ RowGood(c, r, strikes[c])
           \/ /\ strikes' = [strikes EXCEPT ![c] = @ + 1]
              /\ RowGood(c, r, strikes[c] + 1)
    PROVE  QueueInv'
<1>. USE DEF QueueInv
<1>1. /\ strikes' \in [Changesets -> Nat] /\ RowGood(c, r, strikes'[c])
      /\ \A d \in Changesets: strikes[d] <= strikes'[d]
  BY DEF Queue!TypeOK
<1>2. /\ row' \in [Changesets -> Queue!Row \cup {None}]
      /\ InFlight' /\ RowsGood' /\ Covered'
  BY <1>1, RowUpdate
<1>3. Queue!TypeOK'
  BY <1>1, <1>2 DEF Queue!TypeOK, QueuePassType
<1>. QED  BY <1>2, <1>3 DEF DownIdle, LeaseBudget, Holding, OutputTaint

LEMMA SweepStep ==
    ASSUME Queue!DeriveAssumption, QueueInv, Queue!SweepExpired
    PROVE  QueueInv'
<1>. USE DEF QueueInv
<1>1. /\ up /\ inflight = None /\ queue.pc = "idle"
      /\ UNCHANGED <<up, eager, imports, changesets, marker, inflight, unqueued, backfill, cursor,
                     queue, csMarks, faults>>
  BY DEF Queue!SweepExpired
<1>2. PICK c \in Queue!ExpiredLeases:
         /\ row' = [row EXCEPT ![c] = Queue!FailAttempt(row[c], c)]
         /\ strikes' = [strikes EXCEPT ![c] = @ + 1]
  BY DEF Queue!SweepExpired
<1>3. c \in Changesets /\ row[c] \in Queue!Row /\ Queue!Waiting(row[c]) /\ strikes[c] \in Nat
  BY <1>2 DEF Queue!ExpiredLeases, Queue!TypeOK, Queue!Waiting
<1>4. /\ Queue!FailAttempt(row[c], c) \in Queue!Row \cup {None}
      /\ Queue!FailAttempt(row[c], c) = None => row[c] = None
      /\ RowGood(c, Queue!FailAttempt(row[c], c), strikes[c] + 1)
  <2>1. RowGood(c, row[c], strikes[c]) /\ row[c].attempts < MaxAttempts
    BY <1>3 DEF RowsGood, RowGood, Queue!Waiting
  <2>. QED  BY <1>3, <2>1, FailAttemptGood
<1>. QED  BY <1>1, <1>2, <1>3, <1>4, PassEnds

(* The records of the pass and the lease given back, whatever mark or      *)
(* collection came between.                                                *)
LEMMA RecordStep ==
    ASSUME Queue!DeriveAssumption, QueueInv,
           Queue!RecordFailure \/ Queue!RecordOutput \/ Queue!ReleaseAfterBusy
    PROVE  QueueInv'
<1>. DEFINE c == queue.cs
<1>. USE DEF QueueInv
<1>1. /\ c \in Changesets /\ row[c] \in Queue!Row \cup {None} /\ strikes[c] \in Nat
      /\ up /\ inflight = None /\ queue.pc \in {"derived", "release"}
      /\ UNCHANGED <<up, eager, imports, changesets, marker, inflight, unqueued, backfill, cursor,
                     csMarks, faults>>
  BY DEF Queue!RecordFailure, Queue!RecordOutput, Queue!ReleaseAfterBusy, Queue!TypeOK
<1>2. /\ RowGood(c, row[c], strikes[c])
      /\ row[c] = None => c \in csMarks
      /\ row[c] # None => row[c].attempts < MaxAttempts
  BY <1>1 DEF RowsGood, LeaseBudget, Holding
<1>3. queue' \in QueuePassType /\ queue'.pc \in {"idle", "pick"}
  <2>1. queue' \in {Queue!Idle, [Queue!Idle EXCEPT !.pc = "pick"]}
    BY DEF Queue!RecordFailure, Queue!RecordOutput, Queue!ReleaseAfterBusy
  <2>. QED  BY <2>1, QueuePassTypes DEF Queue!Idle
<1>4. Queue!PoisonNow(row[c]) \in Queue!Row /\ RowGood(c, Queue!PoisonNow(row[c]), strikes[c])
  BY <1>1, <1>2, PoisonGood
<1>5. /\ Queue!FailAttempt(row[c], c) \in Queue!Row \cup {None}
      /\ Queue!FailAttempt(row[c], c) = None => row[c] = None
      /\ RowGood(c, Queue!FailAttempt(row[c], c), strikes[c] + 1)
  BY <1>1, <1>2, FailAttemptGood
<1>6. CASE Queue!RecordFailure
  <2>1. \/ row' = [row EXCEPT ![c] = Queue!PoisonNow(row[c])] /\ strikes' = strikes
        \/ /\ row' = [row EXCEPT ![c] = Queue!FailAttempt(row[c], c)]
           /\ strikes' = [strikes EXCEPT ![c] = @ + 1]
    BY <1>1, <1>6 DEF Queue!RecordFailure, Queue!TypeOK
  <2>2. Queue!PoisonNow(row[c]) # None
    BY <1>4
  <2>. QED  BY <1>1, <1>3, <1>4, <1>5, <2>1, <2>2, PassEnds
<1>7. CASE Queue!RecordOutput
  <2>. DEFINE done == Queue!RecordDone(row[c], c, queue.tainted, queue.exact)
  <2>1. /\ strikes' = strikes
        /\ \/ row' = [row EXCEPT ![c] = Queue!PoisonNow(row[c])]
           \/ row' = [row EXCEPT ![c] = done]
    BY <1>1, <1>7 DEF Queue!RecordOutput, Queue!TypeOK
  <2>2. /\ done \in Queue!Row \cup {None} /\ (done = None => row[c] = None)
        /\ RowGood(c, done, strikes[c])
    <3>1. CASE c \in changesets /\ row[c] # None /\ row[c].state = "deriving"
      <4>1. queue.tainted \in BOOLEAN /\ queue.exact \in BOOLEAN
        BY DEF QueuePassType
      <4>2. ~queue.exact => queue.tainted
        BY <1>7 DEF Queue!RecordOutput, OutputTaint
      <4>3. done = [row[c] EXCEPT !.state = "done", !.tainted = queue.tainted,
                                  !.exact = queue.exact]
        BY <3>1 DEF Queue!RecordDone
      <4>. HIDE DEF done
      <4>4. /\ done \in Queue!Row /\ done.attempts = row[c].attempts /\ done.state = "done"
            /\ done.tainted = queue.tainted /\ done.exact = queue.exact
        BY <1>1, <3>1, <4>1, <4>3 DEF Queue!Row
      <4>. QED  BY <1>2, <3>1, <4>2, <4>4 DEF RowGood, Queue!Waiting
    <3>2. CASE ~(c \in changesets /\ row[c] # None /\ row[c].state = "deriving")
      BY <1>1, <1>2, <3>2 DEF Queue!RecordDone
    <3>. QED  BY <3>1, <3>2
  <2>3. Queue!PoisonNow(row[c]) # None
    BY <1>4
  <2>. HIDE DEF done
  <2>. QED  BY <1>1, <1>3, <1>4, <2>1, <2>2, <2>3, PassEnds
<1>8. CASE Queue!ReleaseAfterBusy
  <2>. DEFINE free == Queue!ReleaseLease(row[c])
  <2>1. strikes' = strikes /\ row' = [row EXCEPT ![c] = free]
    BY <1>1, <1>8 DEF Queue!ReleaseAfterBusy
  <2>2. /\ free \in Queue!Row \cup {None} /\ (free = None => row[c] = None)
        /\ RowGood(c, free, strikes[c])
    <3>1. CASE row[c] # None /\ row[c].state = "deriving"
      <4>1. free = [row[c] EXCEPT !.state = "pending"]
        BY <3>1 DEF Queue!ReleaseLease
      <4>. HIDE DEF free
      <4>2. free \in Queue!Row /\ free.attempts = row[c].attempts /\ free.state = "pending"
        BY <1>1, <3>1, <4>1 DEF Queue!Row
      <4>. QED  BY <1>2, <3>1, <4>2 DEF RowGood, Queue!Waiting
    <3>2. CASE ~(row[c] # None /\ row[c].state = "deriving")
      BY <1>1, <1>2, <3>2 DEF Queue!ReleaseLease
    <3>. QED  BY <3>1, <3>2
  <2>. HIDE DEF free
  <2>. QED  BY <1>1, <1>3, <2>1, <2>2, PassEnds
<1>. QED  BY <1>6, <1>7, <1>8

LEMMA QueueNext ==
    ASSUME Queue!DeriveAssumption, QueueInv, [Queue!Next]_(Queue!vars)
    PROVE  QueueInv'
<1>1. CASE UNCHANGED Queue!vars
  BY <1>1
  DEF Queue!vars, QueueInv, Queue!TypeOK, DownIdle, InFlight, RowsGood, RowGood, Queue!Waiting,
      LeaseBudget, OutputTaint, Covered, Queue!Rowless
<1>. QED
  BY <1>1, ServerStep, BackfillStep, BackfillEndStep, QueuePassStep, EnqueueStep, QueueMarkStep,
     CollectStep, LeaseStep, SweepStep, RecordStep
  DEF Queue!Next

LEMMA QueueHolds == QueueInv => Queue!QueueSound
<1>. SUFFICES ASSUME QueueInv PROVE Queue!QueueSound
  OBVIOUS
<1>1. Queue!MarkerHonest
  BY DEF QueueInv, Covered, Queue!MarkerHonest
<1>. QED
  BY <1>1 DEF QueueInv, RowsGood, RowGood, Queue!QueueSound, Queue!AttemptsAreFailures,
       Queue!NoWorkForTheDead, Queue!TaintSpreads, Queue!Waiting

HIDE DEF Queue!DeriveAssumption

-----------------------------------------------------------------------------
(* Access.                                                                 *)

(* The two halves of TypeOK: what the catalog holds, what requests hold.   *)
CatalogType ==
    /\ exists \in BOOLEAN
    /\ principals \in [Names -> Acc!Roles \cup {None}]
    /\ tokens \in [Tokens -> Acc!TokenRow \cup {None}]
    /\ grants \in [Names -> Acc!Grants \cup {None}]
    /\ \A n \in Names: grants[n] # None => (grants[n].write => grants[n].read)
    /\ audit \in Seq(Acc!Row)
    /\ minted \subseteq Tokens /\ dead \subseteq Tokens
    /\ erased \in [Names -> 0..MaxAudit]

RequestType ==
    /\ pc \in [Requests -> {"idle", "auth", "gate", "act"}]
    /\ ask \in [Requests -> Acc!Asks \cup {None}]
    /\ auth \in [Requests -> Acc!AuthedPrincipal \cup {None}]
    /\ answer \in [Requests -> Acc!Answers \cup {None}]

(* A dead token has no row or a revoked one, and every row was minted: no  *)
(* mint reuses a dead token.                                               *)
DeadRows ==
    /\ dead \subseteq minted
    /\ \A t \in Tokens: tokens[t] # None => t \in minted
    /\ \A t \in dead: tokens[t] # None => tokens[t].revoked

(* Which rows name a principal as their subject: the details of grants,    *)
(* and mints, where it is the actor too, so that the erasure finds them.   *)
AuditShape ==
    \A i \in 1..Len(audit):
        /\ audit[i].action = "mint" => audit[i].about = audit[i].actor
        /\ audit[i].action \in {"revoke_token", "delete"} => audit[i].about \notin Names

(* An erasure looks back, never ahead.                                     *)
ErasedPast == \A n \in Names: erased[n] <= Len(audit)

CatalogInv ==
    CatalogType /\ DeadRows /\ AuditShape /\ ErasedPast /\ Acc!ErasureReachesTheLog

(* An open request has its question, past authentication its principal,    *)
(* and no answer yet.                                                      *)
OpenRequests ==
    \A q \in Requests:
        /\ pc[q] # "idle" => ask[q] # None /\ answer[q] = None
        /\ pc[q] \in {"gate", "act"} => auth[q] # None

AccessInv == CatalogInv /\ RequestType /\ OpenRequests

USE DEF Acc!AccessAssumption

LEMMA Halves == Acc!TypeOK <=> CatalogType /\ RequestType
BY DEF Acc!TypeOK, CatalogType, RequestType

(* The statements.                                                         *)

LEMMA ReadRows ==
    ASSUME Acc!AccessAssumption
    PROVE  /\ \A r \in Acc!Row: r.actor \in Names \cup {"pseudonym"}
                            /\ r.about \in Names \cup {None, "pseudonym"}
                            /\ r.action \in Acc!AdminOps
           /\ \A n \in Names, m \in Names \cup {None, "pseudonym"}, a \in Acc!AdminOps:
                 [actor |-> n, about |-> m, action |-> a] \in Acc!Row
BY DEF Acc!Row

(* An append of a row of the right shape.                                  *)
LEMMA AuditGrows ==
    ASSUME Acc!AccessAssumption, CatalogInv, NEW entry \in Acc!Row, audit' = Append(audit, entry),
           entry.action = "mint" => entry.about = entry.actor,
           entry.action \in {"revoke_token", "delete"} => entry.about \notin Names,
           UNCHANGED erased
    PROVE  audit' \in Seq(Acc!Row) /\ AuditShape' /\ ErasedPast' /\ Acc!ErasureReachesTheLog'
<1>. USE DEF CatalogInv
<1>1. /\ audit \in Seq(Acc!Row) /\ audit' \in Seq(Acc!Row) /\ Len(audit') = Len(audit) + 1
      /\ Len(audit) \in Nat
      /\ \A i \in 1..Len(audit): audit'[i] = audit[i]
      /\ audit'[Len(audit) + 1] = entry
  BY DEF CatalogType
<1>2. AuditShape'
  <2>. SUFFICES ASSUME NEW i \in 1..Len(audit')
                PROVE  /\ audit'[i].action = "mint" => audit'[i].about = audit'[i].actor
                       /\ audit'[i].action \in {"revoke_token", "delete"} =>
                             audit'[i].about \notin Names
    BY DEF AuditShape
  <2>1. CASE i \in 1..Len(audit)
    BY <1>1, <2>1 DEF AuditShape
  <2>2. CASE i = Len(audit) + 1
    BY <1>1, <2>2
  <2>. QED  BY <1>1, <2>1, <2>2
<1>3. \A n \in Names: erased[n] \in Nat /\ erased[n] <= Len(audit)
  BY DEF CatalogType, ErasedPast
<1>4. ErasedPast'
  BY <1>1, <1>3 DEF ErasedPast
<1>5. Acc!ErasureReachesTheLog'
  <2>. SUFFICES ASSUME NEW n \in Names, NEW i \in 1..erased[n]
                PROVE  /\ audit'[i].actor # n
                       /\ audit'[i].about = n => audit'[i].action \in {"grant", "revoke_grant"}
    BY DEF Acc!ErasureReachesTheLog
  <2>1. i \in 1..Len(audit)
    BY <1>1, <1>3
  <2>. QED  BY <1>1, <2>1 DEF Acc!ErasureReachesTheLog
<1>. QED  BY <1>1, <1>2, <1>4, <1>5

(* What the erasure writes over each row.                                  *)
LEMMA ScrubbedRows ==
    ASSUME Acc!AccessAssumption, NEW rows \in Seq(Acc!Row), NEW n \in Names
    PROVE  /\ Acc!Scrubbed(rows, n) \in Seq(Acc!Row) /\ Len(Acc!Scrubbed(rows, n)) = Len(rows)
           /\ \A i \in 1..Len(rows):
                /\ Acc!Scrubbed(rows, n)[i].action = rows[i].action
                /\ Acc!Scrubbed(rows, n)[i].actor =
                      IF rows[i].actor = n THEN "pseudonym" ELSE rows[i].actor
                /\ Acc!Scrubbed(rows, n)[i].about =
                      IF rows[i].actor = n /\ rows[i].action = "mint" THEN "pseudonym"
                      ELSE rows[i].about
<1>. DEFINE Details(r) == IF r.actor = n /\ r.action = "mint"
                            THEN [r EXCEPT !.about = "pseudonym"] ELSE r
            Actor(r) == IF r.actor = n THEN [r EXCEPT !.actor = "pseudonym"] ELSE r
<1>1. Acc!Scrubbed(rows, n) = [i \in 1..Len(rows) |-> Actor(Details(rows[i]))]
  BY DEF Acc!Scrubbed
<1>2. ASSUME NEW r \in Acc!Row
      PROVE  /\ Details(r) \in Acc!Row /\ Details(r).actor = r.actor /\ Details(r).action = r.action
             /\ Details(r).about = IF r.actor = n /\ r.action = "mint" THEN "pseudonym" ELSE r.about
  BY DEF Acc!Row
<1>3. ASSUME NEW r \in Acc!Row
      PROVE  /\ Actor(r) \in Acc!Row /\ Actor(r).about = r.about /\ Actor(r).action = r.action
             /\ Actor(r).actor = IF r.actor = n THEN "pseudonym" ELSE r.actor
  BY DEF Acc!Row
<1>4. \A i \in 1..Len(rows): rows[i] \in Acc!Row
  OBVIOUS
<1>. HIDE DEF Details, Actor
<1>5. \A i \in 1..Len(rows): Actor(Details(rows[i])) \in Acc!Row
  BY <1>2, <1>3, <1>4
<1>6. Acc!Scrubbed(rows, n) \in Seq(Acc!Row) /\ Len(Acc!Scrubbed(rows, n)) = Len(rows)
  BY <1>1, <1>5
<1>. QED  BY <1>1, <1>2, <1>3, <1>4, <1>6

(* access_grant and access_revoke write no name but in a grant's details.  *)
LEMMA GrantStep ==
    ASSUME Acc!AccessAssumption, CatalogInv, NEW n \in Names, NEW by \in Names,
           \/ \E read, write \in BOOLEAN: Acc!AccessGrant(n, read, write, by)
           \/ Acc!AccessRevoke(n, by)
    PROVE  CatalogInv'
<1>. USE DEF CatalogInv
<1>1. UNCHANGED <<exists, principals, tokens, minted, dead, erased>>
  BY DEF Acc!AccessGrant, Acc!AccessRevoke
<1>2. /\ grants' \in [Names -> Acc!Grants \cup {None}]
      /\ \A m \in Names: grants'[m] # None => (grants'[m].write => grants'[m].read)
  <2>1. CASE \E read, write \in BOOLEAN: Acc!AccessGrant(n, read, write, by)
    <3>1. PICK read, write \in BOOLEAN: Acc!AccessGrant(n, read, write, by)
      BY <2>1
    <3>2. /\ Acc!AccessSet(read, write) \in Acc!Grants
          /\ Acc!AccessSet(read, write).write => Acc!AccessSet(read, write).read
      BY DEF Acc!AccessSet, Acc!Grants
    <3>3. grants' = [grants EXCEPT ![n] = Acc!AccessSet(read, write)]
      BY <3>1 DEF Acc!AccessGrant
    <3>. QED  BY <3>2, <3>3 DEF CatalogType
  <2>2. CASE Acc!AccessRevoke(n, by)
    BY <2>2 DEF Acc!AccessRevoke, CatalogType
  <2>. QED  BY <2>1, <2>2
<1>3. audit' \in Seq(Acc!Row) /\ AuditShape' /\ ErasedPast' /\ Acc!ErasureReachesTheLog'
  <2>1. CASE UNCHANGED audit
    BY <1>1, <2>1 DEF CatalogType, AuditShape, ErasedPast, Acc!ErasureReachesTheLog
  <2>2. CASE \E a \in {"grant", "revoke_grant"}: Acc!AuditAppend(by, a, n)
    <3>1. PICK a \in {"grant", "revoke_grant"}: Acc!AuditAppend(by, a, n)
      BY <2>2
    <3>. DEFINE entry == [actor |-> by, about |-> n, action |-> a]
    <3>2. entry \in Acc!Row /\ audit' = Append(audit, entry) /\ entry.action = a
      BY <3>1, ReadRows DEF Acc!AuditAppend, Acc!AdminOps
    <3>. HIDE DEF entry
    <3>. QED  BY <1>1, <3>2, AuditGrows
  <2>. QED  BY <2>1, <2>2 DEF Acc!AccessGrant, Acc!AccessRevoke
<1>4. CatalogType'
  BY <1>1, <1>2, <1>3 DEF CatalogType
<1>. QED  BY <1>1, <1>3, <1>4 DEF DeadRows

(* token_create takes a token never minted, so never dead.                 *)
LEMMA MintStep ==
    ASSUME Acc!AccessAssumption, CatalogInv, NEW n \in Names, NEW role \in Acc!Roles,
           Acc!TokenCreate(n, role)
    PROVE  CatalogInv'
<1>. USE DEF CatalogInv
<1>1. PICK t \in Tokens \ minted:
         /\ principals' = [principals EXCEPT ![n] = role]
         /\ tokens' = [tokens EXCEPT ![t] = [principal |-> n, revoked |-> FALSE]]
         /\ Acc!AuditAppend(n, "mint", n)
         /\ minted' = minted \cup {t}
         /\ UNCHANGED <<exists, grants, dead, erased>>
  BY DEF Acc!TokenCreate
<1>2. [principal |-> n, revoked |-> FALSE] \in Acc!TokenRow
  BY DEF Acc!TokenRow
<1>3. audit' \in Seq(Acc!Row) /\ AuditShape' /\ ErasedPast' /\ Acc!ErasureReachesTheLog'
  <2>. DEFINE entry == [actor |-> n, about |-> n, action |-> "mint"]
  <2>1. /\ entry \in Acc!Row /\ audit' = Append(audit, entry)
        /\ entry.action = "mint" /\ entry.about = entry.actor
    BY <1>1, ReadRows DEF Acc!AuditAppend, Acc!AdminOps
  <2>. HIDE DEF entry
  <2>. QED  BY <1>1, <2>1, AuditGrows
<1>4. CatalogType'
  BY <1>1, <1>2, <1>3 DEF CatalogType
<1>5. DeadRows'
  BY <1>1 DEF DeadRows, CatalogType
<1>. QED  BY <1>3, <1>4, <1>5

(* token_revoke.                                                           *)
LEMMA RevokeStep ==
    ASSUME Acc!AccessAssumption, CatalogInv, NEW t \in Tokens, tokens[t] # None, Acc!TokenRevoke(t)
    PROVE  CatalogInv'
<1>. USE DEF CatalogInv
<1>1. /\ tokens[t] \in Acc!TokenRow /\ tokens[t].principal \in Names
      /\ tokens' = [tokens EXCEPT ![t] = [tokens[t] EXCEPT !.revoked = TRUE]]
      /\ dead' = dead \cup {t}
      /\ UNCHANGED <<exists, principals, grants, minted, erased>>
  BY DEF Acc!TokenRevoke, CatalogType, Acc!TokenRow
<1>2. /\ [tokens[t] EXCEPT !.revoked = TRUE] \in Acc!TokenRow
      /\ [tokens[t] EXCEPT !.revoked = TRUE].revoked
  BY <1>1 DEF Acc!TokenRow
<1>3. audit' \in Seq(Acc!Row) /\ AuditShape' /\ ErasedPast' /\ Acc!ErasureReachesTheLog'
  <2>1. CASE UNCHANGED audit
    BY <1>1, <2>1 DEF CatalogType, AuditShape, ErasedPast, Acc!ErasureReachesTheLog
  <2>2. CASE Acc!AuditAppend(tokens[t].principal, "revoke_token", None)
    <3>. DEFINE entry == [actor |-> tokens[t].principal, about |-> None, action |-> "revoke_token"]
    <3>1. /\ entry \in Acc!Row /\ audit' = Append(audit, entry)
          /\ entry.action = "revoke_token" /\ entry.about = None
      BY <1>1, <2>2, ReadRows DEF Acc!AuditAppend, Acc!AdminOps
    <3>. HIDE DEF entry
    <3>. QED  BY <1>1, <3>1, AuditGrows
  <2>. QED  BY <2>1, <2>2 DEF Acc!TokenRevoke
<1>4. CatalogType'
  BY <1>1, <1>2, <1>3 DEF CatalogType
<1>5. DeadRows'
  BY <1>1, <1>2 DEF DeadRows, CatalogType
<1>. QED  BY <1>3, <1>4, <1>5

(* principal_delete: the scrub takes the name out of every row there is,   *)
(* and puts none in.                                                       *)
LEMMA DeleteStep ==
    ASSUME Acc!AccessAssumption, CatalogInv, NEW n \in Names, NEW by \in Names,
           Len(audit) < MaxAudit,
           Acc!PrincipalDelete(n, by)
    PROVE  CatalogInv'
<1>. DEFINE own == {t \in Tokens: tokens[t] # None /\ tokens[t].principal = n}
            entry == [actor |-> by, about |-> "pseudonym", action |-> "delete"]
            old == Acc!Scrubbed(audit, n)
<1>. USE DEF CatalogInv
<1>1. /\ tokens' = [t \in Tokens |-> IF t \in own THEN None ELSE tokens[t]]
      /\ principals' = [principals EXCEPT ![n] = None]
      /\ audit' = Append(old, entry)
      /\ dead' = dead \cup own
      /\ erased' = [erased EXCEPT ![n] = Len(audit)]
      /\ UNCHANGED <<exists, grants, minted>>
  BY DEF Acc!PrincipalDelete
<1>2. own \subseteq Tokens /\ \A t \in own: tokens[t] # None
  OBVIOUS
<1>3. entry \in Acc!Row /\ entry.action = "delete" /\ entry.about = "pseudonym"
  BY ReadRows DEF Acc!AdminOps
<1>4. /\ audit \in Seq(Acc!Row) /\ old \in Seq(Acc!Row)
      /\ Len(old) = Len(audit) /\ Len(audit) \in Nat
      /\ \A i \in 1..Len(audit):
            /\ old[i].action = audit[i].action
            /\ old[i].actor = IF audit[i].actor = n THEN "pseudonym" ELSE audit[i].actor
            /\ old[i].about = IF audit[i].actor = n /\ audit[i].action = "mint" THEN "pseudonym"
                              ELSE audit[i].about
            /\ audit[i] \in Acc!Row
  <2>1. audit \in Seq(Acc!Row) /\ Len(audit) \in Nat /\ \A i \in 1..Len(audit): audit[i] \in Acc!Row
    BY DEF CatalogType
  <2>. HIDE DEF Acc!AccessAssumption, CatalogInv
  <2>. HIDE DEF own, entry
  <2>2. /\ old \in Seq(Acc!Row) /\ Len(old) = Len(audit)
        /\ \A i \in 1..Len(audit):
              /\ old[i].action = audit[i].action
              /\ old[i].actor = IF audit[i].actor = n THEN "pseudonym" ELSE audit[i].actor
              /\ old[i].about = IF audit[i].actor = n /\ audit[i].action = "mint"
                                THEN "pseudonym" ELSE audit[i].about
    BY <2>1, ScrubbedRows
  <2>. HIDE DEF old
  <2>. QED  BY <2>1, <2>2
<1>. HIDE DEF own, entry, old
<1>5. /\ audit' \in Seq(Acc!Row) /\ Len(audit') = Len(audit) + 1
      /\ \A i \in 1..Len(audit): audit'[i] = old[i]
      /\ audit'[Len(audit) + 1] = entry
  BY <1>1, <1>3, <1>4
<1>6. CatalogType'
  <2>1. tokens' \in [Tokens -> Acc!TokenRow \cup {None}]
    BY <1>1 DEF CatalogType
  <2>2. erased' \in [Names -> 0..MaxAudit]
    BY <1>1, <1>4 DEF CatalogType
  <2>. QED  BY <1>1, <1>2, <1>5, <2>1, <2>2 DEF CatalogType
<1>7. DeadRows'
  BY <1>1, <1>2 DEF DeadRows, CatalogType
<1>8. AuditShape'
  <2>. SUFFICES ASSUME NEW i \in 1..Len(audit')
                PROVE  /\ audit'[i].action = "mint" => audit'[i].about = audit'[i].actor
                       /\ audit'[i].action \in {"revoke_token", "delete"} =>
                             audit'[i].about \notin Names
    BY DEF AuditShape
  <2>1. CASE i \in 1..Len(audit)
    BY <1>4, <1>5, <2>1 DEF AuditShape
  <2>2. CASE i = Len(audit) + 1
    BY <1>3, <1>5, <2>2
  <2>. QED  BY <1>4, <1>5, <2>1, <2>2
<1>9. ErasedPast'
  BY <1>1, <1>4, <1>5 DEF ErasedPast, CatalogType
<1>10. Acc!ErasureReachesTheLog'
  <2>. SUFFICES ASSUME NEW m \in Names, NEW i \in 1..erased'[m]
                PROVE  /\ audit'[i].actor # m
                       /\ audit'[i].about = m => audit'[i].action \in {"grant", "revoke_grant"}
    BY DEF Acc!ErasureReachesTheLog
  <2>1. i \in 1..Len(audit)
    BY <1>1, <1>4 DEF ErasedPast, CatalogType
  <2>2. CASE m = n
    <3>1. audit[i].action \in Acc!AdminOps
      BY <1>4, <2>1, ReadRows
    <3>. QED  BY <1>4, <1>5, <2>1, <2>2, <3>1 DEF AuditShape, Acc!AdminOps
  <2>3. CASE m # n
    <3>1. i \in 1..erased[m]
      BY <1>1, <2>3 DEF CatalogType
    <3>. QED  BY <1>4, <1>5, <2>1, <3>1 DEF Acc!ErasureReachesTheLog
  <2>. QED  BY <2>2, <2>3
<1>. QED  BY <1>6, <1>7, <1>8, <1>9, <1>10

(* The requests.                                                           *)

LEMMA GateVerdicts ==
    ASSUME NEW a \in Acc!AuthedPrincipal, NEW op \in Acc!Ops
    PROVE  /\ Acc!ReadGate(a) \in {"pass", "notfound"}
           /\ Acc!WriteGate(a) \in {"pass", "notfound", "forbidden"}
           /\ Acc!RouteGate(op, a) \in {"pass", "notfound", "forbidden"}
<1>1. Acc!ReadGate(a) \in {"pass", "notfound"}
  BY DEF Acc!ReadGate
<1>2. Acc!WriteGate(a) \in {"pass", "notfound", "forbidden"}
  BY DEF Acc!WriteGate
<1>3. Acc!RequireRole(a, "admin") \in {"pass", "forbidden"}
  BY DEF Acc!RequireRole
<1>4. Acc!RouteGate(op, a) \in {"pass", "notfound", "forbidden"}
  BY <1>1, <1>2, <1>3 DEF Acc!RouteGate
<1>. QED  BY <1>1, <1>2, <1>4

(* A refusal with 403 is only given to one who sees the repo.              *)
LEMMA ForbiddenSees ==
    ASSUME exists \in BOOLEAN, NEW a \in Acc!AuthedPrincipal
    PROVE  /\ Acc!WriteGate(a) = "forbidden" => exists /\ Acc!AccessVisibility(a.principal)
           /\ \A op \in Acc!RepoOps:
                 Acc!RouteGate(op, a) = "forbidden" => exists /\ Acc!AccessVisibility(a.principal)
<1>1. Acc!WriteGate(a) = "forbidden" => exists /\ Acc!AccessVisibility(a.principal)
  BY DEF Acc!WriteGate, Acc!AccessVisibility
<1>2. Acc!ReadGate(a) # "forbidden"
  BY DEF Acc!ReadGate
<1>3. Acc!ReadGate(a) = "pass" /\ Acc!RequireRole(a, "admin") = "forbidden" =>
          exists /\ Acc!AccessVisibility(a.principal)
  <2>1. Acc!AtLeast("admin", "admin")
    BY DEF Acc!AtLeast, Acc!Rank
  <2>. QED  BY <2>1 DEF Acc!ReadGate, Acc!RequireRole
<1>4. ASSUME NEW op \in Acc!RepoOps, Acc!RouteGate(op, a) = "forbidden"
      PROVE  exists /\ Acc!AccessVisibility(a.principal)
  <2>1. CASE op = "read"
    BY <1>2, <1>4, <2>1 DEF Acc!RouteGate
  <2>2. CASE op = "write"
    BY <1>1, <1>4, <2>2 DEF Acc!RouteGate
  <2>3. CASE op = "land"
    BY <1>4, <2>3 DEF Acc!RouteGate
  <2>4. CASE op \in {"grant", "revoke_grant"}
    BY <1>2, <1>3, <1>4, <2>4 DEF Acc!RouteGate
  <2>. QED  BY <2>1, <2>2, <2>3, <2>4 DEF Acc!RepoOps
<1>. QED  BY <1>1, <1>4

LEMMA AnswerStep ==
    ASSUME Acc!AccessAssumption, RequestType, OpenRequests, NEW q \in Requests,
           NEW a \in Acc!Answers, Acc!Answer(q, a)
    PROVE  RequestType' /\ OpenRequests'
<1>1. RequestType'
  BY DEF Acc!Answer, RequestType
<1>2. OpenRequests'
  BY DEF Acc!Answer, RequestType, OpenRequests
<1>. QED  BY <1>1, <1>2

LEMMA AccessInit ==
    ASSUME Acc!AccessAssumption, Acc!Init
    PROVE  AccessInv
<1>. USE DEF Acc!Init
<1>1. CatalogType
  <2>1. "admin" \in Acc!Roles /\ [principal |-> Root, revoked |-> FALSE] \in Acc!TokenRow
    BY DEF Acc!Roles, Acc!TokenRow
  <2>2. /\ principals \in [Names -> Acc!Roles \cup {None}]
        /\ tokens \in [Tokens -> Acc!TokenRow \cup {None}]
    BY <2>1
  <2>3. erased \in [Names -> 0..MaxAudit] /\ audit \in Seq(Acc!Row)
    OBVIOUS
  <2>4. /\ grants \in [Names -> Acc!Grants \cup {None}]
        /\ \A n \in Names: grants[n] = None
    OBVIOUS
  <2>5. exists \in BOOLEAN /\ minted \subseteq Tokens /\ dead \subseteq Tokens
    OBVIOUS
  <2>. QED  BY <2>2, <2>3, <2>4, <2>5, Zenon DEF CatalogType
<1>2. DeadRows /\ AuditShape /\ ErasedPast /\ Acc!ErasureReachesTheLog
  BY DEF DeadRows, AuditShape, ErasedPast, Acc!ErasureReachesTheLog
<1>3. RequestType /\ OpenRequests
  BY DEF RequestType, OpenRequests
<1>. QED  BY <1>1, <1>2, <1>3 DEF AccessInv, CatalogInv

LEMMA CatalogKept ==
    ASSUME CatalogInv, UNCHANGED <<Acc!catalog, Acc!history>>
    PROVE  CatalogInv'
BY DEF Acc!catalog, Acc!history, CatalogInv, CatalogType, DeadRows, AuditShape, ErasedPast,
       Acc!ErasureReachesTheLog

(* An open request, past its gate.                                         *)
LEMMA AskTypes ==
    ASSUME Acc!AccessAssumption, AccessInv, NEW q \in Requests
    PROVE  /\ pc[q] # "idle" => /\ ask[q] \in Acc!Asks /\ ask[q].token \in Tokens
                                /\ ask[q].op \in Acc!Ops /\ ask[q].who \in Names
           /\ pc[q] \in {"gate", "act"} => /\ auth[q] \in Acc!AuthedPrincipal
                                           /\ auth[q].principal \in Names
<1>1. /\ pc[q] # "idle" => ask[q] \in Acc!Asks
      /\ pc[q] \in {"gate", "act"} => auth[q] \in Acc!AuthedPrincipal
  BY DEF AccessInv, RequestType, OpenRequests
<1>2. \A a \in Acc!Asks: a.token \in Tokens /\ a.op \in Acc!Ops /\ a.who \in Names
  BY DEF Acc!Asks
<1>3. \A a \in Acc!AuthedPrincipal: a.principal \in Names
  BY DEF Acc!AuthedPrincipal
<1>. QED  BY <1>1, <1>2, <1>3

(* The steps of a request before it acts.                                  *)
LEMMA AccessRequestStep ==
    ASSUME Acc!AccessAssumption, AccessInv, NEW q \in Requests,
           Acc!Begin(q) \/ Acc!Authenticate(q) \/ Acc!Gate(q) \/ Acc!Land(q)
    PROVE  AccessInv'
<1>. USE DEF AccessInv
<1>1. CatalogInv'
  <2>1. UNCHANGED <<Acc!catalog, Acc!history>>
    BY DEF Acc!Begin, Acc!Authenticate, Acc!Gate, Acc!Land
  <2>. QED  BY <2>1, CatalogKept
<1>2. CASE Acc!Begin(q)
  <2>1. PICK a \in Acc!Asks: ask' = [ask EXCEPT ![q] = a]
    BY <1>2 DEF Acc!Begin
  <2>2. a # None
    OBVIOUS
  <2>3. RequestType'
    BY <1>2, <2>1 DEF Acc!Begin, RequestType
  <2>4. OpenRequests'
    BY <1>2, <2>1, <2>2 DEF Acc!Begin, RequestType, OpenRequests
  <2>. QED  BY <1>1, <2>3, <2>4
<1>3. CASE Acc!Authenticate(q)
  <2>1. CASE Acc!Answer(q, "unauthorized")
    BY <1>1, <2>1, AnswerStep DEF Acc!Answers
  <2>2. CASE /\ auth' = [auth EXCEPT ![q] = Acc!AuthLookup(ask[q].token)]
             /\ pc' = [pc EXCEPT ![q] = "gate"]
             /\ UNCHANGED <<ask, answer>>
             /\ Acc!AuthLookup(ask[q].token) # None
    <3>1. pc[q] = "auth" /\ ask[q].token \in Tokens
      BY <1>3, AskTypes DEF Acc!Authenticate
    <3>2. Acc!AuthLookup(ask[q].token) \in Acc!AuthedPrincipal
      <4>. DEFINE t == ask[q].token
      <4>1. tokens[t] # None /\ principals[tokens[t].principal] # None
        BY <2>2 DEF Acc!AuthLookup
      <4>2. tokens[t].principal \in Names
        BY <3>1, <4>1 DEF CatalogInv, CatalogType, Acc!TokenRow
      <4>3. principals[tokens[t].principal] \in Acc!Roles
        BY <4>1, <4>2 DEF CatalogInv, CatalogType
      <4>. QED  BY <4>1, <4>2, <4>3 DEF Acc!AuthLookup, Acc!AuthedPrincipal
    <3>3. RequestType'
      BY <2>2, <3>2 DEF RequestType
    <3>4. OpenRequests'
      BY <2>2, <3>1 DEF RequestType, OpenRequests
    <3>. QED  BY <1>1, <3>3, <3>4
  <2>. QED  BY <1>3, <2>1, <2>2 DEF Acc!Authenticate
<1>4. CASE Acc!Gate(q)
  <2>1. CASE pc' = [pc EXCEPT ![q] = "act"] /\ UNCHANGED <<ask, auth, answer>>
    BY <1>1, <1>4, <2>1 DEF Acc!Gate, RequestType, OpenRequests
  <2>2. CASE \E a \in Acc!Answers: Acc!Answer(q, a)
    BY <1>1, <2>2, AnswerStep
  <2>3. Acc!RouteGate(ask[q].op, auth[q]) \in {"pass", "notfound", "forbidden"}
    BY <1>4, AskTypes, GateVerdicts DEF Acc!Gate
  <2>. QED  BY <1>4, <2>1, <2>2, <2>3 DEF Acc!Gate, Acc!Answers
<1>5. CASE Acc!Land(q)
  <2>1. Acc!WriteGate(auth[q]) \in {"pass", "notfound", "forbidden"}
    <3>1. auth[q] \in Acc!AuthedPrincipal /\ "land" \in Acc!Ops
      BY <1>5, AskTypes DEF Acc!Land, Acc!Ops, Acc!RepoOps
    <3>. QED  BY <3>1, GateVerdicts
  <2>2. \E a \in Acc!Answers: Acc!Answer(q, a)
    BY <1>5, <2>1 DEF Acc!Land, Acc!Answers
  <2>. QED  BY <1>1, <2>2, AnswerStep
<1>. QED  BY <1>2, <1>3, <1>4, <1>5

LEMMA ActStep ==
    ASSUME Acc!AccessAssumption, AccessInv, NEW q \in Requests, Acc!Act(q)
    PROVE  AccessInv'
<1>. USE DEF AccessInv
<1>1. pc[q] = "act" /\ ask[q].who \in Names /\ auth[q].principal \in Names /\ Len(audit) < MaxAudit
  BY AskTypes DEF Acc!Act
<1>2. Acc!Answer(q, "ok") \/ Acc!Answer(q, "invalid")
  BY DEF Acc!Act
<1>3. RequestType' /\ OpenRequests'
  BY <1>2, AnswerStep DEF Acc!Answers
<1>4. CatalogInv'
  <2>. DEFINE n == ask[q].who  by == auth[q].principal
  <2>1. CASE UNCHANGED <<Acc!catalog, Acc!history>>
    BY <2>1, CatalogKept
  <2>2. CASE \/ \E read, write \in BOOLEAN: Acc!AccessGrant(n, read, write, by)
             \/ Acc!AccessRevoke(n, by)
    BY <1>1, <2>2, GrantStep
  <2>3. CASE \E role \in Acc!Roles: Acc!TokenCreate(n, role)
    BY <1>1, <2>3, MintStep
  <2>4. CASE \E t \in Tokens: tokens[t] # None /\ Acc!TokenRevoke(t)
    BY <2>4, RevokeStep
  <2>5. CASE Acc!PrincipalDelete(n, by)
    BY <1>1, <2>5, DeleteStep
  <2>. QED  BY <2>1, <2>2, <2>3, <2>4, <2>5 DEF Acc!Act
<1>. QED  BY <1>3, <1>4

LEMMA AccessNext ==
    ASSUME Acc!AccessAssumption, AccessInv, [Acc!Next]_(Acc!vars)
    PROVE  AccessInv'
<1>1. CASE UNCHANGED Acc!vars
  <2>1. UNCHANGED <<Acc!catalog, Acc!history>> /\ UNCHANGED <<pc, ask, auth, answer>>
    BY <1>1 DEF Acc!vars, Acc!catalog, Acc!history
  <2>. QED  BY <2>1, CatalogKept DEF AccessInv, RequestType, OpenRequests
<1>. QED  BY <1>1, AccessRequestStep, ActStep DEF Acc!Next

LEMMA AccessHolds == AccessInv => Acc!ErasureReachesTheLog
BY DEF AccessInv, CatalogInv

(* A step authenticates by no dead token, and answers 403 only a principal *)
(* who sees the repo.                                                      *)
LEMMA GateSteps ==
    ASSUME Acc!AccessAssumption, AccessInv, [Acc!Next]_(Acc!vars)
    PROVE  /\ [\A q \in Requests: pc[q] = "auth" /\ pc'[q] = "gate" =>
                  ask[q].token \notin dead]_(Acc!vars)
           /\ [\A q \in Requests:
                  /\ pc[q] # "idle" /\ answer'[q] = "forbidden"
                  /\ ask[q].op \in Acc!RepoOps
                  => exists /\ Acc!AccessVisibility(auth[q].principal)]_(Acc!vars)
<1>1. ASSUME AccessInv, Acc!Next, NEW q \in Requests, pc[q] = "auth", pc'[q] = "gate"
      PROVE  ask[q].token \notin dead
  <2>1. PICK p \in Requests: \/ Acc!Begin(p) \/ Acc!Authenticate(p)
                             \/ Acc!Gate(p) \/ Acc!Land(p) \/ Acc!Act(p)
    BY <1>1 DEF Acc!Next
  <2>2. p = q /\ Acc!Authenticate(q)
    BY <1>1, <2>1 DEF AccessInv, RequestType, Acc!Begin, Acc!Authenticate, Acc!Gate, Acc!Land,
                      Acc!Act, Acc!Answer
  <2>3. /\ Acc!AuthLookup(ask[q].token) # None
        /\ ~(tokens[ask[q].token] # None /\ tokens[ask[q].token].revoked)
    BY <1>1, <2>2 DEF Acc!Authenticate, Acc!Answer, AccessInv, RequestType
  <2>4. ask[q].token \in Tokens
    BY <1>1, AskTypes
  <2>. QED  BY <1>1, <2>3, <2>4 DEF Acc!AuthLookup, AccessInv, CatalogInv, DeadRows
<1>2. ASSUME AccessInv, Acc!Next, NEW q \in Requests, pc[q] # "idle", answer'[q] = "forbidden",
             ask[q].op \in Acc!RepoOps
      PROVE  exists /\ Acc!AccessVisibility(auth[q].principal)
  <2>1. PICK p \in Requests: \/ Acc!Begin(p) \/ Acc!Authenticate(p)
                             \/ Acc!Gate(p) \/ Acc!Land(p) \/ Acc!Act(p)
    BY <1>2 DEF Acc!Next
  <2>2. answer[q] = None /\ None # "forbidden"
    BY <1>2 DEF AccessInv, OpenRequests, Acc!Answers
  <2>3. \/ Acc!Gate(q) /\ Acc!RouteGate(ask[q].op, auth[q]) = "forbidden"
        \/ Acc!Land(q) /\ Acc!WriteGate(auth[q]) = "forbidden"
    BY <1>2, <2>1, <2>2 DEF AccessInv, RequestType, Acc!Begin, Acc!Authenticate, Acc!Gate,
                            Acc!Land, Acc!Act, Acc!Answer
  <2>4. auth[q] \in Acc!AuthedPrincipal /\ exists \in BOOLEAN
    BY <1>2, <2>3, AskTypes DEF Acc!Gate, Acc!Land, AccessInv, CatalogInv, CatalogType
  <2>. QED  BY <1>2, <2>3, <2>4, ForbiddenSees
<1>. QED  BY <1>1, <1>2

HIDE DEF Acc!AccessAssumption

-----------------------------------------------------------------------------
(* The history, whose steps are dealt with in a module of their own: what  *)
(* this proves of its module it proves of the instance here.               *)
HistP == INSTANCE HistoryProofs WITH MaxMarks <- MaxTombs, row <- graphRow

LEMMA HistoryIsIt ==
    /\ Hist!HistoryAssumption <=> HistP!HistoryAssumption
    /\ Hist!Init <=> HistP!Init
    /\ [Hist!Next]_(Hist!vars) <=> [HistP!Next]_(HistP!vars)
    /\ Hist!TypeOK <=> HistP!TypeOK
    /\ Hist!MergeBaseExact <=> HistP!MergeBaseExact
    /\ Hist!BlameExact <=> HistP!BlameExact
    /\ Hist!NamesNothingRedacted <=> HistP!NamesNothingRedacted
    /\ Hist!PagesCover <=> HistP!PagesCover
<1>1. Hist!HistoryAssumption <=> HistP!HistoryAssumption
  BY DEF Hist!HistoryAssumption, HistP!HistoryAssumption
<1>2. Hist!Init <=> HistP!Init
  BY DEF Hist!Init, HistP!Init
<1>3. Hist!Create <=> HistP!Create
  BY DEF Hist!Nodes, HistP!Nodes, Hist!Create, HistP!Create, Hist!IsInjective, HistP!IsInjective,
         Hist!Max, HistP!Max, Hist!ToSet, HistP!ToSet
<1>4. Hist!Derive <=> HistP!Derive
  BY DEF Hist!repo, HistP!repo, Hist!Nodes, HistP!Nodes, Hist!Parent, HistP!Parent,
         Hist!ParentContent, HistP!ParentContent, Hist!Touched, HistP!Touched, Hist!SkipsOf,
         HistP!SkipsOf, Hist!Single, HistP!Single, Hist!SkipEntries, HistP!SkipEntries,
         Hist!BlameState, HistP!BlameState, Hist!CollapseTaint, HistP!CollapseTaint, Hist!PickNext,
         HistP!PickNext, Hist!Derive, HistP!Derive, Hist!Min, HistP!Min, Hist!ToSet, HistP!ToSet
<1>5. Hist!Quarantine <=> HistP!Quarantine
  BY DEF Hist!repo, HistP!repo, Hist!Nodes, HistP!Nodes, Hist!PickNext, HistP!PickNext,
         Hist!Quarantine, HistP!Quarantine, Hist!Cardinality, HistP!Cardinality, Hist!Min,
         HistP!Min
<1>6. Hist!MarkChangeset <=> HistP!MarkChangeset
  BY DEF Hist!Nodes, HistP!Nodes, Hist!Marks, HistP!Marks, Hist!MarkChangeset, HistP!MarkChangeset,
         Hist!Cardinality, HistP!Cardinality
<1>7. Hist!MarkBlob <=> HistP!MarkBlob
  BY DEF Hist!Marks, HistP!Marks, Hist!MarkBlob, HistP!MarkBlob, Hist!Cardinality,
         HistP!Cardinality, Hist!ToSet, HistP!ToSet
<1>8. Hist!Ask <=> HistP!Ask
  BY DEF Hist!repo, HistP!repo, Hist!derived, HistP!derived, Hist!Nodes, HistP!Nodes, Hist!Parent,
         HistP!Parent, Hist!Chain, HistP!Chain, Hist!ParentContent, HistP!ParentContent,
         Hist!Touched, HistP!Touched, Hist!Whole, HistP!Whole, Hist!Ask, HistP!Ask
<1>9. Hist!ReadPage <=> HistP!ReadPage
  BY DEF Hist!repo, HistP!repo, Hist!derived, HistP!derived, Hist!Nodes, HistP!Nodes, Hist!Parent,
         HistP!Parent, Hist!ParentContent, HistP!ParentContent, Hist!Touched, HistP!Touched,
         Hist!LogRows, HistP!LogRows, Hist!FirstOf, HistP!FirstOf, Hist!LogChain, HistP!LogChain,
         Hist!SortsBefore, HistP!SortsBefore, Hist!PathHistoryPage, HistP!PathHistoryPage,
         Hist!PathPending, HistP!PathPending, Hist!PoisonTouching, HistP!PoisonTouching,
         Hist!LogPage, HistP!LogPage, Hist!ReadPage, HistP!ReadPage, Hist!Last, HistP!Last,
         Hist!Min, HistP!Min, Hist!ToSet, HistP!ToSet
<1>10. Hist!CasRef <=> HistP!CasRef
  BY DEF Hist!repo, HistP!repo, Hist!derived, HistP!derived, Hist!Nodes, HistP!Nodes,
         Hist!Ancestors, HistP!Ancestors, Hist!MergeBaseWalkSeeded, HistP!MergeBaseWalkSeeded,
         Hist!RefContains, HistP!RefContains, Hist!CasRef, HistP!CasRef, Hist!ToSet, HistP!ToSet
<1>11. Hist!Next <=> HistP!Next
  BY <1>3, <1>4, <1>5, <1>6, <1>7, <1>8, <1>9, <1>10 DEF Hist!Next, HistP!Next
<1>12. Hist!TypeOK <=> HistP!TypeOK
  BY DEF Hist!Nodes, HistP!Nodes, Hist!Rows, HistP!Rows, Hist!TypeOK, HistP!TypeOK, Hist!ToSet,
         HistP!ToSet
<1>13. Hist!MergeBaseExact <=> HistP!MergeBaseExact
  BY DEF Hist!Nodes, HistP!Nodes, Hist!Ancestors, HistP!Ancestors, Hist!Parent, HistP!Parent,
         Hist!MergeBaseWalkSeeded, HistP!MergeBaseWalkSeeded, Hist!GraphSkips, HistP!GraphSkips,
         Hist!Jump, HistP!Jump, Hist!ClimbStep, HistP!ClimbStep, Hist!Climb, HistP!Climb,
         Hist!MergeBaseSkip, HistP!MergeBaseSkip, Hist!MergeBaseExact, HistP!MergeBaseExact,
         Hist!ToSet, HistP!ToSet
<1>14. Hist!BlameExact <=> HistP!BlameExact
  BY DEF Hist!Nodes, HistP!Nodes, Hist!Parent, HistP!Parent, Hist!ParentContent,
         HistP!ParentContent, Hist!BlameEnds, HistP!BlameEnds, Hist!BlameWalk, HistP!BlameWalk,
         Hist!BlameEnd, HistP!BlameEnd, Hist!BlamePending, HistP!BlamePending, Hist!BlameBoundary,
         HistP!BlameBoundary, Hist!LookedAt, HistP!LookedAt, Hist!BlameNodes, HistP!BlameNodes,
         Hist!BlameLayers, HistP!BlameLayers, Hist!BlameGone, HistP!BlameGone, Hist!BlameAnswered,
         HistP!BlameAnswered, Hist!BlameDegraded, HistP!BlameDegraded, Hist!BlameOwner,
         HistP!BlameOwner, Hist!BlameAuthors, HistP!BlameAuthors, Hist!Introducer,
         HistP!Introducer, Hist!BlameExact, HistP!BlameExact, Hist!Max, HistP!Max
<1>15. Hist!NamesNothingRedacted <=> HistP!NamesNothingRedacted
  BY DEF Hist!Nodes, HistP!Nodes, Hist!UnlessRedacted, HistP!UnlessRedacted, Hist!Diff, HistP!Diff,
         Hist!FileAt, HistP!FileAt, Hist!FileEntry, HistP!FileEntry, Hist!DirEntry, HistP!DirEntry,
         Hist!NamesNothingRedacted, HistP!NamesNothingRedacted
<1>16. Hist!PagesCover <=> HistP!PagesCover
  BY DEF Hist!PagesCover, HistP!PagesCover, Hist!IsInjective, HistP!IsInjective, Hist!ToSet,
         HistP!ToSet
<1>. QED
  BY <1>1, <1>2, <1>11, <1>12, <1>13, <1>14, <1>15, <1>16
  DEF Hist!vars, HistP!vars

-----------------------------------------------------------------------------
(* The server.                                                             *)

(* A step is one of the component at work and leaves the others alone.     *)
LEMMA PartSteps ==
    ASSUME [Next]_vars
    PROVE  /\ part' = part
           /\ part = "cache" => [Cache!Next]_(Cache!vars)
           /\ part = "tickets" => [Ticket!Next]_(Ticket!vars)
           /\ part = "failures" => [Fail!Next]_(Fail!vars)
           /\ part = "snapshots" => [Snap!Next]_(Snap!vars)
           /\ part = "redaction" => [Red!Next]_(Red!vars)
           /\ part = "queue" => [Queue!Next]_(Queue!vars)
           /\ part = "access" => [Acc!Next]_(Acc!vars)
           /\ part = "history" => [Hist!Next]_(Hist!vars)
           /\ part # "redaction" => UNCHANGED Red!vars
           /\ part # "access" => UNCHANGED Acc!vars
           /\ part # "history" => UNCHANGED Hist!vars
<1>. USE DEF cacheVars, ticketsVars, accessVars, failuresVars, redactionVars, snapshotsVars,
         queueVars, historyVars
<1>1. CASE UNCHANGED vars
  BY <1>1 DEF vars, Cache!vars, Ticket!vars, Fail!vars, Snap!vars, Red!vars, Queue!vars, Acc!vars,
              Acc!catalog, Acc!history, Hist!vars
<1>2. CASE Next
  <2>1. part # "redaction" => UNCHANGED Red!vars
    BY <1>2 DEF Next, Red!vars
  <2>2. part # "access" => UNCHANGED Acc!vars
    BY <1>2 DEF Next, Acc!vars, Acc!catalog, Acc!history
  <2>3. part # "history" => UNCHANGED Hist!vars
    BY <1>2 DEF Next, Hist!vars
  <2>. QED  BY <1>2, <2>1, <2>2, <2>3 DEF Next
<1>. QED  BY <1>1, <1>2

(* cache_tier.rs, for any number of requests and trees, any marks at any   *)
(* time and any evictions and restarts: a snapshot at the origin's present *)
(* epoch holds what the origin would let out, only a request under which   *)
(* the snapshot it probed was replaced is served an id marked before it    *)
(* began, and nothing outside the ticket's tree is read or fetched.        *)
THEOREM TierIsHonest ==
    ASSUME Cache!CacheAssumption
    PROVE  Spec => []TierHonest
<1>. DEFINE I == part = "cache" => CacheInv
<1>1. Init => I
  BY CacheInit DEF Init
<1>2. I /\ [Next]_vars => I'
  BY CacheNext, PartSteps
<1>3. I => TierHonest
  BY CacheHolds DEF TierHonest
<1>. QED  BY <1>1, <1>2, <1>3, PTL DEF Spec

(* ticket.rs, routes/tickets.rs and the key verbs of host.rs, for every    *)
(* cap, skew and interruption of a verb: access outlasts the grant by at   *)
(* most the cap and the skew, the signing key is listed, and what the      *)
(* origin minted it accepts until it expires.                              *)
THEOREM TicketsAreHonest ==
    ASSUME Ticket!TicketsAssumption
    PROVE  Spec => []TicketsHonest
<1>. DEFINE I == part = "tickets" => TicketsInv
<1>1. Init => I
  BY TicketsInit DEF Init
<1>2. I /\ [Next]_vars => I'
  BY TicketsNext, PartSteps
<1>3. I => TicketsHonest
  BY TicketsHold DEF TicketsHonest
<1>. QED  BY <1>1, <1>2, <1>3, PTL DEF Spec

(* However many credentials fail how often at what times: as long as the   *)
(* clock does not step back and no failure overtakes an earlier one, no    *)
(* window of time holds more audit rows than the global cap, and none more *)
(* of one credential than its limit.                                       *)
THEOREM FloodIsBounded ==
    ASSUME Fail!FailuresAssumption
    PROVE  Spec => []FloodBounded
<1>. DEFINE I == part = "failures" => FailuresInv
<1>1. Init => I
  BY FailuresInit DEF Init
<1>2. I /\ [Next]_vars => I'
  BY FailuresNext, PartSteps
<1>3. I => FloodBounded
  BY DEF FailuresInv, FloodBounded
<1>. QED  BY <1>1, <1>2, <1>3, PTL DEF Spec

(* routes/snapshots.rs and snapshots_gc.rs, for any number of passes and   *)
(* repos in any number of files: the owner of an unexpired snapshot reads  *)
(* each of its trees, also while a pass that started long before sweeps.   *)
THEOREM SnapshotsServe ==
    ASSUME Snap!SnapshotsAssumption
    PROVE  Spec => []LiveTreesServe
<1>. DEFINE I == part = "snapshots" => SnapshotsInv
<1>1. Init => I
  BY SnapshotsInit DEF Init
<1>2. I /\ [Next]_vars => I'
  BY SnapshotsNext, PartSteps
<1>3. I => LiveTreesServe
  BY SnapshotsHold DEF LiveTreesServe
<1>. QED  BY <1>1, <1>2, <1>3, PTL DEF Spec

(* gc.rs redaction_purge_pass, cut at any commit and raced by uploads and  *)
(* creates of any repo, with a page of any size: every changeset keeps its *)
(* bytes and objects rows, and one stamped purged has no row.              *)
THEOREM PurgeIsSound ==
    ASSUME Red!RedactionAssumption
    PROVE  Spec => []PurgeSound
<1>. DEFINE I == part = "redaction" => RedactionInv
<1>1. Init => I
  BY RedactionInit DEF Init
<1>2. I /\ [Next]_vars => I'
  BY RedactionNext, PartSteps
<1>3. I => PurgeSound
  BY RedactionHolds DEF PurgeSound
<1>. QED  BY <1>1, <1>2, <1>3, PTL DEF Spec

(* derive.rs and the derive statements of db.rs, for every history and any *)
(* order of creates, failing enqueues, backfills that give up, marks,      *)
(* collections, busy slots, crashes and panics: under the backfill marker  *)
(* only a create in flight or one whose enqueue failed lacks its row,      *)
(* contention costs no attempt, nothing waits for a changeset that is      *)
(* gone, and a hole is never passed on untainted.                          *)
THEOREM QueueIsSound ==
    ASSUME Queue!DeriveAssumption
    PROVE  Spec => []QueueSound
<1>. DEFINE I == part = "queue" => QueueInv
<1>1. Init => I
  BY QueueInit DEF Init
<1>2. I /\ [Next]_vars => I'
  BY QueueNext, PartSteps
<1>3. I => QueueSound
  BY QueueHolds DEF QueueSound
<1>. QED  BY <1>1, <1>2, <1>3, PTL DEF Spec

(* What access keeps while it is at work.                                  *)
LEMMA AccessInvariance ==
    ASSUME Acc!AccessAssumption
    PROVE  Spec => [](part = "access" => AccessInv)
<1>. DEFINE I == part = "access" => AccessInv
<1>1. Init => I
  BY AccessInit DEF Init
<1>2. I /\ [Next]_vars => I'
  BY AccessNext, PartSteps
<1>. QED  BY <1>1, <1>2, PTL DEF Spec

(* db.rs principal_delete, however often a name is made and deleted and    *)
(* whatever other requests log meanwhile: no audit row older than the      *)
(* erasure names the principal, but for the details of grants.             *)
THEOREM ErasureHolds ==
    ASSUME Acc!AccessAssumption
    PROVE  Spec => []ErasureReachesTheLog
<1>1. (part = "access" => AccessInv) => ErasureReachesTheLog
  BY AccessHolds DEF ErasureReachesTheLog
<1>. QED  BY <1>1, AccessInvariance, PTL

(* auth.rs authenticate and the gates of routes/mod.rs, whatever commits   *)
(* between the steps of a request: a dead token authenticates nobody, and  *)
(* 403 goes only to a principal who sees the repo.                         *)
THEOREM GatesHold ==
    ASSUME Acc!AccessAssumption
    PROVE  Spec => RequestsGated
<1>. DEFINE Dead == \A q \in Requests: pc[q] = "auth" /\ pc'[q] = "gate" => ask[q].token \notin dead
            Oracle == \A q \in Requests:
                        /\ pc[q] # "idle" /\ answer'[q] = "forbidden"
                        /\ ask[q].op \in Acc!RepoOps
                        => exists /\ Acc!AccessVisibility(auth[q].principal)
<1>1. (part = "access" => AccessInv) /\ [Next]_vars => [Dead]_(Acc!vars) /\ [Oracle]_(Acc!vars)
  BY GateSteps, PartSteps
<1>. QED
  BY <1>1, AccessInvariance, PTL
  DEF Spec, RequestsGated, Acc!RequestsGated, Acc!DeadTokensStayDead, Acc!NoExistenceOracle

(* changesets.rs and blobs.rs, for any number of repos, whatever marks,    *)
(* passes, uploads and creates interleave: no new row is a tombstoned      *)
(* changeset or names a tombstoned blob, the blob gains no membership row, *)
(* and a tree holds it only where a tree of the repo held it before.       *)
THEOREM TombstonesHold ==
    ASSUME Red!RedactionAssumption
    PROVE  Spec => TombstonedGainsNothing
<1>. DEFINE I == part = "redaction" => RedactionInv
            Gains == \A r \in Repos, i \in Red!Ids:
                        Red!RedactionActive(r, i) => Red!GainsNothing(r, i)
<1>1. Init => I
  BY RedactionInit DEF Init
<1>2. I /\ [Next]_vars => I'
  BY RedactionNext, PartSteps
<1>3. I /\ [Next]_vars => [Gains]_(Red!vars)
  BY GainsNothingStep, PartSteps
<1>. QED  BY <1>1, <1>2, <1>3, PTL DEF Spec, TombstonedGainsNothing, Red!TombstonedGainsNothing

(* refs.rs cas_ref: only a compare-and-swap moves a ref, and its gates     *)
(* leave it at a descendant that no redaction mark names.                  *)
LEMMA RefStep ==
    ASSUME [Hist!Next]_(Hist!vars), ref # None, ref' # ref
    PROVE  /\ ref.target \in Hist!Ancestors[ref'.target]
           /\ ref'.version = ref.version + 1
           /\ ref'.target \notin tombs
<1>1. Hist!CasRef
  BY DEF Hist!Next, Hist!vars, Hist!Create, Hist!Derive, Hist!Quarantine, Hist!MarkChangeset,
         Hist!MarkBlob, Hist!Ask, Hist!ReadPage
<1>2. PICK target \in Hist!Nodes \ tombs:
        /\ Hist!RefContains(ref.target, target)
        /\ ref' = [target |-> target, version |-> ref.version + 1]
  <2>1. PICK target \in Hist!Nodes \ tombs, expected \in 1..MaxVersion \cup {None}:
          \/ ref = None
          \/ /\ Hist!RefContains(ref.target, target)
             /\ ref' = [target |-> target, version |-> ref.version + 1]
    BY <1>1 DEF Hist!CasRef
  <2>. QED  BY <2>1
<1>3. ref.target \in UNION {Hist!Ancestors[i]: i \in {target}}
  BY <1>2 DEF Hist!RefContains, Hist!MergeBaseWalkSeeded
<1>4. ref.target \in Hist!Ancestors[target]
  BY <1>3
<1>5. ref'.target = target /\ ref'.version = ref.version + 1
  BY <1>2
<1>. QED  BY <1>2, <1>4, <1>5

(* A ref only moves forward, a version at a time, and never to what is     *)
(* redacted, for any number of changesets, marks and writers of the ref.   *)
THEOREM RefsAdvance ==
    Spec => RefAdvances
<1>. DEFINE Advance ==
        ref # None /\ ref' # ref =>
          /\ ref.target \in Hist!Ancestors[ref'.target]
          /\ ref'.version = ref.version + 1
          /\ ref'.target \notin tombs
<1>1. [Next]_vars => [Advance]_(Hist!vars)
  BY RefStep, PartSteps
<1>. QED  BY <1>1, PTL DEF Spec, RefAdvances, Hist!RefAdvances

(* history.rs, whatever is derived, quarantined, created and redacted in   *)
(* whatever order: the skip lists never change a merge base, a blame names *)
(* the changeset that brought each line or is flagged, pages cover what    *)
(* was asked and nothing redacted is named.                                *)
THEOREM HistoryIsExact ==
    ASSUME Hist!HistoryAssumption
    PROVE  Spec => []HistoryExact
<1>. DEFINE I == part = "history" => HistP!HistoryInv
<1>1. Init => I
  BY HistoryIsIt, HistP!HistoryInit DEF Init
<1>2. I /\ [Next]_vars => I'
  BY HistoryIsIt, HistP!HistoryNext, PartSteps
<1>3. I => HistoryExact
  BY HistoryIsIt, HistP!MergeBasesHold, HistP!BlameHolds, HistP!NamesHold, HistP!PagesHold
  DEF HistoryExact
<1>. QED  BY <1>1, <1>2, <1>3, PTL DEF Spec

(* Every component's invariant, for the one at work.                       *)
ServingAssumption ==
    /\ Cache!CacheAssumption /\ Ticket!TicketsAssumption /\ Acc!AccessAssumption
    /\ Fail!FailuresAssumption /\ Red!RedactionAssumption /\ Snap!SnapshotsAssumption
    /\ Queue!DeriveAssumption /\ Hist!HistoryAssumption

ServingInv ==
    /\ part \in Parts
    /\ part = "cache" => CacheInv
    /\ part = "tickets" => TicketsInv
    /\ part = "access" => AccessInv
    /\ part = "failures" => FailuresInv
    /\ part = "redaction" => RedactionInv
    /\ part = "snapshots" => SnapshotsInv
    /\ part = "queue" => QueueInv
    /\ part = "history" => HistP!HistoryInv

(* The types of every component: epochs, windows and attempts within their *)
(* bounds, a changeset younger than its parents and than the targets of    *)
(* its skip entries.                                                       *)
THEOREM TypesAreKept ==
    ASSUME ServingAssumption
    PROVE  Spec => []TypeOK
<1>. USE DEF ServingAssumption
<1>1. Init => ServingInv
  BY CacheInit, TicketsInit, AccessInit, FailuresInit, RedactionInit, SnapshotsInit, QueueInit,
     HistoryIsIt, HistP!HistoryInit
  DEF Init, ServingInv
<1>2. ServingInv /\ [Next]_vars => ServingInv'
  BY PartSteps, CacheNext, TicketsNext, AccessNext, FailuresNext, RedactionNext, SnapshotsNext,
     QueueNext, HistoryIsIt, HistP!HistoryNext
  DEF ServingInv
<1>3. ServingInv => TypeOK
  <2>1. CacheInv => Cache!TypeOK
    BY DEF CacheInv
  <2>2. TicketsInv => Ticket!TypeOK
    BY DEF TicketsInv
  <2>3. AccessInv => Acc!TypeOK
    BY Halves DEF AccessInv, CatalogInv
  <2>4. FailuresInv => Fail!TypeOK
    BY DEF FailuresInv
  <2>5. RedactionInv => Red!TypeOK
    BY DEF RedactionInv
  <2>6. SnapshotsInv => Snap!TypeOK
    BY DEF SnapshotsInv
  <2>7. QueueInv => Queue!TypeOK
    BY DEF QueueInv
  <2>8. HistP!HistoryInv => Hist!TypeOK
    BY HistoryIsIt, HistP!TypesHold
  <2>. QED
    BY <2>1, <2>2, <2>3, <2>4, <2>5, <2>6, <2>7, <2>8 DEF ServingInv, TypeOK
<1>. QED  BY <1>1, <1>2, <1>3, PTL DEF Spec
=============================================================================
