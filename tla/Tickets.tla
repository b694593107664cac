------------------------------ MODULE Tickets ------------------------------
(***************************************************************************)
(* Cache tickets (ticket.rs, routes/tickets.rs mint, auth.rs               *)
(* authenticate_ticket) and the origin's key store (the cache-key verbs of  *)
(* host.rs).                                                               *)
(*                                                                         *)
(* The origin mints a ticket for a reader it lets in, and a tier verifies  *)
(* it with its own copy of the verify list and its own clock, without      *)
(* asking whether the reader is still let in.  The key verbs write the     *)
(* verify list, then the secret, then an audit row; each write is a step   *)
(* and the process may die between two.  Time is in ticks; the tier's      *)
(* clock differs from the origin's by a fixed skew.                        *)
(***************************************************************************)
EXTENDS Integers, FiniteSets

CONSTANTS Keys, None,
          Cap,          \* TICKET_MAX_LIFETIME_SECS
          IatSkew,      \* IAT_SKEW_SECS
          MaxSkew,      \* bound on the difference of the two clocks
          MaxNow        \* bound on the origin's clock

VARIABLES
    \* the origin's data directory
    list,       \* cache_keys.json: [keys, current], or None
    secret,     \* cache_signing.pkcs8: a key, or None
    initRow,    \* a cache_key_init audit row exists
    \* the verb that runs under the data-directory lock
    verb,       \* [step, key, name], or None
    fresh,      \* keys not yet generated
    \* the tier
    tierKeys,   \* the verify list it loaded when it started
    skew,       \* its clock minus the origin's
    \* the world
    now, allowed,
    lastAllowed,    \* history: when the reader was last let in
    dropped,        \* history: keys dropped by the operator
    ticket,         \* the ticket the run follows, or None
    served          \* history: [at, ticket] of the last acceptance, or None

vars == <<list, secret, initRow, verb, fresh, tierKeys, skew, now, allowed,
          lastAllowed, dropped, ticket, served>>
store == <<list, secret, initRow, verb, fresh, dropped>>
world == <<now, allowed, lastAllowed>>

Ticket == [key: Keys, iat: 0..MaxNow, exp: 0..(MaxNow + Cap)]
VerifyKeys == [keys: SUBSET Keys, current: Keys \cup {None}]
Verb == [step: {"secret", "audit"}, key: Keys, name: {"init", "rotate"}]
Acceptance == [at: 0..MaxNow, ticket: Ticket]

TicketsAssumption ==
    /\ Cap \in Nat /\ IatSkew \in Nat /\ MaxSkew \in Nat /\ MaxNow \in Nat
    /\ None \notin Keys /\ None \notin VerifyKeys /\ None \notin Verb
    /\ None \notin Ticket /\ None \notin Acceptance

TypeOK ==
    /\ list \in VerifyKeys \cup {None}
    /\ list # None => list.keys # {}
    /\ secret \in Keys \cup {None}
    /\ initRow \in BOOLEAN
    /\ verb \in Verb \cup {None}
    /\ fresh \subseteq Keys
    /\ tierKeys \subseteq Keys
    /\ skew \in -MaxSkew..MaxSkew
    /\ now \in 0..MaxNow
    /\ allowed \in BOOLEAN
    /\ lastAllowed \in 0..MaxNow
    /\ dropped \subseteq Keys
    /\ ticket \in Ticket \cup {None}
    /\ served \in Acceptance \cup {None}

Init ==
    /\ list = None /\ secret = None /\ initRow = FALSE /\ verb = None
    /\ fresh = Keys /\ dropped = {}
    /\ tierKeys = {} /\ skew \in -MaxSkew..MaxSkew
    /\ now = 0 /\ allowed = TRUE /\ lastAllowed = 0
    /\ ticket = None /\ served = None

-----------------------------------------------------------------------------
(* The key verbs.  The lock of the data directory lets one run at a time.  *)

ListedKeys == IF list = None THEN {} ELSE list.keys

(* cache_key_init: both files exist -> the audit repair, else a new pair   *)
CacheKeyInit ==
    /\ verb = None
    /\ list = None \/ secret = None
    /\ \E k \in fresh:
         /\ list' = [keys |-> {k}, current |-> k]
         /\ fresh' = fresh \ {k}
         /\ verb' = [step |-> "secret", key |-> k, name |-> "init"]
    /\ UNCHANGED <<secret, initRow, tierKeys, skew, world, dropped, ticket, served>>

(* cache_key_repair_audit: the init row of a store whose verb died         *)
CacheKeyRepairAudit ==
    /\ verb = None
    /\ list # None /\ secret # None
    /\ list.current # None
    /\ initRow' = TRUE
    /\ UNCHANGED <<list, secret, verb, fresh, tierKeys, skew, world, dropped,
                   ticket, served>>

(* cache_key_rotate: the new key current, every previous key retired; the  *)
(* list is written first                                                   *)
CacheKeyRotate ==
    /\ verb = None
    /\ list # None
    /\ \E k \in fresh:
         /\ list' = [keys |-> list.keys \cup {k}, current |-> k]
         /\ fresh' = fresh \ {k}
         /\ verb' = [step |-> "secret", key |-> k, name |-> "rotate"]
    /\ UNCHANGED <<secret, initRow, tierKeys, skew, world, dropped, ticket, served>>

(* key_store_write, after the list: the secret, then the audit row *)
WriteSigningFile ==
    /\ verb # None /\ verb.step = "secret"
    /\ secret' = verb.key
    /\ verb' = [verb EXCEPT !.step = "audit"]
    /\ UNCHANGED <<list, initRow, fresh, tierKeys, skew, world, dropped, ticket, served>>

AuditRow ==
    /\ verb # None /\ verb.step = "audit"
    /\ initRow' = (initRow \/ verb.name = "init")
    /\ verb' = None
    /\ UNCHANGED <<list, secret, fresh, tierKeys, skew, world, dropped, ticket, served>>

(* The verb dies, or its next write fails *)
VerbDies ==
    /\ verb # None
    /\ verb' = None
    /\ UNCHANGED <<list, secret, initRow, fresh, tierKeys, skew, world, dropped,
                   ticket, served>>

(* cache_key_drop: a listed key that is not current *)
CacheKeyDrop(k) ==
    /\ verb = None
    /\ k \in ListedKeys
    /\ list.current # k
    /\ list' = [list EXCEPT !.keys = @ \ {k}]
    /\ dropped' = dropped \cup {k}
    /\ UNCHANGED <<secret, initRow, verb, fresh, tierKeys, skew, world, ticket, served>>

-----------------------------------------------------------------------------
(* Minting and verifying.                                                  *)

(* load_signing_key: no secret file, no tickets *)
LoadSigningKey == {secret} \ {None}

(* The read gate, the cap on the asked lifetime, the signing key *)
Mint(ttl) ==
    /\ allowed
    /\ ttl <= Cap
    /\ ticket = None
    /\ \E k \in LoadSigningKey:
         ticket' = [key |-> k, iat |-> now, exp |-> now + ttl]
    /\ UNCHANGED <<store, tierKeys, skew, world, served>>

(* verify_ticket: "ok", or why not *)
VerifyUnexpiring(t, keys, clock) ==
    IF \/ t.key \notin keys
       \/ t.exp - t.iat > Cap
       \/ t.iat > clock + IatSkew
    THEN "invalid"
    ELSE "ok"

VerifyTicket(t, keys, clock) ==
    IF \/ t.key \notin keys
       \/ t.exp - t.iat > Cap
       \/ t.iat > clock + IatSkew
       \/ t.exp > clock + Cap
    THEN "invalid"
    ELSE IF clock >= t.exp THEN "expired" ELSE "ok"

(* authenticate_ticket: the origin's own list and clock, read per request *)
OriginAccepts(t) == VerifyTicket(t, ListedKeys, now) = "ok"

(* The tier serves a ticket it verifies with its own list and clock *)
TierServe ==
    /\ ticket # None
    /\ VerifyTicket(ticket, tierKeys, now + skew) = "ok"
    /\ served' = [at |-> now, ticket |-> ticket]
    /\ UNCHANGED <<store, tierKeys, skew, world, ticket>>

(* The operator copies the list to the tier and restarts it; with no key   *)
(* in the list the tier refuses to start                                   *)
TierRestart ==
    /\ ListedKeys # {}
    /\ tierKeys' = ListedKeys
    /\ UNCHANGED <<store, skew, world, ticket, served>>

-----------------------------------------------------------------------------
Tick ==
    /\ now < MaxNow
    /\ now' = now + 1
    /\ lastAllowed' = IF allowed THEN now + 1 ELSE lastAllowed
    /\ UNCHANGED <<store, tierKeys, skew, allowed, ticket, served>>

Revoke ==
    /\ allowed
    /\ allowed' = FALSE
    /\ UNCHANGED <<store, tierKeys, skew, now, lastAllowed, ticket, served>>

Next ==
    \/ CacheKeyInit \/ CacheKeyRepairAudit \/ CacheKeyRotate
    \/ WriteSigningFile \/ AuditRow \/ VerbDies
    \/ \E k \in Keys: CacheKeyDrop(k)
    \/ \E ttl \in 0..(Cap + 1): Mint(ttl)
    \/ TierServe \/ TierRestart \/ Tick \/ Revoke

Spec == Init /\ [][Next]_vars

-----------------------------------------------------------------------------
(* A reader whose access ended is let in by the tier at most the ticket    *)
(* cap and the clocks' difference longer: nothing but expiry ends a        *)
(* ticket.                                                                 *)
AccessEndsInTime ==
    served # None =>
        /\ served.at < lastAllowed + Cap + MaxSkew
        /\ served.ticket.iat <= lastAllowed

(* The origin signs under a key its verify list has, whatever verb died    *)
(* between the two files, unless the operator dropped that very key.       *)
SigningListed ==
    secret # None => secret \in ListedKeys \cup dropped

(* What the origin minted it accepts until it expires, whatever keys were  *)
(* rotated in since and whatever verb died, unless the key was dropped.    *)
MintedVerifies ==
    ticket # None /\ now < ticket.exp /\ ticket.key \notin dropped =>
        OriginAccepts(ticket)

(* Access ends with the grant and the ticket's life, whatever the clocks'  *)
(* skew; the key that signs is listed whatever verb died, and what is      *)
(* minted verifies until it expires.                                       *)
TicketsHonest == AccessEndsInTime /\ SigningListed /\ MintedVerifies
=============================================================================
