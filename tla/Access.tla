------------------------------- MODULE Access -------------------------------
(***************************************************************************)
(* Tokens, principals and the grants of one repo (auth.rs, routes/mod.rs   *)
(* gates, routes/tokens.rs, access.rs, principals.rs, and their statements *)
(* in db.rs).                                                              *)
(*                                                                         *)
(* A request authenticates, passes its gate and acts in three steps: each  *)
(* reads or writes the catalog in a transaction of its own, and other      *)
(* requests commit between.  Only a land checks its gate again inside the  *)
(* write.  The repo is private exactly when it has a grant.                *)
(***************************************************************************)
EXTENDS Naturals, Sequences, FiniteSets

CONSTANTS Requests, Names, Tokens, None,
          Root,         \* the principal made by the host's bootstrap
          RootToken,    \* and its token
          MaxAudit      \* bound on the audit log

Roles == {"reader", "writer", "admin"}
Rank(role) == CASE role = "admin" -> 3 [] role = "writer" -> 2 [] role = "reader" -> 1
AtLeast(role, min) == Rank(role) >= Rank(min)

Grants == [read: BOOLEAN, write: BOOLEAN]
RepoOps == {"read", "write", "land", "grant", "revoke_grant"}
AdminOps == {"grant", "revoke_grant", "mint", "revoke_token", "delete"}
Ops == RepoOps \cup AdminOps
Asks == [token: Tokens, op: Ops, who: Names \ {Root}]
Row == [actor: Names \cup {"pseudonym"}, about: Names \cup {None, "pseudonym"},
        action: AdminOps]
TokenRow == [principal: Names, revoked: BOOLEAN]
AuthedPrincipal == [principal: Names, role: Roles]

VARIABLES
    exists,     \* the repo exists
    principals, \* principals[n]: the role of n, or None
    tokens,     \* tokens[t]: its row, or None
    grants,     \* grants[n]: n's flags on the repo, or None
    audit,      \* the audit log
    pc, ask,
    auth,       \* auth[q]: AuthedPrincipal of the request, or None
    answer,
    minted,     \* history: tokens ever minted
    dead,       \* history: tokens revoked, or whose principal was deleted
    erased      \* history: erased[n]: length of the log when n was deleted

catalog == <<exists, principals, tokens, grants, audit>>
history == <<minted, dead, erased>>
vars == <<exists, principals, tokens, grants, audit, pc, ask, auth, answer,
          minted, dead, erased>>

Answers == {"ok", "unauthorized", "forbidden", "notfound", "invalid"}

AccessAssumption ==
    /\ Root \in Names /\ RootToken \in Tokens
    /\ MaxAudit \in Nat
    /\ "pseudonym" \notin Names
    /\ None \notin Names /\ None \notin Roles /\ None \notin TokenRow /\ None \notin Grants
    /\ None \notin Asks /\ None \notin AuthedPrincipal /\ None \notin Answers

(* The types of the state; a grant to write is a grant to read.            *)
TypeOK ==
    /\ exists \in BOOLEAN
    /\ principals \in [Names -> Roles \cup {None}]
    /\ tokens \in [Tokens -> TokenRow \cup {None}]
    /\ grants \in [Names -> Grants \cup {None}]
    /\ \A n \in Names: grants[n] # None => (grants[n].write => grants[n].read)
    /\ audit \in Seq(Row)
    /\ pc \in [Requests -> {"idle", "auth", "gate", "act"}]
    /\ ask \in [Requests -> Asks \cup {None}]
    /\ auth \in [Requests -> AuthedPrincipal \cup {None}]
    /\ answer \in [Requests -> Answers \cup {None}]
    /\ minted \subseteq Tokens /\ dead \subseteq Tokens
    /\ erased \in [Names -> 0..MaxAudit]

Init ==
    /\ exists \in BOOLEAN
    /\ principals = [n \in Names |-> IF n = Root THEN "admin" ELSE None]
    /\ tokens = [t \in Tokens |-> IF t = RootToken
                                    THEN [principal |-> Root, revoked |-> FALSE]
                                    ELSE None]
    /\ grants = [n \in Names |-> None]
    /\ audit = <<>>
    /\ pc = [q \in Requests |-> "idle"]
    /\ ask = [q \in Requests |-> None]
    /\ auth = [q \in Requests |-> None]
    /\ answer = [q \in Requests |-> None]
    /\ minted = {RootToken} /\ dead = {}
    /\ erased = [n \in Names |-> 0]

-----------------------------------------------------------------------------
(* The statements.                                                         *)

AccessIsPrivate == \E n \in Names: grants[n] # None
AccessVisibility(n) == ~AccessIsPrivate \/ (grants[n] # None /\ grants[n].read)
MayWrite(n) == grants[n] # None /\ grants[n].write

AuditAppend(actor, action, about) ==
    audit' = Append(audit, [actor |-> actor, about |-> about, action |-> action])

(* auth_lookup joins the token with its principal's role *)
AuthLookup(t) ==
    IF tokens[t] = None \/ principals[tokens[t].principal] = None
      THEN None
      ELSE [principal |-> tokens[t].principal, role |-> principals[tokens[t].principal]]

(* token_create: the principal is upserted, which re-roles one that exists *)
TokenCreate(n, role) ==
    \E t \in Tokens \ minted:
        /\ principals' = [principals EXCEPT ![n] = role]
        /\ tokens' = [tokens EXCEPT ![t] = [principal |-> n, revoked |-> FALSE]]
        /\ AuditAppend(n, "mint", n)
        /\ minted' = minted \cup {t}
        /\ UNCHANGED <<exists, grants, dead, erased>>

(* token_revoke: only the first revocation is audited *)
TokenRevoke(t) ==
    /\ tokens' = [tokens EXCEPT ![t].revoked = TRUE]
    /\ IF tokens[t].revoked
         THEN UNCHANGED audit
         ELSE AuditAppend(tokens[t].principal, "revoke_token", None)
    /\ dead' = dead \cup {t}
    /\ UNCHANGED <<exists, principals, grants, minted, erased>>

(* principal_delete: its tokens and its row go, then the details of its    *)
(* token_create rows, then its name in the actor column                    *)
ScrubbedActorFirst(rows, n) ==
    LET details(r) == IF r.actor = n /\ r.action = "mint"
                        THEN [r EXCEPT !.about = "pseudonym"] ELSE r
        actor(r) == IF r.actor = n THEN [r EXCEPT !.actor = "pseudonym"] ELSE r
    IN  [i \in DOMAIN rows |-> details(actor(rows[i]))]

Scrubbed(rows, n) ==
    LET details(r) == IF r.actor = n /\ r.action = "mint"
                        THEN [r EXCEPT !.about = "pseudonym"] ELSE r
        actor(r) == IF r.actor = n THEN [r EXCEPT !.actor = "pseudonym"] ELSE r
    IN  [i \in DOMAIN rows |-> actor(details(rows[i]))]

PrincipalDelete(n, by) ==
    LET own == {t \in Tokens: tokens[t] # None /\ tokens[t].principal = n} IN
    /\ tokens' = [t \in Tokens |-> IF t \in own THEN None ELSE tokens[t]]
    /\ principals' = [principals EXCEPT ![n] = None]
    /\ audit' = Append(Scrubbed(audit, n),
                       [actor |-> by, about |-> "pseudonym", action |-> "delete"])
    /\ dead' = dead \cup own
    /\ erased' = [erased EXCEPT ![n] = Len(audit)]
    /\ UNCHANGED <<exists, grants, minted>>

(* access_grant: the principal must exist; access_set stores read for write *)
AccessSet(read, write) == [read |-> read \/ write, write |-> write]

AccessGrant(n, read, write, by) ==
    /\ write => read          \* the route refuses write without read
    /\ grants' = [grants EXCEPT ![n] = AccessSet(read, write)]
    /\ AuditAppend(by, "grant", n)
    /\ UNCHANGED <<exists, principals, tokens, minted, dead, erased>>

AccessRevoke(n, by) ==
    /\ grants' = [grants EXCEPT ![n] = None]
    /\ IF grants[n] = None THEN UNCHANGED audit
                           ELSE AuditAppend(by, "revoke_grant", n)
    /\ UNCHANGED <<exists, principals, tokens, minted, dead, erased>>

-----------------------------------------------------------------------------
(* The requests.                                                           *)

Answer(q, a) ==
    /\ pc' = [pc EXCEPT ![q] = "idle"]
    /\ answer' = [answer EXCEPT ![q] = a]
    /\ ask' = [ask EXCEPT ![q] = None]
    /\ auth' = [auth EXCEPT ![q] = None]

Begin(q) ==
    /\ pc[q] = "idle"
    /\ \E a \in Asks: a.token \in minted /\ ask' = [ask EXCEPT ![q] = a]
    /\ pc' = [pc EXCEPT ![q] = "auth"]
    /\ answer' = [answer EXCEPT ![q] = None]
    /\ UNCHANGED <<catalog, history, auth>>

(* authenticate; an expired token is refused like a revoked one *)
Authenticate(q) ==
    LET t == ask[q].token  row == AuthLookup(t) IN
    /\ pc[q] = "auth"
    /\ IF row = None \/ (tokens[t] # None /\ tokens[t].revoked)
         THEN Answer(q, "unauthorized")
         ELSE /\ auth' = [auth EXCEPT ![q] = row]
              /\ pc' = [pc EXCEPT ![q] = "gate"]
              /\ UNCHANGED <<ask, answer>>
    /\ UNCHANGED <<catalog, history>>

(* repo_read_gate, repo_write_gate: "pass", or the refusal.  A cache       *)
(* ticket is refused by both before anything is read.                      *)
ReadGate(a) ==
    IF exists /\ (a.role = "admin" \/ AccessVisibility(a.principal)) THEN "pass" ELSE "notfound"

WriteGate(a) ==
    IF ~exists THEN "notfound"
    ELSE IF a.role = "admin" THEN "pass"
    ELSE IF AccessIsPrivate THEN IF MayWrite(a.principal) THEN "pass" ELSE "notfound"
    ELSE IF AtLeast(a.role, "writer") THEN "pass" ELSE "forbidden"

RequireRole(a, min) == IF AtLeast(a.role, min) THEN "pass" ELSE "forbidden"

(* The gate of each route, in the order its handler asks *)
RouteGateRoleFirst(op, a) ==
    CASE op = "read"  -> ReadGate(a)
      [] op = "write" -> WriteGate(a)
      [] op = "land"  -> IF exists THEN "pass" ELSE "notfound"
      [] op \in {"grant", "revoke_grant"} ->
            IF RequireRole(a, "admin") = "pass" THEN ReadGate(a) ELSE "forbidden"
      [] OTHER -> RequireRole(a, "admin")

RouteGate(op, a) ==
    CASE op = "read"  -> ReadGate(a)
      [] op = "write" -> WriteGate(a)
      [] op = "land"  -> IF exists THEN "pass" ELSE "notfound"
      [] op \in {"grant", "revoke_grant"} ->
            IF ReadGate(a) = "pass" THEN RequireRole(a, "admin") ELSE ReadGate(a)
      [] OTHER -> RequireRole(a, "admin")

Gate(q) ==
    LET a == auth[q]  verdict == RouteGate(ask[q].op, a) IN
    /\ pc[q] = "gate"
    /\ IF verdict = "pass"
         THEN pc' = [pc EXCEPT ![q] = "act"] /\ UNCHANGED <<ask, auth, answer>>
         ELSE Answer(q, verdict)
    /\ UNCHANGED <<catalog, history>>

(* A land's gate runs in the write closure *)
Land(q) ==
    /\ pc[q] = "act" /\ ask[q].op = "land"
    /\ Answer(q, IF WriteGate(auth[q]) = "pass" THEN "ok" ELSE WriteGate(auth[q]))
    /\ UNCHANGED <<catalog, history>>

Act(q) ==
    LET n == ask[q].who  by == auth[q].principal IN
    /\ pc[q] = "act" /\ ask[q].op # "land"
    /\ Len(audit) < MaxAudit
    /\ \/ /\ ask[q].op \in {"read", "write"}
          /\ Answer(q, "ok") /\ UNCHANGED <<catalog, history>>
       \/ /\ ask[q].op = "grant" /\ principals[n] # None
          /\ \E read, write \in BOOLEAN: AccessGrant(n, read, write, by)
          /\ Answer(q, "ok")
       \/ /\ ask[q].op = "revoke_grant"
          /\ AccessRevoke(n, by) /\ Answer(q, "ok")
       \/ /\ ask[q].op = "mint"
          /\ \E role \in Roles: TokenCreate(n, role)
          /\ Answer(q, "ok")
       \/ /\ ask[q].op = "revoke_token"
          /\ \E t \in Tokens: tokens[t] # None /\ TokenRevoke(t)
          /\ Answer(q, "ok")
       \/ /\ ask[q].op = "delete" /\ principals[n] # None
          /\ PrincipalDelete(n, by) /\ Answer(q, "ok")
       \/ /\ ask[q].op \in {"grant", "delete"} /\ principals[n] = None
          /\ Answer(q, "invalid") /\ UNCHANGED <<catalog, history>>

Next == \E q \in Requests:
    Begin(q) \/ Authenticate(q) \/ Gate(q) \/ Land(q) \/ Act(q)

Spec == Init /\ [][Next]_vars

-----------------------------------------------------------------------------
(* A token that was revoked, or whose principal was deleted, never         *)
(* authenticates again, also when a principal of that name is made anew.   *)
DeadTokensStayDead ==
    [][ \A q \in Requests: pc[q] = "auth" /\ pc'[q] = "gate" =>
            ask[q].token \notin dead ]_vars

(* Deleting a principal takes its name out of every audit row there was,   *)
(* except the details of grants, which the erasure does not rewrite.       *)
ErasureReachesTheLog ==
    \A n \in Names: \A i \in 1..erased[n]:
        /\ audit[i].actor # n
        /\ audit[i].about = n => audit[i].action \in {"grant", "revoke_grant"}

(* 403 tells that the repo exists: a request on a repo is answered it only *)
(* while the repo is visible to its principal.                             *)
NoExistenceOracle ==
    [][ \A q \in Requests:
            /\ pc[q] # "idle" /\ answer'[q] = "forbidden"
            /\ ask[q].op \in RepoOps
            => exists /\ AccessVisibility(auth[q].principal) ]_vars

(* A token that died stays dead, and a private repo answers as an absent   *)
(* one, whatever commits between the steps of a request.                   *)
RequestsGated == DeadTokensStayDead /\ NoExistenceOracle
=============================================================================
