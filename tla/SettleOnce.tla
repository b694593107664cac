----------------------------- MODULE SettleOnce -----------------------------
(***************************************************************************)
(* What POST /v1/repos/{r}/land promises its clients, with no word about   *)
(* how: a land key settles at most once, a 200 carries the settlement of   *)
(* the key for the head that was asked for, and a 409                      *)
(* `idempotency_key_settled` names the head the key really settled with.   *)
(* Every other answer (busy, refused, internal error, timeout, a lost      *)
(* connection) is "failed": it promises nothing, the client may retry.     *)
(*                                                                         *)
(* LandJoin is shown to implement this specification.                      *)
(***************************************************************************)
CONSTANTS Requests,   \* land requests; a client's retry is another request
          Keys,       \* idempotency keys, each scoped to one (repo, principal)
          Heads,      \* changesets that are asked to be landed
          Results,    \* what a settled row records
          None        \* no value

VARIABLES ask,        \* ask[r]: what request r asked for, None before it arrives
          settled,    \* settled[k]: the settlement of key k, None while unsettled
          answer      \* answer[r]: what request r was answered, None before that

vars == <<ask, settled, answer>>

Tags == {"done", "settled", "failed"}

Outcome == [tag: Tags, head: Heads \cup {None}, res: Results \cup {None}]

Done(res)      == [tag |-> "done", head |-> None, res |-> res]
SettledAs(h)   == [tag |-> "settled", head |-> h, res |-> None]
Failed         == [tag |-> "failed", head |-> None, res |-> None]

(* The outcome `o` is a truthful answer to the question `q`. *)
Truthful(o, q, rows) ==
    /\ o.tag = "done" =>
         /\ rows[q.key] # None
         /\ rows[q.key].head = q.head
         /\ rows[q.key].res = o.res
    /\ o.tag = "settled" =>
         /\ rows[q.key] # None
         /\ rows[q.key].head = o.head
         /\ o.head # q.head

Init == /\ ask = [r \in Requests |-> None]
        /\ settled = [k \in Keys |-> None]
        /\ answer = [r \in Requests |-> None]

Ask(r) == /\ ask[r] = None
          /\ ask'[r] \in [key: Keys, head: Heads]
          /\ ask' = [ask EXCEPT ![r] = ask'[r]]
          /\ UNCHANGED <<settled, answer>>

Settle(k) == /\ settled[k] = None
             /\ settled'[k] \in [head: Heads, res: Results]
             /\ settled' = [settled EXCEPT ![k] = settled'[k]]
             /\ UNCHANGED <<ask, answer>>

Reply(r) == /\ ask[r] # None
            /\ answer[r] = None
            /\ answer'[r] \in Outcome
            /\ Truthful(answer'[r], ask[r], settled)
            /\ answer' = [answer EXCEPT ![r] = answer'[r]]
            /\ UNCHANGED <<ask, settled>>

(* The server dies: every open request loses its connection. *)
LoseAll == /\ answer' = [r \in Requests |->
                           IF ask[r] # None /\ answer[r] = None
                             THEN Failed ELSE answer[r]]
           /\ UNCHANGED <<ask, settled>>

Next == \/ \E r \in Requests: Ask(r) \/ Reply(r)
        \/ \E k \in Keys: Settle(k)
        \/ LoseAll

Spec == Init /\ [][Next]_vars
=============================================================================
