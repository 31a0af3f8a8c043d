-------------------------- MODULE RulesetVersions --------------------------
(***************************************************************************)
(* The table ruleset_versions under requests that overlap.  A request      *)
(* flushes its edit, renders the ruleset of what it then reads, and stores *)
(* it in the same transaction, READ COMMITTED: the others see neither the  *)
(* edit nor the version before the COMMIT.  The gateway meanwhile polls    *)
(* rulesets and reports on them.                                           *)
(*                                                                         *)
(* The policy is a function from columns to values, a digest the ruleset   *)
(* itself.  Two requests that edit one column do so one after the other,   *)
(* as the second waits for the row; a request that edits a column no       *)
(* ruleset shows stands for POST /ruleset/regenerate too.  That the        *)
(* statements of one render may see two policies is in GatewayAgent.       *)
(***************************************************************************)
EXTENDS Naturals, Sequences, Functions

CONSTANTS
    Columns,      \* what a request edits
    Rendered,     \* the columns the ruleset shows
    Values,
    StartPolicy,  \* the policy of the installation, which nobody has stored
    Requests,     \* requests that may be open at once
    MaxStores     \* bound on the requests

VARIABLES
    policy,       \* the columns, as committed
    versions,     \* ruleset_versions, in the order of their commits
    requests,     \* the open transactions
    stores,       \* requests so far
    vouched,      \* the last request rendered the policy it left
    sent          \* the rulesets the gateway was sent

vars == <<policy, versions, requests, stores, vouched, sent>>

Configured ==
    /\ Rendered \subseteq Columns
    /\ StartPolicy \in [Columns -> Values]
    /\ MaxStores \in Nat

Ruleset(p) == Restrict(p, Rendered)
Rulesets == [Rendered -> Values]
Statuses == {"pending", "applied", "failed", "superseded"}

Idle == [at |-> "idle"]
Open == {q \in Requests : requests[q] # Idle}

Pending == {i \in DOMAIN versions : versions[i].status = "pending"}
StoredAs(ruleset) == {i \in DOMAIN versions : versions[i].digest = ruleset}

\* The rows a transaction has updated and not committed.
LockedBy(q) == IF requests[q].at = "locked" THEN requests[q].saw ELSE {}
Locked == UNION {LockedBy(q) : q \in Requests}

Init ==
    /\ policy = StartPolicy
    /\ versions = <<>>
    /\ requests = [q \in Requests |-> Idle]
    /\ stores = 0
    /\ vouched = FALSE
    /\ sent = {}

Goto(q, request) == requests' = [requests EXCEPT ![q] = request]
Inside == UNCHANGED <<policy, versions, vouched, sent>>

\* The flush of the edit, and the render: the policy as committed, and what
\* this request has changed.
Render(q, c, v) ==
    /\ requests[q] = Idle
    /\ stores < MaxStores
    /\ stores' = stores + 1
    /\ v # policy[c]
    /\ \A other \in Open : requests[other].column # c
    /\ Goto(q, [at |-> "rendered", column |-> c, value |-> v,
                ruleset |-> Ruleset([policy EXCEPT ![c] = v]),
                known |-> FALSE, saw |-> {}, crossed |-> FALSE])
    /\ Inside

\* store_version looks for the digest: a ruleset that is known is not stored
\* again.
Look(q) ==
    /\ requests[q].at = "rendered"
    /\ Goto(q, [requests[q] EXCEPT !.at = "looked",
                                   !.known = StoredAs(requests[q].ruleset) # {}])
    /\ Inside /\ UNCHANGED stores

\* The UPDATE of what is pending: the rows it sees as it starts ...
Mark(q) ==
    /\ requests[q].at = "looked" /\ ~requests[q].known
    /\ Goto(q, [requests[q] EXCEPT !.at = "marked", !.saw = Pending])
    /\ Inside /\ UNCHANGED stores

\* Mutant: the rows it waited for are not looked at again.
SupersedeAnyhow(q) ==
    /\ requests[q].at = "marked"
    /\ requests[q].saw \cap Locked = {}
    /\ Goto(q, [requests[q] EXCEPT !.at = "locked"])
    /\ Inside /\ UNCHANGED stores

\* ... and, once nobody holds them, those that are pending still.
Supersede(q) ==
    /\ requests[q].at = "marked"
    /\ requests[q].saw \cap Locked = {}
    /\ Goto(q, [requests[q] EXCEPT !.at = "locked", !.saw = @ \cap Pending])
    /\ Inside /\ UNCHANGED stores

\* Mutant: the pending row is written over instead of superseded.
StoredOver(request) ==
    IF request.saw = {} THEN Append(versions, [digest |-> request.ruleset, status |-> "pending"])
    ELSE [i \in DOMAIN versions |->
            IF i \in request.saw THEN [versions[i] EXCEPT !.digest = request.ruleset]
            ELSE versions[i]]

\* The table when a request commits: what it superseded, and its own row.
Stored(request) ==
    Append([i \in DOMAIN versions |->
              IF i \in request.saw THEN [versions[i] EXCEPT !.status = "superseded"]
              ELSE versions[i]],
           [digest |-> request.ruleset, status |-> "pending"])

\* The COMMIT: the edit and the version become visible, and whoever is open has
\* rendered a policy that is gone.
Commit(q) ==
    LET request == requests[q]
    IN  /\ \/ request.at = "looked" /\ request.known /\ versions' = versions
           \/ request.at = "locked" /\ versions' = Stored(request)
        /\ policy' = [policy EXCEPT ![request.column] = request.value]
        /\ vouched' = ~request.crossed
        /\ requests' = [r \in Requests |->
              IF r \in Open \ {q} THEN [requests[r] EXCEPT !.crossed = TRUE] ELSE Idle]
        /\ UNCHANGED <<stores, sent>>

\* A ruleset that does not validate, an error, a connection that is lost.
Rollback(q) ==
    /\ q \in Open
    /\ Goto(q, Idle)
    /\ Inside /\ UNCHANGED stores

\* GET /agent/state renders what is committed; it stores nothing.
Poll ==
    /\ sent' = sent \cup {[ruleset |-> Ruleset(policy), vouched |-> vouched]}
    /\ UNCHANGED <<policy, versions, requests, stores, vouched>>

\* POST /agent/report marks a row of that digest, whichever it finds; a digest
\* of which there is none is added if it was applied.
Report(ruleset, status) ==
    /\ \/ \E i \in StoredAs(ruleset) \ Locked :
            versions' = [versions EXCEPT ![i].status = status]
       \/ /\ StoredAs(ruleset) = {} /\ status = "applied"
          /\ versions' = Append(versions, [digest |-> ruleset, status |-> status])
    /\ UNCHANGED <<policy, requests, stores, vouched, sent>>

Next ==
    \/ \E q \in Requests, c \in Columns, v \in Values : Render(q, c, v)
    \/ \E q \in Requests : Look(q) \/ Mark(q) \/ Supersede(q) \/ Commit(q) \/ Rollback(q)
    \/ Poll
    \/ \E s \in sent, status \in {"applied", "failed"} : Report(s.ruleset, status)

Spec == Init /\ [][Next]_vars

(***************************************************************************)
(* Properties                                                              *)
(***************************************************************************)

TypeOK ==
    /\ policy \in [Columns -> Values]
    /\ versions \in Seq([digest : Rulesets, status : Statuses])
    /\ requests \in [Requests -> {Idle} \cup
          [at : {"rendered", "looked", "marked", "locked"}, column : Columns, value : Values,
           ruleset : Rulesets, known : BOOLEAN, saw : SUBSET Nat, crossed : BOOLEAN]]
    /\ stores \in 0 .. MaxStores
    /\ vouched \in BOOLEAN
    /\ sent \subseteq [ruleset : Rulesets, vouched : BOOLEAN]

\* A request that stores a new version, and that no other commit has crossed,
\* leaves it the only pending one, whatever overlapping requests had left
\* before; and no store, crossed or not, takes back what the gateway has
\* reported of a version (store_version's UPDATE, against mark_applied and
\* mark_failed).
StoreSupersedes ==
    [][\A q \in Requests :
         /\ requests[q].at = "locked" /\ ~requests[q].crossed /\ Commit(q)
              => Pending' = {Len(versions')}
         /\ Commit(q) => \A i \in DOMAIN versions :
                versions[i].status \in {"applied", "failed"} => versions'[i] = versions[i]]_vars

\* Every ruleset the gateway was ever sent has its row, reported or not, unless
\* overlapping commits had just left a policy that none of them rendered, or
\* nobody had stored one yet (models.py RulesetVersion: every ruleset ever
\* generated, for audit and drift detection).
SentIsAudited == \A s \in sent : s.vouched => StoredAs(s.ruleset) # {}

\* Without the overlaps taken out, neither holds: two requests leave two pending
\* versions, and a policy whose ruleset nobody stored.
OnePending == \A i, j \in Pending : i = j
PolicyIsStored == versions # <<>> => StoredAs(Ruleset(policy)) # {}

(***************************************************************************)
(* Why they hold                                                           *)
(***************************************************************************)

\* What an open request knows of the policy and of the table.
RequestsKnow ==
    \A q \in Open :
        LET request == requests[q]
        IN  /\ request.saw \subseteq DOMAIN versions
            /\ request.known => StoredAs(request.ruleset) # {}
            /\ ~request.crossed =>
                    request.ruleset = Ruleset([policy EXCEPT ![request.column] = request.value])
            /\ request.at = "marked" /\ ~request.crossed => Pending \subseteq request.saw
            /\ request.at = "locked" =>
                    /\ request.saw \subseteq Pending
                    /\ ~request.crossed => Pending \subseteq request.saw

\* Nobody updates a row that another has updated and not committed.
LocksApart == \A q, r \in Requests : q # r => LockedBy(q) \cap LockedBy(r) = {}

PolicyVouched == vouched => StoredAs(Ruleset(policy)) # {}

=============================================================================
