-------------------------------- MODULE Tokens --------------------------------
(***************************************************************************)
(* The bearer tokens of /mcp: the admin_auth_tokens table, each process's    *)
(* cache of the active ones, rotation on the dashboard and the creation of   *)
(* missing tokens at boot.  Statements are synchronous: a process does one   *)
(* thing at a time from its first statement to its last.                     *)
(***************************************************************************)
EXTENDS Entries

CONSTANTS
    Procs,      \* server processes over one database
    Labels,     \* SURFACE_LABELS, in order
    CacheTTL    \* CACHE_TTL_SECONDS, in the unit of the clock

ASSUME TokensAssumption ==
    /\ Labels \in Seq(STRING) /\ Labels # <<>>
    /\ CacheTTL \in Nat \ {0}
    /\ \A w \in Workloads : \A j \in Jobs :
         w.task[j].op \in {"call", "rotate", "boot"} => w.task[j].proc \in Procs

VARIABLES
    tokens,    \* the table: label, token, active; ghosts: since, until, by
    cache,     \* process -> what _cache holds, since when; ghost: read when
    seen,      \* job -> what its fetch or its UPDATE has read
    missing,   \* job -> labels it has still to set
    access     \* job -> what its caller got

tokenVars == <<tokens, cache, seen, missing, access>>

NoToken == "none"
Forever == MaxNow + 1   \* the token is active
NoCache == [map |-> {}, at |-> 0, read |-> 0, filled |-> FALSE]
NoAccess == [how |-> "none", label |-> "none", at |-> 0, read |-> 0, stored |-> 0]

TokenOps == {"call", "rotate", "boot"}
IsTokenOp(j) == task[j].op \in TokenOps

\* At a first boot the table is empty.
TokensInit ==
    /\ tokens = IF \E j \in Jobs : task[j].op = "boot" THEN {}
                ELSE {[label |-> l, token |-> <<l, 0>>, since |-> 0, until |-> Forever,
                       by |-> NoToken] : l \in ToSet(Labels)}
    /\ cache = [p \in Procs |-> NoCache]
    /\ seen = [j \in Jobs |-> [active |-> {}, at |-> 0]]
    /\ missing = [j \in Jobs |-> <<>>]
    /\ access = [j \in Jobs |-> NoAccess]

-----------------------------------------------------------------------------
Active == {t \in tokens : t.until = Forever}
ActiveOf(l) == {t \in Active : t.label = l}

\* The event loop of a process: it begins nothing while a statement runs.
FreeThreaded(p) == TRUE
Free(p) ==
    \A j \in Jobs : IsTokenOp(j) /\ task[j].proc = p => ~Running(j)

Fresh(c) == c.filled /\ now - c.at < CacheTTL

\* _match_label over what is presented, the header first: the surface of the
\* first one that is active, or a denial.
Decision(how, label, c) ==
    [how |-> how, label |-> label, at |-> now, read |-> c.read, stored |-> c.at]
Decide(j, c) ==
    LET named(i) == {t \in c.map : t.token = task[j].presented[i]}
        known == {i \in DOMAIN task[j].presented : named(i) # {}}
    IN /\ IF known = {}
            THEN access' = [access EXCEPT ![j] = Decision("denied", "none", c)]
            ELSE \E i \in known : \E t \in named(i) :
                   /\ \A n \in known : i <= n
                   /\ access' = [access EXCEPT ![j] = Decision("accepted", t.label, c)]
       /\ Goto(j, "done")

\* get_active_token_map: the cache while it is fresh, else a fetch ...
Authorize(j) ==
    /\ task[j].op = "call"
    /\ pc[j] = "idle"
    /\ Free(task[j].proc)
    /\ IF Fresh(cache[task[j].proc])
         THEN Decide(j, cache[task[j].proc]) /\ UNCHANGED seen
         ELSE /\ seen' = [seen EXCEPT ![j] = [active |-> Active, at |-> now]]
              /\ Goto(j, "fetched")
              /\ UNCHANGED access
    /\ UNCHANGED <<log, now, task, head, tokens, cache, missing>>

\* ... and its result is cached, whatever happened meanwhile.
StoreMap(j) ==
    /\ pc[j] = "fetched"
    /\ LET c == [map |-> seen[j].active, at |-> now, read |-> seen[j].at, filled |-> TRUE] IN
       cache' = [cache EXCEPT ![task[j].proc] = c] /\ Decide(j, c)
    /\ UNCHANGED <<log, now, task, head, tokens, seen, missing>>

Ended(j, how) ==
    /\ access' = [access EXCEPT ![j] = [NoAccess EXCEPT !.how = how]]
    /\ Goto(j, "done")

\* rotate_post, with its session and its form checked.
Rotate(j) ==
    /\ task[j].op = "rotate"
    /\ pc[j] = "idle"
    /\ Free(task[j].proc)
    /\ IF task[j].signed /\ task[j].label \in ToSet(Labels)
         THEN /\ missing' = [missing EXCEPT ![j] = <<task[j].label>>]
              /\ Goto(j, "update")
              /\ UNCHANGED access
         ELSE Ended(j, "redirected") /\ UNCHANGED missing
    /\ UNCHANGED <<log, now, task, head, tokens, cache, seen>>

\* ensure_tokens, before the process serves.
Boot(j) ==
    /\ task[j].op = "boot"
    /\ pc[j] = "idle"
    /\ Free(task[j].proc)
    /\ LET absent == ItemsAt(Labels, {n \in DOMAIN Labels : ActiveOf(Labels[n]) = {}}) IN
       /\ missing' = [missing EXCEPT ![j] = absent]
       /\ IF absent = <<>> THEN Ended(j, "up") ELSE Goto(j, "update") /\ UNCHANGED access
    /\ UNCHANGED <<log, now, task, head, tokens, cache, seen>>

\* set_token: an UPDATE that retires the row it sees ...
RetireRow(j) ==
    /\ pc[j] = "update"
    /\ seen' = [seen EXCEPT ![j] = [active |-> ActiveOf(Head(missing[j])), at |-> now]]
    /\ Goto(j, "replace")
    /\ UNCHANGED <<log, now, task, head, tokens, cache, missing, access>>

\* ... an INSERT, which violates the index when another token has become active
\* meanwhile, the commit, and the end of this process's cache.
NewToken(j) ==
    [label |-> Head(missing[j]), token |-> <<Head(missing[j]), j>>, since |-> now,
     until |-> Forever, by |-> NoToken]
Replace(j) ==
    /\ pc[j] = "replace"
    /\ IF ActiveOf(Head(missing[j])) = seen[j].active
         THEN /\ tokens' = (tokens \ seen[j].active) \cup {NewToken(j)}
                    \cup {[t EXCEPT !.until = now, !.by = task[j].proc] : t \in seen[j].active}
              /\ cache' = [cache EXCEPT ![task[j].proc] = NoCache]
              /\ missing' = [missing EXCEPT ![j] = Tail(@)]
              /\ IF Len(missing[j]) = 1 THEN Ended(j, "up")
                 ELSE Goto(j, "update") /\ UNCHANGED access
         ELSE Ended(j, "conflict") /\ UNCHANGED <<tokens, cache, missing>>
    /\ UNCHANGED <<log, now, task, head, seen>>

\* The process of a job dies: what runs in it ends, its cache is gone.
Restart(j) ==
    /\ IsTokenOp(j)
    /\ Running(j)
    /\ Ended(j, "failed")
    /\ cache' = [cache EXCEPT ![task[j].proc] = NoCache]
    /\ UNCHANGED <<log, now, task, head, tokens, seen, missing>>

TokensStep(j) ==
    \/ Authorize(j) \/ StoreMap(j) \/ Rotate(j) \/ Boot(j)
    \/ RetireRow(j) \/ Replace(j) \/ Restart(j)

-----------------------------------------------------------------------------
TokensTypeOK ==
    /\ \A t \in tokens : t.label \in ToSet(Labels) /\ t.until \in t.since..Forever
    /\ \A p \in Procs : cache[p].at \in 0..MaxNow /\ cache[p].read <= cache[p].at
    /\ \A j \in Jobs : /\ ToSet(missing[j]) \subseteq ToSet(Labels)
                       /\ access[j].how \in {"none", "denied", "accepted", "redirected",
                                             "up", "conflict", "failed"}

\* A token that was rotated stops: it is still accepted only by another process,
\* for less than the TTL and the time that process took to fetch; and who is
\* accepted is taken for the surface whose token it is.  A token that is active
\* works: it is refused only by a process that fetched before it was made, and
\* for no longer than that.  A label has one active token at most
\* (get_active_token_map, which fetches outside its lock; set_token).
RotatedTokenStops ==
    /\ \A l \in ToSet(Labels) : Cardinality(ActiveOf(l)) <= 1
    /\ \A j \in Jobs :
         LET a == access[j]
             mine == {t \in tokens : t.token \in ToSet(task[j].presented)}
             fetching == a.stored - a.read
         IN /\ a.how = "accepted" =>
                 \E t \in mine :
                   /\ t.label = a.label
                   /\ \/ t.until >= a.at
                      \/ /\ t.by # task[j].proc
                         /\ a.at - t.until < CacheTTL + fetching
            /\ a.how = "denied" => \A t \in mine :
                 \/ t.until <= a.at
                 \/ t.since >= a.read /\ a.at - t.since <= CacheTTL + fetching
=============================================================================
