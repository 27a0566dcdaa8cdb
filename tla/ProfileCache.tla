----------------------------- MODULE ProfileCache -----------------------------
(***************************************************************************)
(* A namespace's profile (the gate's configuration) and the two caches one   *)
(* server process keeps of it: GateCache, which a LISTEN connection          *)
(* invalidates, and PostgresBackend._profile_cache, which only ages.         *)
(*                                                                          *)
(* A profile is the number of edits committed to it.  Time is a tick that    *)
(* ages what is stored.  A cache miss is filled over two awaits: the SELECT, *)
(* and the event loop's return to the reader.                               *)
(***************************************************************************)
EXTENDS Integers, Sequences, FiniteSetsExt

CONSTANTS
    Namespaces,
    Readers,       \* tasks inside _namespace_profile
    Writers,       \* transactions on variant_profiles
    InProcess,     \* the writers that are this process's write_variant_profile
    GateTTL,       \* GateCache's ttl_s
    PlainTTL,      \* _PROFILE_TTL_S
    MaxFill,       \* bound: ticks between a fill's SELECT and its store
    MaxSeq         \* bound: values taken from gate_cache_version_seq

ASSUME ConstantsAssumption ==
    /\ InProcess \subseteq Writers
    /\ GateTTL \in Nat /\ PlainTTL \in Nat /\ GateTTL < PlainTTL
    /\ MaxFill \in Nat /\ MaxSeq \in Nat

VARIABLES
    db,        \* namespace -> edits committed
    seq,       \* gate_cache_version_seq
    write,     \* writer -> its transaction
    linked,    \* whether the LISTEN connection is open, as the database sees it
    wire,      \* notifications committed and not handled, in commit order
    listener,  \* where _listen_once is
    version,   \* GateCache._version
    gate,      \* GateCache._entries: namespace -> set of at most one entry
    plain,     \* _profile_cache: namespace -> set of at most one entry
    fill,      \* reader -> its cache fill
    told,      \* ghost: namespace -> newest edit whose notification was obeyed
    returned   \* ghost: namespace -> newest edit write_variant_profile returned

vars == <<db, seq, write, linked, wire, listener, version, gate, plain, fill,
          told, returned>>

\* Ages are counted as far as anything depends on them; the cap is the model's,
\* the code keeps a time stamp.
Ages == 0..PlainTTL
Lates == 0..(PlainTTL + MaxFill)
Older(a, S) == IF a + 1 \in S THEN a + 1 ELSE a

\* A stored profile.  Two ghosts: `late` is how long ago it stopped being the
\* committed one, `raced` whether its namespace was invalidated while it was on
\* its way from the database.
PlainEntries == [edit : Nat, age : Ages, late : Lates, raced : BOOLEAN]
GateEntries == [edit : Nat, age : Ages, late : Lates, raced : BOOLEAN, stamp : Nat]

NoWrite == [at |-> "idle"]
NoFill == [at |-> "idle"]

-----------------------------------------------------------------------------
(* Reads.                                                                   *)

\* GateCache.get serves an entry of the current version within its TTL.
GateLive(n) == {e \in gate[n] : e.stamp >= version /\ e.age <= GateTTL}
PlainLiveForever(n) == plain[n]
PlainLive(n) == {e \in plain[n] : e.age < PlainTTL}

\* What _namespace_profile answers from memory: the gate cache first.
Serves(n) == IF GateLive(n) # {} THEN GateLive(n) ELSE PlainLive(n)

\* get drops an entry of the current version that is past its TTL.
AfterGet(n) == {e \in gate[n] : e.stamp >= version => e.age <= GateTTL}

KeepPlainAlive(n) ==
    gate' = [gate EXCEPT ![n] =
               {[edit |-> e.edit, age |-> 0, late |-> e.late, raced |-> e.raced,
                 stamp |-> version] : e \in PlainLive(n)}]
DropExpired(n) == gate' = [gate EXCEPT ![n] = AfterGet(n)]

\* _namespace_profile answered from memory.
Hit(n) ==
    /\ Serves(n) # {}
    /\ GateLive(n) = {}
    /\ DropExpired(n)
    /\ UNCHANGED <<db, seq, write, linked, wire, listener, version, plain, fill,
                   told, returned>>

\* Neither cache has it: a connection is checked out.
Miss(r, n) ==
    /\ fill[r] = NoFill
    /\ Serves(n) = {}
    /\ DropExpired(n)
    /\ fill' = [fill EXCEPT ![r] = [at |-> "select", ns |-> n]]
    /\ UNCHANGED <<db, seq, write, linked, wire, listener, version, plain, told,
                   returned>>

Select(r) ==
    /\ fill[r].at = "select"
    /\ fill' = [fill EXCEPT ![r] =
                  [at |-> "store", ns |-> @.ns, edit |-> db[@.ns], age |-> 0,
                   late |-> 0, raced |-> FALSE]]
    /\ UNCHANGED <<db, seq, write, linked, wire, listener, version, gate, plain,
                   told, returned>>

\* Both caches take the profile; the gate's entry is stamped with the version
\* of this moment, not of the SELECT.
Store(r) ==
    /\ fill[r].at = "store"
    /\ LET f == fill[r]
       IN  /\ plain' = [plain EXCEPT ![f.ns] =
                          {[edit |-> f.edit, age |-> 0, late |-> f.late,
                            raced |-> f.raced]}]
           /\ gate' = [gate EXCEPT ![f.ns] =
                         {[edit |-> f.edit, age |-> 0, late |-> f.late,
                           raced |-> f.raced, stamp |-> version]}]
    /\ fill' = [fill EXCEPT ![r] = NoFill]
    /\ UNCHANGED <<db, seq, write, linked, wire, listener, version, told, returned>>

-----------------------------------------------------------------------------
(* Edits.                                                                   *)

\* The upsert locks the row, and its trigger takes a version number inside the
\* transaction: numbers are handed out before, and in another order than,
\* commits.
Upsert(w, n) ==
    /\ write[w] = NoWrite
    /\ seq < MaxSeq
    /\ \A v \in Writers : write[v].at = "open" => write[v].ns # n
    /\ seq' = seq + 1
    /\ write' = [write EXCEPT ![w] = [at |-> "open", ns |-> n, number |-> seq + 1]]
    /\ UNCHANGED <<db, linked, wire, listener, version, gate, plain, fill, told,
                   returned>>

\* The commit sends the trigger's pg_notify to whoever listens.
CommitEdit(w) ==
    /\ write[w].at = "open"
    /\ LET n == write[w].ns
       IN  /\ db' = [db EXCEPT ![n] = @ + 1]
           /\ wire' = IF linked
                        THEN Append(wire, [number |-> write[w].number, ns |-> n,
                                           edit |-> db[n] + 1])
                        ELSE wire
           /\ write' = [write EXCEPT ![w] =
                          IF w \in InProcess
                            THEN [at |-> "committed", ns |-> n, edit |-> db[n] + 1]
                            ELSE NoWrite]
    /\ UNCHANGED <<seq, linked, listener, version, gate, plain, fill, told, returned>>

AbortEdit(w) ==
    /\ write[w].at = "open"
    /\ write' = [write EXCEPT ![w] = NoWrite]
    /\ UNCHANGED <<db, seq, linked, wire, listener, version, gate, plain, fill,
                   told, returned>>

\* invalidate_profile: the one way out of both caches.
InvalidateOne(n) ==
    /\ gate' = [gate EXCEPT ![n] = {}]
    /\ UNCHANGED plain
InvalidateProfile(n) ==
    /\ gate' = [gate EXCEPT ![n] = {}]
    /\ plain' = [plain EXCEPT ![n] = {}]

\* A fill in flight does not notice an invalidation: it will store what it has.
OvertakeFills(n) ==
    fill' = [r \in Readers |->
               IF fill[r].at = "store" /\ fill[r].ns = n
                 THEN [fill[r] EXCEPT !.raced = TRUE]
                 ELSE fill[r]]

\* write_variant_profile returns to its caller.
WriteReturns(w) ==
    /\ write[w].at = "committed"
    /\ LET n == write[w].ns
       IN  /\ InvalidateProfile(n)
           /\ returned' = [returned EXCEPT ![n] = Max({@, write[w].edit})]
           /\ OvertakeFills(n)
    /\ write' = [write EXCEPT ![w] = NoWrite]
    /\ UNCHANGED <<db, seq, linked, wire, listener, version, told>>

-----------------------------------------------------------------------------
(* The listener.                                                            *)

\* asyncpg.connect and add_listener: from here the database queues for us.
Listen ==
    /\ listener = "connecting"
    /\ linked' = TRUE
    /\ wire' = <<>>
    /\ listener' = "reloading"
    /\ UNCHANGED <<db, seq, write, version, gate, plain, fill, told, returned>>

\* bump_version without an argument.
Bumped == version + 1

\* On (re)connect the gate cache is emptied; _profile_cache is not touched.
Reload ==
    /\ listener = "reloading"
    /\ gate' = [n \in Namespaces |-> {}]
    /\ version' = Bumped
    /\ listener' = "up"
    /\ UNCHANGED <<db, seq, write, linked, wire, plain, fill, told, returned>>

\* apply_notification: a number not above the cache's is ignored.
ApplyAny(m) ==
    /\ version' = m.number
    /\ gate' = [gate EXCEPT ![m.ns] = {}]
ApplySkipsNext(m) ==
    IF m.number <= version + 1
      THEN UNCHANGED <<version, gate>>
      ELSE /\ version' = m.number
           /\ gate' = [gate EXCEPT ![m.ns] = {}]
ApplyNotification(m) ==
    IF m.number <= version
      THEN UNCHANGED <<version, gate>>
      ELSE /\ version' = m.number
           /\ gate' = [gate EXCEPT ![m.ns] = {}]

Notified ==
    /\ listener = "up"
    /\ wire # <<>>
    /\ wire' = Tail(wire)
    /\ LET m == Head(wire)
       IN  /\ ApplyNotification(m)
           /\ IF m.number <= version
                THEN UNCHANGED <<told, fill>>
                ELSE /\ told' = [told EXCEPT ![m.ns] = Max({@, m.edit})]
                     /\ OvertakeFills(m.ns)
    /\ UNCHANGED <<db, seq, write, linked, listener, plain, returned>>

\* The LISTEN connection is closed from the other side; what it had not
\* delivered is gone.  While add_listener awaits it, that raises and the
\* supervisor connects again; afterwards _listen_once waits on a queue of its
\* own, which nothing tells.
LinkLost ==
    /\ linked
    /\ linked' = FALSE
    /\ \E i \in 0..Len(wire) : wire' = SubSeq(wire, 1, i)
    /\ listener' = IF listener = "reloading" THEN "connecting" ELSE listener
    /\ UNCHANGED <<db, seq, write, version, gate, plain, fill, told, returned>>

\* GateCache._listener_alive, which gate_cache_status reports.
ListenerAlive == listener = "up"

-----------------------------------------------------------------------------
\* A tick passes.  No fill stays longer than MaxFill between SELECT and store.
Tick ==
    /\ \A r \in Readers : fill[r].at = "store" => fill[r].age < MaxFill
    /\ LET Late(n, e) == IF e.edit = db[n] THEN e.late ELSE Older(e.late, Lates)
           Aged(n, e) == [e EXCEPT !.age = Older(@, Ages), !.late = Late(n, e)]
       IN  /\ gate' = [n \in Namespaces |-> {Aged(n, e) : e \in gate[n]}]
           /\ plain' = [n \in Namespaces |-> {Aged(n, e) : e \in plain[n]}]
           /\ fill' = [r \in Readers |->
                         IF fill[r].at # "store" THEN fill[r]
                         ELSE [fill[r] EXCEPT !.age = @ + 1,
                                              !.late = Late(fill[r].ns, fill[r])]]
    /\ UNCHANGED <<db, seq, write, linked, wire, listener, version, told, returned>>

\* The process dies with its caches, its tasks and its transactions.
Restart ==
    /\ gate' = [n \in Namespaces |-> {}]
    /\ plain' = [n \in Namespaces |-> {}]
    /\ fill' = [r \in Readers |-> NoFill]
    /\ write' = [w \in Writers |-> IF w \in InProcess THEN NoWrite ELSE write[w]]
    /\ version' = 0
    /\ linked' = FALSE
    /\ wire' = <<>>
    /\ listener' \in {"off", "connecting"}
    /\ UNCHANGED <<db, seq, told, returned>>

Init ==
    /\ db = [n \in Namespaces |-> 0]
    /\ seq = 0
    /\ write = [w \in Writers |-> NoWrite]
    /\ linked = FALSE
    /\ wire = <<>>
    /\ listener \in {"off", "connecting"}   \* DATABASE_URL_DIRECT unset or set
    /\ version = 0
    /\ gate = [n \in Namespaces |-> {}]
    /\ plain = [n \in Namespaces |-> {}]
    /\ fill = [r \in Readers |-> NoFill]
    /\ told = [n \in Namespaces |-> 0]
    /\ returned = [n \in Namespaces |-> 0]

Next ==
    \/ \E n \in Namespaces : Hit(n)
    \/ \E r \in Readers, n \in Namespaces : Miss(r, n)
    \/ \E r \in Readers : Select(r) \/ Store(r)
    \/ \E w \in Writers, n \in Namespaces : Upsert(w, n)
    \/ \E w \in Writers : CommitEdit(w) \/ AbortEdit(w) \/ WriteReturns(w)
    \/ Listen \/ Reload \/ Notified \/ LinkLost
    \/ Tick
    \/ Restart

\* Time passes; the event loop resumes a reader whose query has answered and a
\* listener that has something to do.  The listener need not get a connection,
\* and nobody has to read or write.
Fairness ==
    /\ WF_vars(Tick)
    /\ WF_vars(Reload) /\ WF_vars(Notified)
    /\ \A r \in Readers : WF_vars(Select(r)) /\ WF_vars(Store(r))

Spec == Init /\ [][Next]_vars
FairSpec == Spec /\ Fairness

-----------------------------------------------------------------------------
(* Properties.                                                              *)

\* Types; and no entry of the gate cache is stamped above the cache's version,
\* whatever order numbers, notifications and fills arrive in.  get serves what is
\* stamped at or above the version, so an entry from the future would outlive the
\* invalidations that follow.
TypeOK ==
    /\ db \in [Namespaces -> Nat]
    /\ seq \in 0..MaxSeq
    /\ \A w \in Writers :
         \/ write[w] = NoWrite
         \/ write[w] \in [at : {"open"}, ns : Namespaces, number : 1..MaxSeq]
         \/ write[w] \in [at : {"committed"}, ns : Namespaces, edit : Nat]
    /\ linked \in BOOLEAN
    /\ wire \in Seq([number : 1..MaxSeq, ns : Namespaces, edit : Nat])
    /\ listener \in {"off", "connecting", "reloading", "up"}
    /\ version \in Nat
    /\ \A n \in Namespaces : gate[n] \subseteq GateEntries
    /\ \A n \in Namespaces : \A e \in gate[n] : e.stamp <= version
    /\ \A n \in Namespaces : plain[n] \subseteq PlainEntries
    /\ \A r \in Readers :
         \/ fill[r] = NoFill
         \/ fill[r] \in [at : {"select"}, ns : Namespaces]
         \/ fill[r] \in [at : {"store"}, ns : Namespaces, edit : Nat,
                         age : 0..MaxFill, late : Lates, raced : BOOLEAN]
    /\ told \in [Namespaces -> Nat]
    /\ returned \in [Namespaces -> Nat]

\* "Slow rather than wrong": whatever the listener misses, ignores or outruns,
\* a profile is served only for its TTL, plus the time its fill took, after it
\* stopped being the committed one.  Serving from one cache does not refill the
\* other.
ServedRecently ==
    \A n \in Namespaces :
      /\ \A e \in GateLive(n) : e.late <= GateTTL + MaxFill
      /\ \A e \in PlainLive(n) : e.late < PlainTTL + MaxFill

\* Once write_variant_profile has returned, this process serves nothing older
\* than what it wrote, from either cache, unless a fill that was already on its
\* way stores it afterwards.
WriteVisible ==
    \A n \in Namespaces :
      \A e \in GateLive(n) \cup PlainLive(n) : e.edit < returned[n] => e.raced

\* Once a notification has been obeyed, the gate cache serves nothing older
\* than the edit it announced, with the same exception.
GateObeysNotifications ==
    \A n \in Namespaces :
      \A e \in GateLive(n) : e.edit < told[n] => e.raced

\* Numbers reach the listener out of order, because they are taken before the
\* commit; none moves the cache back to a version it has left.
VersionNeverBack ==
    [][version' >= version \/ gate' = [n \in Namespaces |-> {}]]_<<version, gate>>

\* When the edits have stopped, whatever became of their notifications, every
\* namespace is eventually served its committed profile for good.
Converges ==
    \A n \in Namespaces : <>[](\A e \in Serves(n) : e.edit = db[n])

\* What the module's header says of an edit whose notification arrives.
NotifiedEditIsServed ==
    \A n \in Namespaces : \A e \in Serves(n) : e.edit >= told[n]

\* What gate_cache_status's listener_alive is for: a listener whose connection
\* has died is reported, or connected again, sooner or later.
LostLinkIsNoticed == ListenerAlive /\ ~linked ~> ~ListenerAlive \/ linked
=============================================================================
