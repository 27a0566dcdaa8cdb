-------------------------------- MODULE MCStore --------------------------------
(* Store on three jobs, preceded where a workload needs them by entries that    *)
(* are saved first: walks, searches, curation passes and their re-runs,         *)
(* reconciling passes and bootstraps, each against writers; then appends to     *)
(* sessions, initialisations, rotations of tokens, puts and gets.              *)
EXTENDS Store

MCUpstream ==
    <<[head |-> "c1", merged |-> FALSE, merge |-> "c1", commits |-> {"c1"}],
      [head |-> "c2", merged |-> TRUE, merge |-> "c2", commits |-> {"c1", "c2"}]>>

\* b is close by its question, a by its text; c only says the word.
MCCosine ==
    [text |-> [a |-> 90, b |-> 50, c |-> 20], hyde |-> [a |-> 30, b |-> 80, c |-> 60]]

Ref(c) == [commit |-> c, len |-> "abbrev"]
ShortRef == [commit |-> "c1", len |-> "short"]
Row(k, kind, v) == [Blank EXCEPT !.key = k, !.kind = kind, !.val = v, !.vectors = {"text"}]
Put(r) == [op |-> "save", row |-> r]
Tagged(r) == Put([r EXCEPT !.tags = {"t"}])
Gone(k) == [op |-> "delete", key |-> k]
Walk(kind, tag, limit) == [op |-> "list", kind |-> kind, tag |-> tag, limit |-> limit]
Search(limit, embed) == [op |-> "search", limit |-> limit, embed |-> embed]
Recall(limit, all) ==
    [op |-> "recall", limit |-> limit, embed |-> TRUE, include_below_floor |-> all]

Claimed(k, v, meta) == [Row(k, "claim", v) EXCEPT !.meta = meta]
OnBranch(c) == [NoMeta EXCEPT !.repo = TRUE, !.branch = TRUE, !.sha = Ref(c)]
OnPR(m) == [NoMeta EXCEPT !.repo = TRUE, !.pr = TRUE, !.merge = m]
Mode(meta, mode) == [meta EXCEPT !.mode = mode]
Attested(meta) == [meta EXCEPT !.evidence = "local_attested"]
Reconcile(enabled) == [op |-> "reconcile", enabled |-> enabled]
Webhook(pr) == [op |-> "webhook", enabled |-> TRUE, pr |-> pr, branch |-> ~pr]
Bootstrap == [op |-> "bootstrap"]

CurateOp(action, k, kind, v, old) ==
    [action |-> action, key |-> k, kind |-> kind, val |-> v, old |-> old, phi |-> FALSE,
     meta |-> NoMeta, vectors |-> {"text", "hyde"}, derived_from |-> {}]
Noop == CurateOp("NOOP", 1, "note", "a", <<>>)
Curate(s, ops) ==
    [op |-> "curate", session |-> s, ops |-> ops, enabled |-> TRUE, dry_run |-> FALSE,
     family_must_differ |-> FALSE]

On(seed, tasks) == [seed |-> seed, task |-> tasks]
Notes == <<Row(1, "note", "a"), Row(2, "note", "b"), Row(3, "note", "c")>>
TaggedNotes == [i \in 1..3 |-> [Notes[i] EXCEPT !.tags = {"t"}]]

ListWorkloads ==
    {On(Notes, <<Walk("any", "any", 1), Put(Row(2, "claim", "c")), Gone(1)>>),
     On(Notes, <<Walk("any", "any", 0), Walk("any", "any", 2), Gone(1)>>),
     On(TaggedNotes, <<Walk("any", "t", 1), Put(Row(2, "note", "c")), Gone(1)>>),
     On(TaggedNotes, <<Walk("note", "any", 2), Put(Row(1, "claim", "a")),
                       Put([Row(2, "note", "b") EXCEPT !.quarantined = TRUE])>>),
     On(Notes, <<Walk("any", "any", 2), [op |-> "observe", clinical |-> FALSE, val |-> "a"],
                 [op |-> "observe", clinical |-> TRUE, val |-> "a"]>>)}
SearchWorkloads ==
    {On(Notes, <<Search(2, TRUE), Put(Row(1, "note", "c")), Gone(2)>>),
     On(Notes, <<Recall(1, FALSE), Recall(2, TRUE), Put(Row(3, "note", "a"))>>),
     On(<<[Row(1, "note", "c") EXCEPT !.vectors = {}], Row(2, "note", "a"), Row(3, "note", "b")>>,
        <<Recall(1, TRUE), Recall(1, FALSE), Put(Row(2, "note", "b"))>>),
     On(Notes, <<Search(3, TRUE), Search(2, FALSE),
                 Curate("s", <<CurateOp("UPDATE", 1, "note", "b", <<>>)>>)>>),
     On(Notes, <<Search(2, TRUE), Curate("s", <<CurateOp("ADD", 3, "note", "b", <<>>)>>),
                 Curate("s", <<CurateOp("UPDATE", 2, "note", "b", <<>>), Noop>>)>>)}

Supersede(v, k) == <<CurateOp("SUPERSEDE", 2, k, v, <<1>>), Noop>>
Merge(v, k) ==
    <<CurateOp("MERGE", 3, k, v, <<1, 2, 3>>), CurateOp("UPDATE", 2, "note", "c", <<>>),
      Noop>>
SupersedeClaim(ref) ==
    <<[CurateOp("SUPERSEDE", 2, "claim", "b", <<1>>) EXCEPT
         !.meta = [OnBranch("c1") EXCEPT !.sha = ref]]>>
CurateWorkloads ==
    {On(Notes, <<Curate("s", Supersede("c", "note")), Put(Row(1, "note", "b")),
                 Curate("s", Supersede("c", "note"))>>),
     On(Notes, <<Curate("s", Supersede("c", "note")), Put(Row(1, "note", "a")),
                 Curate("s", Supersede("a", "note"))>>),
     On(Notes, <<Curate("s", Merge("a", "note")), Gone(1), Curate("s2", Merge("a", "odd"))>>),
     On(Notes, <<Curate("s", Merge("a", "note")), Put(Row(1, "note", "b")),
                 Curate("s", Merge("b", "note"))>>),
     On(Notes, <<Curate("s", Merge("b", "odd")), Curate("s", Supersede("b", "claim")),
                 Put(Row(2, "note", "b"))>>),
     On(<<Claimed(1, "a", OnBranch("c1"))>>,
        <<Curate("s", SupersedeClaim(Ref("c1"))), Curate("s", SupersedeClaim(ShortRef)),
          Put(Row(1, "note", "b"))>>),
     On(<<Claimed(1, "a", OnBranch("c1"))>>,
        <<Curate("s", SupersedeClaim(Ref("c1"))), Curate("s", SupersedeClaim(Full(Ref("c1")))),
          Put(Claimed(1, "a", OnBranch("c2")))>>),
     On(<<[Row(1, "note", "a") EXCEPT !.family = TRUE], Row(2, "note", "b")>>,
        <<[Curate("s", <<CurateOp("ADD", 1, "note", "b", <<>>),
                         Noop,
                         CurateOp("DROP", 1, "note", "b", <<>>),
                         CurateOp("ADD", NoKey, "note", "b", <<>>),
                         [CurateOp("ADD", 3, "note", "b", <<>>) EXCEPT !.phi = TRUE],
                         CurateOp("UPDATE", 2, "note", "b", <<>>)>>)
             EXCEPT !.family_must_differ = TRUE],
          [Curate("s", <<>>) EXCEPT !.enabled = FALSE],
          [Curate("s", Supersede("c", "note")) EXCEPT !.dry_run = TRUE]>>)}

ClaimWorkloads ==
    {On(<<Claimed(1, "a", OnBranch("c1"))>>,
        <<Reconcile(TRUE), Put(Claimed(1, "b", OnBranch("c2"))), Bootstrap>>),
     On(<<Claimed(1, "a", OnPR(NoRef)), Claimed(2, "b", OnPR(Ref("c2")))>>,
        <<Webhook(TRUE), Gone(1), Bootstrap>>),
     On(<<Claimed(1, "a", Attested(OnBranch("c2"))),
          Claimed(2, "b", Mode(OnBranch("c2"), "historical_snapshot"))>>,
        <<Reconcile(TRUE), Put(Row(1, "note", "b")), Webhook(FALSE)>>),
     On(<<Claimed(1, "a", Mode(OnBranch("c1"), "interval")), Claimed(3, "c", NoMeta)>>,
        <<Reconcile(TRUE), Gone(3), Webhook(FALSE)>>),
     On(<<Claimed(1, "a", OnPR([commit |-> "c2", len |-> "short"]))>>,
        <<Reconcile(TRUE), Gone(1), Webhook(TRUE)>>),
     On(<<Claimed(1, "a", Mode(OnBranch("c1"), "timeless"))>>,
        <<Reconcile(FALSE), Reconcile(TRUE), Bootstrap>>),
     On(<<Row(1, "note", "a"), [Row(2, "note", "b") EXCEPT !.derived_from = {1}],
          [Row(3, "note", "c") EXCEPT !.derived_from = {2}]>>,
        <<Put([Row(1, "note", "c") EXCEPT !.quarantined = TRUE]), Gone(2), Bootstrap>>),
     On(<<Row(1, "handoff", "a"), [Row(2, "handoff", "b") EXCEPT !.derived_from = {3}],
          [Claimed(3, "c", OnBranch("c1")) EXCEPT !.derived_from = {2}]>>,
        <<Put([Row(1, "handoff", "a") EXCEPT !.meta.consumed = TRUE]),
          Reconcile(TRUE), Bootstrap>>),
     On(<<Claimed(1, "a", Mode(OnBranch("c1"), "timeless")),
          Claimed(2, "b", Mode(OnBranch("c1"), "interval")), Claimed(3, "b", NoMeta)>>,
        <<Reconcile(TRUE), Gone(1), Bootstrap>>),
     On(<<Row(1, "handoff", "a"), Row(2, "handoff", "b"), Row(3, "handoff", "c")>>,
        <<Put([Row(1, "handoff", "a") EXCEPT !.meta.consumed = TRUE]), Gone(2), Bootstrap>>),
     On(<<>>, <<Put(Claimed(1, "a", [OnBranch("c1") EXCEPT !.sha = ShortRef])),
                Put(Claimed(2, "a", OnBranch("c2"))), Bootstrap>>)}

Append_(actor, event) == [op |-> "append", session |-> Earlier, actor |-> actor, event |-> event]
NoSession == [Append_("x", "none") EXCEPT !.session = <<0, 1>>]
Open == [op |-> "open"]
SessionWorkloads ==
    {On(<<>>, <<Append_("x", "e"), Append_("x", "e"), Append_("x", "none")>>),
     On(<<>>, <<Append_("x", "none"), Append_("x", "e"), Append_("y", "e")>>),
     On(<<>>, <<Append_("x", "e"), NoSession, Open>>)}

Initialise(gate, seed, v) ==
    [op |-> "init", doc |-> [gate |-> gate, floor |-> v], seed |-> seed, val |-> v]
Edit(doc) == [op |-> "edit", doc |-> doc]
NamespaceWorkloads ==
    {On(<<>>, <<Initialise("on", TRUE, "a"), Initialise("off", FALSE, "b"),
                Edit([gate |-> "off"])>>),
     On(<<>>, <<Initialise("on", TRUE, "a"), Initialise("on", TRUE, "b"),
                Initialise("off", FALSE, "c")>>),
     On(<<Row(1, "note", "a")>>, <<Initialise("on", TRUE, "b"), Gone(1),
                                   Edit([floor |-> "c"])>>),
     On(<<>>, <<Initialise("off", TRUE, "b"), Put(Row(2, "note", "a")), Gone(3)>>)}

Call(p, presented) == [op |-> "call", proc |-> p, presented |-> presented]
RotateBy(p, label) == [op |-> "rotate", proc |-> p, label |-> label, signed |-> TRUE]
BootOf(p) == [op |-> "boot", proc |-> p]
Old(label) == <<label, 0>>
TokenWorkloads ==
    {On(<<>>, <<Call("p", <<Old("web")>>), Call("p", <<Old("web")>>), RotateBy("p", "web")>>),
     On(<<>>, <<Call("q", <<Old("web"), Old("cli")>>), Call("q", <<<<"web", 3>>, Old("web")>>),
                RotateBy("p", "web")>>),
     On(<<>>, <<Call("q", <<Old("web")>>), RotateBy("p", "web"), RotateBy("q", "web")>>),
     On(<<>>, <<BootOf("p"), BootOf("q"), Call("q", <<<<"web", 1>>, <<"cli", 2>>>>)>>),
     On(<<>>, <<Call("p", <<Old("other")>>), RotateBy("p", "phone"),
                [RotateBy("q", "web") EXCEPT !.signed = FALSE]>>)}

PutBytes(data, type) == [op |-> "put", data |-> data, type |-> type]
GetBytes(data, http) == [op |-> "get", data |-> data, http |-> http]
ArtifactWorkloads ==
    {On(<<>>, <<PutBytes(<<1, 2, 3>>, "x"), PutBytes(<<1, 2, 3>>, "y"),
                GetBytes(<<1, 2, 3>>, TRUE)>>),
     On(<<>>, <<PutBytes(<<1>>, "x"), GetBytes(<<1>>, FALSE), GetBytes(<<1>>, TRUE)>>),
     On(<<>>, <<PutBytes(<<1, 2, 3, 1>>, "x"), GetBytes(<<1, 2, 3, 1>>, FALSE),
                GetBytes(<<1, 2, 3, 1>>, TRUE)>>),
     On(<<>>, <<PutBytes(<<>>, "x"), GetBytes(<<>>, TRUE), PutBytes(<<1, 2, 3, 1, 2>>, "x")>>)}

MCJobs == 1..3
MCLabels == <<"web", "cli">>
MCWorkloads ==
    ListWorkloads \cup SearchWorkloads \cup CurateWorkloads \cup ClaimWorkloads
        \cup SessionWorkloads \cup NamespaceWorkloads \cup TokenWorkloads
        \cup ArtifactWorkloads
=============================================================================
