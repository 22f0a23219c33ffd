------------------------- MODULE GitRepoScanProofs -------------------------
(***************************************************************************)
(* What GitRepoScan promises, for every history of a repository and every  *)
(* interval between checkpoints, with and without atomic batches.  GitInv  *)
(* ties the durable keys to the process that is writing them: a batch that *)
(* is half written is one of a few remainders (WritingOK), and each of     *)
(* them leaves a store the next lease can trust (StoreOK).  An atomic      *)
(* batch leaves what its operations leave one after the other              *)
(* (AppliedFirst), so the same lemmas cover both kinds of backend.         *)
(***************************************************************************)
EXTENDS GitRepoScan, TLAPS, FiniteSetTheorems, SequenceTheorems

-----------------------------------------------------------------------------
(* The invariant                                                           *)

\* The fields of the records.
IsStore(s) ==
    s = [base |-> s.base, prefix |-> s.prefix, scope |-> s.scope, staging |-> s.staging, mark |-> s.mark]
IsGhost(g) ==
    g = [scanned |-> g.scanned, restored |-> g.restored, partial |-> g.partial,
         abandoned |-> g.abandoned, moved |-> g.moved]
IsProc(p) ==
    p = [pc |-> p.pc, rev |-> p.rev, plan |-> p.plan, todo |-> p.todo, cand |-> p.cand,
         scanned |-> p.scanned, skipped |-> p.skipped, captured |-> p.captured, index |-> p.index,
         count |-> p.count, saved |-> p.saved, resumed |-> p.resumed, ops |-> p.ops, next |-> p.next]

\* The number of the pack plan that blob b of the candidates is.
Rank(cand, b) == Cardinality({c \in cand \ Loose : c < b})

\* The first n pack plans are among the blobs bs.
Through(cand, n, bs) == \A b \in cand \ Loose : Rank(cand, b) < n => b \in bs

\* A stored prefix fits the candidates it was taken from, and says the truth.
PrefixOK(x, cand, g) ==
    /\ x = [stage |-> x.stage, count |-> x.count, scanned |-> x.scanned, skipped |-> x.skipped]
    /\ x.stage \in {"PackPlanComplete", "PreFinalize"}
    /\ x.count \in Nat
    /\ x.scanned \cup x.skipped \subseteq cand
    /\ x.scanned \cap Corrupt = {} /\ x.scanned \subseteq g.scanned
    /\ Through(cand, x.count, x.scanned)
    /\ x.stage = "PreFinalize" => cand \subseteq x.scanned \cup x.skipped

\* What is stored is sound at every moment, between two writes of a batch too.
StoreOK(s, fi, le, g) ==
    /\ IsStore(s) /\ IsGhost(g)
    /\ s.base # None =>
          /\ s.base \in Checkpoint
          /\ s.base.stage = "CommitPlan" => s.base.cand = {}
          /\ s.base.stage = "SpillDedup" => s.base.plan \subseteq s.base.cand \cup s.scope
    /\ s.prefix # None =>
          s.base # None /\ s.base.stage = "SpillDedup" /\ PrefixOK(s.prefix, s.base.cand, g)
    /\ s.scope \subseteq Blob /\ s.staging \subseteq Blob
    /\ s.mark \in Revision \cup {None}
    /\ s.scope \subseteq g.scanned \cup g.abandoned
    /\ s.mark # None => History[s.mark] \subseteq s.scope \cup g.moved /\ s.mark \in le
    /\ s.scope \cap Secret \subseteq fi \cup g.restored \cup g.partial \cup g.abandoned

\* From the findings on, the scan is complete.
Delivering == {"findings", "ledger", "commit", "complete"}

\* Where the process is, or goes when it has written.
Stage(p) == IF p.pc = "write" THEN p.next ELSE p.pc

\* The process knows what it has scanned, and scans all of its plan.
LeaseOK(s, p, fi, le, g) ==
    /\ IsProc(p)
    /\ Stage(p) \in {"spill", "packs", "finalize", "fail"} \cup Delivering
    /\ p.rev \in Revision /\ p.plan \subseteq Blob /\ p.cand \subseteq Blob /\ p.todo \subseteq Blob
    /\ p.index \in Nat /\ p.count \in Nat /\ p.count <= p.index
    /\ p.scanned \cup p.skipped \subseteq p.cand
    /\ p.scanned \cap Corrupt = {} /\ p.scanned \subseteq g.scanned
    /\ p.scanned \cap Secret \subseteq p.captured \cup g.restored
    /\ Stage(p) = "spill" => p.scanned = {} /\ p.skipped = {} /\ p.index = 0
    /\ Stage(p) # "fail" =>
          /\ Planned(p.rev, s.mark) \subseteq p.plan \cup g.moved
          /\ p.plan \subseteq p.todo \cup p.cand \cup s.scope
          /\ Stage(p) # "spill" => p.todo = {}
          /\ Through(p.cand, p.index, p.scanned \cup p.skipped)
          /\ Through(p.cand, p.count, p.scanned)
    /\ Stage(p) \in {"finalize"} \cup Delivering => p.cand \subseteq p.scanned \cup p.skipped
    /\ Stage(p) \in Delivering => p.skipped = {}
    /\ Stage(p) \in {"ledger", "commit", "complete"} => p.captured \subseteq fi
    /\ Stage(p) \in {"commit", "complete"} => p.rev \in le

\* The checkpoint of a process that is not writing.
OnPlan(s) == s.prefix = None /\ s.base # None /\ s.base.stage = "CommitPlan"
OnSpill(s, p) == s.base # None /\ s.base.stage = "SpillDedup" /\ s.base.cand = p.cand
AtRest(s, p) ==
    /\ p.pc = "spill" => OnPlan(s)
    /\ p.pc \in {"packs", "finalize", "findings", "ledger", "commit"} => OnSpill(s, p)

\* The rest of a batch that replaces the base.
Rebasing(s, p, base) ==
    \/ p.ops = <<Delete("prefix"), Put("base", base)>>
    \/ p.ops = <<Put("base", base)>> /\ s.prefix = None

\* The rest of commit_finalize.
CommitsPartial(s, p) ==
    \/ p.ops = <<Delete("staging"), Put("scope", s.scope \cup p.scanned)>>
    \/ p.ops = <<Put("scope", s.scope \cup p.scanned)>>
CommitsComplete(s, p, g) ==
    \/ /\ p.ops = <<Put("scope", s.scope \cup p.scanned \cup s.staging), Delete("staging"),
                    Put("mark", p.rev), Delete("prefix"), Delete("base")>>
       /\ s.staging \ p.cand \subseteq g.abandoned
    \/ /\ p.ops = <<Delete("staging"), Put("mark", p.rev), Delete("prefix"), Delete("base")>>
       /\ p.scanned \subseteq s.scope
    \/ /\ p.ops = <<Put("mark", p.rev), Delete("prefix"), Delete("base")>>
       /\ p.scanned \subseteq s.scope
    \/ p.ops = <<Delete("prefix"), Delete("base")>>
    \/ p.ops = <<Delete("base")>> /\ s.prefix = None

\* What a process that is writing has left to write.
WritingOK(s, p, g) ==
    \/ p.next = "spill" /\ p.cand = {} /\ Rebasing(s, p, PlanBase(p))
    \/ p.next = "packs" /\ s.prefix = None /\ Rebasing(s, p, SpillBase(p))
    \/ /\ p.next \in {"packs", "finalize"} /\ OnSpill(s, p)
       /\ \E stage \in {"PackPlanComplete", "PreFinalize"} :
             p.ops = PrefixOps(p, stage) /\ (stage = "PreFinalize" <=> p.next = "finalize")
    \/ p.next = "fail" /\ p.scanned \subseteq g.partial /\ CommitsPartial(s, p)
    \/ p.next = "complete" /\ CommitsComplete(s, p, g)

\* The inductive invariant, of a store and the process that holds the lease.
GitOK(s, p, fi, le, g) ==
    /\ StoreOK(s, fi, le, g)
    /\ p = Idle \/ (/\ LeaseOK(s, p, fi, le, g)
                    /\ IF p.pc = "write" THEN WritingOK(s, p, g) ELSE AtRest(s, p))

\* The invariant of the state.
GitInv == rev \in Revision /\ GitOK(store, proc, findings, ledger, ghost)

-----------------------------------------------------------------------------
(* Pack plans                                                              *)

\* Blobs are numbers.
LEMMA BlobsAreNumbers == ASSUME GitAssumption PROVE Blob \subseteq Nat
  <1>1. \A r \in DOMAIN History : History[r] \in SUBSET Nat
    BY DEF GitAssumption
  <1> QED  BY <1>1 DEF Blob, Revision

\* Every candidate in a pack has a number below the number of pack plans.
LEMMA RankBound ==
    ASSUME GitAssumption, NEW cand, cand \subseteq Blob, NEW b \in cand \ Loose
    PROVE  Rank(cand, b) \in Nat /\ Cardinality(cand \ Loose) \in Nat /\ Rank(cand, b) < Cardinality(cand \ Loose)
  <1> DEFINE T == cand \ Loose
             L == {c \in T : c < b}
  <1>1. IsFiniteSet(T) /\ T \subseteq Nat
    BY FS_Subset, BlobsAreNumbers DEF GitAssumption
  <1>2. L \subseteq T /\ b \in T /\ b \notin L
    BY <1>1
  <1>3. IsFiniteSet(L) /\ Cardinality(L) \in Nat /\ Cardinality(T) \in Nat
    BY <1>1, <1>2, FS_Subset, FS_CardinalityType
  <1>4. Cardinality(L) <= Cardinality(T) /\ (Cardinality(L) = Cardinality(T) => L = T)
    BY <1>1, <1>2, FS_Subset
  <1>5. Cardinality(L) # Cardinality(T)
    BY <1>2, <1>4
  <1>6. Cardinality(L) < Cardinality(T)
    <2> HIDE DEF L, T
    <2> QED  BY <1>3, <1>4, <1>5
  <1> QED  BY <1>3, <1>6 DEF Rank

\* The plan at position i is the candidates of that number.
LEMMA PlanAtIs ==
    ASSUME NEW p, NEW i, NEW b
    PROVE  b \in PlanAt(p, i) <=> b \in p.cand \ Loose /\ Rank(p.cand, b) = i
  BY DEF PlanAt, Rank

\* One plan more.
LEMMA ThroughNext ==
    ASSUME GitAssumption, NEW p, p.cand \subseteq Blob, NEW n \in Nat, NEW bs, NEW cs,
           Through(p.cand, n, bs), bs \subseteq cs, PlanAt(p, n) \subseteq cs
    PROVE  Through(p.cand, n + 1, cs)
  <1> SUFFICES ASSUME NEW b \in p.cand \ Loose, Rank(p.cand, b) < n + 1 PROVE b \in cs
    BY DEF Through
  <1>1. Rank(p.cand, b) \in Nat
    BY RankBound
  <1>2. CASE Rank(p.cand, b) < n
    BY <1>2 DEF Through
  <1>3. CASE Rank(p.cand, b) = n
    BY <1>3, PlanAtIs
  <1> QED  BY <1>1, <1>2, <1>3

\* All plans.
LEMMA ThroughAll ==
    ASSUME GitAssumption, NEW cand, cand \subseteq Blob, NEW n \in Nat, n >= Cardinality(cand \ Loose), NEW bs,
           Through(cand, n, bs), cand \cap Loose \subseteq bs
    PROVE  cand \subseteq bs
  <1> SUFFICES ASSUME NEW b \in cand \ Loose PROVE b \in bs
    OBVIOUS
  <1> DEFINE k == Rank(cand, b)
             m == Cardinality(cand \ Loose)
  <1>1. k \in Nat /\ m \in Nat /\ k < m
    BY RankBound
  <1>2. n >= m
    OBVIOUS
  <1> HIDE DEF k, m
  <1>3. k < n
    BY <1>1, <1>2
  <1> QED  BY <1>3 DEF Through, k

\* What the prefix of the store counts is what CheckpointSound says it counts.
LEMMA PrefixCounts ==
    ASSUME GitAssumption, NEW s, NEW fi, NEW le, NEW g, StoreOK(s, fi, le, g), s.prefix # None
    PROVE  UNION {PlanAt(s.base, i) : i \in 0..(s.prefix.count - 1)} \subseteq s.prefix.scanned
  <1> SUFFICES ASSUME NEW i \in 0..(s.prefix.count - 1), NEW b \in PlanAt(s.base, i)
               PROVE  b \in s.prefix.scanned
    OBVIOUS
  <1>1. s.prefix.count \in Nat /\ Through(s.base.cand, s.prefix.count, s.prefix.scanned)
    BY DEF StoreOK, PrefixOK
  <1>2. b \in s.base.cand \ Loose /\ Rank(s.base.cand, b) = i
    BY PlanAtIs
  <1>3. i < s.prefix.count
    BY <1>1
  <1> QED  BY <1>1, <1>2, <1>3 DEF Through

-----------------------------------------------------------------------------
(* Writes                                                                  *)

\* A store after one operation.
LEMMA Wrote ==
    ASSUME NEW s, IsStore(s), NEW k, NEW v, NEW t, t = Applied(s, <<Put(k, v)>>)
    PROVE  /\ IsStore(t)
           /\ t.base = IF k = "base" THEN v ELSE s.base
           /\ t.prefix = IF k = "prefix" THEN v ELSE s.prefix
           /\ t.scope = IF k = "scope" THEN v ELSE s.scope
           /\ t.staging = IF k = "staging" THEN v ELSE s.staging
           /\ t.mark = IF k = "mark" THEN v ELSE s.mark
  BY DEF IsStore, Applied, Put

\* The first operation of a batch, and the others.
LEMMA Batches ==
    ASSUME NEW a, NEW b, NEW c, NEW d, NEW e
    PROVE  /\ Head(<<a>>) = a /\ Tail(<<a>>) = << >>
           /\ Head(<<a, b>>) = a /\ Tail(<<a, b>>) = <<b>> /\ <<b>> # << >>
           /\ Head(<<a, b, c>>) = a /\ Tail(<<a, b, c>>) = <<b, c>> /\ <<b, c>> # << >>
           /\ Head(<<a, b, c, d>>) = a /\ Tail(<<a, b, c, d>>) = <<b, c, d>> /\ <<b, c, d>> # << >>
           /\ Head(<<a, b, c, d, e>>) = a /\ Tail(<<a, b, c, d, e>>) = <<b, c, d, e>> /\ <<b, c, d, e>> # << >>
  OBVIOUS

\* A process that has scanned the same and is as far.
Same(p, q) ==
    /\ IsProc(q)
    /\ q.rev = p.rev /\ q.plan = p.plan /\ q.todo = p.todo /\ q.cand = p.cand
    /\ q.scanned = p.scanned /\ q.skipped = p.skipped /\ q.captured = p.captured
    /\ q.index = p.index /\ q.count = p.count

\* The store after the first operation, the process after it, and after all of them.
Stored(s, p, t) == t = Applied(s, <<Head(p.ops)>>)
Popped(p, q) ==
    /\ Same(p, q) /\ q.next = p.next /\ q.ops = Tail(p.ops)
    /\ q.pc = IF Tail(p.ops) = << >> THEN p.next ELSE "write"
Ended(p, q) == Same(p, q) /\ q.next = p.next /\ q.ops = << >> /\ q.pc = p.next

\* A process's account stays true while the scope grows and the watermark moves
\* to its revision.
LEMMA LeaseCarried ==
    ASSUME GitAssumption, NEW s, NEW t, NEW p, NEW q, NEW fi, NEW le, NEW g,
           LeaseOK(s, p, fi, le, g), Same(p, q), Stage(q) = Stage(p),
           s.scope \subseteq t.scope, t.mark = s.mark \/ t.mark = p.rev
    PROVE  LeaseOK(t, q, fi, le, g)
  <1>1. p.rev \in Revision
    BY DEF LeaseOK
  <1>2. t.mark = p.rev => Planned(p.rev, t.mark) = {}
    BY <1>1 DEF Planned, GitAssumption
  <1>3. Stage(p) # "fail" => Planned(p.rev, t.mark) \subseteq p.plan \cup g.moved
    BY <1>2 DEF LeaseOK
  <1>4. Stage(p) # "fail" => p.plan \subseteq p.todo \cup p.cand \cup t.scope
    BY DEF LeaseOK
  <1>5. /\ Stage(q) = Stage(p) /\ IsProc(q)
        /\ q.rev = p.rev /\ q.plan = p.plan /\ q.todo = p.todo /\ q.cand = p.cand
        /\ q.scanned = p.scanned /\ q.skipped = p.skipped /\ q.captured = p.captured
        /\ q.index = p.index /\ q.count = p.count
    BY DEF Same
  <1> QED  BY <1>3, <1>4, <1>5 DEF LeaseOK

\* Each operation, under what the process knows when it is written.  A prefix
\* may be deleted at any time.
LEMMA PrefixDeleted ==
    ASSUME NEW s, NEW fi, NEW le, NEW g, StoreOK(s, fi, le, g), NEW t, t = Applied(s, <<Delete("prefix")>>)
    PROVE  /\ StoreOK(t, fi, le, g)
           /\ t.prefix = None /\ t.base = s.base /\ t.scope = s.scope /\ t.staging = s.staging /\ t.mark = s.mark
  <1>1. /\ IsStore(t) /\ t.prefix = None /\ t.base = s.base /\ t.scope = s.scope
        /\ t.staging = s.staging /\ t.mark = s.mark
    BY Wrote DEF Delete, StoreOK
  <1> QED  BY <1>1 DEF StoreOK

\* A base is put where no prefix is.
LEMMA BasePut ==
    ASSUME NEW s, NEW fi, NEW le, NEW g, StoreOK(s, fi, le, g), s.prefix = None,
           NEW base \in Checkpoint, base.stage = "CommitPlan" => base.cand = {},
           base.stage = "SpillDedup" => base.plan \subseteq base.cand \cup s.scope,
           NEW t, t = Applied(s, <<Put("base", base)>>)
    PROVE  /\ StoreOK(t, fi, le, g)
           /\ t.prefix = None /\ t.base = base /\ t.scope = s.scope /\ t.staging = s.staging /\ t.mark = s.mark
  <1>1. /\ IsStore(t) /\ t.prefix = None /\ t.base = base /\ t.scope = s.scope
        /\ t.staging = s.staging /\ t.mark = s.mark
    BY Wrote DEF StoreOK
  <1> QED  BY <1>1 DEF StoreOK

\* A base is deleted when its prefix is gone.
LEMMA BaseDeleted ==
    ASSUME NEW s, NEW fi, NEW le, NEW g, StoreOK(s, fi, le, g), s.prefix = None,
           NEW t, t = Applied(s, <<Delete("base")>>)
    PROVE  StoreOK(t, fi, le, g) /\ t.scope = s.scope /\ t.mark = s.mark
  <1>1. /\ IsStore(t) /\ t.prefix = None /\ t.base = None /\ t.scope = s.scope
        /\ t.staging = s.staging /\ t.mark = s.mark
    BY Wrote DEF Delete, StoreOK
  <1> QED  BY <1>1 DEF StoreOK

\* A prefix is put beside the base it counts from.
LEMMA PrefixPut ==
    ASSUME NEW s, NEW fi, NEW le, NEW g, StoreOK(s, fi, le, g), s.base # None, s.base.stage = "SpillDedup",
           NEW x, PrefixOK(x, s.base.cand, g), NEW t, t = Applied(s, <<Put("prefix", x)>>)
    PROVE  /\ StoreOK(t, fi, le, g)
           /\ t.prefix = x /\ t.base = s.base /\ t.scope = s.scope /\ t.staging = s.staging /\ t.mark = s.mark
  <1>1. /\ IsStore(t) /\ t.prefix = x /\ t.base = s.base /\ t.scope = s.scope
        /\ t.staging = s.staging /\ t.mark = s.mark
    BY Wrote DEF StoreOK
  <1> QED  BY <1>1 DEF StoreOK

\* The scope takes blobs that were scanned, their findings accounted for.
LEMMA ScopePut ==
    ASSUME NEW s, NEW fi, NEW le, NEW g, StoreOK(s, fi, le, g), NEW v,
           \A b \in s.scope : b \in v, \A b \in v : b \in Blob,
           \A b \in v : b \in g.scanned \/ b \in g.abandoned,
           \A b \in v : b \in Secret => b \in fi \/ b \in g.restored \/ b \in g.partial \/ b \in g.abandoned,
           NEW t, t = Applied(s, <<Put("scope", v)>>)
    PROVE  /\ StoreOK(t, fi, le, g)
           /\ t.prefix = s.prefix /\ t.base = s.base /\ t.scope = v /\ t.staging = s.staging /\ t.mark = s.mark
  <1>1. /\ IsStore(t) /\ t.prefix = s.prefix /\ t.base = s.base /\ t.scope = v
        /\ t.staging = s.staging /\ t.mark = s.mark
    BY Wrote DEF StoreOK
  <1>2. s.base # None /\ s.base.stage = "SpillDedup" => s.base.plan \subseteq s.base.cand \cup v
    BY DEF StoreOK
  <1>3. s.mark # None => History[s.mark] \subseteq v \cup g.moved
    BY DEF StoreOK
  <1> QED  BY <1>1, <1>2, <1>3 DEF StoreOK

\* Staging is dropped.
LEMMA StagingDeleted ==
    ASSUME NEW s, NEW fi, NEW le, NEW g, StoreOK(s, fi, le, g), NEW t, t = Applied(s, <<Delete("staging")>>)
    PROVE  /\ StoreOK(t, fi, le, g)
           /\ t.prefix = s.prefix /\ t.base = s.base /\ t.scope = s.scope /\ t.mark = s.mark
  <1>1. /\ IsStore(t) /\ t.prefix = s.prefix /\ t.base = s.base /\ t.scope = s.scope
        /\ t.staging = {} /\ t.mark = s.mark
    BY Wrote DEF Delete, StoreOK
  <1> QED  BY <1>1 DEF StoreOK

\* The watermark moves to a revision the scope covers.
LEMMA MarkPut ==
    ASSUME NEW s, NEW fi, NEW le, NEW g, StoreOK(s, fi, le, g), NEW r \in Revision, r \in le,
           History[r] \subseteq s.scope \cup g.moved, NEW t, t = Applied(s, <<Put("mark", r)>>)
    PROVE  /\ StoreOK(t, fi, le, g)
           /\ t.prefix = s.prefix /\ t.base = s.base /\ t.scope = s.scope /\ t.staging = s.staging /\ t.mark = r
  <1>1. /\ IsStore(t) /\ t.prefix = s.prefix /\ t.base = s.base /\ t.scope = s.scope
        /\ t.staging = s.staging /\ t.mark = r
    BY Wrote DEF StoreOK
  <1> QED  BY <1>1 DEF StoreOK

\* A base state that may be stored.
BaseFits(s, base) ==
    /\ base \in Checkpoint
    /\ base.stage = "CommitPlan" => base.cand = {}
    /\ base.stage = "SpillDedup" => base.plan \subseteq base.cand \cup s.scope

\* The base is replaced, its prefix goes first.
LEMMA RebaseWrite ==
    ASSUME NEW s, NEW p, NEW fi, NEW le, NEW g, StoreOK(s, fi, le, g), NEW base, BaseFits(s, base),
           Rebasing(s, p, base), NEW t, Stored(s, p, t), NEW q, Popped(p, q)
    PROVE  /\ StoreOK(t, fi, le, g) /\ t.scope = s.scope /\ t.mark = s.mark /\ t.prefix = None
           /\ \/ q.pc = "write" /\ Rebasing(t, q, base)
              \/ q.pc = p.next /\ t.base = base
  <1>1. CASE p.ops = <<Delete("prefix"), Put("base", base)>>
    <2>1. Head(p.ops) = Delete("prefix") /\ Tail(p.ops) = <<Put("base", base)>> /\ Tail(p.ops) # << >>
      BY <1>1, Batches
    <2>2. StoreOK(t, fi, le, g) /\ t.prefix = None /\ t.scope = s.scope /\ t.mark = s.mark
      <3>1. t = Applied(s, <<Delete("prefix")>>)
        BY <2>1 DEF Stored
      <3> QED  BY <3>1, PrefixDeleted
    <2>3. q.pc = "write" /\ q.ops = <<Put("base", base)>>
      BY <2>1 DEF Popped
    <2> QED  BY <2>2, <2>3 DEF Rebasing
  <1>2. CASE p.ops = <<Put("base", base)>> /\ s.prefix = None
    <2>1. Head(p.ops) = Put("base", base) /\ Tail(p.ops) = << >>
      BY <1>2, Batches
    <2>2. /\ StoreOK(t, fi, le, g) /\ t.prefix = None /\ t.base = base
          /\ t.scope = s.scope /\ t.mark = s.mark
      <3>1. t = Applied(s, <<Put("base", base)>>)
        BY <2>1 DEF Stored
      <3> QED  BY <1>2, <3>1, BasePut DEF BaseFits
    <2>3. q.pc = p.next
      BY <2>1 DEF Popped
    <2> QED  BY <2>2, <2>3
  <1> QED  BY <1>1, <1>2 DEF Rebasing

\* The two base states.
LEMMA Bases ==
    ASSUME GitAssumption, NEW s, NEW p, NEW fi, NEW le, NEW g, LeaseOK(s, p, fi, le, g)
    PROVE  /\ PlanBase(p) \in Checkpoint /\ PlanBase(p).stage = "CommitPlan" /\ PlanBase(p).cand = {}
           /\ SpillBase(p) \in Checkpoint /\ SpillBase(p).stage = "SpillDedup"
           /\ SpillBase(p).cand = p.cand /\ SpillBase(p).plan = p.plan
           /\ PlanBase(p) # None /\ SpillBase(p) # None
  <1>1. Fingerprint[p.rev] \in {Fingerprint[r] : r \in Revision}
    BY DEF LeaseOK
  <1>2. p.plan \in SUBSET Blob /\ p.cand \in SUBSET Blob
    BY DEF LeaseOK
  <1>3. PlanBase(p) \in Checkpoint /\ PlanBase(p).stage = "CommitPlan" /\ PlanBase(p).cand = {}
    BY <1>1, <1>2 DEF PlanBase, Checkpoint
  <1>4. /\ SpillBase(p) \in Checkpoint /\ SpillBase(p).stage = "SpillDedup"
        /\ SpillBase(p).cand = p.cand /\ SpillBase(p).plan = p.plan
    BY <1>1, <1>2 DEF PlanBase, SpillBase, Checkpoint
  <1> QED  BY <1>3, <1>4 DEF GitAssumption

\* They do not depend on where the process is.
LEMMA BasesSame ==
    ASSUME NEW p, NEW q, Same(p, q)
    PROVE  PlanBase(q) = PlanBase(p) /\ SpillBase(q) = SpillBase(p)
  BY DEF Same, PlanBase, SpillBase

\* The prefix that a process saves.
LEMMA PrefixSaved ==
    ASSUME GitAssumption, NEW s, NEW p, NEW fi, NEW le, NEW g, LeaseOK(s, p, fi, le, g), Stage(p) # "fail",
           NEW stage \in {"PackPlanComplete", "PreFinalize"},
           stage = "PreFinalize" => p.cand \subseteq p.scanned \cup p.skipped
    PROVE  PrefixOK([stage |-> stage, count |-> p.count, scanned |-> p.scanned, skipped |-> p.skipped], p.cand, g)
  BY DEF LeaseOK, PrefixOK

\* commit_finalize of a partial outcome: the scope takes what was scanned.
LEMMA PartialWrite ==
    ASSUME GitAssumption, NEW s, NEW p, NEW fi, NEW le, NEW g, StoreOK(s, fi, le, g), LeaseOK(s, p, fi, le, g),
           p.pc = "write", p.scanned \subseteq g.partial, CommitsPartial(s, p),
           NEW t, Stored(s, p, t), NEW q, Popped(p, q)
    PROVE  /\ StoreOK(t, fi, le, g) /\ s.scope \subseteq t.scope /\ t.mark = s.mark
           /\ \/ q.pc = "write" /\ CommitsPartial(t, q)
              \/ q.pc = p.next
  <1> DEFINE v == s.scope \cup p.scanned
  <1>1. CASE p.ops = <<Delete("staging"), Put("scope", v)>>
    <2>1. Head(p.ops) = Delete("staging") /\ Tail(p.ops) = <<Put("scope", v)>> /\ Tail(p.ops) # << >>
      <3> HIDE DEF v
      <3> QED  BY <1>1, Batches
    <2>2. StoreOK(t, fi, le, g) /\ t.scope = s.scope /\ t.mark = s.mark
      <3>1. t = Applied(s, <<Delete("staging")>>)
        BY <2>1 DEF Stored
      <3> QED  BY <3>1, StagingDeleted
    <2>3. q.pc = "write" /\ q.ops = <<Put("scope", v)>> /\ q.scanned = p.scanned
      BY <2>1 DEF Popped, Same
    <2> QED  BY <2>2, <2>3 DEF CommitsPartial
  <1>2. CASE p.ops = <<Put("scope", v)>>
    <2>1. Head(p.ops) = Put("scope", v) /\ Tail(p.ops) = << >>
      BY <1>2, Batches
    <2>2. /\ \A b \in s.scope : b \in v
          /\ \A b \in v : b \in Blob
          /\ \A b \in v : b \in g.scanned \/ b \in g.abandoned
      BY DEF StoreOK, LeaseOK
    <2>3. \A b \in v : b \in Secret => b \in fi \/ b \in g.restored \/ b \in g.partial \/ b \in g.abandoned
      BY DEF StoreOK
    <2> HIDE DEF v
    <2>4. StoreOK(t, fi, le, g) /\ t.scope = v /\ t.mark = s.mark
      <3>1. t = Applied(s, <<Put("scope", v)>>)
        BY <2>1 DEF Stored
      <3> QED  BY <2>2, <2>3, <3>1, ScopePut
    <2>5. q.pc = p.next
      BY <2>1 DEF Popped
    <2> QED  BY <2>2, <2>4, <2>5
  <1> QED  BY <1>1, <1>2 DEF CommitsPartial

\* The revision that a complete scan has covered.
LEMMA RevisionCovered ==
    ASSUME GitAssumption, NEW s, NEW p, NEW fi, NEW le, NEW g, StoreOK(s, fi, le, g), LeaseOK(s, p, fi, le, g),
           Stage(p) = "complete", p.scanned \subseteq s.scope
    PROVE  History[p.rev] \subseteq s.scope \cup g.moved
  <1>1. p.plan \subseteq s.scope
    BY DEF LeaseOK, Delivering
  <1>2. Planned(p.rev, s.mark) \subseteq s.scope \cup g.moved
    BY <1>1 DEF LeaseOK
  <1>3. s.mark # None => History[s.mark] \subseteq s.scope \cup g.moved
    BY DEF StoreOK
  <1> QED  BY <1>2, <1>3 DEF Planned

\* commit_finalize of a complete outcome: the watermark moves when the scope covers
\* it, and the checkpoint goes after that, its prefix first.
LEMMA CompleteWrite ==
    ASSUME GitAssumption, NEW s, NEW p, NEW fi, NEW le, NEW g, StoreOK(s, fi, le, g), LeaseOK(s, p, fi, le, g),
           p.pc = "write", p.next = "complete", CommitsComplete(s, p, g),
           NEW t, Stored(s, p, t), NEW q, Popped(p, q)
    PROVE  /\ StoreOK(t, fi, le, g) /\ s.scope \subseteq t.scope /\ (t.mark = s.mark \/ t.mark = p.rev)
           /\ \/ q.pc = "write" /\ CommitsComplete(t, q, g)
              \/ q.pc = p.next
  <1> DEFINE v == s.scope \cup p.scanned \cup s.staging
             ds == Delete("staging")
             mk == Put("mark", p.rev)
             dp == Delete("prefix")
             db == Delete("base")
  <1>0. Stage(p) = "complete" /\ q.rev = p.rev /\ q.scanned = p.scanned /\ q.cand = p.cand
    BY DEF Stage, Popped, Same
  <1>1. CASE p.ops = <<Put("scope", v), ds, mk, dp, db>> /\ s.staging \ p.cand \subseteq g.abandoned
    <2>1. Head(p.ops) = Put("scope", v) /\ Tail(p.ops) = <<ds, mk, dp, db>> /\ Tail(p.ops) # << >>
      <3> HIDE DEF v, ds, mk, dp, db
      <3> QED  BY <1>1, Batches
    <2>2. p.cand \subseteq p.scanned /\ p.scanned \cap Secret \subseteq fi \cup g.restored
      BY <1>0 DEF LeaseOK, Delivering
    <2>3. /\ \A b \in s.scope : b \in v
          /\ \A b \in v : b \in Blob
          /\ \A b \in v : b \in g.scanned \/ b \in g.abandoned
      BY <1>1, <2>2 DEF StoreOK, LeaseOK
    <2>4. \A b \in v : b \in Secret => b \in fi \/ b \in g.restored \/ b \in g.partial \/ b \in g.abandoned
      BY <1>1, <2>2 DEF StoreOK
    <2>5. p.scanned \subseteq v
      OBVIOUS
    <2> HIDE DEF v
    <2>6. StoreOK(t, fi, le, g) /\ t.scope = v /\ t.mark = s.mark
      <3>1. t = Applied(s, <<Put("scope", v)>>)
        BY <2>1 DEF Stored
      <3> QED  BY <2>3, <2>4, <3>1, ScopePut
    <2>7. q.pc = "write" /\ q.ops = <<ds, mk, dp, db>>
      BY <2>1 DEF Popped
    <2> QED  BY <1>0, <2>3, <2>5, <2>6, <2>7 DEF CommitsComplete
  <1>2. CASE p.ops = <<ds, mk, dp, db>> /\ p.scanned \subseteq s.scope
    <2>1. Head(p.ops) = ds /\ Tail(p.ops) = <<mk, dp, db>> /\ Tail(p.ops) # << >>
      <3> HIDE DEF ds, mk, dp, db
      <3> QED  BY <1>2, Batches
    <2>2. StoreOK(t, fi, le, g) /\ t.scope = s.scope /\ t.mark = s.mark
      <3>1. t = Applied(s, <<Delete("staging")>>)
        BY <2>1 DEF Stored
      <3> QED  BY <3>1, StagingDeleted
    <2>3. q.pc = "write" /\ q.ops = <<mk, dp, db>>
      BY <2>1 DEF Popped
    <2> QED  BY <1>0, <1>2, <2>2, <2>3 DEF CommitsComplete
  <1>3. CASE p.ops = <<mk, dp, db>> /\ p.scanned \subseteq s.scope
    <2>1. Head(p.ops) = mk /\ Tail(p.ops) = <<dp, db>> /\ Tail(p.ops) # << >>
      <3> HIDE DEF ds, mk, dp, db
      <3> QED  BY <1>3, Batches
    <2>2. p.rev \in Revision /\ p.rev \in le /\ History[p.rev] \subseteq s.scope \cup g.moved
      BY <1>0, <1>3, RevisionCovered DEF LeaseOK
    <2>3. StoreOK(t, fi, le, g) /\ t.scope = s.scope /\ t.mark = p.rev
      <3>1. t = Applied(s, <<Put("mark", p.rev)>>)
        BY <2>1 DEF Stored
      <3> QED  BY <2>2, <3>1, MarkPut
    <2>4. q.pc = "write" /\ q.ops = <<dp, db>>
      BY <2>1 DEF Popped
    <2> QED  BY <2>3, <2>4 DEF CommitsComplete
  <1>4. CASE p.ops = <<dp, db>>
    <2>1. Head(p.ops) = dp /\ Tail(p.ops) = <<db>> /\ Tail(p.ops) # << >>
      <3> HIDE DEF ds, mk, dp, db
      <3> QED  BY <1>4, Batches
    <2>2. StoreOK(t, fi, le, g) /\ t.scope = s.scope /\ t.mark = s.mark /\ t.prefix = None
      <3>1. StoreOK(s, fi, le, g) /\ t = Applied(s, <<Delete("prefix")>>)
        BY <2>1 DEF Stored
      <3>2. StoreOK(t, fi, le, g)
        BY <3>1, PrefixDeleted
      <3>3. t.scope = s.scope /\ t.mark = s.mark /\ t.prefix = None
        BY <3>1, PrefixDeleted
      <3> QED  BY <3>2, <3>3
    <2>3. q.pc = "write" /\ q.ops = <<db>>
      BY <2>1 DEF Popped
    <2> QED  BY <2>2, <2>3 DEF CommitsComplete
  <1>5. CASE p.ops = <<db>> /\ s.prefix = None
    <2>1. Head(p.ops) = db /\ Tail(p.ops) = << >>
      <3> HIDE DEF ds, mk, dp, db
      <3> QED  BY <1>5, Batches
    <2>2. StoreOK(t, fi, le, g) /\ t.scope = s.scope /\ t.mark = s.mark
      <3>1. t = Applied(s, <<Delete("base")>>)
        BY <2>1 DEF Stored
      <3> QED  BY <1>5, <3>1, BaseDeleted
    <2>3. q.pc = p.next
      BY <2>1 DEF Popped
    <2> QED  BY <2>2, <2>3
  <1> QED  BY <1>1, <1>2, <1>3, <1>4, <1>5 DEF CommitsComplete

\* What the invariant says of a process that writes.
LEMMA WhileWriting ==
    ASSUME NEW s, NEW p, NEW fi, NEW le, NEW g, GitOK(s, p, fi, le, g), p.pc = "write"
    PROVE  StoreOK(s, fi, le, g) /\ LeaseOK(s, p, fi, le, g) /\ WritingOK(s, p, g) /\ Stage(p) = p.next
  <1>1. p # Idle
    BY DEF Idle
  <1> QED  BY <1>1 DEF GitOK, Stage

\* One operation keeps the invariant.
LEMMA OneWrite ==
    ASSUME GitAssumption, NEW s, NEW p, NEW fi, NEW le, NEW g, GitOK(s, p, fi, le, g), p.pc = "write",
           NEW t, Stored(s, p, t), NEW q, Popped(p, q)
    PROVE  GitOK(t, q, fi, le, g)
  <1>1. StoreOK(s, fi, le, g) /\ LeaseOK(s, p, fi, le, g) /\ WritingOK(s, p, g) /\ Stage(p) = p.next
    BY WhileWriting
  <1>2. Same(p, q) /\ q.next = p.next /\ Stage(q) = Stage(p) /\ p.next # "write"
    BY <1>1 DEF Popped, Stage, LeaseOK, Delivering
  <1>3. PlanBase(q) = PlanBase(p) /\ SpillBase(q) = SpillBase(p) /\ q.cand = p.cand /\ q.scanned = p.scanned
    BY <1>2, BasesSame DEF Same
  <1> SUFFICES /\ StoreOK(t, fi, le, g) /\ s.scope \subseteq t.scope /\ (t.mark = s.mark \/ t.mark = p.rev)
               /\ IF q.pc = "write" THEN WritingOK(t, q, g) ELSE AtRest(t, q)
    <2>1. LeaseOK(t, q, fi, le, g)
      BY <1>1, <1>2, LeaseCarried
    <2> QED  BY <2>1 DEF GitOK
  <1>4. CASE p.next = "spill" /\ p.cand = {} /\ Rebasing(s, p, PlanBase(p))
    <2> DEFINE base == PlanBase(p)
    <2>1. base \in Checkpoint /\ base.stage = "CommitPlan" /\ base.cand = {} /\ base # None
      BY <1>1, Bases
    <2> HIDE DEF base
    <2>2. Rebasing(s, p, base)
      BY <1>4 DEF base
    <2>3. /\ StoreOK(t, fi, le, g) /\ t.scope = s.scope /\ t.mark = s.mark /\ t.prefix = None
          /\ \/ q.pc = "write" /\ Rebasing(t, q, base)
             \/ q.pc = p.next /\ t.base = base
      <3>1. BaseFits(s, base)
        BY <2>1 DEF BaseFits
      <3> QED  BY <1>1, <2>2, <3>1, RebaseWrite
    <2>4. Rebasing(t, q, base) => Rebasing(t, q, PlanBase(q))
      BY <1>3 DEF base
    <2> QED  BY <1>2, <1>3, <1>4, <2>1, <2>3, <2>4 DEF WritingOK, AtRest, OnPlan
  <1>5. CASE p.next = "packs" /\ s.prefix = None /\ Rebasing(s, p, SpillBase(p))
    <2> DEFINE base == SpillBase(p)
    <2>1. base \in Checkpoint /\ base.stage = "SpillDedup" /\ base.cand = p.cand /\ base.plan = p.plan /\ base # None
      BY <1>1, Bases
    <2>2. p.plan \subseteq p.cand \cup s.scope
      BY <1>1, <1>5 DEF LeaseOK
    <2> HIDE DEF base
    <2>3. Rebasing(s, p, base)
      BY <1>5 DEF base
    <2>4. base.plan \subseteq base.cand \cup s.scope
      BY <2>1, <2>2
    <2>5. /\ StoreOK(t, fi, le, g) /\ t.scope = s.scope /\ t.mark = s.mark /\ t.prefix = None
          /\ \/ q.pc = "write" /\ Rebasing(t, q, base)
             \/ q.pc = p.next /\ t.base = base
      <3>1. BaseFits(s, base)
        BY <2>1, <2>4 DEF BaseFits
      <3> QED  BY <1>1, <2>3, <3>1, RebaseWrite
    <2>6. Rebasing(t, q, base) => Rebasing(t, q, SpillBase(q))
      BY <1>3 DEF base
    <2> QED  BY <1>2, <1>3, <1>5, <2>1, <2>5, <2>6 DEF WritingOK, AtRest, OnSpill
  <1>6. CASE /\ p.next \in {"packs", "finalize"} /\ OnSpill(s, p)
             /\ \E stage \in {"PackPlanComplete", "PreFinalize"} :
                   p.ops = PrefixOps(p, stage) /\ (stage = "PreFinalize" <=> p.next = "finalize")
    <2>1. PICK stage \in {"PackPlanComplete", "PreFinalize"} :
             p.ops = PrefixOps(p, stage) /\ (stage = "PreFinalize" <=> p.next = "finalize")
      BY <1>6
    <2> DEFINE x == [stage |-> stage, count |-> p.count, scanned |-> p.scanned, skipped |-> p.skipped]
    <2>2. p.next = "finalize" => p.cand \subseteq p.scanned \cup p.skipped
      BY <1>1 DEF LeaseOK
    <2>3. PrefixOK(x, p.cand, g)
      BY <1>1, <1>6, <2>1, <2>2, PrefixSaved
    <2>4. Head(p.ops) = Put("prefix", x) /\ Tail(p.ops) = << >>
      BY <2>1, Batches DEF PrefixOps
    <2> HIDE DEF x
    <2>5. s.base # None /\ s.base.stage = "SpillDedup" /\ s.base.cand = p.cand
      BY <1>6 DEF OnSpill
    <2>6. StoreOK(t, fi, le, g) /\ t.base = s.base /\ t.scope = s.scope /\ t.mark = s.mark
      <3>1. t = Applied(s, <<Put("prefix", x)>>)
        BY <2>4 DEF Stored
      <3>2. PrefixOK(x, s.base.cand, g)
        BY <2>3, <2>5
      <3> QED  BY <1>1, <2>5, <3>1, <3>2, PrefixPut
    <2>7. q.pc = p.next
      BY <2>4 DEF Popped
    <2> QED  BY <1>2, <1>3, <1>6, <2>5, <2>6, <2>7 DEF AtRest, OnSpill
  <1>7. CASE p.next = "fail" /\ p.scanned \subseteq g.partial /\ CommitsPartial(s, p)
    <2>1. /\ StoreOK(t, fi, le, g) /\ s.scope \subseteq t.scope /\ t.mark = s.mark
          /\ \/ q.pc = "write" /\ CommitsPartial(t, q)
             \/ q.pc = p.next
      BY <1>1, <1>7, PartialWrite
    <2> QED  BY <1>2, <1>3, <1>7, <2>1 DEF WritingOK, AtRest
  <1>8. CASE p.next = "complete" /\ CommitsComplete(s, p, g)
    <2>1. /\ StoreOK(t, fi, le, g) /\ s.scope \subseteq t.scope /\ (t.mark = s.mark \/ t.mark = p.rev)
          /\ \/ q.pc = "write" /\ CommitsComplete(t, q, g)
             \/ q.pc = p.next
      BY <1>1, <1>8, CompleteWrite
    <2> QED  BY <1>2, <1>3, <1>8, <2>1 DEF WritingOK, AtRest
  <1> QED  BY <1>1, <1>4, <1>5, <1>6, <1>7, <1>8 DEF WritingOK

-----------------------------------------------------------------------------
(* Atomic batches                                                          *)

\* A batch of n operations on different keys.
IsBatch(ops, n) ==
    /\ ops \in Seq({ops[i] : i \in DOMAIN ops}) /\ Len(ops) = n
    /\ \A i, j \in 1..n : ops[i].key = ops[j].key => i = j

\* A batch leaves what its operations leave one after the other.
LEMMA AppliedFirst ==
    ASSUME NEW s, NEW ops, NEW n \in Nat \ {0}, IsBatch(ops, n)
    PROVE  Applied(Applied(s, <<Head(ops)>>), Tail(ops)) = Applied(s, ops)
  <1> DEFINE a == Head(ops)
             t == Applied(s, <<a>>)
             rest == Tail(ops)
  <1>1. /\ DOMAIN ops = 1..n /\ a = ops[1] /\ DOMAIN rest = 1..(n - 1)
        /\ \A i \in 1..(n - 1) : rest[i] = ops[i + 1]
    <2> DEFINE S == {ops[i] : i \in DOMAIN ops}
    <2>1. ops \in Seq(S) /\ Len(ops) = n
      BY DEF IsBatch
    <2> HIDE DEF S
    <2>2. ops # << >>
      BY <2>1
    <2> QED  BY <2>1, <2>2
  <1>2. \A i, j \in 1..n : ops[i].key = ops[j].key => i = j
    BY DEF IsBatch
  <1>3. DOMAIN t = DOMAIN s /\ \A k \in DOMAIN s : t[k] = IF a.key = k THEN a.value ELSE s[k]
    BY DEF Applied
  <1> HIDE DEF a, t, rest
  <1>4. ASSUME NEW k \in DOMAIN s PROVE Applied(t, rest)[k] = Applied(s, ops)[k]
    <2>1. CASE \E i \in 1..(n - 1) : rest[i].key = k
      <3>1. PICK i \in 1..(n - 1) : rest[i].key = k
        BY <2>1
      <3>2. i + 1 \in 1..n /\ ops[i + 1].key = k /\ rest[i] = ops[i + 1]
        BY <1>1, <3>1
      <3>3. (CHOOSE j \in 1..n : ops[j].key = k) = i + 1
        BY <1>2, <3>2
      <3>4. \A j \in 1..(n - 1) : rest[j].key = k => j = i
        <4> SUFFICES ASSUME NEW j \in 1..(n - 1), rest[j].key = k PROVE j = i
          OBVIOUS
        <4>1. j + 1 \in 1..n /\ ops[j + 1].key = k
          BY <1>1
        <4>2. j + 1 = i + 1
          BY <1>2, <3>2, <4>1
        <4> QED  BY <4>2
      <3>5. (CHOOSE j \in 1..(n - 1) : rest[j].key = k) = i
        BY <3>1, <3>4
      <3>6. Applied(s, ops)[k] = ops[i + 1].value
        BY <1>1, <3>2, <3>3 DEF Applied
      <3>7. Applied(t, rest)[k] = rest[i].value
        BY <1>1, <1>3, <3>1, <3>5 DEF Applied
      <3> QED  BY <3>2, <3>6, <3>7
    <2>2. CASE ~ \E i \in 1..(n - 1) : rest[i].key = k
      <3>1. Applied(t, rest)[k] = t[k]
        BY <1>1, <1>3, <2>2 DEF Applied
      <3>2. \A i \in 1..n : ops[i].key = k => i = 1
        <4> SUFFICES ASSUME NEW i \in 1..n, ops[i].key = k, i # 1 PROVE FALSE
          OBVIOUS
        <4>1. i - 1 \in 1..(n - 1) /\ (i - 1) + 1 = i
          OBVIOUS
        <4>2. rest[i - 1] = ops[i]
          BY <1>1, <4>1
        <4> QED  BY <2>2, <4>1, <4>2
      <3>3. CASE a.key = k
        <4>1. 1 \in 1..n /\ ops[1].key = k
          BY <1>1, <3>3
        <4>2. (CHOOSE j \in 1..n : ops[j].key = k) = 1
          BY <3>2, <4>1
        <4>3. Applied(s, ops)[k] = ops[1].value
          BY <1>1, <4>1, <4>2 DEF Applied
        <4> QED  BY <1>1, <1>3, <3>1, <3>3, <4>3
      <3>4. CASE a.key # k
        <4>1. ~ \E i \in 1..n : ops[i].key = k
          BY <1>1, <3>2, <3>4
        <4>2. Applied(s, ops)[k] = s[k]
          BY <1>1, <4>1 DEF Applied
        <4> QED  BY <1>3, <3>1, <3>4, <4>2
      <3> QED  BY <3>3, <3>4
    <2> QED  BY <2>1, <2>2
  <1>5. Applied(t, rest) = Applied(s, ops)
    BY <1>3, <1>4 DEF Applied
  <1> QED  BY <1>5 DEF a, t, rest

\* The batches of a process are such.
LEMMA BatchShape ==
    ASSUME NEW s, NEW p, NEW g, WritingOK(s, p, g)
    PROVE  \E n \in 1..5 : IsBatch(p.ops, n)
  <1>1. ASSUME NEW a PROVE IsBatch(<<a>>, 1)
    BY DEF IsBatch
  <1>2. ASSUME NEW a, NEW b, a.key # b.key PROVE IsBatch(<<a, b>>, 2)
    BY <1>2 DEF IsBatch
  <1>3. ASSUME NEW a, NEW b, NEW c, a.key # b.key, a.key # c.key, b.key # c.key PROVE IsBatch(<<a, b, c>>, 3)
    BY <1>3 DEF IsBatch
  <1>4. ASSUME NEW a, NEW b, NEW c, NEW d, a.key # b.key, a.key # c.key, a.key # d.key,
               b.key # c.key, b.key # d.key, c.key # d.key
        PROVE  IsBatch(<<a, b, c, d>>, 4)
    BY <1>4 DEF IsBatch
  <1>5. ASSUME NEW a, NEW b, NEW c, NEW d, NEW e, a.key # b.key, a.key # c.key, a.key # d.key, a.key # e.key,
               b.key # c.key, b.key # d.key, b.key # e.key, c.key # d.key, c.key # e.key, d.key # e.key
        PROVE  IsBatch(<<a, b, c, d, e>>, 5)
    BY <1>5 DEF IsBatch
  <1>6. \A v : /\ Put("base", v).key = "base" /\ Put("prefix", v).key = "prefix"
               /\ Put("scope", v).key = "scope" /\ Put("mark", v).key = "mark"
    BY DEF Put
  <1>7. Delete("base").key = "base" /\ Delete("prefix").key = "prefix" /\ Delete("staging").key = "staging"
    BY DEF Put, Delete
  <1>8. ASSUME NEW base, Rebasing(s, p, base) PROVE \E n \in 1..5 : IsBatch(p.ops, n)
    BY <1>1, <1>2, <1>6, <1>7, <1>8 DEF Rebasing
  <1>9. ASSUME NEW stage, p.ops = PrefixOps(p, stage) PROVE \E n \in 1..5 : IsBatch(p.ops, n)
    BY <1>1, <1>9 DEF PrefixOps
  <1>10. ASSUME CommitsPartial(s, p) PROVE \E n \in 1..5 : IsBatch(p.ops, n)
    BY <1>1, <1>2, <1>6, <1>7, <1>10 DEF CommitsPartial
  <1>11. ASSUME CommitsComplete(s, p, g) PROVE \E n \in 1..5 : IsBatch(p.ops, n)
    <2> DEFINE sc == Put("scope", s.scope \cup p.scanned \cup s.staging)
               ds == Delete("staging")
               mk == Put("mark", p.rev)
               dp == Delete("prefix")
               db == Delete("base")
    <2>1. sc.key = "scope" /\ ds.key = "staging" /\ mk.key = "mark" /\ dp.key = "prefix" /\ db.key = "base"
      BY <1>6, <1>7
    <2>2. \/ p.ops = <<sc, ds, mk, dp, db>> \/ p.ops = <<ds, mk, dp, db>> \/ p.ops = <<mk, dp, db>>
          \/ p.ops = <<dp, db>> \/ p.ops = <<db>>
      BY <1>11 DEF CommitsComplete
    <2> HIDE DEF sc, ds, mk, dp, db
    <2>3. IsBatch(<<sc, ds, mk, dp, db>>, 5)
      BY <1>5, <2>1
    <2>4. IsBatch(<<ds, mk, dp, db>>, 4)
      BY <1>4, <2>1
    <2>5. IsBatch(<<mk, dp, db>>, 3)
      BY <1>3, <2>1
    <2>6. IsBatch(<<dp, db>>, 2) /\ IsBatch(<<db>>, 1)
      BY <1>1, <1>2, <2>1
    <2> QED  BY <2>2, <2>3, <2>4, <2>5, <2>6
  <1> QED  BY <1>8, <1>9, <1>10, <1>11 DEF WritingOK

\* A process that has n operations left may have them written at once.
AllWritten(n) ==
    \A s, p, fi, le, g, t, q :
        GitOK(s, p, fi, le, g) /\ p.pc = "write" /\ IsBatch(p.ops, n) /\ t = Applied(s, p.ops) /\ Ended(p, q)
            => GitOK(t, q, fi, le, g)

\* What is left of a batch is one.
LEMMA BatchTail ==
    ASSUME NEW ops, NEW n \in Nat \ {0}, IsBatch(ops, n)
    PROVE  IsBatch(Tail(ops), n - 1) /\ (Tail(ops) = << >> <=> n = 1)
  <1> DEFINE S == {ops[i] : i \in DOMAIN ops}
             r == Tail(ops)
  <1>1. ops \in Seq(S) /\ Len(ops) = n /\ \A i, j \in 1..n : ops[i].key = ops[j].key => i = j
    BY DEF IsBatch
  <1> HIDE DEF S
  <1>2. r \in Seq(S) /\ Len(r) = n - 1 /\ \A i \in 1..(n - 1) : r[i] = ops[i + 1]
    BY <1>1
  <1> HIDE DEF r
  <1>3. r = << >> <=> n = 1
    <2>1. r = << >> <=> Len(r) = 0
      BY <1>2, EmptySeq
    <2> QED  BY <1>2, <2>1
  <1>4. \A i, j \in 1..(n - 1) : r[i].key = r[j].key => i = j
    <2> SUFFICES ASSUME NEW i \in 1..(n - 1), NEW j \in 1..(n - 1), r[i].key = r[j].key PROVE i = j
      OBVIOUS
    <2>1. i + 1 \in 1..n /\ j + 1 \in 1..n /\ ops[i + 1].key = ops[j + 1].key
      BY <1>2
    <2>2. i + 1 = j + 1
      BY <1>1, <2>1
    <2> QED  BY <2>2
  <1>5. r \in Seq({r[i] : i \in DOMAIN r})
    BY <1>2
  <1> QED  BY <1>2, <1>3, <1>4, <1>5 DEF IsBatch, r

\* The process between two operations.
LEMMA PoppedExists ==
    ASSUME NEW p, IsProc(p)
    PROVE  \E q : Popped(p, q)
  <1> DEFINE pc == IF Tail(p.ops) = << >> THEN p.next ELSE "write"
             ops == Tail(p.ops)
             q == [p EXCEPT !.pc = pc, !.ops = ops]
  <1>1. pc = IF Tail(p.ops) = << >> THEN p.next ELSE "write"
    OBVIOUS
  <1>2. ops = Tail(p.ops)
    OBVIOUS
  <1> HIDE DEF pc, ops
  <1>3. q = [p EXCEPT !.pc = pc, !.ops = ops]
    OBVIOUS
  <1> HIDE DEF q
  <1>4. Same(p, q) /\ q.next = p.next /\ q.ops = ops /\ q.pc = pc
    BY <1>3 DEF IsProc, Same
  <1> QED  BY <1>1, <1>2, <1>4 DEF Popped

\* The first operation, and then the others.
LEMMA OneMore ==
    ASSUME GitAssumption, NEW n \in Nat \ {0}, n = 1 \/ AllWritten(n - 1)
    PROVE  AllWritten(n)
  <1> SUFFICES ASSUME NEW s, NEW p, NEW fi, NEW le, NEW g, NEW t, NEW q, GitOK(s, p, fi, le, g), p.pc = "write",
                      IsBatch(p.ops, n), t = Applied(s, p.ops), Ended(p, q)
               PROVE  GitOK(t, q, fi, le, g)
    BY DEF AllWritten
  <1> DEFINE u == Applied(s, <<Head(p.ops)>>)
             rest == Tail(p.ops)
  <1>1. t = Applied(u, rest) /\ IsBatch(rest, n - 1) /\ (rest = << >> <=> n = 1)
    BY AppliedFirst, BatchTail
  <1>2. LeaseOK(s, p, fi, le, g)
    BY WhileWriting
  <1>3. CASE n = 1
    <2>1. Popped(p, q)
      BY <1>1, <1>3 DEF Popped, Ended
    <2>2. GitOK(u, q, fi, le, g)
      BY <2>1, OneWrite DEF Stored
    <2>3. u = [k \in DOMAIN u |-> u[k]]
      BY DEF Applied
    <2> HIDE DEF u
    <2>4. Applied(u, << >>) = u
      BY <2>3 DEF Applied
    <2> QED  BY <1>1, <1>3, <2>2, <2>4
  <1>4. CASE n # 1
    <2>1. PICK r : Popped(p, r)
      BY <1>2, PoppedExists DEF LeaseOK
    <2>2. GitOK(u, r, fi, le, g)
      BY <2>1, OneWrite DEF Stored
    <2>3. r.pc = "write" /\ r.ops = rest /\ Ended(r, q)
      BY <1>1, <1>4, <2>1 DEF Popped, Ended, Same
    <2> HIDE DEF u, rest
    <2> QED  BY <1>1, <1>4, <2>2, <2>3 DEF AllWritten
  <1> QED  BY <1>3, <1>4

\* An atomic batch keeps the invariant.
LEMMA BatchWrite ==
    ASSUME GitAssumption, NEW s, NEW p, NEW fi, NEW le, NEW g, GitOK(s, p, fi, le, g), p.pc = "write",
           NEW t, t = Applied(s, p.ops), NEW q, Ended(p, q)
    PROVE  GitOK(t, q, fi, le, g)
  <1>1. AllWritten(1)
    BY OneMore
  <1>2. AllWritten(2)
    BY <1>1, OneMore
  <1>3. AllWritten(3)
    BY <1>2, OneMore
  <1>4. AllWritten(4)
    BY <1>3, OneMore
  <1>5. AllWritten(5)
    BY <1>4, OneMore
  <1>6. PICK n \in 1..5 : IsBatch(p.ops, n)
    BY WhileWriting, BatchShape
  <1>7. AllWritten(n)
    BY <1>1, <1>2, <1>3, <1>4, <1>5
  <1> QED  BY <1>6, <1>7 DEF AllWritten

\* What is written keeps the invariant.
LEMMA WriteKeeps ==
    ASSUME GitAssumption, GitInv, Write
    PROVE  GitInv'
  <1>1. /\ GitOK(store, proc, findings, ledger, ghost) /\ proc.pc = "write"
        /\ UNCHANGED <<rev, findings, ledger, ghost>>
    BY DEF GitInv, Write
  <1>2. IsProc(proc)
    BY <1>1, WhileWriting DEF LeaseOK
  <1>3. CASE Atomic
    <2>1. store' = Applied(store, proc.ops) /\ proc' = [proc EXCEPT !.pc = proc.next, !.ops = << >>]
      BY <1>3 DEF Write
    <2>2. Ended(proc, proc')
      BY <1>2, <2>1 DEF Ended, Same, IsProc
    <2>3. GitOK(store', proc', findings, ledger, ghost)
      BY <1>1, <2>1, <2>2, BatchWrite
    <2> QED  BY <1>1, <2>3 DEF GitInv
  <1>4. CASE ~Atomic
    <2> DEFINE pc == IF Tail(proc.ops) = << >> THEN proc.next ELSE "write"
               ops == Tail(proc.ops)
    <2>1. store' = Applied(store, <<Head(proc.ops)>>) /\ proc' = [proc EXCEPT !.pc = pc, !.ops = ops]
      BY <1>1, <1>4 DEF Write
    <2>2. pc = IF Tail(proc.ops) = << >> THEN proc.next ELSE "write"
      OBVIOUS
    <2>3. ops = Tail(proc.ops)
      OBVIOUS
    <2> HIDE DEF pc, ops
    <2>4. Same(proc, proc') /\ proc'.next = proc.next /\ proc'.ops = ops /\ proc'.pc = pc
      BY <1>2, <2>1 DEF Same, IsProc
    <2>5. Popped(proc, proc')
      BY <2>2, <2>3, <2>4 DEF Popped
    <2>6. GitOK(store', proc', findings, ledger, ghost)
      <3>1. Stored(store, proc, store')
        BY <2>1 DEF Stored
      <3> QED  BY <1>1, <2>5, <3>1, OneWrite
    <2> QED  BY <1>1, <2>6 DEF GitInv
  <1> QED  BY <1>3, <1>4

-----------------------------------------------------------------------------
(* The steps of a lease                                                    *)

\* What the invariant says of a process that is not writing.
LEMMA AtWork ==
    ASSUME GitInv, proc.pc \notin {"idle", "write"}
    PROVE  /\ StoreOK(store, findings, ledger, ghost) /\ LeaseOK(store, proc, findings, ledger, ghost)
           /\ AtRest(store, proc) /\ Stage(proc) = proc.pc /\ IsProc(proc) /\ rev \in Revision
  <1>1. proc # Idle
    BY DEF Idle
  <1> QED  BY <1>1 DEF GitInv, GitOK, Stage, LeaseOK

\* A process that is writing has what it had, and goes to another stage.
LEMMA WritingFields ==
    ASSUME NEW p, IsProc(p), NEW ops, NEW next, NEW q, q = Writing(p, ops, next)
    PROVE  Same(p, q) /\ q.pc = "write" /\ q.ops = ops /\ q.next = next /\ Stage(q) = next
  BY DEF Writing, Same, IsProc, Stage

\* The lease is over.
LEMMA IdleKeeps ==
    ASSUME GitInv, proc' = Idle, UNCHANGED <<rev, store, findings, ledger, ghost>>
    PROVE  GitInv'
  BY DEF GitInv, GitOK

\* The least of the blobs to spill is one of them.
LEMMA MinIn ==
    ASSUME NEW S, S \subseteq Nat, S # {}
    PROVE  Min(S) \in S
  <1> DEFINE R == OpToRel(<, Nat)
  <1>1. IsWellFoundedOn(R, Nat)
    BY NatLessThanWellFounded
  <1>2. \A x, y \in Nat : <<x, y>> \in R <=> x < y
    BY DEF OpToRel
  <1> HIDE DEF R
  <1>3. PICK x \in S : \A y \in S : <<y, x>> \notin R
    BY <1>1, WFMin
  <1>4. \A y \in S : ~(y < x)
    BY <1>2, <1>3, Zenon
  <1>5. \A y \in S : x <= y
    BY <1>4
  <1> QED  BY <1>5 DEF Min

\* A blob is checked against the scope and staged.
LEMMA SpillKeeps ==
    ASSUME GitAssumption, GitInv, Spill
    PROVE  GitInv'
  <1> DEFINE b == Min(proc.todo)
             unseen == {b} \ store.scope
             todo == proc.todo \ {b}
             cand == proc.cand \cup unseen
             staging == store.staging \cup unseen
  <1>1. /\ proc.pc = "spill" /\ proc.todo # {}
        /\ proc' = [proc EXCEPT !.todo = todo, !.cand = cand] /\ store' = [store EXCEPT !.staging = staging]
        /\ UNCHANGED <<rev, findings, ledger, ghost>>
    BY DEF Spill
  <1>2. /\ StoreOK(store, findings, ledger, ghost) /\ LeaseOK(store, proc, findings, ledger, ghost)
        /\ AtRest(store, proc) /\ Stage(proc) = proc.pc /\ IsProc(proc) /\ rev \in Revision
    BY <1>1, AtWork
  <1>3. proc.todo \subseteq Blob /\ Blob \subseteq Nat
    BY <1>2, BlobsAreNumbers DEF LeaseOK
  <1>4. b \in proc.todo
    BY <1>1, <1>3, MinIn
  <1>5. /\ todo \subseteq Blob /\ cand \subseteq Blob /\ staging \subseteq Blob
        /\ \A x \in proc.todo : x \in todo \/ x \in cand \/ x \in store.scope
        /\ proc.cand \subseteq cand
    BY <1>2, <1>3, <1>4 DEF LeaseOK, StoreOK
  <1> HIDE DEF b, unseen, todo, cand, staging
  <1>6. /\ IsStore(store') /\ store'.base = store.base /\ store'.prefix = store.prefix /\ store'.scope = store.scope
        /\ store'.staging = staging /\ store'.mark = store.mark
    BY <1>1, <1>2 DEF StoreOK, IsStore
  <1>7. StoreOK(store', findings, ledger, ghost)
    BY <1>2, <1>5, <1>6 DEF StoreOK
  <1>8. /\ IsProc(proc') /\ proc'.pc = "spill" /\ proc'.rev = proc.rev /\ proc'.plan = proc.plan
        /\ proc'.todo = todo /\ proc'.cand = cand
        /\ proc'.scanned = proc.scanned /\ proc'.skipped = proc.skipped /\ proc'.captured = proc.captured
        /\ proc'.index = proc.index /\ proc'.count = proc.count
    BY <1>1, <1>2 DEF IsProc
  <1>9. Stage(proc') = "spill" /\ proc.scanned = {} /\ proc.skipped = {} /\ proc.index = 0 /\ proc.count = 0
    BY <1>1, <1>2, <1>8 DEF Stage, LeaseOK
  <1>10. \A bs : Through(cand, 0, bs)
    <2>1. \A x \in cand \ Loose : Rank(cand, x) \in Nat
      BY <1>5, RankBound
    <2> QED  BY <2>1 DEF Through
  <1>11. proc.plan \subseteq todo \cup cand \cup store.scope
    BY <1>1, <1>2, <1>5 DEF LeaseOK
  <1>12. LeaseOK(store', proc', findings, ledger, ghost)
    BY <1>1, <1>2, <1>5, <1>6, <1>8, <1>9, <1>10, <1>11 DEF LeaseOK, Delivering
  <1>13. AtRest(store', proc')
    BY <1>1, <1>2, <1>6, <1>8 DEF AtRest, OnPlan
  <1> QED  BY <1>1, <1>2, <1>7, <1>8, <1>12, <1>13 DEF GitInv, GitOK

\* All blobs are spilled: the base is replaced by the one with the candidates.
LEMMA SpillDoneKeeps ==
    ASSUME GitAssumption, GitInv, SpillDone
    PROVE  GitInv'
  <1>1. /\ proc.pc = "spill" /\ proc.todo = {} /\ proc' = Writing(proc, StageOps(SpillBase(proc)), "packs")
        /\ UNCHANGED <<rev, store, findings, ledger, ghost>>
    BY DEF SpillDone
  <1>2. /\ StoreOK(store, findings, ledger, ghost) /\ LeaseOK(store, proc, findings, ledger, ghost)
        /\ AtRest(store, proc) /\ Stage(proc) = proc.pc /\ IsProc(proc) /\ rev \in Revision
    BY <1>1, AtWork
  <1>3. /\ Same(proc, proc') /\ proc'.pc = "write" /\ proc'.ops = StageOps(SpillBase(proc))
        /\ proc'.next = "packs" /\ Stage(proc') = "packs"
    BY <1>1, <1>2, WritingFields
  <1>4. LeaseOK(store, proc', findings, ledger, ghost)
    BY <1>1, <1>2, <1>3 DEF LeaseOK, Same, Delivering
  <1>5. store.prefix = None
    BY <1>1, <1>2 DEF AtRest, OnPlan
  <1>6. Rebasing(store, proc', SpillBase(proc'))
    BY <1>3, BasesSame DEF Rebasing, StageOps
  <1>7. WritingOK(store, proc', ghost)
    BY <1>3, <1>5, <1>6 DEF WritingOK
  <1> QED  BY <1>1, <1>2, <1>3, <1>4, <1>7 DEF GitInv, GitOK

\* What the witness of a scan of bs says.
LEMMA WitnessFields ==
    ASSUME NEW bs, IsGhost(ghost), NEW g, g = Witnessed(bs)
    PROVE  /\ IsGhost(g) /\ g.scanned = ghost.scanned \cup (bs \ Corrupt)
           /\ g.restored = ghost.restored \ (bs \ store.scope) /\ g.partial = ghost.partial \ (bs \ store.scope)
           /\ g.abandoned = ghost.abandoned /\ g.moved = ghost.moved
  <1> DEFINE a == ghost.scanned \cup (bs \ Corrupt)
             b == ghost.restored \ (bs \ store.scope)
             c == ghost.partial \ (bs \ store.scope)
  <1>1. g = [ghost EXCEPT !.scanned = a, !.restored = b, !.partial = c]
    BY DEF Witnessed
  <1> HIDE DEF a, b, c
  <1>2. /\ IsGhost(g) /\ g.scanned = a /\ g.restored = b /\ g.partial = c
        /\ g.abandoned = ghost.abandoned /\ g.moved = ghost.moved
    BY <1>1 DEF IsGhost
  <1> QED  BY <1>2 DEF a, b, c

\* It keeps the store sound: of what the scope holds nothing is forgotten.
LEMMA WitnessKeeps ==
    ASSUME NEW bs, StoreOK(store, findings, ledger, ghost), NEW g, g = Witnessed(bs)
    PROVE  StoreOK(store, findings, ledger, g)
  <1>1. /\ IsGhost(g) /\ g.scanned = ghost.scanned \cup (bs \ Corrupt)
        /\ g.restored = ghost.restored \ (bs \ store.scope) /\ g.partial = ghost.partial \ (bs \ store.scope)
        /\ g.abandoned = ghost.abandoned /\ g.moved = ghost.moved
    BY WitnessFields DEF StoreOK
  <1>2. \A x, cand : PrefixOK(x, cand, ghost) => PrefixOK(x, cand, g)
    BY <1>1 DEF PrefixOK
  <1>3. store.scope \subseteq g.scanned \cup g.abandoned
    BY <1>1 DEF StoreOK
  <1>4. store.scope \cap Secret \subseteq findings \cup g.restored \cup g.partial \cup g.abandoned
    BY <1>1 DEF StoreOK
  <1>5. store.mark # None => History[store.mark] \subseteq store.scope \cup g.moved /\ store.mark \in ledger
    BY <1>1 DEF StoreOK
  <1> QED  BY <1>1, <1>2, <1>3, <1>4, <1>5 DEF StoreOK

\* A process that has scanned the blobs bs of its candidates.
HasScanned(p, bs, q) ==
    /\ IsProc(q) /\ q.rev = p.rev /\ q.plan = p.plan /\ q.todo = p.todo /\ q.cand = p.cand
    /\ q.scanned = p.scanned \cup (bs \ Corrupt) /\ q.skipped = p.skipped \cup (bs \cap Corrupt)
    /\ q.captured = p.captured \cup ((bs \ Corrupt) \cap Secret)

\* What scanning blobs makes of a process.
LEMMA ScannedFields ==
    ASSUME NEW p, IsProc(p), NEW bs, NEW q, q = Scanned(p, bs)
    PROVE  /\ HasScanned(p, bs, q) /\ q.index = p.index /\ q.count = p.count /\ q.saved = p.saved
           /\ q.pc = p.pc
  <1> DEFINE a == p.scanned \cup (bs \ Corrupt)
             b == p.skipped \cup (bs \cap Corrupt)
             c == p.captured \cup ((bs \ Corrupt) \cap Secret)
  <1>1. q = [p EXCEPT !.scanned = a, !.skipped = b, !.captured = c]
    BY DEF Scanned
  <1> HIDE DEF a, b, c
  <1>2. /\ IsProc(q) /\ q.rev = p.rev /\ q.plan = p.plan /\ q.todo = p.todo /\ q.cand = p.cand
        /\ q.scanned = a /\ q.skipped = b /\ q.captured = c
        /\ q.index = p.index /\ q.count = p.count /\ q.saved = p.saved /\ q.pc = p.pc
    BY <1>1 DEF IsProc
  <1> QED  BY <1>2 DEF HasScanned, a, b, c

\* Its account is true, if its counts are.
LEMMA ScanKeeps ==
    ASSUME GitAssumption, NEW bs, LeaseOK(store, proc, findings, ledger, ghost), IsGhost(ghost), proc.pc = "packs",
           bs \subseteq proc.cand, NEW q, HasScanned(proc, bs, q), Stage(q) \in {"packs", "finalize"},
           q.index \in Nat, q.count \in Nat, q.count <= q.index,
           Through(q.cand, q.index, q.scanned \cup q.skipped), Through(q.cand, q.count, q.scanned),
           Stage(q) = "finalize" => q.cand \subseteq q.scanned \cup q.skipped,
           NEW g, g = Witnessed(bs)
    PROVE  LeaseOK(store, q, findings, ledger, g)
  <1>1. /\ g.scanned = ghost.scanned \cup (bs \ Corrupt) /\ g.moved = ghost.moved
        /\ g.restored = ghost.restored \ (bs \ store.scope)
    BY WitnessFields
  <1>2. /\ IsProc(q) /\ q.rev = proc.rev /\ q.plan = proc.plan /\ q.todo = proc.todo /\ q.cand = proc.cand
        /\ q.scanned = proc.scanned \cup (bs \ Corrupt) /\ q.skipped = proc.skipped \cup (bs \cap Corrupt)
        /\ q.captured = proc.captured \cup ((bs \ Corrupt) \cap Secret)
    BY DEF HasScanned
  <1>3. Stage(proc) = "packs"
    BY DEF Stage
  <1>4. q.scanned \cup q.skipped \subseteq q.cand /\ q.scanned \cap Corrupt = {} /\ q.scanned \subseteq g.scanned
    BY <1>1, <1>2 DEF LeaseOK
  <1>5. q.scanned \cap Secret \subseteq q.captured \cup g.restored
    BY <1>1, <1>2 DEF LeaseOK
  <1>6. /\ Planned(q.rev, store.mark) \subseteq q.plan \cup g.moved
        /\ q.plan \subseteq q.todo \cup q.cand \cup store.scope /\ q.todo = {}
    BY <1>1, <1>2, <1>3 DEF LeaseOK
  <1>7. q.rev \in Revision /\ q.plan \subseteq Blob /\ q.cand \subseteq Blob /\ q.todo \subseteq Blob
    BY <1>2 DEF LeaseOK
  <1> QED  BY <1>2, <1>4, <1>5, <1>6, <1>7 DEF LeaseOK, Delivering

\* The prefix written after a scan.
LEMMA PrefixOpsSame ==
    ASSUME NEW p, NEW q, Same(p, q), NEW stage
    PROVE  PrefixOps(q, stage) = PrefixOps(p, stage)
  BY DEF Same, PrefixOps

\* One pack plan, and perhaps the prefix it completes.
LEMMA ScanPackKeeps ==
    ASSUME GitAssumption, GitInv, ScanPack
    PROVE  GitInv'
  <1> DEFINE bs == PlanAt(proc, proc.index)
             clean == bs \cap Corrupt = {} /\ proc.index = proc.count
             sc == Scanned(proc, bs)
             n == IF clean THEN 1 ELSE 0
             p == [sc EXCEPT !.index = @ + 1, !.count = @ + n]
             saving == clean /\ p.count - p.saved >= Interval
             z == [p EXCEPT !.saved = p.count]
             w == Writing(z, PrefixOps(p, "PackPlanComplete"), "packs")
  <1>1. /\ proc.pc = "packs" /\ proc' = IF saving THEN w ELSE p
        /\ ghost' = Witnessed(bs) /\ UNCHANGED <<rev, store, findings, ledger>>
    BY DEF ScanPack
  <1>2. /\ StoreOK(store, findings, ledger, ghost) /\ LeaseOK(store, proc, findings, ledger, ghost)
        /\ AtRest(store, proc) /\ Stage(proc) = proc.pc /\ IsProc(proc) /\ rev \in Revision
    BY <1>1, AtWork
  <1>3. bs \subseteq proc.cand
    BY PlanAtIs
  <1>4. /\ HasScanned(proc, bs, sc) /\ sc.index = proc.index /\ sc.count = proc.count /\ sc.pc = "packs"
    BY <1>1, <1>2, ScannedFields
  <1>5. clean => bs \cap Corrupt = {} /\ proc.index = proc.count
    OBVIOUS
  <1>6. n \in Nat /\ ((n = 1 /\ clean) \/ n = 0)
    OBVIOUS
  <1> HIDE DEF sc, n, clean, bs
  <1>7. /\ IsProc(p) /\ p.rev = sc.rev /\ p.plan = sc.plan /\ p.todo = sc.todo /\ p.cand = sc.cand
        /\ p.scanned = sc.scanned /\ p.skipped = sc.skipped /\ p.captured = sc.captured /\ p.pc = sc.pc
        /\ p.index = sc.index + 1 /\ p.count = sc.count + n
    <2>1. IsProc(sc)
      BY <1>4 DEF HasScanned
    <2>2. p = [sc EXCEPT !.index = sc.index + 1, !.count = sc.count + n]
      OBVIOUS
    <2> HIDE DEF p
    <2> QED  BY <2>1, <2>2 DEF IsProc
  <1> HIDE DEF p
  <1>8. /\ HasScanned(proc, bs, p) /\ p.pc = "packs" /\ Stage(p) = "packs"
        /\ p.index = proc.index + 1 /\ p.count = proc.count + n
    BY <1>4, <1>7 DEF HasScanned, Stage
  <1>9. proc.index \in Nat /\ proc.count \in Nat /\ proc.count <= proc.index /\ proc.cand \subseteq Blob
    BY <1>2 DEF LeaseOK
  <1>10. p.index \in Nat /\ p.count \in Nat /\ p.count <= p.index
    BY <1>5, <1>6, <1>8, <1>9
  <1>11. /\ p.cand = proc.cand /\ p.scanned = proc.scanned \cup (bs \ Corrupt)
         /\ p.skipped = proc.skipped \cup (bs \cap Corrupt)
    BY <1>8 DEF HasScanned
  <1>12. Through(proc.cand, proc.index, proc.scanned \cup proc.skipped) /\ Through(proc.cand, proc.count, proc.scanned)
    BY <1>1, <1>2 DEF LeaseOK
  <1>13. Through(p.cand, p.index, p.scanned \cup p.skipped)
    <2> DEFINE as == proc.scanned \cup proc.skipped
               cs == p.scanned \cup p.skipped
    <2>1. as \subseteq cs /\ bs \subseteq cs /\ Through(proc.cand, proc.index, as)
      BY <1>11, <1>12
    <2> HIDE DEF as, cs
    <2>2. Through(proc.cand, proc.index + 1, cs)
      BY <1>9, <2>1, ThroughNext DEF bs
    <2> QED  BY <1>8, <1>11, <2>2 DEF cs
  <1>14. Through(p.cand, p.count, p.scanned)
    <2>1. proc.scanned \subseteq p.scanned /\ (clean => bs \subseteq p.scanned)
      BY <1>5, <1>11
    <2>2. CASE n = 1 /\ clean
      <3>1. PlanAt(proc, proc.count) \subseteq p.scanned
        BY <1>5, <2>1, <2>2 DEF bs
      <3>2. Through(proc.cand, proc.count + 1, p.scanned)
        BY <1>9, <1>12, <2>1, <3>1, ThroughNext
      <3> QED  BY <1>8, <1>11, <2>2, <3>2
    <2>3. CASE n = 0
      <3>1. p.count = proc.count
        BY <1>8, <1>9, <2>3
      <3> QED  BY <1>11, <1>12, <2>1, <3>1 DEF Through
    <2> QED  BY <1>6, <2>2, <2>3
  <1>15. LeaseOK(store, p, findings, ledger, ghost')
    <2>1. IsGhost(ghost)
      BY <1>2 DEF StoreOK
    <2>2. Stage(p) \in {"packs", "finalize"} /\ Stage(p) # "finalize"
      BY <1>8
    <2> QED  BY <1>1, <1>2, <1>3, <1>8, <1>10, <1>13, <1>14, <2>1, <2>2, ScanKeeps
  <1>16. StoreOK(store, findings, ledger, ghost')
    BY <1>1, <1>2, WitnessKeeps
  <1>17. OnSpill(store, p)
    BY <1>1, <1>2, <1>11 DEF AtRest, OnSpill
  <1>18. CASE ~saving
    <2>1. proc' = p /\ AtRest(store, p)
      BY <1>1, <1>8, <1>17, <1>18 DEF AtRest
    <2> QED  BY <1>1, <1>2, <1>8, <1>15, <1>16, <2>1 DEF GitInv, GitOK
  <1>19. CASE saving
    <2>1. Same(p, z)
      BY <1>7 DEF Same, IsProc
    <2>2. /\ Same(z, w) /\ w.pc = "write" /\ w.ops = PrefixOps(p, "PackPlanComplete")
          /\ w.next = "packs" /\ Stage(w) = "packs"
      <3>1. IsProc(z) /\ w = Writing(z, PrefixOps(p, "PackPlanComplete"), "packs")
        BY <2>1 DEF Same
      <3> HIDE DEF z, w
      <3> QED  BY <3>1, WritingFields
    <2>3. proc' = w
      BY <1>1, <1>19
    <2> HIDE DEF z, w, saving
    <2>4. Same(p, w)
      BY <2>1, <2>2 DEF Same
    <2>5. LeaseOK(store, w, findings, ledger, ghost')
      BY <1>8, <1>15, <2>2, <2>4, LeaseCarried
    <2>6. w.ops = PrefixOps(w, "PackPlanComplete") /\ OnSpill(store, w)
      BY <1>17, <2>2, <2>4, PrefixOpsSame DEF OnSpill, Same
    <2>7. WritingOK(store, w, ghost')
      BY <2>2, <2>6 DEF WritingOK
    <2> QED  BY <1>1, <1>2, <1>16, <2>2, <2>3, <2>5, <2>7 DEF GitInv, GitOK
  <1> QED  BY <1>18, <1>19

\* The loose blobs, and the prefix before finalize.
LEMMA ScanLooseKeeps ==
    ASSUME GitAssumption, GitInv, ScanLoose
    PROVE  GitInv'
  <1> DEFINE bs == proc.cand \cap Loose
             p == Scanned(proc, bs)
             w == Writing(p, PrefixOps(p, "PreFinalize"), "finalize")
  <1>1. /\ proc.pc = "packs" /\ proc.index >= Cardinality(proc.cand \ Loose) /\ proc' = w
        /\ ghost' = Witnessed(bs) /\ UNCHANGED <<rev, store, findings, ledger>>
    BY DEF ScanLoose
  <1>2. /\ StoreOK(store, findings, ledger, ghost) /\ LeaseOK(store, proc, findings, ledger, ghost)
        /\ AtRest(store, proc) /\ Stage(proc) = proc.pc /\ IsProc(proc) /\ rev \in Revision
    BY <1>1, AtWork
  <1>3. bs \subseteq proc.cand /\ proc.cand \cap Loose \subseteq bs
    OBVIOUS
  <1>4. HasScanned(proc, bs, p) /\ p.index = proc.index /\ p.count = proc.count
    BY <1>2, ScannedFields
  <1> HIDE DEF p, bs
  <1>5. IsProc(p)
    BY <1>4 DEF HasScanned
  <1>6. /\ Same(p, w) /\ w.pc = "write" /\ w.ops = PrefixOps(p, "PreFinalize")
        /\ w.next = "finalize" /\ Stage(w) = "finalize"
    BY <1>5, WritingFields
  <1> HIDE DEF w
  <1>7. HasScanned(proc, bs, w) /\ w.index = proc.index /\ w.count = proc.count
    BY <1>4, <1>6 DEF HasScanned, Same
  <1>8. proc.index \in Nat /\ proc.count \in Nat /\ proc.count <= proc.index /\ proc.cand \subseteq Blob
    BY <1>2 DEF LeaseOK
  <1>9. Through(proc.cand, proc.index, proc.scanned \cup proc.skipped) /\ Through(proc.cand, proc.count, proc.scanned)
    BY <1>1, <1>2 DEF LeaseOK
  <1>10. /\ w.cand = proc.cand /\ w.scanned = proc.scanned \cup (bs \ Corrupt)
         /\ w.skipped = proc.skipped \cup (bs \cap Corrupt)
    BY <1>7 DEF HasScanned
  <1> DEFINE cs == w.scanned \cup w.skipped
  <1>11. Through(w.cand, w.index, cs) /\ Through(w.cand, w.count, w.scanned)
    BY <1>7, <1>9, <1>10 DEF Through
  <1>12. w.cand \subseteq cs
    <2>1. w.cand \subseteq Blob /\ w.index \in Nat /\ w.index >= Cardinality(w.cand \ Loose)
      BY <1>1, <1>7, <1>8, <1>10
    <2>2. w.cand \cap Loose \subseteq cs
      BY <1>3, <1>10
    <2> HIDE DEF cs
    <2> QED  BY <1>11, <2>1, <2>2, ThroughAll
  <1>13. LeaseOK(store, w, findings, ledger, ghost')
    <2>1. IsGhost(ghost)
      BY <1>2 DEF StoreOK
    <2>2. w.index \in Nat /\ w.count \in Nat /\ w.count <= w.index
      BY <1>7, <1>8
    <2> QED  BY <1>1, <1>2, <1>3, <1>6, <1>7, <1>11, <1>12, <2>1, <2>2, ScanKeeps
  <1>14. StoreOK(store, findings, ledger, ghost')
    BY <1>1, <1>2, WitnessKeeps
  <1>15. OnSpill(store, w)
    BY <1>1, <1>2, <1>10 DEF AtRest, OnSpill
  <1>16. w.ops = PrefixOps(w, "PreFinalize")
    BY <1>6, PrefixOpsSame
  <1>17. WritingOK(store, w, ghost')
    BY <1>6, <1>15, <1>16 DEF WritingOK
  <1> QED  BY <1>1, <1>2, <1>6, <1>13, <1>14, <1>17 DEF GitInv, GitOK

\* A ghost that grows keeps everything.
LEMMA GhostGrows ==
    ASSUME NEW s, NEW fi, NEW le, NEW g, StoreOK(s, fi, le, g), NEW h, IsGhost(h), h.scanned = g.scanned,
           \A b \in g.restored : b \in h.restored, \A b \in g.partial : b \in h.partial,
           \A b \in g.abandoned : b \in h.abandoned, \A b \in g.moved : b \in h.moved
    PROVE  StoreOK(s, fi, le, h)
  <1>1. \A x, cand : PrefixOK(x, cand, g) => PrefixOK(x, cand, h)
    BY DEF PrefixOK
  <1>2. s.scope \subseteq h.scanned \cup h.abandoned
    BY DEF StoreOK
  <1>3. s.scope \cap Secret \subseteq fi \cup h.restored \cup h.partial \cup h.abandoned
    BY DEF StoreOK
  <1>4. s.mark # None => History[s.mark] \subseteq s.scope \cup h.moved /\ s.mark \in le
    BY DEF StoreOK
  <1> QED  BY <1>1, <1>2, <1>3, <1>4 DEF StoreOK

\* A partial outcome: its blobs are on record before the scope has them.
LEMMA FinalizePartialKeeps ==
    ASSUME GitAssumption, GitInv, FinalizePartial
    PROVE  GitInv'
  <1> DEFINE pt == ghost.partial \cup proc.scanned
  <1>1. /\ proc.pc = "finalize" /\ proc' = Writing(proc, PartialOps(proc), "fail")
        /\ ghost' = [ghost EXCEPT !.partial = pt] /\ UNCHANGED <<rev, store, findings, ledger>>
    BY DEF FinalizePartial
  <1>2. /\ StoreOK(store, findings, ledger, ghost) /\ LeaseOK(store, proc, findings, ledger, ghost)
        /\ Stage(proc) = proc.pc /\ IsProc(proc) /\ rev \in Revision
    BY <1>1, AtWork
  <1>3. /\ Same(proc, proc') /\ proc'.pc = "write" /\ proc'.ops = PartialOps(proc)
        /\ proc'.next = "fail" /\ Stage(proc') = "fail"
    BY <1>1, <1>2, WritingFields
  <1>4. (\A b \in ghost.partial : b \in pt) /\ (\A b \in proc.scanned : b \in pt)
    OBVIOUS
  <1> HIDE DEF pt
  <1>5. /\ IsGhost(ghost') /\ ghost'.scanned = ghost.scanned /\ ghost'.restored = ghost.restored
        /\ ghost'.partial = pt /\ ghost'.abandoned = ghost.abandoned /\ ghost'.moved = ghost.moved
    BY <1>1, <1>2 DEF StoreOK, IsGhost
  <1>6. StoreOK(store, findings, ledger, ghost')
    BY <1>2, <1>4, <1>5, GhostGrows
  <1>7. LeaseOK(store, proc', findings, ledger, ghost')
    BY <1>2, <1>3, <1>5 DEF LeaseOK, Same, Delivering
  <1>8. CommitsPartial(store, proc') /\ proc'.scanned \subseteq ghost'.partial
    BY <1>3, <1>4, <1>5 DEF CommitsPartial, PartialOps, Same
  <1>9. WritingOK(store, proc', ghost')
    BY <1>3, <1>8 DEF WritingOK
  <1> QED  BY <1>1, <1>2, <1>3, <1>6, <1>7, <1>9 DEF GitInv, GitOK

\* A process that only moves on.
LEMMA MovesFields ==
    ASSUME NEW p, IsProc(p), NEW pc, pc # "write", NEW q, q = [p EXCEPT !.pc = pc]
    PROVE  Same(p, q) /\ q.pc = pc /\ Stage(q) = pc
  BY DEF Same, IsProc, Stage

\* A complete scan is handed over: the account stays, with the next thing done.
LEMMA Hands ==
    ASSUME NEW s, NEW p, NEW q, NEW fi, NEW le, NEW fj, NEW lj, NEW g, LeaseOK(s, p, fi, le, g), Same(p, q),
           Stage(p) \in {"finalize"} \cup Delivering, Stage(q) \in Delivering, p.skipped = {},
           Stage(q) # "findings" => p.captured \subseteq fj,
           Stage(q) \in {"commit", "complete"} => p.rev \in lj
    PROVE  LeaseOK(s, q, fj, lj, g)
  <1>1. /\ IsProc(q) /\ q.rev = p.rev /\ q.plan = p.plan /\ q.todo = p.todo /\ q.cand = p.cand
        /\ q.scanned = p.scanned /\ q.skipped = p.skipped /\ q.captured = p.captured
        /\ q.index = p.index /\ q.count = p.count
    BY DEF Same
  <1>2. Stage(p) # "fail" /\ Stage(p) # "spill" /\ Stage(q) # "fail" /\ Stage(q) # "spill"
    BY DEF Delivering
  <1>3. /\ p.rev \in Revision /\ p.plan \subseteq Blob /\ p.cand \subseteq Blob /\ p.todo \subseteq Blob
        /\ p.index \in Nat /\ p.count \in Nat /\ p.count <= p.index
        /\ p.scanned \cup p.skipped \subseteq p.cand
        /\ p.scanned \cap Corrupt = {} /\ p.scanned \subseteq g.scanned
        /\ p.scanned \cap Secret \subseteq p.captured \cup g.restored
    BY DEF LeaseOK
  <1>4. /\ Planned(p.rev, s.mark) \subseteq p.plan \cup g.moved
        /\ p.plan \subseteq p.todo \cup p.cand \cup s.scope /\ p.todo = {}
        /\ Through(p.cand, p.index, p.scanned \cup p.skipped) /\ Through(p.cand, p.count, p.scanned)
    BY <1>2 DEF LeaseOK
  <1>5. p.cand \subseteq p.scanned \cup p.skipped
    BY DEF LeaseOK
  <1>6. /\ Stage(q) \in {"spill", "packs", "finalize", "fail"} \cup Delivering
        /\ Stage(q) \in {"ledger", "commit", "complete"} => p.captured \subseteq fj
    OBVIOUS
  <1> QED  BY <1>1, <1>2, <1>3, <1>4, <1>5, <1>6 DEF LeaseOK

\* A complete outcome waits for the sinks.
LEMMA FinalizeCompleteKeeps ==
    ASSUME GitAssumption, GitInv, FinalizeComplete
    PROVE  GitInv'
  <1>1. /\ proc.pc = "finalize" /\ proc.skipped = {} /\ proc' = [proc EXCEPT !.pc = "findings"]
        /\ UNCHANGED <<rev, store, findings, ledger, ghost>>
    BY DEF FinalizeComplete
  <1>2. /\ StoreOK(store, findings, ledger, ghost) /\ LeaseOK(store, proc, findings, ledger, ghost)
        /\ AtRest(store, proc) /\ Stage(proc) = proc.pc /\ IsProc(proc) /\ rev \in Revision
    BY <1>1, AtWork
  <1>3. Same(proc, proc') /\ proc'.pc = "findings" /\ Stage(proc') = "findings"
    <2>1. IsProc(proc) /\ proc' = [proc EXCEPT !.pc = "findings"]
      BY <1>1, <1>2
    <2> QED  BY <2>1, MovesFields
  <1>4. LeaseOK(store, proc', findings, ledger, ghost)
    <2>1. Stage(proc) \in {"finalize"} \cup Delivering /\ Stage(proc') \in Delivering
      BY <1>1, <1>2, <1>3 DEF Delivering
    <2>2. proc.skipped = {} /\ (Stage(proc') # "findings" => proc.captured \subseteq findings)
      BY <1>1, <1>2, <1>3 DEF LeaseOK, Delivering
    <2>3. Stage(proc') \in {"commit", "complete"} => proc.rev \in ledger
      BY <1>1, <1>2, <1>3 DEF LeaseOK
    <2> QED  BY <1>2, <1>3, <2>1, <2>2, <2>3, Hands
  <1>5. AtRest(store, proc')
    BY <1>1, <1>2, <1>3 DEF AtRest, OnSpill, Same
  <1> QED  BY <1>1, <1>2, <1>3, <1>4, <1>5 DEF GitInv, GitOK

\* The findings reach the sink.
LEMMA SubmitFindingsKeeps ==
    ASSUME GitAssumption, GitInv, SubmitFindings
    PROVE  GitInv'
  <1>1. /\ proc.pc = "findings" /\ findings' = findings \cup proc.captured /\ proc' = [proc EXCEPT !.pc = "ledger"]
        /\ UNCHANGED <<rev, store, ledger, ghost>>
    BY DEF SubmitFindings
  <1>2. /\ StoreOK(store, findings, ledger, ghost) /\ LeaseOK(store, proc, findings, ledger, ghost)
        /\ AtRest(store, proc) /\ Stage(proc) = proc.pc /\ IsProc(proc) /\ rev \in Revision
    BY <1>1, AtWork
  <1>3. Same(proc, proc') /\ proc'.pc = "ledger" /\ Stage(proc') = "ledger"
    <2>1. IsProc(proc) /\ proc' = [proc EXCEPT !.pc = "ledger"]
      BY <1>1, <1>2
    <2> QED  BY <2>1, MovesFields
  <1>4. LeaseOK(store, proc', findings', ledger, ghost)
    <2>1. Stage(proc) \in {"finalize"} \cup Delivering /\ Stage(proc') \in Delivering
      BY <1>1, <1>2, <1>3 DEF Delivering
    <2>2. proc.skipped = {} /\ (Stage(proc') # "findings" => proc.captured \subseteq findings')
      BY <1>1, <1>2, <1>3 DEF LeaseOK, Delivering
    <2>3. Stage(proc') \in {"commit", "complete"} => proc.rev \in ledger
      BY <1>1, <1>2, <1>3 DEF LeaseOK
    <2> QED  BY <1>2, <1>3, <2>1, <2>2, <2>3, Hands
  <1>5. AtRest(store, proc')
    BY <1>1, <1>2, <1>3 DEF AtRest, OnSpill, Same
  <1>6. StoreOK(store, findings', ledger, ghost)
    BY <1>1, <1>2 DEF StoreOK
  <1> QED  BY <1>1, <1>2, <1>3, <1>4, <1>5, <1>6 DEF GitInv, GitOK

\* The done row is written.
LEMMA SubmitDoneRowKeeps ==
    ASSUME GitAssumption, GitInv, SubmitDoneRow
    PROVE  GitInv'
  <1>1. /\ proc.pc = "ledger" /\ ledger' = ledger \cup {proc.rev} /\ proc' = [proc EXCEPT !.pc = "commit"]
        /\ UNCHANGED <<rev, store, findings, ghost>>
    BY DEF SubmitDoneRow
  <1>2. /\ StoreOK(store, findings, ledger, ghost) /\ LeaseOK(store, proc, findings, ledger, ghost)
        /\ AtRest(store, proc) /\ Stage(proc) = proc.pc /\ IsProc(proc) /\ rev \in Revision
    BY <1>1, AtWork
  <1>3. Same(proc, proc') /\ proc'.pc = "commit" /\ Stage(proc') = "commit"
    <2>1. IsProc(proc) /\ proc' = [proc EXCEPT !.pc = "commit"]
      BY <1>1, <1>2
    <2> QED  BY <2>1, MovesFields
  <1>4. LeaseOK(store, proc', findings, ledger', ghost)
    <2>1. Stage(proc) \in {"finalize"} \cup Delivering /\ Stage(proc') \in Delivering
      BY <1>1, <1>2, <1>3 DEF Delivering
    <2>2. proc.skipped = {} /\ (Stage(proc') # "findings" => proc.captured \subseteq findings)
      BY <1>1, <1>2, <1>3 DEF LeaseOK, Delivering
    <2>3. Stage(proc') \in {"commit", "complete"} => proc.rev \in ledger'
      BY <1>1, <1>2, <1>3 DEF LeaseOK
    <2> QED  BY <1>2, <1>3, <2>1, <2>2, <2>3, Hands
  <1>5. AtRest(store, proc')
    BY <1>1, <1>2, <1>3 DEF AtRest, OnSpill, Same
  <1>6. StoreOK(store, findings, ledger', ghost)
    BY <1>1, <1>2 DEF StoreOK
  <1> QED  BY <1>1, <1>2, <1>3, <1>4, <1>5, <1>6 DEF GitInv, GitOK

\* The deferred finalize, with what staging holds besides the candidates on record.
LEMMA CommitFinalizeKeeps ==
    ASSUME GitAssumption, GitInv, CommitFinalize
    PROVE  GitInv'
  <1> DEFINE ab == ghost.abandoned \cup (store.staging \ proc.cand)
  <1>1. /\ proc.pc = "commit" /\ proc' = Writing(proc, CompleteOps(proc), "complete")
        /\ ghost' = [ghost EXCEPT !.abandoned = ab] /\ UNCHANGED <<rev, store, findings, ledger>>
    BY DEF CommitFinalize
  <1>2. /\ StoreOK(store, findings, ledger, ghost) /\ LeaseOK(store, proc, findings, ledger, ghost)
        /\ Stage(proc) = proc.pc /\ IsProc(proc) /\ rev \in Revision
    BY <1>1, AtWork
  <1>3. /\ Same(proc, proc') /\ proc'.pc = "write" /\ proc'.ops = CompleteOps(proc)
        /\ proc'.next = "complete" /\ Stage(proc') = "complete"
    BY <1>1, <1>2, WritingFields
  <1>4. (\A b \in ghost.abandoned : b \in ab) /\ store.staging \ proc.cand \subseteq ab
    OBVIOUS
  <1> HIDE DEF ab
  <1>5. /\ IsGhost(ghost') /\ ghost'.scanned = ghost.scanned /\ ghost'.restored = ghost.restored
        /\ ghost'.partial = ghost.partial /\ ghost'.abandoned = ab /\ ghost'.moved = ghost.moved
    BY <1>1, <1>2 DEF StoreOK, IsGhost
  <1>6. StoreOK(store, findings, ledger, ghost')
    BY <1>2, <1>4, <1>5, GhostGrows
  <1>7. LeaseOK(store, proc', findings, ledger, ghost')
    BY <1>1, <1>2, <1>3, <1>5 DEF LeaseOK, Same, Delivering
  <1>8. CommitsComplete(store, proc', ghost')
    <2>1. proc'.ops = <<Put("scope", store.scope \cup proc'.scanned \cup store.staging), Delete("staging"),
                        Put("mark", proc'.rev), Delete("prefix"), Delete("base")>>
      BY <1>3 DEF CompleteOps, Same
    <2>2. store.staging \ proc'.cand \subseteq ghost'.abandoned
      BY <1>3, <1>4, <1>5 DEF Same
    <2> QED  BY <2>1, <2>2 DEF CommitsComplete
  <1>9. WritingOK(store, proc', ghost')
    BY <1>3, <1>8 DEF WritingOK
  <1> QED  BY <1>1, <1>2, <1>3, <1>6, <1>7, <1>9 DEF GitInv, GitOK

-----------------------------------------------------------------------------
(* Opening the repository                                                  *)

\* A commit plan is blobs of the history.
LEMMA PlannedBlobs ==
    ASSUME NEW r \in Revision, NEW m
    PROVE  Planned(r, m) \subseteq Blob
  BY DEF Planned, Blob

\* The process of a new lease.
LEMMA FreshFields ==
    ASSUME NEW f, f = Fresh(rev)
    PROVE  /\ IsProc(f) /\ f.pc = "spill" /\ f.rev = rev /\ f.plan = Planned(rev, store.mark) /\ f.todo = {}
           /\ f.cand = {} /\ f.scanned = {} /\ f.skipped = {} /\ f.captured = {}
           /\ f.index = 0 /\ f.count = 0
  BY DEF Fresh, IsProc

\* Nothing is behind at the start.
LEMMA ThroughNone ==
    ASSUME GitAssumption, NEW cand, cand \subseteq Blob, NEW bs
    PROVE  Through(cand, 0, bs)
  <1> SUFFICES ASSUME NEW b \in cand \ Loose, Rank(cand, b) < 0 PROVE b \in bs
    BY DEF Through
  <1>1. Rank(cand, b) \in Nat
    BY RankBound
  <1> QED  BY <1>1

\* The stored checkpoint always loads.
LEMMA NeverRefused ==
    ASSUME GitInv
    PROVE  ~Refused(rev)
  BY DEF GitInv, GitOK, StoreOK, Refused

\* A lease without a checkpoint it can use plans, and stores its plan.
LEMMA OpenStaleKeeps ==
    ASSUME GitAssumption, GitInv, Open, Stale(rev)
    PROVE  GitInv'
  <1> DEFINE f == Fresh(rev)
             p == [f EXCEPT !.todo = f.plan]
             w == Writing(p, StageOps(PlanBase(f)), "spill")
  <1>1. proc' = w /\ UNCHANGED <<rev, store, findings, ledger, ghost>>
    BY NeverRefused DEF Open
  <1>2. StoreOK(store, findings, ledger, ghost) /\ rev \in Revision
    BY DEF GitInv, GitOK
  <1>3. /\ IsProc(f) /\ f.pc = "spill" /\ f.rev = rev /\ f.plan = Planned(rev, store.mark) /\ f.todo = {}
        /\ f.cand = {} /\ f.scanned = {} /\ f.skipped = {} /\ f.captured = {}
        /\ f.index = 0 /\ f.count = 0
    BY FreshFields
  <1> HIDE DEF f
  <1>4. /\ IsProc(p) /\ p.pc = "spill" /\ p.rev = rev /\ p.plan = f.plan /\ p.todo = f.plan
        /\ p.cand = {} /\ p.scanned = {} /\ p.skipped = {} /\ p.captured = {}
        /\ p.index = 0 /\ p.count = 0
    <2>1. p = [f EXCEPT !.todo = f.plan]
      OBVIOUS
    <2> HIDE DEF p
    <2> QED  BY <1>3, <2>1 DEF IsProc
  <1> HIDE DEF p
  <1>5. /\ Same(p, w) /\ w.pc = "write" /\ w.ops = StageOps(PlanBase(f))
        /\ w.next = "spill" /\ Stage(w) = "spill"
    BY <1>4, WritingFields
  <1> HIDE DEF w
  <1>6. /\ IsProc(w) /\ w.rev = rev /\ w.plan = Planned(rev, store.mark) /\ w.todo = w.plan
        /\ w.cand = {} /\ w.scanned = {} /\ w.skipped = {} /\ w.captured = {}
        /\ w.index = 0 /\ w.count = 0
    BY <1>3, <1>4, <1>5 DEF Same
  <1>7. w.plan \subseteq Blob
    BY <1>2, <1>6, PlannedBlobs
  <1>8. Through(w.cand, 0, w.scanned \cup w.skipped) /\ Through(w.cand, 0, w.scanned)
    BY <1>6, ThroughNone
  <1>9. LeaseOK(store, w, findings, ledger, ghost)
    BY <1>2, <1>5, <1>6, <1>7, <1>8 DEF LeaseOK, Delivering
  <1>10. PlanBase(f) = PlanBase(w)
    BY <1>3, <1>6 DEF PlanBase
  <1>11. Rebasing(store, w, PlanBase(w))
    BY <1>5, <1>10 DEF Rebasing, StageOps
  <1>12. WritingOK(store, w, ghost)
    BY <1>5, <1>6, <1>11 DEF WritingOK
  <1> QED  BY <1>1, <1>2, <1>5, <1>9, <1>12 DEF GitInv, GitOK

\* What a process that resumes has, besides what a prefix gives it back.
Restarts(p, base) ==
    /\ IsProc(p) /\ p.rev = rev /\ p.plan = base.plan /\ p.cand = base.cand /\ p.captured = {}

\* The process a checkpoint gives back.
LEMMA ResumedFields ==
    ASSUME GitAssumption, GitInv, ~Stale(rev), NEW q, q = Resumed(rev)
    PROVE  /\ Restarts(q, store.base)
           /\ store.base.stage = "CommitPlan" =>
                /\ q.pc = "spill" /\ q.todo = store.base.plan /\ q.scanned = {} /\ q.skipped = {}
                /\ q.index = 0 /\ q.count = 0
           /\ store.base.stage = "SpillDedup" /\ store.prefix = None =>
                /\ q.pc = "packs" /\ q.todo = {} /\ q.scanned = {} /\ q.skipped = {}
                /\ q.index = 0 /\ q.count = 0
           /\ store.base.stage = "SpillDedup" /\ store.prefix # None =>
                /\ q.pc = IF store.prefix.stage = "PreFinalize" THEN "finalize" ELSE "packs"
                /\ q.todo = {} /\ q.scanned = store.prefix.scanned /\ q.skipped = store.prefix.skipped
                /\ q.index = store.prefix.count /\ q.count = store.prefix.count
  <1> DEFINE f == Fresh(rev)
             b == store.base
             p == [f EXCEPT !.plan = b.plan, !.cand = b.cand, !.resumed = b.stage]
  <1>1. /\ IsProc(f) /\ f.pc = "spill" /\ f.rev = rev /\ f.todo = {}
        /\ f.cand = {} /\ f.scanned = {} /\ f.skipped = {} /\ f.captured = {}
        /\ f.index = 0 /\ f.count = 0
    BY FreshFields
  <1>2. q = IF b.stage = "CommitPlan" THEN [p EXCEPT !.todo = b.plan]
            ELSE IF store.prefix = None THEN [p EXCEPT !.pc = "packs"] ELSE ResumeAt(p)
    BY DEF Resumed
  <1> HIDE DEF f, b
  <1>3. /\ IsProc(p) /\ p.pc = "spill" /\ p.rev = rev /\ p.plan = b.plan /\ p.todo = {}
        /\ p.cand = b.cand /\ p.scanned = {} /\ p.skipped = {} /\ p.captured = {}
        /\ p.index = 0 /\ p.count = 0
    <2>1. p = [f EXCEPT !.plan = b.plan, !.cand = b.cand, !.resumed = b.stage]
      OBVIOUS
    <2> HIDE DEF p
    <2> QED  BY <1>1, <2>1 DEF IsProc
  <1> HIDE DEF p
  <1>4. CASE b.stage = "CommitPlan"
    <2>1. q = [p EXCEPT !.todo = b.plan]
      BY <1>2, <1>4
    <2>2. /\ IsProc(q) /\ q.pc = "spill" /\ q.rev = rev /\ q.plan = b.plan /\ q.todo = b.plan
          /\ q.cand = b.cand /\ q.scanned = {} /\ q.skipped = {} /\ q.captured = {}
          /\ q.index = 0 /\ q.count = 0
      BY <1>3, <2>1 DEF IsProc
    <2> QED  BY <1>4, <2>2 DEF Restarts, b
  <1>5. CASE b.stage # "CommitPlan" /\ store.prefix = None
    <2>1. q = [p EXCEPT !.pc = "packs"]
      BY <1>2, <1>5
    <2>2. /\ IsProc(q) /\ q.pc = "packs" /\ q.rev = rev /\ q.plan = b.plan /\ q.todo = {}
          /\ q.cand = b.cand /\ q.scanned = {} /\ q.skipped = {} /\ q.captured = {}
          /\ q.index = 0 /\ q.count = 0
      BY <1>3, <2>1 DEF IsProc
    <2> QED  BY <1>5, <2>2 DEF Restarts, b
  <1>6. CASE b.stage # "CommitPlan" /\ store.prefix # None
    <2> DEFINE x == store.prefix
               pc == IF x.stage = "PreFinalize" THEN "finalize" ELSE "packs"
    <2>1. q = [p EXCEPT !.pc = pc, !.index = x.count, !.count = x.count, !.saved = x.count,
                        !.scanned = x.scanned, !.skipped = x.skipped, !.resumed = x.stage]
      BY <1>2, <1>6 DEF ResumeAt
    <2> HIDE DEF x, pc
    <2>2. /\ IsProc(q) /\ q.pc = pc /\ q.rev = rev /\ q.plan = b.plan /\ q.todo = {}
          /\ q.cand = b.cand /\ q.scanned = x.scanned /\ q.skipped = x.skipped /\ q.captured = {}
          /\ q.index = x.count /\ q.count = x.count
      BY <1>3, <2>1 DEF IsProc
    <2> QED  BY <1>6, <2>2 DEF Restarts, b, x, pc
  <1> QED  BY <1>4, <1>5, <1>6

\* A lease that continues: its ghost takes what the prefix gives back, and what
\* the plan it resumes leaves out of the revision it is given.
LEMMA OpenResumedKeeps ==
    ASSUME GitAssumption, GitInv, Open, ~Stale(rev)
    PROVE  GitInv'
  <1> DEFINE q == Resumed(rev)
             b == store.base
             x == store.prefix
             re == ghost.restored \cup q.scanned
             mo == ghost.moved \cup (Planned(rev, store.mark) \ q.plan)
  <1>1. /\ proc' = q /\ ghost' = [ghost EXCEPT !.restored = re, !.moved = mo]
        /\ UNCHANGED <<rev, store, findings, ledger>>
    BY NeverRefused DEF Open
  <1>2. StoreOK(store, findings, ledger, ghost) /\ rev \in Revision
    BY DEF GitInv, GitOK
  <1>3. b # None
    BY DEF Stale
  <1>4. /\ b \in Checkpoint /\ (b.stage = "CommitPlan" => b.cand = {})
        /\ (b.stage = "SpillDedup" => b.plan \subseteq b.cand \cup store.scope)
        /\ (x # None => b.stage = "SpillDedup" /\ PrefixOK(x, b.cand, ghost))
        /\ IsGhost(ghost)
    BY <1>2, <1>3 DEF StoreOK
  <1>5. b.stage \in {"CommitPlan", "SpillDedup"} /\ b.plan \subseteq Blob /\ b.cand \subseteq Blob
    BY <1>4 DEF Checkpoint
  <1>6. /\ Restarts(q, b)
        /\ b.stage = "CommitPlan" =>
             /\ q.pc = "spill" /\ q.todo = b.plan /\ q.scanned = {} /\ q.skipped = {}
             /\ q.index = 0 /\ q.count = 0
        /\ b.stage = "SpillDedup" /\ x = None =>
             /\ q.pc = "packs" /\ q.todo = {} /\ q.scanned = {} /\ q.skipped = {}
             /\ q.index = 0 /\ q.count = 0
        /\ b.stage = "SpillDedup" /\ x # None =>
             /\ q.pc = IF x.stage = "PreFinalize" THEN "finalize" ELSE "packs"
             /\ q.todo = {} /\ q.scanned = x.scanned /\ q.skipped = x.skipped
             /\ q.index = x.count /\ q.count = x.count
    BY ResumedFields
  <1> HIDE DEF q
  <1>7. /\ \A c \in ghost.restored : c \in re
        /\ \A c \in q.scanned : c \in re
        /\ \A c \in ghost.moved : c \in mo
        /\ \A c \in Planned(rev, store.mark) : c \in q.plan \/ c \in mo
    OBVIOUS
  <1> HIDE DEF re, mo
  <1>8. /\ IsGhost(ghost') /\ ghost'.scanned = ghost.scanned /\ ghost'.restored = re
        /\ ghost'.partial = ghost.partial /\ ghost'.abandoned = ghost.abandoned /\ ghost'.moved = mo
    BY <1>1, <1>4 DEF IsGhost
  <1>9. StoreOK(store, findings, ledger, ghost')
    BY <1>2, <1>7, <1>8, GhostGrows
  <1> HIDE DEF b, x
  <1>10. IsProc(q) /\ q.rev = rev /\ q.plan = b.plan /\ q.cand = b.cand /\ q.captured = {}
    BY <1>6 DEF Restarts
  <1>11. /\ q.scanned \cap Secret \subseteq q.captured \cup ghost'.restored
         /\ Planned(q.rev, store.mark) \subseteq q.plan \cup ghost'.moved
    BY <1>7, <1>8, <1>10
  <1>12. q.pc \in {"spill", "packs", "finalize"} /\ Stage(q) = q.pc
    BY <1>5, <1>6, <1>4 DEF Stage
  <1>13. /\ q.index \in Nat /\ q.count \in Nat /\ q.count <= q.index
         /\ q.scanned \cup q.skipped \subseteq q.cand
         /\ q.scanned \cap Corrupt = {} /\ q.scanned \subseteq ghost'.scanned
         /\ q.pc = "spill" => q.scanned = {} /\ q.skipped = {} /\ q.index = 0
         /\ q.plan \subseteq q.todo \cup q.cand \cup store.scope
         /\ q.todo \subseteq Blob /\ (q.pc # "spill" => q.todo = {})
         /\ q.pc = "finalize" => q.cand \subseteq q.scanned \cup q.skipped
         /\ Through(q.cand, q.index, q.scanned \cup q.skipped) /\ Through(q.cand, q.count, q.scanned)
    <2>1. CASE b.stage = "CommitPlan"
      BY <1>4, <1>5, <1>6, <1>10, <2>1, ThroughNone
    <2>2. CASE b.stage = "SpillDedup" /\ x = None
      BY <1>4, <1>5, <1>6, <1>10, <2>2, ThroughNone
    <2>3. CASE b.stage = "SpillDedup" /\ x # None
      <3>1. PrefixOK(x, b.cand, ghost)
        BY <1>4, <2>3
      <3>2. /\ q.pc = IF x.stage = "PreFinalize" THEN "finalize" ELSE "packs"
            /\ q.todo = {} /\ q.scanned = x.scanned /\ q.skipped = x.skipped
            /\ q.index = x.count /\ q.count = x.count
        BY <1>6, <2>3
      <3>3. Through(q.cand, q.count, q.scanned)
        BY <1>10, <3>1, <3>2 DEF PrefixOK
      <3>4. Through(q.cand, q.index, q.scanned \cup q.skipped)
        BY <3>2, <3>3 DEF Through
      <3>5. x.count \in Nat
        BY <3>1 DEF PrefixOK
      <3>6. q.index \in Nat /\ q.count \in Nat /\ q.count <= q.index
        BY <3>2, <3>5
      <3>7. /\ q.scanned \cup q.skipped \subseteq q.cand
            /\ q.scanned \cap Corrupt = {} /\ q.scanned \subseteq ghost'.scanned
            /\ q.pc = "finalize" => q.cand \subseteq q.scanned \cup q.skipped
        BY <1>8, <1>10, <3>1, <3>2 DEF PrefixOK
      <3>8. q.plan \subseteq q.todo \cup q.cand \cup store.scope
        BY <1>4, <1>10, <2>3
      <3> QED  BY <3>2, <3>3, <3>4, <3>6, <3>7, <3>8
    <2> QED  BY <1>5, <2>1, <2>2, <2>3
  <1>14. LeaseOK(store, q, findings, ledger, ghost')
    BY <1>2, <1>5, <1>10, <1>11, <1>12, <1>13 DEF LeaseOK, Delivering
  <1>15. AtRest(store, q)
    <2>1. q.pc = "spill" => b.stage = "CommitPlan"
      BY <1>5, <1>6
    <2>2. q.pc # "spill" => b.stage = "SpillDedup"
      BY <1>5, <1>6
    <2> QED  BY <1>3, <1>4, <1>10, <1>12, <2>1, <2>2 DEF AtRest, OnPlan, OnSpill, b, x
  <1> QED  BY <1>1, <1>2, <1>9, <1>12, <1>14, <1>15 DEF GitInv, GitOK

\* A lease is granted.
LEMMA OpenKeeps ==
    ASSUME GitAssumption, GitInv, Open
    PROVE  GitInv'
  BY OpenStaleKeeps, OpenResumedKeeps

\* The repository moves.
LEMMA PushKeeps ==
    ASSUME GitAssumption, GitInv, Push
    PROVE  GitInv'
  <1>1. Revision = 1..Len(History) /\ Len(History) \in Nat
    BY DEF GitAssumption, Revision
  <1>2. rev \in Revision /\ rev' = rev + 1 /\ rev < Len(History)
    BY DEF Push, GitInv
  <1>3. rev' \in Revision
    BY <1>1, <1>2
  <1>4. UNCHANGED <<store, findings, ledger, proc, ghost>>
    BY DEF Push
  <1> QED  BY <1>3, <1>4 DEF GitInv

-----------------------------------------------------------------------------
(* The theorems                                                            *)

\* The invariant holds at the start: no key is there.
LEMMA GitInitially == ASSUME GitAssumption, Init PROVE GitInv
  <1>1. rev \in Revision
    <2>1. Revision = 1..Len(History) /\ Len(History) \in Nat /\ Len(History) # 0
      BY DEF GitAssumption, Revision
    <2> QED  BY <2>1 DEF Init
  <1>2. /\ IsStore(store) /\ store.base = None /\ store.prefix = None /\ store.scope = {}
        /\ store.staging = {} /\ store.mark = None
    BY DEF Init, IsStore
  <1>3. IsGhost(ghost)
    BY DEF Init, IsGhost
  <1>4. proc = Idle
    BY DEF Init
  <1> QED  BY <1>1, <1>2, <1>3, <1>4 DEF GitInv, GitOK, StoreOK

\* Every step keeps the invariant.
LEMMA GitStep == ASSUME GitAssumption, GitInv, [Next]_vars PROVE GitInv'
  <1>1. CASE Open
    BY <1>1, OpenKeeps
  <1>2. CASE Spill
    BY <1>2, SpillKeeps
  <1>3. CASE SpillDone
    BY <1>3, SpillDoneKeeps
  <1>4. CASE ScanPack
    BY <1>4, ScanPackKeeps
  <1>5. CASE ScanLoose
    BY <1>5, ScanLooseKeeps
  <1>6. CASE FinalizePartial
    BY <1>6, FinalizePartialKeeps
  <1>7. CASE FinalizeComplete
    BY <1>7, FinalizeCompleteKeeps
  <1>8. CASE SubmitFindings
    BY <1>8, SubmitFindingsKeeps
  <1>9. CASE SubmitDoneRow
    BY <1>9, SubmitDoneRowKeeps
  <1>10. CASE CommitFinalize
    BY <1>10, CommitFinalizeKeeps
  <1>11. CASE Write
    BY <1>11, WriteKeeps
  <1>12. CASE CompleteShard
    BY <1>12, IdleKeeps DEF CompleteShard
  <1>13. CASE LeaseError
    BY <1>13, IdleKeeps DEF LeaseError
  <1>14. CASE Fail
    BY <1>14, IdleKeeps DEF Fail
  <1>15. CASE Push
    BY <1>15, PushKeeps
  <1>16. CASE NextRun
    BY <1>16 DEF NextRun, GitInv
  <1>17. CASE UNCHANGED vars
    BY <1>17 DEF vars, GitInv
  <1> QED  BY <1>1, <1>2, <1>3, <1>4, <1>5, <1>6, <1>7, <1>8, <1>9, <1>10, <1>11, <1>12, <1>13,
              <1>14, <1>15, <1>16, <1>17 DEF Next, Step

\* The invariant says what the three properties say.
LEMMA GitInvSays == ASSUME GitAssumption, GitInv PROVE StoreSound /\ WatermarkCovered /\ LossesAccounted
  <1>1. StoreOK(store, findings, ledger, ghost)
    BY DEF GitInv, GitOK
  <1>2. CheckpointSound
    <2>1. store.base = None \/ store.base \in Checkpoint
      BY <1>1 DEF StoreOK
    <2>2. ASSUME store.prefix # None
          PROVE  /\ store.base # None /\ store.base.stage = "SpillDedup"
                 /\ store.prefix.scanned \cup store.prefix.skipped \subseteq store.base.cand
      BY <1>1, <2>2 DEF StoreOK, PrefixOK
    <2>3. ASSUME store.prefix # None
          PROVE  UNION {PlanAt(store.base, i) : i \in 0..(store.prefix.count - 1)} \subseteq store.prefix.scanned
      BY <1>1, <2>3, PrefixCounts
    <2>4. store.scope \cup store.staging \subseteq Blob /\ store.mark \in Revision \cup {None}
      BY <1>1 DEF StoreOK
    <2> QED  BY <2>1, <2>2, <2>3, <2>4 DEF CheckpointSound
  <1>3. SeenWasScanned
    BY <1>1 DEF StoreOK, SeenWasScanned
  <1>4. WatermarkCovered
    BY <1>1 DEF StoreOK, WatermarkCovered
  <1>5. LossesAccounted
    BY <1>1 DEF StoreOK, LossesAccounted
  <1> QED  BY <1>2, <1>3, <1>4, <1>5 DEF StoreSound

\* The invariant holds throughout, whatever fails between two writes of the
\* backend (GitPersistenceAdapter, run_git_repo_lease).
THEOREM GitInvariance == Spec => []GitInv
  <1>1. Init => GitInv
    BY GitAssumption, GitInitially
  <1>2. GitInv /\ [Next]_vars => GitInv'
    BY GitAssumption, GitStep
  <1> QED  BY <1>1, <1>2, PTL DEF Spec

\* What a lease finds in the store it can trust, wherever the last one stopped:
\* the checkpoint loads, its prefix counts plans that were scanned, and a blob
\* that is marked seen was scanned (save_checkpoint, load_resume_state).
THEOREM StoreStaysSound == Spec => []StoreSound
  <1>1. GitInv => StoreSound
    BY GitAssumption, GitInvSays
  <1> QED  BY <1>1, GitInvariance, PTL

\* The watermark never runs ahead of the seen scope or of the done row
\* (commit_finalize).
THEOREM WatermarkStaysCovered == Spec => []WatermarkCovered
  <1>1. GitInv => WatermarkCovered
    BY GitAssumption, GitInvSays
  <1> QED  BY <1>1, GitInvariance, PTL

\* A seen blob with a secret has its findings in the sink, or its loss has one of
\* the three causes on record (submit_git_repo_persistence, commit_finalize).
THEOREM LossesStayAccounted == Spec => []LossesAccounted
  <1>1. GitInv => LossesAccounted
    BY GitAssumption, GitInvSays
  <1> QED  BY <1>1, GitInvariance, PTL
=============================================================================
