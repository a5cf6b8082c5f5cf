----------------------------- MODULE StoreProofs -----------------------------
(***************************************************************************)
(* Proofs about what processes keep beside the event ledger: the epochs of  *)
(* working views (ContextEpochs), the surface of an agent (ModelSurface),   *)
(* the commands of a runtime (ProcessManager) and the requests of an agent  *)
(* through compaction and recovery (ContextCompaction).                     *)
(***************************************************************************)
EXTENDS ContextEpochs, ModelSurface, ProcessManager, ContextCompaction,
        FiniteSetTheorems, SequenceTheorems, WellFoundedInduction, TLAPS

-----------------------------------------------------------------------------
(* Epochs of working views.                                                *)

ViewsOf(s) == {e \in epochs : e.scope = s}

\* At most one view of a process is inside its transaction (appendMu).
OneLane ==
  \A p \in ViewProcesses, s, t \in ViewScopes :
    viewing[<<p, s>>].pc = "insert" /\ viewing[<<p, t>>].pc = "insert" => s = t

\* What the view has allocated is the next epoch of its scope, unless another
\* process has committed since: then its write is refused.
AllocatedInv(w) ==
  viewing[w].pc = "insert" =>
    /\ viewing[w].through \in 1 .. viewEvents /\ viewing[w].epoch \in 1 .. MaxEpochs
    /\ ~viewing[w].stale => EpochsOf(w[2]) = 1 .. (viewing[w].epoch - 1)

\* What the view is about to announce is in the table.
InsertedInv(w) ==
  viewing[w].pc = "announce" =>
    /\ viewing[w].through \in 1 .. viewEvents /\ viewing[w].epoch \in 1 .. MaxEpochs
    /\ [scope |-> w[2], epoch |-> viewing[w].epoch, through |-> viewing[w].through]
          \in epochs

EpochInv ==
  /\ ViewTypeOK /\ IsFiniteSet(epochs) /\ OneLane
  /\ \A w \in Viewers : AllocatedInv(w) /\ InsertedInv(w)
  /\ EpochsAreConsecutive /\ AnnouncedViewsAreDurable

LEMMA EpochsOfViews == \A s : EpochsOf(s) = {e.epoch : e \in ViewsOf(s)}
BY DEF EpochsOf, ViewsOf

LEMMA ViewsFinite ==
  ASSUME IsFiniteSet(epochs), NEW s
  PROVE  IsFiniteSet(ViewsOf(s)) /\ Cardinality(ViewsOf(s)) \in Nat
<1>1. ViewsOf(s) \subseteq epochs
  BY DEF ViewsOf
<1> QED BY <1>1, FS_Subset, FS_CardinalityType

\* NextEpoch is one more than the highest epoch of the scope.
LEMMA NextEpochValue ==
  ASSUME NEW s, NEW n \in Nat, EpochsOf(s) = 1 .. n
  PROVE  NextEpoch(s) = n + 1
<1>1. CASE n = 0
  BY <1>1 DEF NextEpoch
<1>2. CASE n > 0
  <2>1. n \in EpochsOf(s) /\ \A m \in EpochsOf(s) : m <= n
    BY <1>2
  <2>2. \A k \in EpochsOf(s) : (\A m \in EpochsOf(s) : m <= k) => k = n
    BY <2>1
  <2> DEFINE highest == CHOOSE k \in EpochsOf(s) : \A m \in EpochsOf(s) : m <= k
  <2>3. highest = n
    BY <2>1, <2>2
  <2>4. NextEpoch(s) = 1 + highest
    BY <2>1, Zenon DEF NextEpoch
  <2> HIDE DEF highest
  <2> QED BY <2>3, <2>4
<1> QED BY <1>1, <1>2

LEMMA ViewInitInv == ASSUME ViewInit PROVE EpochInv
<1>1. epochs = {} /\ announced = {} /\ viewEvents = 1
  BY DEF ViewInit
<1>2. IsFiniteSet(epochs) /\ ViewTypeOK
  BY <1>1, FS_EmptySet, ViewAssumption DEF ViewInit, ViewTypeOK, NotViewing
<1>3. \A w \in Viewers : viewing[w].pc = "idle"
  BY DEF ViewInit, NotViewing
<1>4. EpochsAreConsecutive
  <2> SUFFICES ASSUME NEW s \in ViewScopes
               PROVE  EpochsOf(s) = 1 .. Cardinality({e \in epochs : e.scope = s})
    BY DEF EpochsAreConsecutive
  <2>1. {e \in epochs : e.scope = s} = {} /\ EpochsOf(s) = {}
    BY <1>1 DEF EpochsOf
  <2>2. Cardinality({}) = 0
    BY FS_EmptySet
  <2> QED BY <2>1, <2>2
<1>5. AnnouncedViewsAreDurable
  BY <1>1 DEF AnnouncedViewsAreDurable
<1>6. OneLane
  BY <1>3 DEF OneLane, Viewers
<1> QED BY <1>2, <1>3, <1>4, <1>5, <1>6 DEF EpochInv, AllocatedInv, InsertedInv

\* A step that leaves the tables alone and only moves viewers: each is where it
\* was, fallen stale, or given up.
LEMMA TablesKept ==
  ASSUME EpochInv, ViewTypeOK', UNCHANGED epochs, viewEvents <= viewEvents',
         \A w \in Viewers :
           \/ viewing'[w] = viewing[w] \/ viewing'[w].pc = "idle"
           \/ /\ viewing'[w].pc = viewing[w].pc /\ viewing'[w].stale
              /\ viewing'[w].through = viewing[w].through
              /\ viewing'[w].epoch = viewing[w].epoch,
         AnnouncedViewsAreDurable'
  PROVE  EpochInv'
<1>1. EpochsAreConsecutive' /\ \A s : EpochsOf(s)' = EpochsOf(s)
  BY DEF EpochInv, EpochsAreConsecutive, EpochsOf
<1>2. OneLane'
  BY DEF EpochInv, OneLane, Viewers
<1>3. \A n \in 1 .. viewEvents : n \in 1 .. viewEvents'
  BY DEF EpochInv, ViewTypeOK
<1>4. ASSUME NEW w \in Viewers
      PROVE  AllocatedInv(w)' /\ InsertedInv(w)'
  <2>1. AllocatedInv(w) /\ InsertedInv(w)
    BY DEF EpochInv
  <2>2. CASE viewing'[w] = viewing[w]
    BY <1>1, <1>3, <2>1, <2>2 DEF AllocatedInv, InsertedInv
  <2>3. CASE viewing'[w].pc = "idle"
    BY <2>3 DEF AllocatedInv, InsertedInv
  <2>4. CASE /\ viewing'[w].pc = viewing[w].pc /\ viewing'[w].stale
             /\ viewing'[w].through = viewing[w].through
             /\ viewing'[w].epoch = viewing[w].epoch
    BY <1>3, <2>1, <2>4 DEF AllocatedInv, InsertedInv
  <2> QED BY <2>2, <2>3, <2>4
<1> QED BY <1>1, <1>2, <1>4 DEF EpochInv

\* What a commit of process p does to the other viewers.
LEMMA OvertakenResult ==
  ASSUME ViewTypeOK, NEW u \in Viewers, NEW p
  PROVE  LET o == Overtaken(u, p) IN
         /\ o \in [pc : {"idle", "insert", "announce"}, through : 0 .. MaxViewEvents,
                   epoch : 0 .. MaxEpochs, stale : BOOLEAN]
         /\ o.pc = viewing[u].pc /\ o.through = viewing[u].through
         /\ o.epoch = viewing[u].epoch
         /\ o.stale \/ o = viewing[u]
         /\ u[1] # p /\ viewing[u].pc = "insert" => o.stale
<1>1. viewing[u] \in [pc : {"idle", "insert", "announce"}, through : 0 .. MaxViewEvents,
                      epoch : 0 .. MaxEpochs, stale : BOOLEAN]
  BY DEF ViewTypeOK
<1> QED BY <1>1 DEF Overtaken

LEMMA AppendOtherInv ==
  ASSUME EpochInv, NEW p \in ViewProcesses, AppendOther(p)
  PROVE  EpochInv'
<1>1. /\ ViewTypeOK /\ viewEvents' = viewEvents + 1 /\ viewEvents < MaxViewEvents
      /\ UNCHANGED <<epochs, announced>>
      /\ viewing' = [u \in Viewers |-> Overtaken(u, p)]
  BY DEF EpochInv, AppendOther
<1>2. ViewTypeOK'
  BY <1>1, OvertakenResult, ViewAssumption DEF ViewTypeOK
<1>3. viewEvents <= viewEvents'
  BY <1>1 DEF ViewTypeOK
<1>4. AnnouncedViewsAreDurable'
  BY <1>1 DEF EpochInv, AnnouncedViewsAreDurable
<1> QED BY <1>1, <1>2, <1>3, <1>4, OvertakenResult, TablesKept

LEMMA ViewFailsInv ==
  ASSUME EpochInv, NEW w \in Viewers, ViewFails(w)
  PROVE  EpochInv'
<1>1. /\ ViewTypeOK /\ UNCHANGED <<viewEvents, epochs, announced>>
      /\ viewing' = [viewing EXCEPT ![w] = NotViewing]
  BY DEF EpochInv, ViewFails
<1>2. ViewTypeOK'
  BY <1>1, ViewAssumption DEF ViewTypeOK, NotViewing
<1>3. viewEvents <= viewEvents'
  BY <1>1 DEF ViewTypeOK
<1>4. AnnouncedViewsAreDurable'
  BY <1>1 DEF EpochInv, AnnouncedViewsAreDurable
<1>5. \A u \in Viewers : viewing'[u] = viewing[u] \/ viewing'[u].pc = "idle"
  BY <1>1 DEF ViewTypeOK, NotViewing
<1> QED BY <1>1, <1>2, <1>3, <1>4, <1>5, TablesKept

LEMMA AnnounceEpochInv ==
  ASSUME EpochInv, NEW w \in Viewers, AnnounceEpoch(w)
  PROVE  EpochInv'
<1> DEFINE v == viewing[w]
<1> DEFINE a == [scope |-> w[2], epoch |-> v.epoch, through |-> v.through,
                 sequence |-> viewEvents + 1]
<1>1. /\ ViewTypeOK /\ viewEvents' = viewEvents + 1 /\ viewEvents < MaxViewEvents
      /\ UNCHANGED epochs /\ announced' = announced \union {a} /\ v.pc = "announce"
      /\ viewing' = [u \in Viewers |-> IF u = w THEN NotViewing ELSE Overtaken(u, w[1])]
  BY DEF EpochInv, AnnounceEpoch, ViewCommits
<1>2. /\ v.through \in 1 .. viewEvents /\ v.epoch \in 1 .. MaxEpochs
      /\ [scope |-> w[2], epoch |-> v.epoch, through |-> v.through] \in epochs
      /\ w[2] \in ViewScopes
  BY <1>1 DEF EpochInv, InsertedInv, Viewers
<1>3. viewEvents \in 1 .. MaxViewEvents /\ viewEvents + 1 \in 2 .. MaxViewEvents
  BY <1>1, ViewAssumption DEF ViewTypeOK
<1>4. /\ a \in [scope : ViewScopes, epoch : 1 .. MaxEpochs,
                through : 1 .. MaxViewEvents, sequence : 2 .. MaxViewEvents]
      /\ a.scope = w[2] /\ a.epoch = v.epoch /\ a.through = v.through
      /\ a.sequence = viewEvents + 1 /\ a.through < a.sequence
  BY <1>2, <1>3, ViewAssumption
<1> HIDE DEF a, v
<1>5. ViewTypeOK'
  <2>1. viewEvents' \in 1 .. MaxViewEvents
    BY <1>1, <1>3
  <2>2. viewing' \in [Viewers -> [pc : {"idle", "insert", "announce"},
                              through : 0 .. MaxViewEvents, epoch : 0 .. MaxEpochs,
                              stale : BOOLEAN]]
    BY <1>1, OvertakenResult, ViewAssumption DEF NotViewing
  <2> QED BY <1>1, <1>4, <2>1, <2>2 DEF ViewTypeOK
<1>6. viewEvents <= viewEvents'
  BY <1>1, <1>3
<1>7. AnnouncedViewsAreDurable'
  BY <1>1, <1>2, <1>4 DEF EpochInv, AnnouncedViewsAreDurable
<1>8. ASSUME NEW u \in Viewers
      PROVE  \/ viewing'[u] = viewing[u] \/ viewing'[u].pc = "idle"
             \/ /\ viewing'[u].pc = viewing[u].pc /\ viewing'[u].stale
                /\ viewing'[u].through = viewing[u].through
                /\ viewing'[u].epoch = viewing[u].epoch
  BY <1>1, OvertakenResult DEF NotViewing
<1> QED BY <1>1, <1>5, <1>6, <1>7, <1>8, TablesKept

LEMMA AllocateEpochInv ==
  ASSUME EpochInv, NEW w \in Viewers, AllocateEpoch(w)
  PROVE  EpochInv'
<1> DEFINE k == NextEpoch(w[2])
<1> DEFINE n == Cardinality(ViewsOf(w[2]))
<1>1. /\ ViewTypeOK /\ LaneFree(w[1]) /\ k <= MaxEpochs
      /\ UNCHANGED <<viewEvents, epochs, announced>> /\ viewing[w].pc = "idle"
  BY DEF EpochInv, AllocateEpoch, Allocates
<1>2. PICK through \in 1 .. viewEvents :
         viewing' = [viewing EXCEPT ![w] = [pc |-> "insert", through |-> through,
                                            epoch |-> k, stale |-> FALSE]]
  BY DEF AllocateEpoch, Allocates
<1>3. w \in ViewProcesses \X ViewScopes /\ w[2] \in ViewScopes /\ w[1] \in ViewProcesses
      /\ w = <<w[1], w[2]>>
  BY DEF Viewers
<1>4. n \in Nat /\ EpochsOf(w[2]) = 1 .. n
  BY <1>3, ViewsFinite DEF EpochInv, EpochsAreConsecutive, ViewsOf
<1>5. k = n + 1
  BY <1>4, NextEpochValue
<1>6. k \in 1 .. MaxEpochs /\ EpochsOf(w[2]) = 1 .. (k - 1)
  BY <1>1, <1>4, <1>5, ViewAssumption
<1> HIDE DEF k, n
<1>7. /\ \A u \in Viewers : u # w => viewing'[u] = viewing[u]
      /\ viewing'[w].pc = "insert" /\ viewing'[w].through = through
      /\ viewing'[w].epoch = k
  BY <1>1, <1>2 DEF ViewTypeOK
<1>8. ViewTypeOK'
  BY <1>1, <1>2, <1>6, ViewAssumption DEF ViewTypeOK
<1>9. OneLane'
  <2> SUFFICES ASSUME NEW p \in ViewProcesses, NEW s \in ViewScopes, NEW t \in ViewScopes,
                      viewing'[<<p, s>>].pc = "insert", viewing'[<<p, t>>].pc = "insert"
               PROVE  s = t
    BY DEF OneLane
  <2>1. <<p, s>> \in Viewers /\ <<p, t>> \in Viewers
    BY DEF Viewers
  <2>2. CASE <<p, s>> # w /\ <<p, t>> # w
    BY <1>7, <2>1, <2>2 DEF EpochInv, OneLane
  <2>3. CASE <<p, s>> = w /\ <<p, t>> # w
    <3>1. viewing[<<p, t>>].pc = "insert" /\ p = w[1]
      BY <1>7, <2>1, <2>3
    <3> QED BY <1>1, <3>1 DEF LaneFree
  <2>4. CASE <<p, s>> # w /\ <<p, t>> = w
    <3>1. viewing[<<p, s>>].pc = "insert" /\ p = w[1]
      BY <1>7, <2>1, <2>4
    <3> QED BY <1>1, <3>1 DEF LaneFree
  <2>5. CASE <<p, s>> = w /\ <<p, t>> = w
    BY <2>5
  <2> QED BY <2>2, <2>3, <2>4, <2>5
<1>10. ASSUME NEW u \in Viewers
       PROVE  AllocatedInv(u)' /\ InsertedInv(u)'
  <2>0. \A s : EpochsOf(s)' = EpochsOf(s)
    BY <1>1 DEF EpochsOf
  <2>1. CASE u # w
    BY <1>1, <1>7, <2>0, <2>1 DEF EpochInv, AllocatedInv, InsertedInv
  <2>2. CASE u = w
    BY <1>1, <1>6, <1>7, <2>0, <2>2 DEF AllocatedInv, InsertedInv
  <2> QED BY <2>1, <2>2
<1>11. EpochsAreConsecutive' /\ AnnouncedViewsAreDurable' /\ IsFiniteSet(epochs')
  BY <1>1 DEF EpochInv, EpochsAreConsecutive, AnnouncedViewsAreDurable, EpochsOf
<1> QED BY <1>8, <1>9, <1>10, <1>11 DEF EpochInv

\* The inserted view is the next of its scope; whoever else had allocated that
\* epoch is of another process and is stale from here on.
LEMMA InsertEpochInv ==
  ASSUME EpochInv, NEW w \in Viewers, InsertEpoch(w)
  PROVE  EpochInv'
<1> DEFINE v == viewing[w]
<1> DEFINE e == [scope |-> w[2], epoch |-> v.epoch, through |-> v.through]
<1> DEFINE n == Cardinality(ViewsOf(w[2]))
<1>1. /\ ViewTypeOK /\ v.pc = "insert" /\ ~v.stale /\ epochs' = epochs \union {e}
      /\ UNCHANGED <<viewEvents, announced>>
      /\ viewing' = [u \in Viewers |-> IF u = w THEN [v EXCEPT !.pc = "announce"]
                                       ELSE Overtaken(u, w[1])]
  BY DEF EpochInv, InsertEpoch, ViewCommits
<1>2. /\ w[2] \in ViewScopes /\ w[1] \in ViewProcesses /\ w = <<w[1], w[2]>>
      /\ v \in [pc : {"idle", "insert", "announce"}, through : 0 .. MaxViewEvents,
                epoch : 0 .. MaxEpochs, stale : BOOLEAN]
  BY <1>1 DEF Viewers, ViewTypeOK
<1>3. /\ v.through \in 1 .. viewEvents /\ v.epoch \in 1 .. MaxEpochs
      /\ EpochsOf(w[2]) = 1 .. (v.epoch - 1)
  BY <1>1 DEF EpochInv, AllocatedInv
<1>4. viewEvents \in 1 .. MaxViewEvents
  BY <1>1 DEF ViewTypeOK
<1>5. /\ e \in [scope : ViewScopes, epoch : 1 .. MaxEpochs, through : 1 .. MaxViewEvents]
      /\ e.scope = w[2] /\ e.epoch = v.epoch /\ e.through = v.through
  BY <1>2, <1>3, <1>4, ViewAssumption
<1>6. /\ viewing'[w].pc = "announce" /\ viewing'[w].through = v.through
      /\ viewing'[w].epoch = v.epoch
      /\ [v EXCEPT !.pc = "announce"]
            \in [pc : {"idle", "insert", "announce"}, through : 0 .. MaxViewEvents,
                 epoch : 0 .. MaxEpochs, stale : BOOLEAN]
  BY <1>1, <1>2
<1>7. n \in Nat /\ EpochsOf(w[2]) = 1 .. n /\ IsFiniteSet(ViewsOf(w[2]))
  BY <1>2, ViewsFinite DEF EpochInv, EpochsAreConsecutive, ViewsOf
<1>8. v.epoch = n + 1
  <2> DEFINE k == v.epoch
  <2>1. k \in Nat /\ k >= 1 /\ 1 .. (k - 1) = 1 .. n /\ n \in Nat
    BY <1>3, <1>7, ViewAssumption
  <2> HIDE DEF k, n
  <2>2. \A i \in 1 .. (k - 1) : i <= n
    BY <2>1
  <2>3. \A i \in 1 .. n : i <= k - 1
    BY <2>1
  <2>4. k - 1 = n
    <3>1. CASE k - 1 > n
      BY <2>1, <2>2, <3>1
    <3>2. CASE n > k - 1
      BY <2>1, <2>3, <3>2
    <3> QED BY <2>1, <3>1, <3>2
  <2>5. k = n + 1
    BY <2>1, <2>4
  <2> QED BY <2>5 DEF k
<1> HIDE DEF e, v, n
<1>9. ViewTypeOK'
  <2>1. viewing' \in [Viewers -> [pc : {"idle", "insert", "announce"},
                              through : 0 .. MaxViewEvents, epoch : 0 .. MaxEpochs,
                              stale : BOOLEAN]]
    BY <1>1, <1>6, OvertakenResult
  <2> QED BY <1>1, <1>5, <2>1 DEF ViewTypeOK
<1>10. IsFiniteSet(epochs')
  BY <1>1, FS_AddElement DEF EpochInv
<1>11. ASSUME NEW u \in Viewers, u # w
       PROVE  /\ viewing'[u].pc = viewing[u].pc /\ viewing'[u].epoch = viewing[u].epoch
              /\ viewing'[u].through = viewing[u].through
              /\ viewing'[u].stale \/ viewing'[u] = viewing[u]
              /\ viewing[u].pc = "insert" => viewing'[u].stale
  <2>1. viewing'[u] = Overtaken(u, w[1])
    BY <1>1, <1>11
  <2>2. viewing[u].pc = "insert" => u[1] # w[1]
    <3> SUFFICES ASSUME viewing[u].pc = "insert", u[1] = w[1]
                 PROVE  FALSE
      OBVIOUS
    <3>1. u = <<u[1], u[2]>> /\ u[1] \in ViewProcesses /\ u[2] \in ViewScopes
      BY DEF Viewers
    <3>2. u[2] = w[2]
      BY <1>1, <1>2, <3>1 DEF EpochInv, OneLane, v
    <3> QED BY <1>2, <1>11, <3>1, <3>2
  <2> QED BY <1>1, <2>1, <2>2, OvertakenResult
<1>12. OneLane'
  <2> SUFFICES ASSUME NEW p \in ViewProcesses, NEW s \in ViewScopes, NEW t \in ViewScopes,
                      viewing'[<<p, s>>].pc = "insert", viewing'[<<p, t>>].pc = "insert"
               PROVE  s = t
    BY DEF OneLane
  <2>1. <<p, s>> \in Viewers /\ <<p, t>> \in Viewers
    BY DEF Viewers
  <2>2. viewing[<<p, s>>].pc = "insert" /\ viewing[<<p, t>>].pc = "insert"
    BY <1>6, <1>11, <2>1
  <2> QED BY <2>2 DEF EpochInv, OneLane
<1>13. ASSUME NEW u \in Viewers
       PROVE  AllocatedInv(u)' /\ InsertedInv(u)'
  <2>1. CASE u = w
    BY <1>1, <1>3, <1>5, <1>6, <2>1 DEF AllocatedInv, InsertedInv, e
  <2>2. CASE u # w
    <3>1. AllocatedInv(u) /\ InsertedInv(u)
      BY DEF EpochInv
    <3> QED BY <1>1, <1>11, <2>2, <3>1 DEF AllocatedInv, InsertedInv
  <2> QED BY <2>1, <2>2
<1>14. ASSUME NEW s \in ViewScopes
       PROVE  EpochsOf(s)' = 1 .. Cardinality(ViewsOf(s)')
  <2>1. CASE s # w[2]
    <3>1. ViewsOf(s)' = ViewsOf(s)
      BY <1>1, <1>5, <2>1 DEF ViewsOf
    <3>2. EpochsOf(s)' = EpochsOf(s)
      BY <3>1 DEF EpochsOf, ViewsOf
    <3> QED BY <3>1, <3>2 DEF EpochInv, EpochsAreConsecutive, ViewsOf
  <2>2. CASE s = w[2]
    <3>1. ViewsOf(s)' = ViewsOf(s) \union {e}
      BY <1>1, <1>5, <2>2 DEF ViewsOf
    <3>2. EpochsOf(s)' = EpochsOf(s) \union {e.epoch}
      BY <3>1 DEF EpochsOf, ViewsOf
    <3>3. e \notin ViewsOf(s)
      <4>1. e.epoch \notin EpochsOf(s)
        BY <1>5, <1>7, <1>8, <2>2
      <4> QED BY <4>1 DEF EpochsOf, ViewsOf
    <3>4. Cardinality(ViewsOf(s)') = n + 1
      BY <1>7, <2>2, <3>1, <3>3, FS_AddElement DEF n
    <3>5. EpochsOf(s)' = 1 .. (n + 1)
      BY <1>5, <1>7, <1>8, <2>2, <3>2
    <3> QED BY <3>4, <3>5
  <2> QED BY <2>1, <2>2
<1>15. EpochsAreConsecutive'
  BY <1>14 DEF EpochsAreConsecutive, ViewsOf
<1>16. AnnouncedViewsAreDurable'
  BY <1>1 DEF EpochInv, AnnouncedViewsAreDurable
<1> QED BY <1>9, <1>10, <1>12, <1>13, <1>15, <1>16 DEF EpochInv

LEMMA EpochStep ==
  ASSUME EpochInv, [ViewNext]_viewVars
  PROVE  EpochInv'
<1>1. CASE UNCHANGED viewVars
  BY <1>1
     DEF viewVars, EpochInv, ViewTypeOK, OneLane, AllocatedInv, InsertedInv,
         EpochsAreConsecutive, EpochsOf, AnnouncedViewsAreDurable
<1>2. ASSUME NEW p \in ViewProcesses, AppendOther(p)
      PROVE  EpochInv'
  BY <1>2, AppendOtherInv
<1>3. ASSUME NEW w \in Viewers,
             AllocateEpoch(w) \/ InsertEpoch(w) \/ AnnounceEpoch(w) \/ ViewFails(w)
      PROVE  EpochInv'
  BY <1>3, AllocateEpochInv, InsertEpochInv, AnnounceEpochInv, ViewFailsInv
<1> QED BY <1>1, <1>2, <1>3 DEF ViewNext

\* Epochs, rows, announcements and the writers between two steps have their
\* type: no announced epoch or view that no transaction wrote
\* (commitContextView).
THEOREM ViewTypeCorrect == ViewSpec => []ViewTypeOK
<1>1. EpochInv /\ [ViewNext]_viewVars => EpochInv'
  BY EpochStep
<1>2. EpochInv => ViewTypeOK
  BY DEF EpochInv
<1> QED BY <1>1, <1>2, ViewInitInv, PTL DEF ViewSpec

\* The epochs of every scope are 1, 2, ... with one view each, and every
\* announcement is of a durable view built from earlier events, however many
\* processes and scopes commit views at once and whichever of their
\* transactions fail.
THEOREM EpochsAreInOrderCorrect == ViewSpec => []EpochsAreInOrder
<1>1. EpochInv /\ [ViewNext]_viewVars => EpochInv'
  BY EpochStep
<1>2. EpochInv => EpochsAreInOrder
  BY DEF EpochInv, EpochsAreInOrder
<1> QED BY <1>1, <1>2, ViewInitInv, PTL DEF ViewSpec

-----------------------------------------------------------------------------
(* Commands.                                                               *)

HasStarted(p) == process[p].state # "unstarted"
Collecting(c) == toolCall[c].pc \in {"wait", "read", "check"}
IsRegistered(p) == \E entry \in registered : entry[2] = p
IsStarting(p) ==
  \E c \in ToolCalls : toolCall[c].pc = "register" /\ toolCall[c].process = p

\* Somebody will end p and remove its transcript.
InCare(p) == IsRegistered(p) \/ p \in toClose \/ IsStarting(p)

\* Commands are started in order, each under a handle of its own.
StartedInv ==
  /\ \E k \in Handles : \A p \in ProcessIds : HasStarted(p) <=> p <= k
  /\ \A p \in ProcessIds :
       HasStarted(p) =>
         /\ process[p].handle \in 1 .. nextID
         /\ \A q \in ProcessIds :
              HasStarted(q) /\ process[q].handle = process[p].handle => q = p

\* A reserved handle belongs to one call and to no command yet.
CreateInv ==
  \A c \in ToolCalls :
    toolCall[c].pc = "create" =>
      /\ toolCall[c].handle \in 1 .. nextID
      /\ \A p \in ProcessIds : HasStarted(p) => process[p].handle # toolCall[c].handle
      /\ \A d \in ToolCalls :
           toolCall[d].pc = "create" /\ toolCall[d].handle = toolCall[c].handle => d = c

\* A call that has started a command is the only one to know it until a wait
\* goroutine has been launched for it.
CallInv ==
  \A c \in ToolCalls :
    /\ toolCall[c].pc = "register" \/ Collecting(c) =>
         /\ toolCall[c].process \in ProcessIds /\ HasStarted(toolCall[c].process)
         /\ toolCall[c].handle = process[toolCall[c].process].handle
    /\ Collecting(c) => process[toolCall[c].process].waited
    /\ toolCall[c].pc = "register" => ~process[toolCall[c].process].waited
    /\ \A d \in ToolCalls :
         /\ toolCall[c].pc = "register" /\ toolCall[d].pc = "register"
         /\ toolCall[c].process = toolCall[d].process
         => c = d

TableInv ==
  /\ \A entry \in registered :
       /\ HasStarted(entry[2]) /\ entry[1] = process[entry[2]].handle
       /\ process[entry[2]].waited
  /\ managerClosed <=> closer \in {"closing", "closed"}
  /\ managerClosed => registered = {}
  /\ closer # "closing" => toClose = {}

\* A command that runs on, or has a transcript, is in somebody's care.
CareInv ==
  \A p \in ProcessIds :
    /\ process[p].done => process[p].state = "exited"
    /\ process[p].output = "open" => InCare(p)
    /\ process[p].state = "running" => process[p].killed \/ InCare(p)

CommandInv ==
  ProcessTypeOK /\ StartedInv /\ CreateInv /\ CallInv /\ TableInv /\ CareInv

CommandRecords ==
  [state : {"unstarted", "running", "exited"}, handle : Handles,
   output : {"none", "open", "removed"}, written : 0 .. MaxOutput,
   offset : 0 .. MaxOutput, outputNotify : BOOLEAN, killed : BOOLEAN,
   waited : BOOLEAN, done : BOOLEAN]

CallRecords ==
  [pc : {"idle", "create", "register", "wait", "read", "check"},
   handle : Handles, process : ProcessIds \union {NoProcess}, hasMore : BOOLEAN]

LEMMA CommandTypes ==
  ASSUME ProcessTypeOK
  PROVE  /\ nextID \in Handles /\ registered \subseteq Handles \X ProcessIds
         /\ process \in [ProcessIds -> CommandRecords]
         /\ toolCall \in [ToolCalls -> CallRecords] /\ toClose \subseteq ProcessIds
         /\ MaxProcesses \in Nat /\ MaxOutput \in Nat /\ PageBytes \in Nat
         /\ \A entry \in registered : entry[1] \in Handles /\ entry[2] \in ProcessIds
                                      /\ entry = <<entry[1], entry[2]>>
BY ProcessAssumption DEF ProcessTypeOK, CommandRecords, CallRecords

LEMMA CommandInitInv == ASSUME ProcessInit PROVE CommandInv
<1>1. ProcessTypeOK
  <2>1. 0 \in Handles /\ 0 \in 0 .. MaxOutput
    BY ProcessAssumption DEF Handles
  <2>2. Unstarted \in CommandRecords /\ IdleCall \in CallRecords
    BY <2>1 DEF Unstarted, IdleCall, CommandRecords, CallRecords, NoProcess
  <2>3. process \in [ProcessIds -> CommandRecords] /\ toolCall \in [ToolCalls -> CallRecords]
    BY <2>2 DEF ProcessInit
  <2>4. /\ nextID \in Handles /\ reserved \subseteq Handles
        /\ registered \subseteq Handles \X ProcessIds /\ managerClosed \in BOOLEAN
        /\ closer \in {"open", "cancelled", "closing", "closed"} /\ toClose \subseteq ProcessIds
    BY <2>1 DEF ProcessInit
  <2> QED BY <2>3, <2>4 DEF ProcessTypeOK, CommandRecords, CallRecords
<1>2. /\ \A p \in ProcessIds : process[p] = Unstarted
      /\ \A c \in ToolCalls : toolCall[c].pc = "idle"
      /\ registered = {} /\ toClose = {} /\ closer = "open" /\ managerClosed = FALSE
  BY DEF ProcessInit, IdleCall
<1>2a. \A p \in ProcessIds : process[p].state = "unstarted" /\ process[p].output = "none"
                              /\ process[p].done = FALSE
  BY <1>2 DEF Unstarted
<1>3. StartedInv
  <2>1. 0 \in Handles /\ \A p \in ProcessIds : ~HasStarted(p) /\ ~(p <= 0)
    BY <1>2a, ProcessAssumption DEF Handles, ProcessIds, HasStarted
  <2> QED BY <2>1 DEF StartedInv
<1>4. CreateInv /\ CallInv
  BY <1>2 DEF CreateInv, CallInv, Collecting
<1>5. TableInv
  BY <1>2 DEF TableInv
<1>6. CareInv
  BY <1>2a DEF CareInv
<1> QED BY <1>1, <1>3, <1>4, <1>5, <1>6 DEF CommandInv

\* A step that starts, registers and takes nothing: commands keep their handles
\* and their wait goroutines, and calls return or collect what is registered.
LEMMA CommandsKept ==
  ASSUME CommandInv, ProcessTypeOK', UNCHANGED <<registered, managerClosed, toClose, nextID>>,
         managerClosed <=> closer' \in {"closing", "closed"},
         closer' # "closing" => toClose = {},
         \A p \in ProcessIds :
           /\ process'[p].handle = process[p].handle
           /\ process'[p].waited = process[p].waited
           /\ process'[p].state = "unstarted" <=> process[p].state = "unstarted"
           /\ process'[p].done => process'[p].state = "exited"
           /\ process'[p].output = "open" => process[p].output = "open"
           /\ process'[p].state = "running" =>
                process[p].state = "running" /\ (process[p].killed => process'[p].killed),
         \A c \in ToolCalls :
           \/ /\ toolCall'[c].pc = toolCall[c].pc /\ toolCall'[c].handle = toolCall[c].handle
              /\ toolCall'[c].process = toolCall[c].process
           \/ toolCall[c].pc # "register" /\ toolCall'[c].pc = "idle"
           \/ /\ Collecting(c) /\ Collecting(c)' /\ toolCall'[c].handle = toolCall[c].handle
              /\ toolCall'[c].process = toolCall[c].process
           \/ /\ toolCall[c].pc = "idle" /\ Collecting(c)'
              /\ <<toolCall'[c].handle, toolCall'[c].process>> \in registered
  PROVE  CommandInv'
<1>0. \A p \in ProcessIds : HasStarted(p)' <=> HasStarted(p)
  BY DEF HasStarted
<1>1. StartedInv'
  BY <1>0 DEF CommandInv, StartedInv
<1>2. CreateInv'
  <2>1. \A c \in ToolCalls :
           toolCall'[c].pc = "create" =>
             toolCall[c].pc = "create" /\ toolCall'[c].handle = toolCall[c].handle
    BY DEF Collecting
  <2> QED BY <1>0, <2>1 DEF CommandInv, CreateInv
<1>3. \A c \in ToolCalls :
         toolCall'[c].pc = "register" <=> toolCall[c].pc = "register"
  BY DEF Collecting
<1>4. \A c \in ToolCalls :
         toolCall'[c].pc = "register" => toolCall'[c].process = toolCall[c].process
                                         /\ toolCall'[c].handle = toolCall[c].handle
  BY DEF Collecting
<1>5. CallInv'
  <2>1. ASSUME NEW c \in ToolCalls, Collecting(c)'
        PROVE  /\ toolCall'[c].process \in ProcessIds
               /\ process'[toolCall'[c].process].state # "unstarted"
               /\ toolCall'[c].handle = process'[toolCall'[c].process].handle
               /\ process'[toolCall'[c].process].waited /\ toolCall'[c].pc # "register"
    <3>1. CASE Collecting(c) /\ toolCall'[c].handle = toolCall[c].handle
               /\ toolCall'[c].process = toolCall[c].process
      BY <2>1, <3>1 DEF CommandInv, CallInv, Collecting, HasStarted
    <3>2. CASE <<toolCall'[c].handle, toolCall'[c].process>> \in registered
      <4> DEFINE h == toolCall'[c].handle
      <4> DEFINE p == toolCall'[c].process
      <4>1. p \in ProcessIds
        BY <3>2, CommandTypes DEF CommandInv
      <4>2. HasStarted(p) /\ h = process[p].handle /\ process[p].waited
        BY <3>2 DEF CommandInv, TableInv
      <4> QED BY <2>1, <4>1, <4>2 DEF Collecting, HasStarted
    <3> QED BY <2>1, <3>1, <3>2 DEF Collecting
  <2>2. ASSUME NEW c \in ToolCalls, toolCall'[c].pc = "register"
        PROVE  /\ toolCall'[c].process \in ProcessIds
               /\ process'[toolCall'[c].process].state # "unstarted"
               /\ toolCall'[c].handle = process'[toolCall'[c].process].handle
               /\ ~process'[toolCall'[c].process].waited
    BY <1>3, <1>4, <2>2 DEF CommandInv, CallInv, HasStarted
  <2>3. ASSUME NEW c \in ToolCalls, NEW d \in ToolCalls, toolCall'[c].pc = "register",
               toolCall'[d].pc = "register", toolCall'[c].process = toolCall'[d].process
        PROVE  c = d
    BY <1>3, <1>4, <2>3 DEF CommandInv, CallInv
  <2> QED BY <2>1, <2>2, <2>3 DEF CallInv, HasStarted
<1>6. TableInv'
  <2>1. ASSUME NEW entry \in registered
        PROVE  /\ HasStarted(entry[2])' /\ entry[1] = process'[entry[2]].handle
               /\ process'[entry[2]].waited
    <3>1. entry[2] \in ProcessIds
      BY CommandTypes DEF CommandInv
    <3> QED BY <1>0, <3>1 DEF CommandInv, TableInv
  <2> QED BY <2>1 DEF CommandInv, TableInv
<1>7. CareInv'
  <2>1. \A p \in ProcessIds : InCare(p)' <=> InCare(p)
    BY <1>3, <1>4 DEF InCare, IsRegistered, IsStarting
  <2> QED BY <2>1 DEF CommandInv, CareInv
<1> QED BY <1>1, <1>2, <1>5, <1>6, <1>7 DEF CommandInv

\* Calls return, or go on collecting a command.
LEMMA CallsReturn ==
  ASSUME CommandInv, NEW c \in ToolCalls,
         StartFailed(c) \/ WriteStdin(c) \/ CollectDone(c) \/ CollectTimer(c)
           \/ CollectCancelled(c)
  PROVE  CommandInv'
<1>0. /\ ProcessTypeOK /\ process \in [ProcessIds -> CommandRecords]
      /\ toolCall \in [ToolCalls -> CallRecords] /\ toolCall[c] \in CallRecords
      /\ \A p \in ProcessIds : process[p].done => process[p].state = "exited"
      /\ managerClosed <=> closer \in {"closing", "closed"}
      /\ closer # "closing" => toClose = {}
  BY CommandTypes DEF CommandInv, CareInv, TableInv
<1>1. IdleCall \in CallRecords /\ IdleCall.pc = "idle"
  BY ProcessAssumption DEF IdleCall, CallRecords, Handles, NoProcess
<1>2. CASE StartFailed(c)
  <2>1. /\ UNCHANGED <<nextID, managerClosed, process, closer, toClose>>
        /\ registered' = {entry \in registered : entry[1] # toolCall[c].handle}
        /\ reserved' = reserved \ {toolCall[c].handle} /\ toolCall[c].pc = "create"
        /\ toolCall' = [toolCall EXCEPT ![c] = IdleCall]
    BY <1>2 DEF StartFailed, ReleaseHandle, closeVars
  <2>2. registered' = registered
    <3>1. ASSUME NEW entry \in registered
          PROVE  entry[1] # toolCall[c].handle
      <4>1. entry[2] \in ProcessIds
        BY <1>0, CommandTypes
      <4> QED BY <2>1, <4>1 DEF CommandInv, TableInv, CreateInv
    <3> QED BY <2>1, <3>1
  <2>3. ProcessTypeOK'
    <3>1. toolCall' \in [ToolCalls -> CallRecords]
      BY <1>0, <1>1, <2>1
    <3> QED BY <1>0, <2>1, <2>2, <3>1 DEF ProcessTypeOK, CallRecords
  <2>4. \A d \in ToolCalls :
           \/ toolCall'[d] = toolCall[d]
           \/ toolCall[d].pc # "register" /\ toolCall'[d].pc = "idle"
    BY <1>0, <1>1, <2>1
  <2> QED BY <1>0, <2>1, <2>2, <2>3, <2>4, CommandsKept
<1>3. CASE WriteStdin(c)
  <2>1. UNCHANGED <<procTables, process, closeVars>> /\ toolCall[c].pc = "idle"
    BY <1>3 DEF WriteStdin
  <2>2. PICK entry \in registered, next \in {"wait", "read"} :
           toolCall' = [toolCall EXCEPT ![c] =
                         [IdleCall EXCEPT !.pc = next, !.handle = entry[1],
                                          !.process = entry[2]]]
    BY <1>3 DEF WriteStdin
  <2>3. entry[1] \in Handles /\ entry[2] \in ProcessIds /\ entry = <<entry[1], entry[2]>>
    BY <1>0, CommandTypes
  <2> DEFINE r == [IdleCall EXCEPT !.pc = next, !.handle = entry[1], !.process = entry[2]]
  <2>4. r \in CallRecords /\ r.pc = next /\ r.handle = entry[1] /\ r.process = entry[2]
    BY <2>3 DEF IdleCall, CallRecords
  <2> HIDE DEF r
  <2>5. /\ toolCall' \in [ToolCalls -> CallRecords] /\ toolCall'[c] = r
        /\ \A d \in ToolCalls : d # c => toolCall'[d] = toolCall[d]
    BY <1>0, <2>2, <2>4 DEF r
  <2>6. ProcessTypeOK'
    BY <1>0, <2>1, <2>5 DEF ProcessTypeOK, CallRecords, procTables, closeVars
  <2>7. Collecting(c)' /\ <<toolCall'[c].handle, toolCall'[c].process>> \in registered
    BY <2>3, <2>4, <2>5 DEF Collecting
  <2>8. UNCHANGED <<registered, managerClosed, toClose, nextID, closer, process>>
    BY <2>1 DEF procTables, closeVars
  <2> QED BY <1>0, <2>1, <2>5, <2>6, <2>7, <2>8, CommandsKept
<1>4. CASE CollectDone(c) \/ CollectTimer(c)
  <2>1. /\ UNCHANGED <<procTables, process, closeVars>> /\ toolCall[c].pc = "wait"
        /\ toolCall' = [toolCall EXCEPT ![c].pc = "read"]
    BY <1>4 DEF CollectDone, CollectTimer
  <2>2. /\ toolCall' \in [ToolCalls -> CallRecords] /\ toolCall'[c].pc = "read"
        /\ toolCall'[c].handle = toolCall[c].handle
        /\ toolCall'[c].process = toolCall[c].process
        /\ \A d \in ToolCalls : d # c => toolCall'[d] = toolCall[d]
    BY <1>0, <2>1 DEF CallRecords
  <2>3. ProcessTypeOK'
    BY <1>0, <2>1, <2>2 DEF ProcessTypeOK, CallRecords, procTables, closeVars
  <2>4. UNCHANGED <<registered, managerClosed, toClose, nextID, closer, process>>
    BY <2>1 DEF procTables, closeVars
  <2>5. Collecting(c) /\ Collecting(c)'
    BY <2>1, <2>2 DEF Collecting
  <2> QED BY <1>0, <2>2, <2>3, <2>4, <2>5, CommandsKept
<1>5. CASE CollectCancelled(c)
  <2>1. /\ UNCHANGED <<procTables, process, closeVars>> /\ toolCall[c].pc = "wait"
        /\ toolCall' = [toolCall EXCEPT ![c] = IdleCall]
    BY <1>5 DEF CollectCancelled
  <2>2. /\ toolCall' \in [ToolCalls -> CallRecords] /\ toolCall'[c].pc = "idle"
        /\ \A d \in ToolCalls : d # c => toolCall'[d] = toolCall[d]
    BY <1>0, <1>1, <2>1
  <2>3. ProcessTypeOK'
    BY <1>0, <2>1, <2>2 DEF ProcessTypeOK, CallRecords, procTables, closeVars
  <2>4. UNCHANGED <<registered, managerClosed, toClose, nextID, closer, process>>
    BY <2>1 DEF procTables, closeVars
  <2> QED BY <1>0, <2>1, <2>2, <2>3, <2>4, CommandsKept
<1> QED BY <1>2, <1>3, <1>4, <1>5

\* What a command does by itself.
LEMMA CommandMoves ==
  ASSUME CommandInv, NEW p \in ProcessIds,
         ProcessWrites(p) \/ ProcessExits(p) \/ ProcessWaited(p)
  PROVE  CommandInv'
<1>0. /\ ProcessTypeOK /\ process \in [ProcessIds -> CommandRecords]
      /\ process[p] \in CommandRecords /\ MaxOutput \in Nat
      /\ \A q \in ProcessIds : process[q].done => process[q].state = "exited"
      /\ managerClosed <=> closer \in {"closing", "closed"}
      /\ closer # "closing" => toClose = {}
  BY CommandTypes DEF CommandInv, CareInv, TableInv
<1>1. UNCHANGED <<registered, reserved, managerClosed, toClose, nextID, closer, toolCall>>
  BY DEF ProcessWrites, ProcessExits, ProcessWaited, procTables, closeVars
<1>2. PICK r \in CommandRecords :
        /\ process' = [process EXCEPT ![p] = r]
        /\ r.handle = process[p].handle /\ r.waited = process[p].waited
        /\ r.killed = process[p].killed /\ r.output = process[p].output
        /\ r.state # "unstarted" /\ process[p].state # "unstarted"
        /\ r.done => r.state = "exited"
        /\ r.state = "running" => process[p].state = "running"
  <2>1. CASE ProcessWrites(p)
    <3> DEFINE r == [process[p] EXCEPT !.written = @ + 1, !.outputNotify = TRUE]
    <3>1. process[p].written + 1 \in 0 .. MaxOutput /\ process[p].state = "running"
      BY <1>0, <2>1 DEF ProcessWrites, CommandRecords
    <3>2. process' = [process EXCEPT ![p] = r]
      BY <1>0, <2>1 DEF ProcessWrites
    <3>3. /\ r \in CommandRecords /\ r.handle = process[p].handle
          /\ r.waited = process[p].waited /\ r.state = process[p].state
          /\ r.killed = process[p].killed /\ r.output = process[p].output
          /\ r.done = process[p].done
      BY <1>0, <3>1 DEF CommandRecords
    <3> HIDE DEF r
    <3> QED BY <1>0, <3>1, <3>2, <3>3
  <2>2. CASE ProcessExits(p)
    <3> DEFINE r == [process[p] EXCEPT !.state = "exited"]
    <3>1. process' = [process EXCEPT ![p] = r] /\ process[p].state = "running"
      BY <1>0, <2>2 DEF ProcessExits
    <3>2. /\ r \in CommandRecords /\ r.handle = process[p].handle
          /\ r.waited = process[p].waited /\ r.state = "exited"
          /\ r.killed = process[p].killed /\ r.output = process[p].output
      BY <1>0 DEF CommandRecords
    <3> HIDE DEF r
    <3> QED BY <3>1, <3>2
  <2>3. CASE ProcessWaited(p)
    <3> DEFINE r == [process[p] EXCEPT !.done = TRUE]
    <3>1. process' = [process EXCEPT ![p] = r] /\ process[p].state = "exited"
      BY <1>0, <2>3 DEF ProcessWaited
    <3>2. /\ r \in CommandRecords /\ r.handle = process[p].handle
          /\ r.waited = process[p].waited /\ r.state = process[p].state
          /\ r.killed = process[p].killed /\ r.output = process[p].output
      BY <1>0 DEF CommandRecords
    <3> HIDE DEF r
    <3> QED BY <3>1, <3>2
  <2> QED BY <2>1, <2>2, <2>3
<1>3. /\ process' \in [ProcessIds -> CommandRecords] /\ process'[p] = r
      /\ \A q \in ProcessIds : q # p => process'[q] = process[q]
  BY <1>0, <1>2
<1>4. ProcessTypeOK'
  BY <1>0, <1>1, <1>3 DEF ProcessTypeOK, CommandRecords
<1> QED BY <1>0, <1>1, <1>2, <1>3, <1>4, CommandsKept

\* A call takes the notification or a page.
LEMMA CollectsPage ==
  ASSUME CommandInv, NEW c \in ToolCalls, CollectNotified(c) \/ CollectRead(c)
  PROVE  CommandInv'
<1> DEFINE p == toolCall[c].process
<1> DEFINE old == process[p]
<1>1. Collecting(c)
  BY DEF CollectNotified, CollectRead, Collecting
<1>0. /\ ProcessTypeOK /\ process \in [ProcessIds -> CommandRecords] /\ p \in ProcessIds
      /\ old \in CommandRecords /\ MaxOutput \in Nat /\ PageBytes \in Nat
      /\ toolCall \in [ToolCalls -> CallRecords] /\ toolCall[c] \in CallRecords
      /\ \A q \in ProcessIds : process[q].done => process[q].state = "exited"
      /\ managerClosed <=> closer \in {"closing", "closed"}
      /\ closer # "closing" => toClose = {}
  BY <1>1, CommandTypes DEF CommandInv, CareInv, TableInv, CallInv
<1>2. UNCHANGED <<registered, reserved, managerClosed, toClose, nextID, closer>>
  BY DEF CollectNotified, CollectRead, procTables, closeVars
<1>3. PICK r \in CommandRecords :
        /\ process' = [process EXCEPT ![p] = r]
        /\ r.handle = old.handle /\ r.waited = old.waited /\ r.killed = old.killed
        /\ r.output = old.output /\ r.state = old.state /\ r.done = old.done
  <2>1. CASE CollectNotified(c)
    <3> DEFINE r == [old EXCEPT !.outputNotify = FALSE]
    <3>1. process' = [process EXCEPT ![p] = r]
      BY <1>0, <2>1 DEF CollectNotified
    <3>2. /\ r \in CommandRecords /\ r.handle = old.handle /\ r.waited = old.waited
          /\ r.killed = old.killed /\ r.output = old.output /\ r.state = old.state
          /\ r.done = old.done
      BY <1>0 DEF CommandRecords
    <3> HIDE DEF r, old, p
    <3> QED BY <3>1, <3>2
  <2>2. CASE CollectRead(c) /\ old.output = "open"
    <3> DEFINE n == Smaller(old.written, old.offset + PageBytes)
    <3> DEFINE r == [old EXCEPT !.offset = n]
    <3>1. process' = [process EXCEPT ![p] = r]
      BY <1>0, <2>2 DEF CollectRead
    <3>2. n \in 0 .. MaxOutput
      BY <1>0 DEF CommandRecords, Smaller
    <3> HIDE DEF n
    <3>3. /\ r \in CommandRecords /\ r.handle = old.handle /\ r.waited = old.waited
          /\ r.killed = old.killed /\ r.output = old.output /\ r.state = old.state
          /\ r.done = old.done
      BY <1>0, <3>2 DEF CommandRecords
    <3> HIDE DEF r, old, p
    <3> QED BY <3>1, <3>3
  <2>3. CASE CollectRead(c) /\ old.output # "open"
    <3>1. process' = process
      BY <2>3 DEF CollectRead
    <3>2. process' = [process EXCEPT ![p] = old]
      BY <1>0, <3>1
    <3> HIDE DEF old, p
    <3> QED BY <1>0, <3>2
  <2> QED BY <2>1, <2>2, <2>3
<1>4. /\ process' \in [ProcessIds -> CommandRecords] /\ process'[p] = r
      /\ \A q \in ProcessIds : q # p => process'[q] = process[q]
  BY <1>0, <1>3
<1>5. /\ toolCall' \in [ToolCalls -> CallRecords]
      /\ \A d \in ToolCalls : d # c => toolCall'[d] = toolCall[d]
      /\ \/ toolCall'[c].pc = "idle"
         \/ /\ toolCall'[c].pc \in {"read", "check"}
            /\ toolCall'[c].handle = toolCall[c].handle /\ toolCall'[c].process = p
  <2>1. CASE CollectNotified(c)
    <3>1. toolCall' = [toolCall EXCEPT ![c].pc = "read"]
      BY <2>1 DEF CollectNotified
    <3> QED BY <1>0, <3>1 DEF CallRecords
  <2>2. CASE CollectRead(c) /\ old.output = "open"
    <3> DEFINE more == Smaller(old.written, old.offset + PageBytes) < old.written
    <3>1. toolCall' = [toolCall EXCEPT ![c].pc = "check", ![c].hasMore = more]
      BY <2>2 DEF CollectRead
    <3>2. more \in BOOLEAN
      OBVIOUS
    <3> HIDE DEF more
    <3> QED BY <1>0, <3>1, <3>2 DEF CallRecords
  <2>3. CASE CollectRead(c) /\ old.output # "open"
    <3>1. toolCall' = [toolCall EXCEPT ![c] = IdleCall]
      BY <2>3 DEF CollectRead
    <3>2. IdleCall \in CallRecords /\ IdleCall.pc = "idle"
      BY ProcessAssumption DEF IdleCall, CallRecords, Handles, NoProcess
    <3> QED BY <1>0, <3>1, <3>2
  <2> QED BY <2>1, <2>2, <2>3
<1>6. ProcessTypeOK'
  BY <1>0, <1>2, <1>4, <1>5 DEF ProcessTypeOK, CommandRecords, CallRecords
<1>7. /\ toolCall'[c].pc \in {"read", "check"} => Collecting(c)'
      /\ toolCall[c].pc # "register"
  BY <1>1 DEF Collecting
<1> HIDE DEF p, old
<1>8. \A q \in ProcessIds :
        /\ process'[q].handle = process[q].handle
        /\ process'[q].waited = process[q].waited
        /\ process'[q].state = process[q].state
        /\ process'[q].done = process[q].done
        /\ process'[q].output = process[q].output
        /\ process'[q].killed = process[q].killed
  BY <1>0, <1>3, <1>4 DEF old
<1> QED BY <1>0, <1>1, <1>2, <1>5, <1>6, <1>7, <1>8, CommandsKept DEF p

\* The steps of Close that take nothing out of the tables.
LEMMA CloseMoves ==
  ASSUME CommandInv, CloseCancel \/ CloseKill \/ CloseReturn
  PROVE  CommandInv'
<1>0. /\ ProcessTypeOK /\ process \in [ProcessIds -> CommandRecords]
      /\ \A q \in ProcessIds : process[q].done => process[q].state = "exited"
      /\ managerClosed <=> closer \in {"closing", "closed"}
      /\ closer # "closing" => toClose = {}
      /\ toClose \subseteq ProcessIds
  BY CommandTypes DEF CommandInv, CareInv, TableInv
<1>1. UNCHANGED <<registered, reserved, managerClosed, toClose, nextID, toolCall>>
  BY DEF CloseCancel, CloseKill, CloseReturn, procTables, closeVars
<1>2. /\ managerClosed <=> closer' \in {"closing", "closed"}
      /\ closer' # "closing" => toClose = {}
      /\ closer' \in {"open", "cancelled", "closing", "closed"}
  <2>1. CASE CloseCancel
    BY <1>0, <2>1 DEF CloseCancel
  <2>2. CASE CloseKill
    BY <1>0, <2>2 DEF CloseKill, closeVars
  <2>3. CASE CloseReturn
    BY <1>0, <2>3 DEF CloseReturn
  <2> QED BY <2>1, <2>2, <2>3
<1>3. /\ process' \in [ProcessIds -> CommandRecords]
      /\ \A q \in ProcessIds :
        /\ process'[q].handle = process[q].handle
        /\ process'[q].waited = process[q].waited
        /\ process'[q].state = process[q].state
        /\ process'[q].done = process[q].done
        /\ process'[q].output = "open" => process[q].output = "open"
        /\ process[q].killed => process'[q].killed
  <2>1. CASE CloseCancel
    BY <1>0, <2>1 DEF CloseCancel
  <2>2. CASE CloseKill
    <3>1. PICK p \in toClose : process' = [process EXCEPT ![p].killed = TRUE]
      BY <2>2 DEF CloseKill
    <3>2. p \in ProcessIds
      BY <1>0
    <3> QED BY <1>0, <3>1, <3>2, ZenonT(60) DEF CommandRecords
  <2>3. CASE CloseReturn
    <3>1. process' = [p \in ProcessIds |->
                   IF process[p].output = "open"
                     THEN [process[p] EXCEPT !.output = "removed"] ELSE process[p]]
      BY <2>3 DEF CloseReturn
    <3> QED BY <1>0, <3>1 DEF CommandRecords
  <2> QED BY <2>1, <2>2, <2>3
<1>4. ProcessTypeOK'
  BY <1>0, <1>1, <1>2, <1>3 DEF ProcessTypeOK, CommandRecords
<1> QED BY <1>0, <1>1, <1>2, <1>3, <1>4, CommandsKept

LEMMA StartReserveInv ==
  ASSUME CommandInv, NEW c \in ToolCalls, StartReserve(c)
  PROVE  CommandInv'
<1> DEFINE n == nextID + 1
<1> DEFINE r == [IdleCall EXCEPT !.pc = "create", !.handle = n]
<1>1. /\ toolCall' = [toolCall EXCEPT ![c] = r] /\ nextID' = n /\ nextID < MaxProcesses
      /\ reserved' = reserved \union {n} /\ toolCall[c].pc = "idle"
      /\ UNCHANGED <<registered, managerClosed, process, closer, toClose>>
  BY DEF StartReserve, closeVars
<1>2. /\ ProcessTypeOK /\ process \in [ProcessIds -> CommandRecords]
      /\ toolCall \in [ToolCalls -> CallRecords] /\ nextID \in 0 .. MaxProcesses
      /\ MaxProcesses \in Nat
  BY CommandTypes DEF CommandInv, Handles
<1>3. n \in Handles /\ n \in 1 .. n /\ \A i \in 1 .. nextID : i \in 1 .. n /\ i # n
  BY <1>1, <1>2 DEF Handles
<1> HIDE DEF n
<1>4. r \in CallRecords /\ r.pc = "create" /\ r.handle = n
  BY <1>3 DEF IdleCall, CallRecords
<1> HIDE DEF r
<1>5. /\ toolCall' \in [ToolCalls -> CallRecords] /\ toolCall'[c].pc = "create"
      /\ toolCall'[c].handle = n
      /\ \A d \in ToolCalls : d # c => toolCall'[d] = toolCall[d]
  BY <1>1, <1>2, <1>4
<1>6. ProcessTypeOK'
  BY <1>1, <1>2, <1>3, <1>5 DEF ProcessTypeOK, CallRecords
<1>7. StartedInv'
  BY <1>1, <1>3 DEF CommandInv, StartedInv, HasStarted
<1>8. CreateInv'
  <2>1. \A p \in ProcessIds : HasStarted(p) => process[p].handle # n
    BY <1>3 DEF CommandInv, StartedInv
  <2>2. \A d \in ToolCalls : toolCall[d].pc = "create" => toolCall[d].handle # n
    BY <1>3 DEF CommandInv, CreateInv
  <2>3. ASSUME NEW d \in ToolCalls, toolCall'[d].pc = "create"
        PROVE  /\ toolCall'[d].handle \in 1 .. n
               /\ \A p \in ProcessIds : HasStarted(p) => process[p].handle # toolCall'[d].handle
               /\ \A e \in ToolCalls :
                    toolCall'[e].pc = "create" /\ toolCall'[e].handle = toolCall'[d].handle
                    => e = d
    <3>1. CASE d = c
      BY <1>3, <1>5, <2>1, <2>2, <3>1
    <3>2. CASE d # c
      <4>1. toolCall'[d] = toolCall[d] /\ toolCall[d].pc = "create"
        BY <1>5, <2>3, <3>2
      <4> QED BY <1>3, <1>5, <2>2, <3>2, <4>1 DEF CommandInv, CreateInv
    <3> QED BY <3>1, <3>2
  <2> QED BY <1>1, <2>3 DEF CreateInv, HasStarted
<1>9. /\ \A d \in ToolCalls : toolCall'[d].pc \in {"register", "wait", "read", "check"} =>
           toolCall'[d] = toolCall[d]
      /\ \A d \in ToolCalls : toolCall[d].pc = "register" => toolCall'[d] = toolCall[d]
  BY <1>1, <1>5
<1>10. CallInv'
  BY <1>1, <1>9 DEF CommandInv, CallInv, Collecting, HasStarted
<1>11. TableInv'
  BY <1>1 DEF CommandInv, TableInv, HasStarted
<1>12. CareInv'
  <2>1. \A p \in ProcessIds : InCare(p) => InCare(p)'
    BY <1>1, <1>9 DEF InCare, IsRegistered, IsStarting
  <2> QED BY <1>1, <2>1 DEF CommandInv, CareInv
<1> QED BY <1>6, <1>7, <1>8, <1>10, <1>11, <1>12 DEF CommandInv

\* There is a command left for the call: its handle is one that no started
\* command has, so fewer than nextID commands have been started.
LEMMA NextCommand ==
  ASSUME CommandInv, NEW c \in ToolCalls, toolCall[c].pc = "create"
  PROVE  LET p == Cardinality({q \in ProcessIds : process[q].state # "unstarted"}) + 1
         IN  p \in ProcessIds /\ \A q \in ProcessIds : HasStarted(q) <=> q < p
<1> DEFINE h == toolCall[c].handle
<1> DEFINE s == {q \in ProcessIds : process[q].state # "unstarted"}
<1>1. PICK k \in Handles : \A q \in ProcessIds : HasStarted(q) <=> q <= k
  BY DEF CommandInv, StartedInv
<1>2. /\ k \in Nat /\ k <= MaxProcesses /\ MaxProcesses \in Nat /\ nextID \in Nat
      /\ nextID <= MaxProcesses /\ h \in 1 .. nextID
      /\ \A q \in ProcessIds : HasStarted(q) => process[q].handle # h
  BY <1>1, CommandTypes DEF CommandInv, CreateInv, Handles
<1>3. s = 1 .. k
  BY <1>1, <1>2 DEF HasStarted, ProcessIds
<1>4. IsFiniteSet(1 .. k) /\ Cardinality(1 .. k) = k
  BY <1>2, FS_Interval
<1>5. IsFiniteSet(1 .. nextID) /\ Cardinality(1 .. nextID) = nextID
  BY <1>2, FS_Interval
<1> DEFINE t == (1 .. nextID) \ {h}
<1>6. IsFiniteSet(t) /\ Cardinality(t) = nextID - 1
  BY <1>2, <1>5, FS_RemoveElement
<1> DEFINE f == [q \in 1 .. k |-> process[q].handle]
<1>7. f \in Injection(1 .. k, t)
  <2>1. \A q \in 1 .. k : q \in ProcessIds /\ HasStarted(q)
    BY <1>1, <1>2 DEF ProcessIds
  <2>2. \A q \in 1 .. k : process[q].handle \in t
    BY <1>2, <2>1 DEF CommandInv, StartedInv
  <2>3. \A q, u \in 1 .. k : process[q].handle = process[u].handle => q = u
    BY <2>1 DEF CommandInv, StartedInv
  <2> QED BY <2>2, <2>3 DEF Injection, IsInjective
<1>8. k <= nextID - 1
  <2> HIDE DEF f, t
  <2>1. Cardinality(1 .. k) <= Cardinality(t)
    BY <1>6, <1>7, FS_Injection
  <2> QED BY <1>4, <1>6, <2>1
<1>9. k + 1 \in ProcessIds /\ \A q \in ProcessIds : q < k + 1 <=> q <= k
  BY <1>2, <1>8 DEF ProcessIds
<1>10. Cardinality(s) = k
  BY <1>3, <1>4
<1> HIDE DEF s
<1> QED BY <1>1, <1>9, <1>10 DEF s

LEMMA StartCommandInv ==
  ASSUME CommandInv, NEW c \in ToolCalls, StartCommand(c)
  PROVE  CommandInv'
<1> DEFINE h == toolCall[c].handle
<1> DEFINE r == [Unstarted EXCEPT !.state = "running", !.output = "open", !.handle = h]
<1> DEFINE first == Cardinality({q \in ProcessIds : process[q].state # "unstarted"}) + 1
<1>0. PICK p \in ProcessIds : p = first /\ \A q \in ProcessIds : HasStarted(q) <=> q < p
  <2>1. toolCall[c].pc = "create"
    BY DEF StartCommand
  <2> QED BY <2>1, NextCommand
<1>1. /\ process' = [process EXCEPT ![p] = r] /\ toolCall[c].pc = "create"
      /\ toolCall' = [toolCall EXCEPT ![c].pc = "register", ![c].process = p]
      /\ UNCHANGED <<nextID, reserved, registered, managerClosed, closer, toClose>>
  BY <1>0 DEF StartCommand, procTables, closeVars
<1>2. p \in ProcessIds /\ \A q \in ProcessIds : HasStarted(q) <=> q < p
  BY <1>0
<1> HIDE DEF first
<1>3. /\ ProcessTypeOK /\ process \in [ProcessIds -> CommandRecords]
      /\ toolCall \in [ToolCalls -> CallRecords] /\ toolCall[c] \in CallRecords
      /\ MaxProcesses \in Nat /\ MaxOutput \in Nat /\ h \in Handles
  BY CommandTypes DEF CommandInv, CallRecords
<1>4. /\ h \in 1 .. nextID /\ ~HasStarted(p)
      /\ \A q \in ProcessIds : HasStarted(q) => process[q].handle # h
      /\ \A d \in ToolCalls : toolCall[d].pc = "create" /\ toolCall[d].handle = h => d = c
  BY <1>1, <1>2 DEF CommandInv, CreateInv, ProcessIds
<1> HIDE DEF h
<1>5. /\ r \in CommandRecords /\ r.state = "running" /\ r.handle = h
      /\ r.waited = FALSE /\ r.done = FALSE
  <2>1. 0 \in 0 .. MaxOutput /\ 0 \in Handles
    BY <1>3 DEF Handles
  <2>2. Unstarted \in CommandRecords /\ Unstarted.waited = FALSE /\ Unstarted.done = FALSE
    BY <2>1 DEF Unstarted, CommandRecords
  <2> QED BY <1>3, <2>2 DEF CommandRecords
<1> HIDE DEF r
<1>6. /\ process' \in [ProcessIds -> CommandRecords] /\ process'[p] = r
      /\ \A q \in ProcessIds : q # p => process'[q] = process[q]
  BY <1>1, <1>2, <1>3, <1>5
<1>7. /\ toolCall' \in [ToolCalls -> CallRecords] /\ toolCall'[c].pc = "register"
      /\ toolCall'[c].handle = h /\ toolCall'[c].process = p
      /\ \A d \in ToolCalls : d # c => toolCall'[d] = toolCall[d]
  BY <1>1, <1>2, <1>3 DEF CallRecords, h
<1>8. ProcessTypeOK'
  BY <1>1, <1>3, <1>6, <1>7 DEF ProcessTypeOK, CommandRecords, CallRecords
<1>9. \A q \in ProcessIds : HasStarted(q)' <=> HasStarted(q) \/ q = p
  BY <1>5, <1>6 DEF HasStarted
<1>10. StartedInv'
  <2>1. \A q \in ProcessIds : HasStarted(q)' <=> q <= p
    BY <1>2, <1>9 DEF ProcessIds
  <2>2. p \in Handles
    BY <1>2, <1>3 DEF Handles, ProcessIds
  <2>3. ASSUME NEW q \in ProcessIds, HasStarted(q)'
        PROVE  /\ process'[q].handle \in 1 .. nextID
               /\ \A u \in ProcessIds :
                    HasStarted(u)' /\ process'[u].handle = process'[q].handle => u = q
    <3>1. CASE q = p
      BY <1>4, <1>5, <1>6, <1>9, <3>1
    <3>2. CASE q # p
      BY <1>4, <1>5, <1>6, <1>9, <2>3, <3>2 DEF CommandInv, StartedInv
    <3> QED BY <3>1, <3>2
  <2> QED BY <1>1, <2>1, <2>2, <2>3 DEF StartedInv
<1>11. CreateInv'
  <2> SUFFICES ASSUME NEW d \in ToolCalls, toolCall'[d].pc = "create"
               PROVE  /\ toolCall'[d].handle \in 1 .. nextID
                      /\ \A q \in ProcessIds :
                           HasStarted(q)' => process'[q].handle # toolCall'[d].handle
                      /\ \A e \in ToolCalls :
                           /\ toolCall'[e].pc = "create"
                           /\ toolCall'[e].handle = toolCall'[d].handle
                           => e = d
    BY <1>1 DEF CreateInv
  <2>1. d # c /\ toolCall'[d] = toolCall[d] /\ toolCall[d].pc = "create"
    BY <1>7
  <2>2. toolCall[d].handle # h
    BY <1>4, <2>1
  <2>3. \A q \in ProcessIds : HasStarted(q)' => process'[q].handle # toolCall[d].handle
    BY <1>5, <1>6, <1>9, <2>1, <2>2 DEF CommandInv, CreateInv
  <2>4. \A e \in ToolCalls :
          toolCall'[e].pc = "create" => toolCall'[e] = toolCall[e]
    BY <1>7
  <2> QED BY <2>1, <2>3, <2>4 DEF CommandInv, CreateInv
<1>12. CallInv'
  <2>1. ASSUME NEW d \in ToolCalls, d # c, toolCall[d].pc = "register" \/ Collecting(d)
        PROVE  /\ toolCall[d].process \in ProcessIds /\ toolCall[d].process # p
               /\ HasStarted(toolCall[d].process)
    BY <1>4, <2>1 DEF CommandInv, CallInv
  <2>2. ASSUME NEW d \in ToolCalls, d # c
        PROVE  /\ toolCall'[d].pc = "register" \/ Collecting(d)' =>
                    /\ toolCall'[d].process \in ProcessIds
                    /\ process'[toolCall'[d].process].state # "unstarted"
                    /\ toolCall'[d].handle = process'[toolCall'[d].process].handle
               /\ Collecting(d)' => process'[toolCall'[d].process].waited
               /\ toolCall'[d].pc = "register" => ~process'[toolCall'[d].process].waited
    <3>1. toolCall'[d] = toolCall[d]
      BY <1>7, <2>2
    <3> QED BY <1>6, <2>1, <2>2, <3>1 DEF CommandInv, CallInv, Collecting, HasStarted
  <2>3. \A d \in ToolCalls : d # c /\ toolCall'[d].pc = "register" =>
           toolCall'[d].process # p
    BY <1>7, <2>1
  <2>4. \A d, e \in ToolCalls :
         /\ d # c /\ e # c /\ toolCall'[d].pc = "register" /\ toolCall'[e].pc = "register"
         /\ toolCall'[d].process = toolCall'[e].process
         => d = e
    BY <1>7 DEF CommandInv, CallInv
  <2> QED BY <1>2, <1>5, <1>6, <1>7, <2>2, <2>3, <2>4 DEF CallInv, Collecting, HasStarted
<1>13. TableInv'
  <2>1. ASSUME NEW entry \in registered
        PROVE  process'[entry[2]] = process[entry[2]] /\ entry[2] \in ProcessIds
    <3>1. entry[2] \in ProcessIds /\ HasStarted(entry[2])
      BY <1>3, CommandTypes DEF CommandInv, TableInv
    <3> QED BY <1>4, <1>6, <3>1
  <2> QED BY <1>1, <2>1 DEF CommandInv, TableInv, HasStarted
<1>14. CareInv'
  <2>1. InCare(p)'
    BY <1>7 DEF InCare, IsStarting
  <2>2. \A q \in ProcessIds : InCare(q) => InCare(q)'
    BY <1>1, <1>7 DEF InCare, IsRegistered, IsStarting
  <2> QED BY <1>5, <1>6, <2>1, <2>2 DEF CommandInv, CareInv
<1> QED BY <1>8, <1>10, <1>11, <1>12, <1>13, <1>14 DEF CommandInv

\* A step that leaves handles and starts alone: what holds of them still does.
LEMMA HandlesKept ==
  ASSUME CommandInv, nextID' = nextID,
         \A p \in ProcessIds :
           /\ process'[p].handle = process[p].handle
           /\ process'[p].state = process[p].state,
         \A c \in ToolCalls :
           toolCall'[c].pc = "create" => toolCall'[c] = toolCall[c]
  PROVE  StartedInv' /\ CreateInv' /\ \A p \in ProcessIds : HasStarted(p)' <=> HasStarted(p)
<1>1. \A p \in ProcessIds : HasStarted(p)' <=> HasStarted(p)
  BY DEF HasStarted
<1> QED BY <1>1 DEF CommandInv, StartedInv, CreateInv

LEMMA StartRegisterInv ==
  ASSUME CommandInv, NEW c \in ToolCalls, StartRegister(c)
  PROVE  CommandInv'
<1>0. PICK p \in ProcessIds :
        /\ p = toolCall[c].process /\ HasStarted(p) /\ toolCall[c].handle = process[p].handle
        /\ ~process[p].waited
        /\ \A d \in ToolCalls : toolCall[d].pc = "register" /\ toolCall[d].process = p => d = c
  BY DEF StartRegister, CommandInv, CallInv
<1>1. /\ registered' = registered \union {<<process[p].handle, p>>} /\ ~managerClosed
      /\ process' = [process EXCEPT ![p].waited = TRUE] /\ toolCall[c].pc = "register"
      /\ toolCall' = [toolCall EXCEPT ![c].pc = "wait"]
      /\ UNCHANGED <<nextID, reserved, managerClosed, closer, toClose>>
  BY <1>0 DEF StartRegister, closeVars
<1>2. /\ ProcessTypeOK /\ process \in [ProcessIds -> CommandRecords]
      /\ process[p] \in CommandRecords
      /\ toolCall \in [ToolCalls -> CallRecords] /\ toolCall[c] \in CallRecords
      /\ process[p].handle \in Handles
  BY CommandTypes DEF CommandInv, CommandRecords
<1>3. /\ process' \in [ProcessIds -> CommandRecords] /\ process'[p].waited
      /\ \A q \in ProcessIds : q # p => process'[q] = process[q]
      /\ \A q \in ProcessIds :
           /\ process'[q].handle = process[q].handle /\ process'[q].state = process[q].state
           /\ process'[q].done = process[q].done /\ process'[q].output = process[q].output
           /\ process'[q].killed = process[q].killed
  BY <1>1, <1>2 DEF CommandRecords
<1>4. /\ toolCall' \in [ToolCalls -> CallRecords] /\ toolCall'[c].pc = "wait"
      /\ toolCall'[c].handle = process[p].handle /\ toolCall'[c].process = p
      /\ \A d \in ToolCalls : d # c => toolCall'[d] = toolCall[d]
  BY <1>0, <1>1, <1>2 DEF CallRecords
<1>5. ProcessTypeOK'
  BY <1>1, <1>2, <1>3, <1>4 DEF ProcessTypeOK, CommandRecords, CallRecords
<1>6. StartedInv' /\ CreateInv' /\ \A q \in ProcessIds : HasStarted(q)' <=> HasStarted(q)
  <2>1. \A d \in ToolCalls : toolCall'[d].pc = "create" => toolCall'[d] = toolCall[d]
    BY <1>4
  <2> QED BY <1>1, <1>3, <2>1, HandlesKept
<1>7. CallInv'
  <2>1. ASSUME NEW d \in ToolCalls, d # c
        PROVE  /\ toolCall'[d].pc = "register" \/ Collecting(d)' =>
                    /\ toolCall'[d].process \in ProcessIds
                    /\ process'[toolCall'[d].process].state # "unstarted"
                    /\ toolCall'[d].handle = process'[toolCall'[d].process].handle
               /\ Collecting(d)' => process'[toolCall'[d].process].waited
               /\ toolCall'[d].pc = "register" => ~process'[toolCall'[d].process].waited
    <3>1. toolCall'[d] = toolCall[d]
      BY <1>4, <2>1
    <3>2. toolCall[d].pc = "register" => toolCall[d].process # p
      BY <1>0, <2>1
    <3> QED BY <1>3, <2>1, <3>1, <3>2 DEF CommandInv, CallInv, Collecting, HasStarted
  <2>2. \A d, e \in ToolCalls :
         /\ toolCall'[d].pc = "register" /\ toolCall'[e].pc = "register"
         /\ toolCall'[d].process = toolCall'[e].process
         => d = e
    BY <1>4 DEF CommandInv, CallInv
  <2>3. process'[p].state # "unstarted"
    BY <1>0, <1>3 DEF HasStarted
  <2> QED BY <1>3, <1>4, <2>1, <2>2, <2>3 DEF CallInv, Collecting, HasStarted
<1>8. TableInv'
  <2>1. ASSUME NEW entry \in registered'
        PROVE  /\ process'[entry[2]].state # "unstarted"
               /\ entry[1] = process'[entry[2]].handle /\ process'[entry[2]].waited
    <3>1. CASE entry = <<process[p].handle, p>>
      BY <1>0, <1>3, <3>1 DEF HasStarted
    <3>2. CASE entry \in registered
      <4>1. entry[2] \in ProcessIds
        BY <1>2, <3>2, CommandTypes
      <4> QED BY <1>3, <3>2, <4>1 DEF CommandInv, TableInv, HasStarted
    <3> QED BY <1>1, <3>1, <3>2
  <2> QED BY <1>1, <2>1 DEF CommandInv, TableInv, HasStarted
<1>9. CareInv'
  <2>1. ASSUME NEW q \in ProcessIds, InCare(q)
        PROVE  InCare(q)'
    <3>1. IsRegistered(q) => IsRegistered(q)'
      BY <1>1 DEF IsRegistered
    <3>2. IsRegistered(p)'
      <4>1. <<process[p].handle, p>> \in registered' /\ <<process[p].handle, p>>[2] = p
        BY <1>1
      <4> QED BY <4>1 DEF IsRegistered
    <3>3. q # p /\ IsStarting(q) => IsStarting(q)'
      BY <1>0, <1>4 DEF IsStarting
    <3> QED BY <1>1, <2>1, <3>1, <3>2, <3>3 DEF InCare
  <2> QED BY <1>3, <2>1 DEF CommandInv, CareInv
<1> QED BY <1>5, <1>6, <1>7, <1>8, <1>9 DEF CommandInv

\* A step that ends with command p, which has no transcript afterwards and is
\* killed or has exited, and leaves the others alone; calls only return.
LEMMA CommandLeft ==
  ASSUME CommandInv, NEW p \in ProcessIds, ProcessTypeOK', nextID' = nextID,
         UNCHANGED <<managerClosed, closer>>, registered' \subseteq registered,
         \A entry \in registered \ registered' : entry[2] = p,
         toClose' \subseteq toClose, toClose \ toClose' \subseteq {p},
         process'[p].handle = process[p].handle, process'[p].state = process[p].state,
         process'[p].waited = process[p].waited, process'[p].done = process[p].done,
         process'[p].output # "open",
         process'[p].state = "running" => process'[p].killed,
         \A q \in ProcessIds : q # p => process'[q] = process[q],
         \A c \in ToolCalls :
           \/ toolCall'[c] = toolCall[c]
           \/ /\ toolCall'[c].pc = "idle"
              /\ toolCall[c].pc = "register" => toolCall[c].process = p
  PROVE  CommandInv'
<1>1. /\ \A q \in ProcessIds :
           /\ process'[q].handle = process[q].handle /\ process'[q].state = process[q].state
           /\ process'[q].waited = process[q].waited /\ process'[q].done = process[q].done
      /\ \A c \in ToolCalls :
           toolCall'[c].pc # "idle" => toolCall'[c] = toolCall[c]
  OBVIOUS
<1>2. StartedInv' /\ CreateInv' /\ \A q \in ProcessIds : HasStarted(q)' <=> HasStarted(q)
  BY <1>1, HandlesKept
<1>3. CallInv'
  BY <1>1 DEF CommandInv, CallInv, Collecting, HasStarted
<1>4. TableInv'
  <2>1. \A entry \in registered : entry[2] \in ProcessIds
    BY CommandTypes DEF CommandInv
  <2> QED BY <1>1, <2>1 DEF CommandInv, TableInv, HasStarted
<1>5. CareInv'
  <2>1. ASSUME NEW q \in ProcessIds, q # p, InCare(q)
        PROVE  InCare(q)'
    BY <2>1 DEF InCare, IsRegistered, IsStarting
  <2> QED BY <1>1, <2>1 DEF CommandInv, CareInv
<1> QED BY <1>2, <1>3, <1>4, <1>5 DEF CommandInv

LEMMA StartTooLateInv ==
  ASSUME CommandInv, NEW c \in ToolCalls, StartTooLate(c)
  PROVE  CommandInv'
<1>0. PICK p \in ProcessIds : p = toolCall[c].process
  BY DEF StartTooLate, CommandInv, CallInv
<1>1. /\ process' = [process EXCEPT ![p].killed = TRUE, ![p].output = "removed"]
      /\ registered = {} /\ registered' = {} /\ reserved' \subseteq reserved
      /\ toolCall' = [toolCall EXCEPT ![c] = IdleCall]
      /\ UNCHANGED <<nextID, managerClosed, closer, toClose>>
  BY <1>0 DEF StartTooLate, ReleaseHandle, closeVars, CommandInv, TableInv
<1>2. /\ ProcessTypeOK /\ process \in [ProcessIds -> CommandRecords]
      /\ process[p] \in CommandRecords /\ toolCall \in [ToolCalls -> CallRecords]
  BY CommandTypes DEF CommandInv
<1>3. IdleCall \in CallRecords /\ IdleCall.pc = "idle"
  BY ProcessAssumption DEF IdleCall, CallRecords, Handles, NoProcess
<1>4. /\ process' \in [ProcessIds -> CommandRecords] /\ process'[p].killed
      /\ process'[p].output = "removed" /\ process'[p].handle = process[p].handle
      /\ process'[p].state = process[p].state /\ process'[p].waited = process[p].waited
      /\ process'[p].done = process[p].done
      /\ \A q \in ProcessIds : q # p => process'[q] = process[q]
  BY <1>1, <1>2 DEF CommandRecords
<1>5. /\ toolCall' \in [ToolCalls -> CallRecords] /\ toolCall'[c].pc = "idle"
      /\ \A d \in ToolCalls : d # c => toolCall'[d] = toolCall[d]
  BY <1>1, <1>2, <1>3
<1>6. ProcessTypeOK'
  BY <1>1, <1>2, <1>4, <1>5 DEF ProcessTypeOK, CommandRecords, CallRecords
<1> QED BY <1>0, <1>1, <1>4, <1>5, <1>6, CommandLeft

LEMMA CollectReplyInv ==
  ASSUME CommandInv, NEW c \in ToolCalls, CollectReply(c)
  PROVE  CommandInv'
<1>0. PICK p \in ProcessIds : p = toolCall[c].process /\ HasStarted(p)
  BY DEF CollectReply, CommandInv, CallInv, Collecting
<1>1. /\ toolCall' = [toolCall EXCEPT ![c] = IdleCall] /\ toolCall[c].pc = "check"
      /\ UNCHANGED <<nextID, managerClosed, closer, toClose>>
  BY DEF CollectReply, closeVars
<1>2. /\ ProcessTypeOK /\ process \in [ProcessIds -> CommandRecords]
      /\ process[p] \in CommandRecords /\ toolCall \in [ToolCalls -> CallRecords]
      /\ \A q \in ProcessIds : process[q].done => process[q].state = "exited"
      /\ managerClosed <=> closer \in {"closing", "closed"}
      /\ closer # "closing" => toClose = {}
  BY CommandTypes DEF CommandInv, CareInv, TableInv
<1>3. IdleCall \in CallRecords /\ IdleCall.pc = "idle"
  BY ProcessAssumption DEF IdleCall, CallRecords, Handles, NoProcess
<1>4. /\ toolCall' \in [ToolCalls -> CallRecords] /\ toolCall'[c].pc = "idle"
      /\ \A d \in ToolCalls : d # c => toolCall'[d] = toolCall[d]
  BY <1>1, <1>2, <1>3
<1>5. CASE process[p].done /\ ~toolCall[c].hasMore
  <2>1. /\ registered' = {entry \in registered : entry[1] # process[p].handle}
        /\ reserved' = reserved \ {process[p].handle}
        /\ process' = [process EXCEPT ![p].output = "removed"]
    BY <1>0, <1>5 DEF CollectReply, ReleaseHandle
  <2>2. /\ process' \in [ProcessIds -> CommandRecords]
        /\ process'[p].output = "removed" /\ process'[p].handle = process[p].handle
        /\ process'[p].state = process[p].state /\ process'[p].waited = process[p].waited
        /\ process'[p].done = process[p].done
        /\ \A q \in ProcessIds : q # p => process'[q] = process[q]
    BY <1>2, <2>1 DEF CommandRecords
  <2>3. ASSUME NEW entry \in registered \ registered'
        PROVE  entry[2] = p
    <3>1. entry[1] = process[p].handle /\ entry[2] \in ProcessIds
      BY <1>2, <2>1, CommandTypes
    <3> QED BY <1>0, <3>1 DEF CommandInv, TableInv, StartedInv
  <2>4. process[p].state # "running"
    BY <1>2, <1>5
  <2>5. ProcessTypeOK'
    BY <1>1, <1>2, <1>4, <2>1, <2>2 DEF ProcessTypeOK, CommandRecords, CallRecords
  <2>6. registered' \subseteq registered
    BY <2>1
  <2> QED BY <1>1, <1>4, <2>2, <2>3, <2>4, <2>5, <2>6, CommandLeft
<1>6. CASE ~(process[p].done /\ ~toolCall[c].hasMore)
  <2>1. UNCHANGED <<registered, reserved, process>>
    BY <1>0, <1>6 DEF CollectReply
  <2>2. ProcessTypeOK'
    BY <1>1, <1>2, <1>4, <2>1 DEF ProcessTypeOK, CallRecords
  <2>3. \A d \in ToolCalls : \/ toolCall'[d] = toolCall[d]
                             \/ toolCall[d].pc # "register" /\ toolCall'[d].pc = "idle"
    BY <1>1, <1>4
  <2> QED BY <1>1, <1>2, <2>1, <2>2, <2>3, CommandsKept
<1> QED BY <1>5, <1>6

LEMMA CloseCleanupInv ==
  ASSUME CommandInv, CloseCleanup
  PROVE  CommandInv'
<1>1. PICK p \in toClose :
        /\ process[p].killed /\ process[p].done
        /\ process' = [process EXCEPT ![p].output = "removed"] /\ toClose' = toClose \ {p}
  BY DEF CloseCleanup
<1>2. UNCHANGED <<nextID, registered, reserved, managerClosed, closer, toolCall>>
  BY DEF CloseCleanup, procTables
<1>3. /\ ProcessTypeOK /\ process \in [ProcessIds -> CommandRecords] /\ p \in ProcessIds
      /\ process[p] \in CommandRecords
  BY CommandTypes DEF CommandInv
<1>4. /\ process' \in [ProcessIds -> CommandRecords] /\ process'[p].killed
      /\ process'[p].output = "removed" /\ process'[p].handle = process[p].handle
      /\ process'[p].state = process[p].state /\ process'[p].waited = process[p].waited
      /\ process'[p].done = process[p].done
      /\ \A q \in ProcessIds : q # p => process'[q] = process[q]
  BY <1>1, <1>3 DEF CommandRecords
<1>5. ProcessTypeOK'
  BY <1>1, <1>2, <1>3, <1>4 DEF ProcessTypeOK, CommandRecords
<1> QED BY <1>1, <1>2, <1>3, <1>4, <1>5, CommandLeft

LEMMA CloseTablesInv ==
  ASSUME CommandInv, CloseTables
  PROVE  CommandInv'
<1>1. /\ managerClosed' = TRUE /\ closer' = "closing" /\ closer = "cancelled"
      /\ toClose' = {entry[2] : entry \in registered} /\ registered' = {} /\ reserved' = {}
      /\ UNCHANGED <<nextID, process, toolCall>>
  BY DEF CloseTables
<1>2. ProcessTypeOK /\ \A entry \in registered : entry[2] \in ProcessIds
  BY CommandTypes DEF CommandInv
<1>3. ProcessTypeOK'
  BY <1>1, <1>2 DEF ProcessTypeOK
<1>4. StartedInv' /\ CreateInv'
  BY <1>1, HandlesKept
<1>5. CallInv'
  BY <1>1 DEF CommandInv, CallInv, Collecting, HasStarted
<1>6. TableInv'
  BY <1>1 DEF TableInv
<1>7. CareInv'
  <2>1. toClose = {}
    BY <1>1 DEF CommandInv, TableInv
  <2>2. \A q \in ProcessIds : InCare(q) => InCare(q)'
    BY <1>1, <2>1 DEF InCare, IsRegistered, IsStarting
  <2> QED BY <1>1, <2>2 DEF CommandInv, CareInv
<1> QED BY <1>3, <1>4, <1>5, <1>6, <1>7 DEF CommandInv

LEMMA CommandsLeaveNothing ==
  ASSUME CommandInv
  PROVE  NothingIsLeftBehind
<1>1. TranscriptsAreReclaimed
  BY DEF CommandInv, CareInv, InCare, IsRegistered, IsStarting, TranscriptsAreReclaimed
<1>2. ASSUME NEW a \in registered, NEW b \in registered, a[1] = b[1]
      PROVE  a = b
  <2>1. /\ a[2] \in ProcessIds /\ b[2] \in ProcessIds
        /\ a = <<a[1], a[2]>> /\ b = <<b[1], b[2]>>
    BY CommandTypes DEF CommandInv
  <2>2. /\ HasStarted(a[2]) /\ HasStarted(b[2])
        /\ process[a[2]].handle = process[b[2]].handle
    BY <1>2 DEF CommandInv, TableInv
  <2>3. a[2] = b[2]
    BY <2>1, <2>2 DEF CommandInv, StartedInv
  <2> QED BY <1>2, <2>1, <2>3
<1>3. ASSUME NEW c \in ToolCalls, toolCall[c].pc \in {"create", "register"},
             NEW other \in ToolCalls \ {c}, toolCall[other].pc # "idle"
      PROVE  toolCall[other].handle # toolCall[c].handle
  <2>0. toolCall[other].pc \in {"create", "register"} \/ Collecting(other)
    <3>1. toolCall[other] \in CallRecords
      BY CommandTypes DEF CommandInv
    <3> QED BY <1>3, <3>1 DEF CallRecords, Collecting
  <2>1. CASE toolCall[c].pc = "create" /\ toolCall[other].pc = "create"
    BY <2>1 DEF CommandInv, CreateInv
  <2>2. CASE toolCall[c].pc = "create" /\ toolCall[other].pc # "create"
    BY <2>0, <2>2 DEF CommandInv, CreateInv, CallInv
  <2>3. CASE toolCall[c].pc = "register" /\ toolCall[other].pc = "create"
    BY <2>3 DEF CommandInv, CreateInv, CallInv
  <2>4. CASE toolCall[c].pc = "register" /\ toolCall[other].pc # "create"
    <3> DEFINE p == toolCall[c].process
    <3> DEFINE q == toolCall[other].process
    <3>1. /\ p \in ProcessIds /\ HasStarted(p) /\ toolCall[c].handle = process[p].handle
          /\ q \in ProcessIds /\ HasStarted(q) /\ toolCall[other].handle = process[q].handle
      BY <2>0, <2>4 DEF CommandInv, CallInv
    <3>2. p # q
      BY <2>0, <2>4 DEF CommandInv, CallInv
    <3> QED BY <3>1, <3>2 DEF CommandInv, StartedInv
  <2> QED BY <1>3, <2>1, <2>2, <2>3, <2>4
<1>4. HandlesAreUnique
  BY <1>2, <1>3 DEF HandlesAreUnique
<1>5. ClosedRuntimeRunsNothing
  <2> SUFFICES ASSUME closer = "closed"
               PROVE  /\ registered = {}
                      /\ \A p \in ProcessIds :
                           process[p].state = "running" => process[p].killed \/ IsStarting(p)
    BY DEF ClosedRuntimeRunsNothing, IsStarting
  <2>1. registered = {} /\ toClose = {}
    BY DEF CommandInv, TableInv
  <2> QED BY <2>1 DEF CommandInv, CareInv, InCare, IsRegistered
<1> QED BY <1>1, <1>4, <1>5 DEF NothingIsLeftBehind

LEMMA CommandStep ==
  ASSUME CommandInv, [ProcessNext]_processVars
  PROVE  CommandInv'
<1>1. CASE UNCHANGED processVars
  <2>1. /\ UNCHANGED <<registered, managerClosed, toClose, nextID, closer, process, toolCall>>
        /\ UNCHANGED reserved
    BY <1>1 DEF processVars, procTables, closeVars
  <2>2. /\ ProcessTypeOK'
        /\ \A p \in ProcessIds : process[p].done => process[p].state = "exited"
        /\ managerClosed <=> closer \in {"closing", "closed"}
        /\ closer # "closing" => toClose = {}
    BY <2>1 DEF CommandInv, ProcessTypeOK, CareInv, TableInv
  <2> QED BY <2>1, <2>2, CommandsKept
<1>2. ASSUME NEW c \in ToolCalls,
             \/ StartReserve(c) \/ StartCommand(c) \/ StartFailed(c)
             \/ StartRegister(c) \/ StartTooLate(c) \/ WriteStdin(c)
             \/ CollectDone(c) \/ CollectNotified(c) \/ CollectTimer(c)
             \/ CollectCancelled(c) \/ CollectRead(c) \/ CollectReply(c)
      PROVE  CommandInv'
  BY <1>2, StartReserveInv, StartCommandInv, StartRegisterInv, StartTooLateInv,
     CallsReturn, CollectsPage, CollectReplyInv
<1>3. ASSUME NEW p \in ProcessIds,
             ProcessWrites(p) \/ ProcessExits(p) \/ ProcessWaited(p)
      PROVE  CommandInv'
  BY <1>3, CommandMoves
<1>4. CASE ProcessClose
  BY <1>4, CloseMoves, CloseTablesInv, CloseCleanupInv DEF ProcessClose
<1> QED BY <1>1, <1>2, <1>3, <1>4 DEF ProcessNext

\* The tables of the manager, its processes and the tool calls have their type,
\* for any number of calls and processes and pages of any size
\* (background.Manager).
THEOREM ProcessTypeCorrect == ProcessSpec => []ProcessTypeOK
<1>1. CommandInv /\ [ProcessNext]_processVars => CommandInv'
  BY CommandStep
<1>2. CommandInv => ProcessTypeOK
  BY DEF CommandInv
<1> QED BY <1>1, <1>2, CommandInitInv, PTL DEF ProcessSpec

\* However many commands, calls and pages there are, and in whatever order
\* starts, pages, exits and Close come: every transcript has somebody who will
\* remove it, a handle designates one command, and a closed runtime runs nothing
\* that was not killed or is about to be.
THEOREM NothingIsLeftBehindCorrect == ProcessSpec => []NothingIsLeftBehind
<1>1. CommandInv /\ [ProcessNext]_processVars => CommandInv'
  BY CommandStep
<1> QED BY <1>1, CommandInitInv, CommandsLeaveNothing, PTL DEF ProcessSpec

-----------------------------------------------------------------------------
(* The surface of an agent.                                                *)

SurfaceRecords ==
  [epoch : Nat, header : Headers \union {NoHeader}, messages : Seq(Messages),
   lastSession : 0 .. MaxRequests, lastSnapshot : Snapshots \union {NoSnapshot}]

RunRecords ==
  [pc : {"idle", "locked", "before", "model", "after"}, surface : SurfaceRecords,
   messages : Seq(Messages), header : Headers \union {NoHeader},
   snapshot : Snapshots \union {NoSnapshot}, attempt : Nat]

SurfaceTypes ==
  /\ surfaceHead \in SurfaceRecords /\ request \in 1 .. MaxRequests
  /\ agentRun \in [AgentRuns -> RunRecords]

\* Until something is compacted, the messages hold no request twice and none
\* after `session', that one if there is one, and `snapshot' after the others.
ExactTail(m, session, snapshot) ==
  ~Contains(m, Brief) =>
    /\ \A s \in 1 .. MaxRequests : \A i, j \in DOMAIN m :
         m[i] = UserMessage(s) /\ m[j] = UserMessage(s) => i = j
    /\ \A s \in 1 .. MaxRequests : \A i \in DOMAIN m : m[i] = UserMessage(s) => s <= session
    /\ session > 0 => \E i \in DOMAIN m : m[i] = UserMessage(session)
    /\ snapshot \in Snapshots =>
         \E i \in DOMAIN m :
           /\ m[i] = SnapshotMessage(snapshot)
           /\ \A j \in DOMAIN m : j > i => m[j][1] # "snapshot"

\* Only the holder of the surface's lock is under way.
LockHeld == \A w \in AgentRuns : agentRun[w].pc # "idle" => surfaceLock = w

HeadInv ==
  /\ surfaceHead.lastSession <= request
  /\ surfaceHead.epoch > 0 =>
       /\ surfaceHead.header \in Headers /\ surfaceHead.lastSnapshot \in Snapshots
       /\ <<surfaceHead.epoch, surfaceHead.header>> \in epochsStarted
  /\ ExactTail(surfaceHead.messages, surfaceHead.lastSession, surfaceHead.lastSnapshot)

\* What a goroutine holds in memory between its load and its last save.
RunInv(w) ==
  LET run == agentRun[w] IN
  /\ run.pc \in {"before", "model", "after"} =>
       run.header \in Headers /\ run.snapshot \in Snapshots
  /\ run.pc = "before" => run.surface = surfaceHead
  /\ run.pc \in {"before", "model"} => ExactTail(run.messages, request, run.snapshot)
  /\ run.pc = "model" =>
       /\ run.surface.messages = surfaceHead.messages
       /\ run.surface.epoch = EpochAfter(surfaceHead, run.header, run.messages)
       /\ run.surface.header = run.header
       /\ <<run.surface.epoch, run.header>> \in epochsStarted
  /\ run.pc = "after" =>
       /\ run.surface = surfaceHead /\ run.messages = surfaceHead.messages
       /\ surfaceHead.lastSession = request /\ surfaceHead.lastSnapshot = run.snapshot

SurfaceInv ==
  /\ SurfaceTypes /\ LockHeld /\ HeadInv
  /\ \A w \in AgentRuns : RunInv(w)

LEMMA MessageTags ==
  /\ \A s \in 1 .. MaxRequests : UserMessage(s) \in Messages /\ UserMessage(s)[1] = "user"
                                 /\ UserMessage(s)[2] = s
  /\ \A d \in Snapshots : SnapshotMessage(d) \in Messages /\ SnapshotMessage(d)[1] = "snapshot"
  /\ \A w \in AgentRuns : AnswerOf(w) \in Messages /\ AnswerOf(w)[1] = "answer"
  /\ Brief \in Messages /\ Correction \in Messages /\ ToolResults \in Messages
  /\ Brief[1] = "brief" /\ Correction[1] = "correction" /\ ToolResults[1] = "tool results"
BY DEF Messages, UserMessage, SnapshotMessage, AnswerOf, Brief, Correction, ToolResults

\* A message that is added keeps the tail exact: the next request, another
\* snapshot, or what is neither.
LEMMA ExactAppend ==
  ASSUME NEW m \in Seq(Messages), NEW x \in Messages,
         NEW s0 \in 0 .. MaxRequests, NEW s1 \in 0 .. MaxRequests, NEW d0, NEW d1,
         ExactTail(m, s0, d0),
         \/ x = UserMessage(s1) /\ s0 < s1 /\ d1 = d0
         \/ x = SnapshotMessage(d1) /\ d1 \in Snapshots /\ s1 = s0
         \/ x[1] \notin {"user", "snapshot"} /\ s1 = s0 /\ d1 = d0
  PROVE  ExactTail(Append(m, x), s1, d1)
<1> DEFINE n == Append(m, x)
<1>1. /\ Len(m) \in Nat /\ DOMAIN m = 1 .. Len(m) /\ DOMAIN n = 1 .. (Len(m) + 1)
      /\ Len(n) = Len(m) + 1
      /\ n[Len(m) + 1] = x /\ \A i \in 1 .. Len(m) : n[i] = m[i]
      /\ MaxRequests \in Nat
  BY SurfaceAssumption
<1> HIDE DEF n
<1>2. SUFFICES ASSUME ~Contains(n, Brief)
               PROVE  ExactTail(n, s1, d1)
  BY DEF ExactTail, n
<1>3. ~Contains(m, Brief)
  BY <1>1, <1>2 DEF Contains
<1>4. /\ \A s \in 1 .. MaxRequests : x = UserMessage(s) => x[1] = "user" /\ x[2] = s
      /\ d1 \in Snapshots => SnapshotMessage(d1)[1] = "snapshot"
  BY MessageTags
<1>5. ASSUME NEW s \in 1 .. MaxRequests, NEW i \in DOMAIN n, n[i] = UserMessage(s)
      PROVE  s <= s1 /\ (i = Len(m) + 1 => s > s0)
  <2>1. CASE i = Len(m) + 1
    <3>1. x = UserMessage(s) /\ x[1] = "user" /\ x[2] = s
      BY <1>1, <1>4, <1>5, <2>1
    <3>2. x = UserMessage(s1) /\ s0 < s1 /\ s1 \in 1 .. MaxRequests
      BY <1>1, <1>4, <3>1
    <3> QED BY <1>1, <1>4, <3>1, <3>2
  <2>2. CASE i # Len(m) + 1
    <3>1. i \in DOMAIN m /\ m[i] = UserMessage(s)
      BY <1>1, <1>5, <2>2
    <3>2. s <= s0 /\ s0 <= s1
      BY <1>3, <3>1 DEF ExactTail
    <3> QED BY <1>1, <2>2, <3>2
  <2> QED BY <2>1, <2>2
<1>6. ASSUME NEW s \in 1 .. MaxRequests, NEW i \in DOMAIN n, NEW j \in DOMAIN n,
             n[i] = UserMessage(s), n[j] = UserMessage(s)
      PROVE  i = j
  <2>1. CASE i \in DOMAIN m /\ j \in DOMAIN m
    BY <1>1, <1>3, <1>6, <2>1 DEF ExactTail
  <2>2. CASE i \in DOMAIN m /\ j = Len(m) + 1
    <3>1. m[i] = UserMessage(s)
      BY <1>1, <1>6, <2>2
    <3>2. s <= s0 /\ s > s0
      BY <1>3, <1>5, <1>6, <2>2, <3>1 DEF ExactTail
    <3> QED BY <1>1, <3>2
  <2>3. CASE j \in DOMAIN m /\ i = Len(m) + 1
    <3>1. m[j] = UserMessage(s)
      BY <1>1, <1>6, <2>3
    <3>2. s <= s0 /\ s > s0
      BY <1>3, <1>5, <1>6, <2>3, <3>1 DEF ExactTail
    <3> QED BY <1>1, <3>2
  <2> QED BY <1>1, <2>1, <2>2, <2>3
<1>7. s1 > 0 => \E i \in DOMAIN n : n[i] = UserMessage(s1)
  <2>1. CASE x = UserMessage(s1)
    BY <1>1, <2>1
  <2>2. CASE s1 = s0
    BY <1>1, <1>3, <2>2 DEF ExactTail
  <2> QED BY <2>1, <2>2
<1>8. d1 \in Snapshots =>
        \E i \in DOMAIN n :
          /\ n[i] = SnapshotMessage(d1)
          /\ \A j \in DOMAIN n : j > i => n[j][1] # "snapshot"
  <2>1. CASE x = SnapshotMessage(d1) /\ d1 \in Snapshots
    <3>1. /\ Len(m) + 1 \in DOMAIN n /\ n[Len(m) + 1] = SnapshotMessage(d1)
          /\ \A j \in DOMAIN n : ~(j > Len(m) + 1)
      BY <1>1, <2>1
    <3> QED BY <3>1
  <2>2. CASE x[1] # "snapshot" /\ d1 = d0 /\ d1 \in Snapshots
    <3>1. PICK i \in DOMAIN m :
            /\ m[i] = SnapshotMessage(d1)
            /\ \A j \in DOMAIN m : j > i => m[j][1] # "snapshot"
      BY <1>3, <2>2 DEF ExactTail
    <3>2. i \in DOMAIN n /\ n[i] = SnapshotMessage(d1)
      BY <1>1, <3>1
    <3>3. ASSUME NEW j \in DOMAIN n, j > i
          PROVE  n[j][1] # "snapshot"
      BY <1>1, <2>2, <3>1, <3>3
    <3> QED BY <3>2, <3>3
  <2>3. x = UserMessage(s1) /\ s0 < s1 => x[1] = "user"
    BY <1>1, <1>4
  <2> QED BY <2>1, <2>2, <2>3
<1> QED BY <1>5, <1>6, <1>7, <1>8 DEF ExactTail

\* Answers and other traffic leave the requests and the snapshots alone.
LEMMA ExactOther ==
  ASSUME NEW m \in Seq(Messages), NEW session \in 1 .. MaxRequests, NEW snapshot,
         ExactTail(m, session, snapshot),
         NEW x, \/ x \in {Correction, ToolResults}
                \/ \E w \in AgentRuns : x = AnswerOf(w)
  PROVE  Append(m, x) \in Seq(Messages) /\ ExactTail(Append(m, x), session, snapshot)
<1>1. x \in Messages /\ x[1] \in {"answer", "correction", "tool results"}
  BY MessageTags
<1>2. x[1] \notin {"user", "snapshot"}
  BY <1>1
<1>3. session \in 0 .. MaxRequests
  BY SurfaceAssumption
<1>4. ExactTail(Append(m, x), session, snapshot)
  BY <1>1, <1>2, <1>3, ExactAppend
<1>5. Append(m, x) \in Seq(Messages)
  BY <1>1, AppendProperties, Zenon
<1> QED BY <1>4, <1>5

\* A request is prepared once, and a snapshot shown when it changed.
LEMMA ExactPrepared ==
  ASSUME NEW surface \in SurfaceRecords, NEW session \in 1 .. MaxRequests,
         NEW snapshot \in Snapshots, surface.lastSession <= session,
         ExactTail(surface.messages, surface.lastSession, surface.lastSnapshot)
  PROVE  /\ Prepared(surface, session, snapshot) \in Seq(Messages)
         /\ ExactTail(Prepared(surface, session, snapshot), session, snapshot)
         /\ surface.lastSession = session /\ surface.lastSnapshot = snapshot
              => Prepared(surface, session, snapshot) = surface.messages
<1> DEFINE m == surface.messages
           u == IF surface.lastSession # session THEN Append(m, UserMessage(session)) ELSE m
           d == IF surface.lastSnapshot # snapshot THEN Append(u, SnapshotMessage(snapshot))
                                                   ELSE u
<1>1. /\ m \in Seq(Messages) /\ surface.lastSession \in 0 .. MaxRequests
      /\ UserMessage(session) \in Messages /\ SnapshotMessage(snapshot) \in Messages
      /\ MaxRequests \in Nat
  BY MessageTags, SurfaceAssumption DEF SurfaceRecords
<1>2. u \in Seq(Messages) /\ d \in Seq(Messages)
  BY <1>1
<1>3. Prepared(surface, session, snapshot) = d
  <2>1. u = m \o (IF surface.lastSession # session THEN <<UserMessage(session)>> ELSE <<>>)
    BY <1>1, AppendIsConcat, ConcatEmptySeq
  <2> HIDE DEF u
  <2>2. d = u \o (IF surface.lastSnapshot # snapshot THEN <<SnapshotMessage(snapshot)>>
                                                     ELSE <<>>)
    BY <1>1, <1>2, AppendIsConcat, ConcatEmptySeq
  <2> QED BY <2>1, <2>2 DEF Prepared
<1>4. ExactTail(u, session, surface.lastSnapshot)
  <2>1. CASE surface.lastSession # session
    <3>1. surface.lastSession < session /\ session \in 0 .. MaxRequests
      BY <1>1, <2>1
    <3>2. ExactTail(Append(m, UserMessage(session)), session, surface.lastSnapshot)
      BY <1>1, <3>1, ExactAppend
    <3> QED BY <2>1, <3>2
  <2>2. CASE surface.lastSession = session
    BY <2>2
  <2> QED BY <2>1, <2>2
<1>5. ExactTail(d, session, snapshot)
  <2> HIDE DEF u
  <2>1. CASE surface.lastSnapshot # snapshot
    <3>1. session \in 0 .. MaxRequests
      BY <1>1
    <3>2. ExactTail(Append(u, SnapshotMessage(snapshot)), session, snapshot)
      BY <1>1, <1>2, <1>4, <3>1, ExactAppend
    <3> QED BY <2>1, <3>2
  <2>2. CASE surface.lastSnapshot = snapshot
    BY <1>4, <2>2
  <2> QED BY <2>1, <2>2
<1> QED BY <1>2, <1>3, <1>5

LEMMA IdleRuns == IdleRun \in RunRecords /\ IdleRun.pc = "idle"
<1>1. <<>> \in Seq(Messages) /\ 0 \in 0 .. MaxRequests
  BY SurfaceAssumption
<1>2. FreshSurface \in SurfaceRecords
  BY <1>1 DEF FreshSurface, SurfaceRecords
<1> QED BY <1>1, <1>2 DEF IdleRun, RunRecords

LEMMA SurfaceInitInv == ASSUME SurfaceInit PROVE SurfaceInv
<1>1. <<>> \in Seq(Messages) /\ DOMAIN <<>> = {} /\ 1 \in 1 .. MaxRequests
      /\ 0 \in 0 .. MaxRequests /\ MaxRequests \in Nat
  BY SurfaceAssumption
<1>2. FreshSurface \in SurfaceRecords
  BY <1>1 DEF FreshSurface, SurfaceRecords
<1>3. SurfaceTypes
  BY <1>1, <1>2, IdleRuns DEF SurfaceInit, SurfaceTypes
<1>4. ExactTail(<<>>, 0, NoSnapshot)
  BY <1>1, SurfaceAssumption DEF ExactTail
<1>5. HeadInv
  BY <1>1, <1>4 DEF SurfaceInit, HeadInv, FreshSurface
<1>6. \A w \in AgentRuns : agentRun[w].pc = "idle"
  BY IdleRuns DEF SurfaceInit
<1>7. LockHeld /\ \A w \in AgentRuns : RunInv(w)
  BY <1>6 DEF LockHeld, RunInv
<1> QED BY <1>3, <1>5, <1>7 DEF SurfaceInv

\* While a goroutine is under way the others are idle: its steps are all that
\* happens to the surface.
LEMMA HolderSteps ==
  ASSUME SurfaceInv, NEW w \in AgentRuns, agentRun[w].pc # "idle",
         surfaceLock' = surfaceLock, request' = request,
         surfaceHead' \in SurfaceRecords, HeadInv', RunInv(w)',
         NEW r \in RunRecords, agentRun' = [agentRun EXCEPT ![w] = r]
  PROVE  SurfaceInv'
<1>1. agentRun \in [AgentRuns -> RunRecords] /\ request \in 1 .. MaxRequests
  BY DEF SurfaceInv, SurfaceTypes
<1>2. agentRun' \in [AgentRuns -> RunRecords]
      /\ \A v \in AgentRuns : v # w => agentRun'[v] = agentRun[v]
  BY <1>1
<1>3. \A v \in AgentRuns : v # w => agentRun'[v].pc = "idle"
  BY <1>2 DEF SurfaceInv, LockHeld
<1>4. surfaceLock' = w
  BY DEF SurfaceInv, LockHeld
<1>5. LockHeld' /\ \A v \in AgentRuns : RunInv(v)'
  BY <1>3, <1>4 DEF LockHeld, RunInv
<1> QED BY <1>1, <1>2, <1>5 DEF SurfaceInv, SurfaceTypes

LEMMA RunLockInv ==
  ASSUME SurfaceInv, NEW w \in AgentRuns, RunLock(w)
  PROVE  SurfaceInv'
<1>1. /\ surfaceHead' = surfaceHead /\ epochsStarted' = epochsStarted /\ request' = request
      /\ surfaceLock = NoHolder /\ surfaceLock' = w
      /\ agentRun' = [agentRun EXCEPT ![w].pc = "locked"]
  BY DEF RunLock
<1>2. agentRun \in [AgentRuns -> RunRecords] /\ agentRun[w] \in RunRecords
  BY DEF SurfaceInv, SurfaceTypes
<1>3. /\ agentRun' \in [AgentRuns -> RunRecords] /\ agentRun'[w].pc = "locked"
      /\ \A v \in AgentRuns : v # w => agentRun'[v] = agentRun[v]
  BY <1>1, <1>2 DEF RunRecords
<1>4. \A v \in AgentRuns : v # w => agentRun'[v].pc = "idle"
  BY <1>1, <1>3, SurfaceAssumption DEF SurfaceInv, LockHeld
<1>5. LockHeld' /\ \A v \in AgentRuns : RunInv(v)'
  BY <1>1, <1>3, <1>4 DEF LockHeld, RunInv
<1> QED BY <1>1, <1>3, <1>5 DEF SurfaceInv, SurfaceTypes, HeadInv

LEMMA RunPrepareInv ==
  ASSUME SurfaceInv, NEW w \in AgentRuns, RunPrepare(w)
  PROVE  SurfaceInv'
<1>1. PICK h \in Headers, d \in Snapshots :
        agentRun' = [agentRun EXCEPT
                      ![w] = [pc |-> "before", surface |-> surfaceHead,
                              messages |-> Prepared(surfaceHead, request, d),
                              header |-> h, snapshot |-> d, attempt |-> 1]]
  BY DEF RunPrepare
<1> DEFINE m == Prepared(surfaceHead, request, d)
           r == [pc |-> "before", surface |-> surfaceHead, messages |-> m,
                 header |-> h, snapshot |-> d, attempt |-> 1]
<1>2. /\ agentRun[w].pc = "locked" /\ agentRun' = [agentRun EXCEPT ![w] = r]
      /\ UNCHANGED <<surfaceHead, epochsStarted, surfaceLock, request>>
  BY <1>1 DEF RunPrepare
<1>3. /\ surfaceHead \in SurfaceRecords /\ request \in 1 .. MaxRequests
      /\ agentRun \in [AgentRuns -> RunRecords] /\ HeadInv
  BY DEF SurfaceInv, SurfaceTypes
<1>4. m \in Seq(Messages) /\ ExactTail(m, request, d)
  BY <1>3, ExactPrepared DEF HeadInv
<1> HIDE DEF m
<1>5. r \in RunRecords
  BY <1>3, <1>4 DEF RunRecords
<1>6. /\ agentRun'[w].pc = "before" /\ agentRun'[w].surface = surfaceHead
      /\ agentRun'[w].messages = m /\ agentRun'[w].header = h
      /\ agentRun'[w].snapshot = d
  BY <1>2, <1>3
<1> HIDE DEF r
<1>7. RunInv(w)'
  BY <1>2, <1>4, <1>6 DEF RunInv
<1>8. HeadInv'
  BY <1>2, <1>3 DEF HeadInv
<1> QED BY <1>2, <1>3, <1>5, <1>7, <1>8, HolderSteps

LEMMA RunCompactInv ==
  ASSUME SurfaceInv, NEW w \in AgentRuns, RunCompact(w)
  PROVE  SurfaceInv'
<1>1. PICK n \in 0 .. Len(agentRun[w].messages) :
        agentRun' = [agentRun EXCEPT ![w].messages = <<Brief>> \o SubSeq(@, n + 1, Len(@))]
  BY DEF RunCompact
<1> DEFINE old == agentRun[w].messages
           t == SubSeq(old, n + 1, Len(old))
           m == <<Brief>> \o t
           r == [agentRun[w] EXCEPT !.messages = m]
<1>2. /\ agentRun[w].pc = "before" /\ agentRun' = [agentRun EXCEPT ![w] = r]
      /\ UNCHANGED <<surfaceHead, epochsStarted, surfaceLock, request>>
  BY <1>1 DEF RunCompact
<1>3. /\ surfaceHead \in SurfaceRecords /\ request \in 1 .. MaxRequests
      /\ agentRun \in [AgentRuns -> RunRecords] /\ agentRun[w] \in RunRecords
      /\ HeadInv /\ RunInv(w)
  BY DEF SurfaceInv, SurfaceTypes
<1>4. m \in Seq(Messages) /\ Contains(m, Brief)
  <2>1. old \in Seq(Messages) /\ Len(old) \in Nat
    BY <1>3 DEF RunRecords
  <2>2. t \in Seq(Messages) /\ <<Brief>> \in Seq(Messages)
    <3> HIDE DEF old
    <3>1. n \in 0 .. Len(old)
      BY DEF old
    <3>2. /\ \A i \in n + 1 .. Len(old) : i \in 1 .. Len(old) /\ old[i] \in Messages
          /\ n + 1 \in Int /\ Len(old) \in Int
      BY <2>1, <3>1
    <3>3. SubSeq(old, n + 1, Len(old)) \in Seq(Messages)
      BY <3>2, SubSeqProperties, Zenon
    <3>4. Brief \in Messages
      BY MessageTags
    <3>5. <<Brief>> \in Seq(Messages)
      BY <3>4, Z3
    <3> QED BY <3>3, <3>5
  <2> HIDE DEF t
  <2>3. m \in Seq(Messages) /\ Len(m) = 1 + Len(t) /\ Len(t) \in Nat /\ m[1] = Brief
    BY <2>2, ConcatProperties
  <2> QED BY <2>3 DEF Contains
<1> HIDE DEF m
<1>5. r \in RunRecords
  BY <1>3, <1>4 DEF RunRecords
<1>6. /\ agentRun'[w].pc = "before" /\ agentRun'[w].surface = agentRun[w].surface
      /\ agentRun'[w].messages = m /\ agentRun'[w].header = agentRun[w].header
      /\ agentRun'[w].snapshot = agentRun[w].snapshot
  BY <1>2, <1>3 DEF RunRecords
<1> HIDE DEF r
<1>7. RunInv(w)'
  <2>1. ExactTail(m, request, agentRun[w].snapshot)
    BY <1>4 DEF ExactTail
  <2> QED BY <1>2, <1>3, <1>6, <2>1 DEF RunInv
<1>8. HeadInv'
  BY <1>2, <1>3 DEF HeadInv
<1> QED BY <1>2, <1>3, <1>5, <1>7, <1>8, HolderSteps

\* A request goes out in the committed epoch only under the committed header
\* and after the committed messages.
LEMMA EpochAfterKeeps ==
  ASSUME NEW surface \in SurfaceRecords, NEW h \in Headers, NEW m
  PROVE  /\ EpochAfter(surface, h, m) \in Nat \ {0}
         /\ EpochAfter(surface, h, m) >= surface.epoch
         /\ EpochAfter(surface, h, m) = surface.epoch =>
              /\ surface.epoch > 0 /\ IsPrefix(surface.messages, m)
              /\ surface.header \in Headers => surface.header = h
BY SurfaceAssumption DEF EpochAfter, SurfaceRecords

LEMMA BeforeModelInv ==
  ASSUME SurfaceInv, NEW w \in AgentRuns, BeforeModel(w)
  PROVE  SurfaceInv'
<1> DEFINE old == agentRun[w]
           epoch == EpochAfter(surfaceHead, old.header, old.messages)
           s == [surfaceHead EXCEPT !.epoch = epoch, !.header = old.header]
           r == [old EXCEPT !.pc = "model", !.surface = s]
<1>1. /\ surfaceHead \in SurfaceRecords /\ request \in 1 .. MaxRequests
      /\ agentRun \in [AgentRuns -> RunRecords] /\ old \in RunRecords
      /\ HeadInv /\ RunInv(w) /\ old.pc = "before" /\ old.surface = surfaceHead
      /\ old.header \in Headers
  BY DEF SurfaceInv, SurfaceTypes, BeforeModel, RunInv
<1>2. epoch \in Nat
  BY <1>1, EpochAfterKeeps
<1>3. /\ epochsStarted' = IF epoch # surfaceHead.epoch
                            THEN epochsStarted \union {<<epoch, old.header>>}
                            ELSE epochsStarted
      /\ agentRun' = [agentRun EXCEPT ![w].pc = "model", ![w].surface.epoch = epoch,
                                      ![w].surface.header = old.header]
      /\ UNCHANGED <<surfaceHead, surfaceLock, request>>
  BY <1>1 DEF BeforeModel
<1>4. <<epoch, old.header>> \in epochsStarted'
  <2>1. CASE epoch # surfaceHead.epoch
    BY <1>3, <2>1
  <2>2. CASE epoch = surfaceHead.epoch
    <3>1. surfaceHead.epoch > 0 /\ surfaceHead.header = old.header
      BY <1>1, <2>2, EpochAfterKeeps DEF HeadInv
    <3> QED BY <1>1, <1>3, <2>2, <3>1 DEF HeadInv
  <2> QED BY <2>1, <2>2
<1>5. epochsStarted \subseteq epochsStarted'
  BY <1>3
<1> HIDE DEF epoch
<1>6. /\ s \in SurfaceRecords /\ s.epoch = epoch /\ s.header = old.header
      /\ s.messages = surfaceHead.messages
  BY <1>1, <1>2 DEF SurfaceRecords
<1>7. agentRun' = [agentRun EXCEPT ![w] = r]
  BY <1>1, <1>3 DEF RunRecords
<1> HIDE DEF s
<1>8. /\ r \in RunRecords /\ r.pc = "model" /\ r.surface = s /\ r.messages = old.messages
      /\ r.header = old.header /\ r.snapshot = old.snapshot
  BY <1>1, <1>6 DEF RunRecords
<1>9. agentRun'[w] = r
  BY <1>1, <1>7
<1> HIDE DEF r
<1>10. RunInv(w)'
  BY <1>1, <1>3, <1>4, <1>6, <1>8, <1>9 DEF RunInv, epoch
<1>11. HeadInv'
  BY <1>1, <1>3, <1>5 DEF HeadInv
<1> QED BY <1>1, <1>3, <1>7, <1>8, <1>10, <1>11, HolderSteps

LEMMA ModelAnswersInv ==
  ASSUME SurfaceInv, NEW w \in AgentRuns, ModelAnswers(w)
  PROVE  SurfaceInv'
<1> DEFINE old == agentRun[w]
           m == Append(old.messages, AnswerOf(w))
           s == [old.surface EXCEPT !.messages = m, !.lastSession = request,
                                    !.lastSnapshot = old.snapshot]
           r == [old EXCEPT !.pc = "after", !.surface = s, !.messages = m]
<1>1. /\ surfaceHead \in SurfaceRecords /\ request \in 1 .. MaxRequests
      /\ agentRun \in [AgentRuns -> RunRecords] /\ old \in RunRecords
      /\ HeadInv /\ RunInv(w) /\ old.pc = "model"
      /\ old.surface \in SurfaceRecords /\ old.messages \in Seq(Messages)
      /\ old.header \in Headers /\ old.snapshot \in Snapshots
      /\ old.surface.header = old.header
      /\ <<old.surface.epoch, old.header>> \in epochsStarted
      /\ ExactTail(old.messages, request, old.snapshot)
  BY DEF SurfaceInv, SurfaceTypes, ModelAnswers, RunInv, RunRecords
<1>2. m \in Seq(Messages) /\ ExactTail(m, request, old.snapshot)
  BY <1>1, ExactOther
<1> HIDE DEF m
<1>3. /\ s \in SurfaceRecords /\ s.epoch = old.surface.epoch /\ s.header = old.header
      /\ s.messages = m /\ s.lastSession = request /\ s.lastSnapshot = old.snapshot
      /\ s.epoch \in Nat /\ <<s.epoch, s.header>> \in epochsStarted
  <2>1. request \in 0 .. MaxRequests
    BY <1>1, SurfaceAssumption
  <2>2. old.surface.epoch \in Nat
    BY <1>1 DEF SurfaceRecords
  <2>3. /\ s \in SurfaceRecords /\ s.epoch = old.surface.epoch
        /\ s.header = old.surface.header /\ s.messages = m /\ s.lastSession = request
        /\ s.lastSnapshot = old.snapshot
    <3>1. PICK f \in SurfaceRecords, t \in 0 .. MaxRequests, d \in Snapshots :
            f = old.surface /\ t = request /\ d = old.snapshot
      BY <1>1, <2>1
    <3> DEFINE c == [f EXCEPT !.messages = m, !.lastSession = t, !.lastSnapshot = d]
    <3>2. /\ c \in SurfaceRecords /\ c.epoch = f.epoch /\ c.header = f.header
          /\ c.messages = m /\ c.lastSession = t /\ c.lastSnapshot = d
      <4> HIDE DEF old
      <4> QED BY <1>2 DEF SurfaceRecords
    <3>3. s = c
      BY <3>1
    <3> HIDE DEF s, c
    <3> QED BY <3>1, <3>2, <3>3
  <2> HIDE DEF s
  <2> QED BY <1>1, <2>2, <2>3
<1>4. /\ surfaceHead' = s /\ UNCHANGED <<epochsStarted, surfaceLock, request>>
      /\ agentRun' = [agentRun EXCEPT ![w].pc = "after", ![w].surface = s,
                                      ![w].messages = s.messages]
  BY DEF ModelAnswers, m
<1> HIDE DEF s
<1>5. agentRun' = [agentRun EXCEPT ![w] = r]
  BY <1>1, <1>3, <1>4 DEF RunRecords
<1>6. /\ r \in RunRecords /\ r.pc = "after" /\ r.surface = s /\ r.messages = m
      /\ r.header = old.header /\ r.snapshot = old.snapshot
  BY <1>1, <1>2, <1>3 DEF RunRecords
<1>7. agentRun'[w] = r
  BY <1>1, <1>5
<1> HIDE DEF r
<1>8. RunInv(w)'
  BY <1>1, <1>3, <1>4, <1>6, <1>7 DEF RunInv
<1>9. HeadInv'
  <2>1. request <= request
    BY <1>1, SurfaceAssumption
  <2> QED BY <1>1, <1>2, <1>3, <1>4, <2>1 DEF HeadInv
<1> QED BY <1>1, <1>3, <1>4, <1>5, <1>6, <1>8, <1>9, HolderSteps

LEMMA ToolCycleInv ==
  ASSUME SurfaceInv, NEW w \in AgentRuns, ToolCycle(w)
  PROVE  SurfaceInv'
<1> DEFINE old == agentRun[w]
           m == Append(old.messages, ToolResults)
           r == [old EXCEPT !.pc = "before", !.messages = m]
<1>1. /\ surfaceHead \in SurfaceRecords /\ request \in 1 .. MaxRequests
      /\ agentRun \in [AgentRuns -> RunRecords] /\ old \in RunRecords
      /\ HeadInv /\ RunInv(w) /\ old.pc = "after"
      /\ old.messages \in Seq(Messages) /\ old.surface = surfaceHead
      /\ old.header \in Headers /\ old.snapshot \in Snapshots
      /\ ExactTail(old.messages, request, old.snapshot)
      /\ UNCHANGED <<surfaceHead, epochsStarted, surfaceLock, request>>
      /\ agentRun' = [agentRun EXCEPT ![w].pc = "before",
                                      ![w].messages = Append(@, ToolResults)]
  BY DEF SurfaceInv, SurfaceTypes, ToolCycle, RunInv, HeadInv, RunRecords
<1>2. m \in Seq(Messages) /\ ExactTail(m, request, old.snapshot)
  BY <1>1, ExactOther
<1>3. agentRun' = [agentRun EXCEPT ![w] = r]
  BY <1>1 DEF RunRecords
<1> HIDE DEF m
<1>4. /\ r \in RunRecords /\ r.pc = "before" /\ r.surface = surfaceHead /\ r.messages = m
      /\ r.header = old.header /\ r.snapshot = old.snapshot
  BY <1>1, <1>2 DEF RunRecords
<1>5. agentRun'[w] = r
  BY <1>1, <1>3
<1> HIDE DEF r
<1>6. RunInv(w)'
  BY <1>1, <1>2, <1>4, <1>5 DEF RunInv
<1>7. HeadInv'
  BY <1>1 DEF HeadInv
<1> QED BY <1>1, <1>3, <1>4, <1>6, <1>7, HolderSteps

LEMMA AfterAgentInv ==
  ASSUME SurfaceInv, NEW w \in AgentRuns, AfterAgent(w)
  PROVE  SurfaceInv'
<1> DEFINE old == agentRun[w]
           m == Append(old.messages, ToolResults)
           s == [surfaceHead EXCEPT !.messages = m]
           r == [old EXCEPT !.surface = s, !.messages = m]
<1>1. /\ surfaceHead \in SurfaceRecords /\ request \in 1 .. MaxRequests
      /\ agentRun \in [AgentRuns -> RunRecords] /\ old \in RunRecords
      /\ HeadInv /\ RunInv(w) /\ old.pc = "after"
      /\ old.messages \in Seq(Messages) /\ old.surface = surfaceHead
      /\ old.header \in Headers /\ old.snapshot \in Snapshots
      /\ surfaceHead.lastSession = request /\ surfaceHead.lastSnapshot = old.snapshot
      /\ ExactTail(old.messages, request, old.snapshot)
  BY DEF SurfaceInv, SurfaceTypes, AfterAgent, RunInv, HeadInv, RunRecords
<1>2. m \in Seq(Messages) /\ ExactTail(m, request, old.snapshot)
  BY <1>1, ExactOther
<1> HIDE DEF m
<1>3. /\ s \in SurfaceRecords /\ s.messages = m
      /\ s.epoch = surfaceHead.epoch /\ s.header = surfaceHead.header
      /\ s.lastSession = request /\ s.lastSnapshot = old.snapshot
  <2> HIDE DEF old
  <2> QED BY <1>1, <1>2 DEF SurfaceRecords
<1>4. /\ surfaceHead' = s /\ UNCHANGED <<epochsStarted, surfaceLock, request>>
      /\ agentRun' = [agentRun EXCEPT ![w].surface = s, ![w].messages = s.messages]
  BY <1>1 DEF AfterAgent, m
<1> HIDE DEF s
<1>5. agentRun' = [agentRun EXCEPT ![w] = r]
  BY <1>1, <1>3, <1>4 DEF RunRecords
<1>6. /\ r \in RunRecords /\ r.pc = "after" /\ r.surface = s /\ r.messages = m
      /\ r.header = old.header /\ r.snapshot = old.snapshot
  BY <1>1, <1>2, <1>3 DEF RunRecords
<1>7. agentRun'[w] = r
  BY <1>1, <1>5
<1> HIDE DEF r
<1>8. RunInv(w)'
  BY <1>1, <1>3, <1>4, <1>6, <1>7 DEF RunInv
<1>9. HeadInv'
  <2>1. request <= request
    BY <1>1, SurfaceAssumption
  <2> QED BY <1>1, <1>2, <1>3, <1>4, <2>1 DEF HeadInv
<1> QED BY <1>1, <1>3, <1>4, <1>5, <1>6, <1>8, <1>9, HolderSteps

LEMMA LeaderCorrectsInv ==
  ASSUME SurfaceInv, NEW w \in AgentRuns, LeaderCorrects(w)
  PROVE  SurfaceInv'
<1> DEFINE old == agentRun[w]
           m == Append(Prepared(old.surface, request, old.snapshot), Correction)
           r == [old EXCEPT !.pc = "before", !.attempt = 2, !.messages = m]
<1>1. /\ surfaceHead \in SurfaceRecords /\ request \in 1 .. MaxRequests
      /\ agentRun \in [AgentRuns -> RunRecords] /\ old \in RunRecords
      /\ HeadInv /\ RunInv(w) /\ old.pc = "after"
      /\ old.surface = surfaceHead /\ surfaceHead.lastSession = request
      /\ old.header \in Headers /\ old.snapshot \in Snapshots
      /\ UNCHANGED <<surfaceHead, epochsStarted, surfaceLock, request>>
      /\ agentRun' = [agentRun EXCEPT ![w].pc = "before", ![w].attempt = 2,
                                      ![w].messages = m]
  BY DEF SurfaceInv, SurfaceTypes, LeaderCorrects, RunInv
<1>2. m \in Seq(Messages) /\ ExactTail(m, request, old.snapshot)
  <2> DEFINE p == Prepared(old.surface, request, old.snapshot)
  <2>1. p \in Seq(Messages) /\ ExactTail(p, request, old.snapshot)
    BY <1>1, ExactPrepared DEF HeadInv
  <2> HIDE DEF p
  <2>2. Append(p, Correction) \in Seq(Messages)
        /\ ExactTail(Append(p, Correction), request, old.snapshot)
    BY <1>1, <2>1, ExactOther
  <2> QED BY <2>2 DEF p
<1> HIDE DEF m
<1>3. agentRun' = [agentRun EXCEPT ![w] = r]
  BY <1>1 DEF RunRecords
<1>4. /\ r \in RunRecords /\ r.pc = "before" /\ r.surface = surfaceHead /\ r.messages = m
      /\ r.header = old.header /\ r.snapshot = old.snapshot
  BY <1>1, <1>2 DEF RunRecords
<1>5. agentRun'[w] = r
  BY <1>1, <1>3
<1> HIDE DEF r
<1>6. RunInv(w)'
  BY <1>1, <1>2, <1>4, <1>5 DEF RunInv
<1>7. HeadInv'
  BY <1>1 DEF HeadInv
<1> QED BY <1>1, <1>3, <1>4, <1>6, <1>7, HolderSteps

LEMMA PrefixOfAppend ==
  ASSUME NEW s \in Seq(Messages), NEW t \in Seq(Messages), NEW x \in Messages, IsPrefix(s, t)
  PROVE  IsPrefix(s, Append(t, x))
<1>1. /\ Append(t, x) \in Seq(Messages) /\ Len(Append(t, x)) = Len(t) + 1
      /\ \A i \in 1 .. Len(t) : Append(t, x)[i] = t[i]
      /\ Len(s) \in Nat /\ Len(t) \in Nat /\ Len(s) <= Len(t)
  BY DEF IsPrefix
<1>2. SubSeq(t, 1, Len(s)) = SubSeq(Append(t, x), 1, Len(s))
  BY <1>1
<1> QED BY <1>1, <1>2 DEF IsPrefix

\* Whoever returns, or dies, leaves the lock free and nobody under way.
LEMMA AllIdle ==
  ASSUME SurfaceInv, request' \in 1 .. MaxRequests, request <= request',
         UNCHANGED <<surfaceHead, epochsStarted>>,
         agentRun' \in [AgentRuns -> RunRecords],
         \A w \in AgentRuns : agentRun'[w].pc = "idle"
  PROVE  SurfaceInv'
<1>1. LockHeld' /\ \A w \in AgentRuns : RunInv(w)'
  BY DEF LockHeld, RunInv
<1>2. HeadInv'
  <2>1. /\ surfaceHead.lastSession \in 0 .. MaxRequests /\ request \in 1 .. MaxRequests
        /\ MaxRequests \in Nat
    BY SurfaceAssumption DEF SurfaceInv, SurfaceTypes, SurfaceRecords
  <2> QED BY <2>1 DEF SurfaceInv, HeadInv
<1> QED BY <1>1, <1>2 DEF SurfaceInv, SurfaceTypes

LEMMA SurfaceRunReturnsInv ==
  ASSUME SurfaceInv, NEW w \in AgentRuns, SurfaceRunReturns(w)
  PROVE  SurfaceInv'
<1>1. /\ agentRun' = [agentRun EXCEPT ![w] = IdleRun]
      /\ UNCHANGED <<surfaceHead, epochsStarted, request>> /\ agentRun[w].pc # "idle"
  BY DEF SurfaceRunReturns
<1>2. /\ agentRun \in [AgentRuns -> RunRecords] /\ request \in 1 .. MaxRequests
      /\ request <= request
  BY SurfaceAssumption DEF SurfaceInv, SurfaceTypes
<1>3. /\ agentRun' \in [AgentRuns -> RunRecords] /\ agentRun'[w].pc = "idle"
      /\ \A v \in AgentRuns : v # w => agentRun'[v] = agentRun[v]
  BY <1>1, <1>2, IdleRuns
<1>4. \A v \in AgentRuns : agentRun'[v].pc = "idle"
  BY <1>1, <1>3 DEF SurfaceInv, LockHeld
<1> QED BY <1>1, <1>2, <1>3, <1>4, AllIdle

LEMMA SurfaceCrashInv ==
  ASSUME SurfaceInv, SurfaceCrash
  PROVE  SurfaceInv'
<1>1. /\ agentRun' = [w \in AgentRuns |-> IdleRun]
      /\ UNCHANGED <<surfaceHead, epochsStarted, request>>
  BY DEF SurfaceCrash
<1>2. request \in 1 .. MaxRequests /\ request <= request
  BY SurfaceAssumption DEF SurfaceInv, SurfaceTypes
<1>3. agentRun' \in [AgentRuns -> RunRecords] /\ \A w \in AgentRuns : agentRun'[w].pc = "idle"
  BY <1>1, IdleRuns
<1> QED BY <1>1, <1>2, <1>3, AllIdle

LEMMA NextRequestInv ==
  ASSUME SurfaceInv, NextRequest
  PROVE  SurfaceInv'
<1>1. /\ \A w \in AgentRuns : agentRun[w].pc = "idle"
      /\ request < MaxRequests /\ request' = request + 1
      /\ UNCHANGED <<surfaceHead, epochsStarted, agentRun>>
  BY DEF NextRequest
<1>2. agentRun \in [AgentRuns -> RunRecords] /\ request \in 1 .. MaxRequests
  BY DEF SurfaceInv, SurfaceTypes
<1>3. request' \in 1 .. MaxRequests /\ request <= request'
  BY <1>1, <1>2, SurfaceAssumption
<1> QED BY <1>1, <1>2, <1>3, AllIdle

LEMMA SurfaceNextInv ==
  ASSUME SurfaceInv, [SurfaceNext]_surfaceVars
  PROVE  SurfaceInv'
<1>1. CASE UNCHANGED surfaceVars
  BY <1>1 DEF SurfaceInv, SurfaceTypes, LockHeld, HeadInv, RunInv, surfaceVars
<1>2. ASSUME NEW w \in AgentRuns,
             \/ RunLock(w) \/ RunPrepare(w) \/ RunCompact(w) \/ BeforeModel(w)
             \/ ModelAnswers(w) \/ ToolCycle(w) \/ AfterAgent(w) \/ LeaderCorrects(w)
             \/ SurfaceRunReturns(w)
      PROVE  SurfaceInv'
  BY <1>2, RunLockInv, RunPrepareInv, RunCompactInv, BeforeModelInv, ModelAnswersInv,
     ToolCycleInv, AfterAgentInv, LeaderCorrectsInv, SurfaceRunReturnsInv
<1> QED BY <1>1, <1>2, SurfaceCrashInv, NextRequestInv DEF SurfaceNext

\* What is saved, and what the goroutine that holds the lock has in memory, is
\* an exact tail of the conversation (model_surface.go).
THEOREM SurfaceCorrect == SurfaceSpec => []SurfaceInv
<1>1. SurfaceInit => SurfaceInv
  BY SurfaceInitInv
<1>2. SurfaceInv /\ [SurfaceNext]_surfaceVars => SurfaceInv'
  BY SurfaceNextInv
<1> QED BY <1>1, <1>2, PTL DEF SurfaceSpec

\* The saved surface is the conversation the model had: under an announced
\* header, each request once, the current snapshot the last one shown, whoever
\* of the leader's turns and the consultations saved it and whatever failed,
\* was compacted or crashed before (lockModelSurface, BeforeModelRewriteState,
\* prepareModelSurfaceMessages).
THEOREM SurfaceIsExactCorrect == SurfaceSpec => []SurfaceIsExact
<1>1. SurfaceInv => SurfaceIsExact
  <2> SUFFICES ASSUME SurfaceInv
               PROVE  SurfaceIsExact
    OBVIOUS
  <2> DEFINE m == surfaceHead.messages
  <2>1. HeadInv /\ surfaceHead \in SurfaceRecords
    BY DEF SurfaceInv, SurfaceTypes
  <2>2. EpochWasAnnounced
    BY <2>1 DEF HeadInv, EpochWasAnnounced
  <2>3. ExactRequestOnce
    <3>1. SUFFICES ASSUME ~Contains(m, Brief), NEW s \in 1 .. MaxRequests
                   PROVE  /\ \A i, j \in {i \in DOMAIN m : m[i] = UserMessage(s)} : i = j
                          /\ surfaceHead.lastSession = s =>
                               {i \in DOMAIN m : m[i] = UserMessage(s)} # {}
      BY DEF ExactRequestOnce
    <3>2. s > 0
      BY SurfaceAssumption
    <3>3. \A i, j \in DOMAIN m : m[i] = UserMessage(s) /\ m[j] = UserMessage(s) => i = j
      BY <2>1, <3>1 DEF HeadInv, ExactTail
    <3>4. surfaceHead.lastSession = s => \E i \in DOMAIN m : m[i] = UserMessage(s)
      BY <2>1, <3>1, <3>2 DEF HeadInv, ExactTail
    <3> HIDE DEF m
    <3> QED BY <3>3, <3>4
  <2>4. LatestSnapshotIsCurrent
    BY <2>1 DEF HeadInv, ExactTail, LatestSnapshotIsCurrent
  <2> QED BY <2>2, <2>3, <2>4 DEF SurfaceIsExact
<1> QED BY <1>1, SurfaceCorrect, PTL

\* "The exact, versioned conversation tail": what is saved extends what was
\* saved, or begins a new epoch: the leader's turn and a consultation of the
\* same agent never overwrite each other's exchange.
THEOREM SurfaceOnlyGrowsCorrect == SurfaceSpec => SurfaceOnlyGrows
<1>1. ASSUME SurfaceInv, [SurfaceNext]_surfaceVars, surfaceHead' # surfaceHead
      PROVE  \/ IsPrefix(surfaceHead.messages, surfaceHead'.messages)
             \/ surfaceHead'.epoch > surfaceHead.epoch
  <2>0. ASSUME NEW w \in AgentRuns, AfterAgent(w)
        PROVE  IsPrefix(surfaceHead.messages, surfaceHead'.messages)
    <3> DEFINE m == surfaceHead.messages
    <3>1. /\ surfaceHead \in SurfaceRecords /\ m \in Seq(Messages)
          /\ agentRun[w].surface = surfaceHead /\ agentRun[w].messages = m
      BY <1>1, <2>0 DEF SurfaceInv, SurfaceTypes, AfterAgent, RunInv, SurfaceRecords
    <3>2. surfaceHead'.messages = Append(m, ToolResults)
      BY <2>0, <3>1 DEF AfterAgent, SurfaceRecords
    <3>3. ToolResults \in Messages
      BY MessageTags
    <3> HIDE DEF m
    <3>4. IsPrefix(m, m)
      BY <3>1 DEF IsPrefix
    <3> QED BY <3>1, <3>2, <3>3, <3>4, PrefixOfAppend DEF m
  <2> SUFFICES ASSUME ~ \E w \in AgentRuns : AfterAgent(w)
               PROVE  \/ IsPrefix(surfaceHead.messages, surfaceHead'.messages)
                      \/ surfaceHead'.epoch > surfaceHead.epoch
    BY <2>0
  <2>1. PICK w \in AgentRuns : ModelAnswers(w)
    BY <1>1 DEF SurfaceNext, surfaceVars, RunLock, RunPrepare, RunCompact, BeforeModel,
        ToolCycle, LeaderCorrects, SurfaceRunReturns, SurfaceCrash, NextRequest
  <2> DEFINE old == agentRun[w]
             m == old.messages
             a == AnswerOf(w)
  <2>2. /\ surfaceHead \in SurfaceRecords /\ old \in RunRecords /\ old.header \in Headers
        /\ old.surface \in SurfaceRecords /\ m \in Seq(Messages)
        /\ surfaceHead.messages \in Seq(Messages)
        /\ old.surface.epoch = EpochAfter(surfaceHead, old.header, m)
    BY <1>1, <2>1 DEF SurfaceInv, SurfaceTypes, ModelAnswers, RunInv, RunRecords, SurfaceRecords
  <2>3. surfaceHead' = [old.surface EXCEPT !.messages = Append(m, a),
                                           !.lastSession = request,
                                           !.lastSnapshot = old.snapshot]
    BY <2>1 DEF ModelAnswers
  <2>4. surfaceHead'.messages = Append(m, a) /\ surfaceHead'.epoch = old.surface.epoch
    BY <2>2, <2>3 DEF SurfaceRecords
  <2>5. CASE old.surface.epoch > surfaceHead.epoch
    BY <2>4, <2>5
  <2>6. CASE old.surface.epoch = surfaceHead.epoch
    <3>1. IsPrefix(surfaceHead.messages, m)
      BY <2>2, <2>6, EpochAfterKeeps
    <3>2. a \in Messages
      BY MessageTags
    <3> HIDE DEF m, a
    <3>3. IsPrefix(surfaceHead.messages, Append(m, a))
      BY <2>2, <3>1, <3>2, PrefixOfAppend
    <3> QED BY <2>4, <3>3
  <2>7. old.surface.epoch >= surfaceHead.epoch /\ old.surface.epoch \in Nat
        /\ surfaceHead.epoch \in Nat
    BY <2>2, EpochAfterKeeps DEF SurfaceRecords
  <2> QED BY <2>5, <2>6, <2>7
<1> QED BY <1>1, SurfaceCorrect, PTL DEF SurfaceSpec, SurfaceOnlyGrows

-----------------------------------------------------------------------------
(* The requests of one agent: cuts of a conversation.                      *)

IsMessage(m) ==
  m \in [id : Nat, role : {"system", "user", "assistant", "tool"}, size : {m.size},
         calls : {m.calls}, answers : {m.answers}, prompt : {m.prompt},
         completion : {m.completion}]

\* A conversation under one instruction, in which results follow their calls.
Headed(messages) ==
  /\ messages \in Seq(Range(messages)) /\ messages # <<>>
  /\ \A i \in DOMAIN messages : IsMessage(messages[i])
  /\ \A i \in DOMAIN messages : messages[i].role = "system" <=> i = 1
  /\ ProtocolValidSuffix(messages)

LEMMA LeastCounterexample ==
  ASSUME NEW S \in SUBSET Nat, S # {}
  PROVE  \E n \in S : \A m \in S : n <= m
<1>1. PICK n \in S : \A m \in S : <<m, n>> \notin OpToRel(<, Nat)
  BY NatLessThanWellFounded, WFMin, Zenon
<1>2. \A m \in S : ~(m < n)
  BY <1>1 DEF OpToRel
<1> QED BY <1>2

LEMMA SequenceOfItsRange ==
  ASSUME NEW S, NEW s \in Seq(S)
  PROVE  s \in Seq(Range(s)) /\ Len(s) \in Nat /\ DOMAIN s = 1 .. Len(s)
<1>1. Len(s) \in Nat /\ DOMAIN s = 1 .. Len(s) /\ s \in [1 .. Len(s) -> S]
  OBVIOUS
<1>2. s \in [1 .. Len(s) -> Range(s)]
  BY <1>1 DEF Range
<1> QED BY <1>1, <1>2

LEMMA MessageIsMessage ==
  ASSUME NEW id \in Nat, NEW role \in {"system", "user", "assistant", "tool"}, NEW size,
         NEW calls, NEW call, NEW prompt, NEW completion
  PROVE  LET m == Message(id, role, size, calls, call, prompt, completion) IN
         /\ IsMessage(m) /\ m.id = id /\ m.role = role /\ m.calls = calls
         /\ m.answers = call
BY DEF Message, IsMessage

\* A message that is not an instruction, and answers a call if it is a result,
\* may follow.
LEMMA HeadedGrows ==
  ASSUME NEW s, Headed(s), NEW m, IsMessage(m), m.role # "system",
         m.role = "tool" => \E i \in DOMAIN s : m.answers \in s[i].calls
  PROVE  Headed(Append(s, m)) /\ IdsOf(Append(s, m)) = IdsOf(s) \union {m.id}
<1> DEFINE t == Append(s, m)
<1>1. s \in Seq(Range(s) \union {m}) /\ Len(s) \in Nat /\ DOMAIN s = 1 .. Len(s)
  BY SequenceOfItsRange DEF Headed
<1>2. t \in Seq(Range(s) \union {m}) /\ Len(t) = Len(s) + 1
  BY <1>1
<1>3. /\ DOMAIN t = 1 .. Len(s) + 1 /\ t[Len(s) + 1] = m
      /\ \A i \in DOMAIN s : t[i] = s[i]
  BY <1>1, <1>2
<1> HIDE DEF t
<1>4. t \in Seq(Range(t)) /\ t # <<>>
  <2>1. t \in Seq(Range(t))
    BY <1>2, SequenceOfItsRange
  <2> QED BY <1>1, <1>2, <2>1
<1>5. \A i \in DOMAIN t : IsMessage(t[i]) /\ (t[i].role = "system" <=> i = 1)
  BY <1>1, <1>3 DEF Headed
<1>6. ProtocolValidSuffix(t)
  <2> SUFFICES ASSUME NEW i \in DOMAIN t, t[i].role = "tool"
               PROVE  \E j \in 1 .. i - 1 : t[i].answers \in t[j].calls
    BY DEF ProtocolValidSuffix
  <2>1. CASE i \in DOMAIN s
    <3>1. PICK j \in 1 .. i - 1 : s[i].answers \in s[j].calls
      BY <1>3, <2>1 DEF Headed, ProtocolValidSuffix
    <3>2. j \in DOMAIN s
      BY <1>1, <2>1
    <3> QED BY <1>3, <2>1, <3>1, <3>2
  <2>2. CASE i = Len(s) + 1
    BY <1>1, <1>3, <2>2
  <2> QED BY <1>1, <1>3, <2>1, <2>2
<1>7. IdsOf(t) = IdsOf(s) \union {m.id}
  BY <1>1, <1>3 DEF IdsOf
<1> QED BY <1>4, <1>5, <1>6, <1>7 DEF Headed, t

\* A conversation's instruction ends where it begins.
LEMMA OneSystemMessage ==
  ASSUME NEW s, Headed(s)
  PROVE  SystemEnd(s) = 1
<1>1. Len(s) \in Nat \ {0} /\ DOMAIN s = 1 .. Len(s)
  BY SequenceOfItsRange DEF Headed
<1> DEFINE others == {i \in DOMAIN s : s[i].role # "system"}
<1>2. others = 2 .. Len(s)
  BY <1>1 DEF Headed
<1>3. CASE others = {}
  BY <1>1, <1>2, <1>3 DEF SystemEnd
<1>4. CASE others # {}
  <2>1. 2 \in others /\ \A j \in others : 2 <= j
    BY <1>1, <1>2, <1>4
  <2>2. \A i \in others : (\A j \in others : i <= j) => i = 2
    BY <1>2, <2>1
  <2>3. (CHOOSE i \in others : \A j \in others : i <= j) = 2
    BY <2>1, <2>2
  <2> QED BY <1>4, <2>3 DEF SystemEnd
<1> QED BY <1>3, <1>4

LEMMA CloneMessage ==
  ASSUME NEW s, NEW i \in DOMAIN s, IsMessage(s[i])
  PROVE  /\ IsMessage(Clone(s)[i]) /\ Clone(s)[i].role = s[i].role
         /\ Clone(s)[i].id = s[i].id /\ Clone(s)[i].calls = s[i].calls
         /\ Clone(s)[i].answers = s[i].answers
<1>1. Clone(s)[i] = [s[i] EXCEPT !.prompt = 0, !.completion = 0]
  BY DEF Clone
<1> QED BY <1>1 DEF IsMessage

\* A copy of the messages of s from k to n.
CopyOf(part, s, k, n) ==
  /\ part \in Seq(Range(part)) /\ Len(part) = n - k + 1
  /\ \A i \in 1 .. n - k + 1 :
       /\ IsMessage(part[i]) /\ part[i].role = s[k + i - 1].role
       /\ part[i].id = s[k + i - 1].id /\ part[i].calls = s[k + i - 1].calls
       /\ part[i].answers = s[k + i - 1].answers

LEMMA ClonedPart ==
  ASSUME NEW s, Headed(s), NEW k \in 1 .. Len(s), NEW n \in k .. Len(s)
  PROVE  CopyOf(Clone(SubSeq(s, k, n)), s, k, n)
<1> DEFINE raw == SubSeq(s, k, n)
           part == Clone(raw)
<1>1. s \in Seq(Range(s)) /\ Len(s) \in Nat /\ DOMAIN s = 1 .. Len(s)
  BY SequenceOfItsRange DEF Headed
<1>2. /\ raw \in Seq(Range(s)) /\ Len(raw) = n - k + 1
      /\ \A i \in 1 .. n - k + 1 : raw[i] = s[k + i - 1] /\ k + i - 1 \in DOMAIN s
  BY <1>1
<1> HIDE DEF raw
<1>3. DOMAIN raw = 1 .. n - k + 1
  BY <1>2
<1>4. part = [i \in 1 .. n - k + 1 |-> part[i]]
  BY <1>3 DEF Clone
<1>5. part \in Seq(Range(part)) /\ Len(part) = n - k + 1
  <2>1. DOMAIN part = 1 .. n - k + 1 /\ n - k + 1 \in Nat
    BY <1>4
  <2>2. part \in [1 .. n - k + 1 -> Range(part)]
    BY <1>4, <2>1 DEF Range
  <2> HIDE DEF part
  <2> QED BY <2>1, <2>2
<1>6. \A i \in 1 .. n - k + 1 :
        /\ IsMessage(part[i]) /\ part[i].role = raw[i].role
        /\ part[i].id = raw[i].id /\ part[i].calls = raw[i].calls
        /\ part[i].answers = raw[i].answers
  BY <1>2, <1>3, CloneMessage DEF Headed
<1> HIDE DEF part
<1>7. CopyOf(part, s, k, n)
  BY <1>2, <1>5, <1>6 DEF CopyOf
<1> QED BY <1>7 DEF part, raw

\* A request rebuilt from s around a brief that follows the instruction.
BriefedFrom(s, brief, final) ==
  /\ Headed(final) /\ Len(final) > 1 /\ final[2] = brief
  /\ IdsOf(final) \subseteq IdsOf(s) \union {brief.id}

\* Such is the instruction, the brief, and a tail of what was there in which
\* results follow their calls.
LEMMA RebuiltIsHeaded ==
  ASSUME NEW s, Headed(s), NEW brief, IsMessage(brief), brief.role = "user",
         NEW header, NEW low
  PROVE  BriefedFrom(s, brief, FinalizeWithVerbatimTail(s, brief, header, low))
<1>1. s \in Seq(Range(s)) /\ Len(s) \in Nat \ {0} /\ DOMAIN s = 1 .. Len(s)
  BY SequenceOfItsRange DEF Headed
<1> DEFINE systems == SystemEnd(s)
           base == Append(Clone(SubSeq(s, 1, systems)), brief)
           starts == {k \in systems + 1 .. Len(s) :
                        /\ s[k].role # "tool"
                        /\ ProtocolValidSuffix(Suffix(s, k))
                        /\ EstimateFresh(base \o Clone(Suffix(s, k)), header, s) <= low}
           final == FinalizeWithVerbatimTail(s, brief, header, low)
<1> SUFFICES /\ Headed(final) /\ Len(final) > 1 /\ final[2] = brief
             /\ IdsOf(final) \subseteq IdsOf(s) \union {brief.id}
  BY DEF BriefedFrom
<1>2. final = IF low <= 0 \/ starts = {} THEN base
              ELSE base \o Clone(Suffix(s, CHOOSE k \in starts : \A t \in starts : k <= t))
  BY Zenon DEF FinalizeWithVerbatimTail
<1> HIDE DEF final
<1>11. PICK top : top = Clone(SubSeq(s, 1, 1))
  OBVIOUS
<1>10. systems = 1 /\ base = Append(top, brief)
  BY <1>11, OneSystemMessage
<1>3. /\ top \in Seq(Range(top)) /\ Len(top) = 1 /\ IsMessage(top[1])
      /\ top[1].role = "system" /\ top[1].id = s[1].id
  <2>1. 1 \in 1 .. Len(s) /\ 1 \in 1 .. 1 /\ 1 - 1 + 1 = 1 /\ 1 + 1 - 1 = 1 /\ s[1].role = "system"
    BY <1>1 DEF Headed
  <2>2. CopyOf(top, s, 1, 1)
    BY <2>1, <1>11, ClonedPart, Zenon
  <2> QED BY <2>1, <2>2 DEF CopyOf
<1>4. Headed(top)
  <2>1. DOMAIN top = {1}
    BY <1>3
  <2>2. top # <<>>
    BY <2>1
  <2> QED BY <1>3, <2>1, <2>2 DEF Headed, ProtocolValidSuffix
<1>5. /\ Headed(base) /\ IdsOf(base) = IdsOf(top) \union {brief.id}
      /\ Len(base) = 2 /\ base[2] = brief /\ base[1] = top[1]
  <2>1. Headed(Append(top, brief)) /\ IdsOf(Append(top, brief)) = IdsOf(top) \union {brief.id}
    BY <1>4, HeadedGrows
  <2>2. /\ Len(Append(top, brief)) = 2 /\ Append(top, brief)[2] = brief
        /\ Append(top, brief)[1] = top[1]
    <3>1. top \in Seq(Range(top) \union {brief})
      BY <1>3
    <3>2. PICK U : top \in Seq(U) /\ brief \in U
      BY <3>1
    <3>3. /\ Len(Append(top, brief)) = Len(top) + 1 /\ Append(top, brief)[Len(top) + 1] = brief
          /\ \A i \in 1 .. Len(top) : Append(top, brief)[i] = top[i]
      BY <3>2, AppendProperties, SMTT(30)
    <3> HIDE DEF base
    <3>4. Len(top) + 1 = 2 /\ 1 \in 1 .. Len(top)
      BY <1>3
    <3> QED BY <3>3, <3>4
  <2> HIDE DEF base
  <2> QED BY <1>10, <2>1, <2>2
<1> HIDE DEF base
<1>6. IdsOf(top) \subseteq IdsOf(s)
  BY <1>1, <1>3 DEF IdsOf
<1>7. CASE final = base
  BY <1>5, <1>6, <1>7
<1>8. ASSUME NEW k \in starts, final = base \o Clone(Suffix(s, k))
      PROVE  /\ Headed(final) /\ Len(final) > 1 /\ final[2] = brief
             /\ IdsOf(final) \subseteq IdsOf(s) \union {brief.id}
  <2> DEFINE tail == Clone(SubSeq(s, k, Len(s)))
             size == Len(s) - k + 1
  <2>1. k \in 2 .. Len(s) /\ ProtocolValidSuffix(SubSeq(s, k, Len(s)))
    BY <1>10 DEF Suffix
  <2>2. /\ tail \in Seq(Range(tail)) /\ Len(tail) = size /\ size \in Nat
        /\ \A i \in 1 .. size :
             /\ IsMessage(tail[i]) /\ tail[i].role = s[k + i - 1].role
             /\ tail[i].id = s[k + i - 1].id /\ tail[i].calls = s[k + i - 1].calls
             /\ tail[i].answers = s[k + i - 1].answers
    <3>1. k \in 1 .. Len(s) /\ Len(s) \in k .. Len(s) /\ size \in Nat
      BY <1>1, <2>1
    <3>2. CopyOf(tail, s, k, Len(s))
      BY <3>1, ClonedPart, Zenon
    <3> HIDE DEF tail
    <3> QED BY <3>1, <3>2 DEF CopyOf
  <2>3. final = base \o tail
    BY <1>8 DEF Suffix
  <2> HIDE DEF tail
  <2> DEFINE both == Range(base) \union Range(tail)
  <2>4. /\ final \in Seq(both) /\ Len(final) = 2 + size
        /\ \A i \in 1 .. 2 : final[i] = base[i]
        /\ \A i \in 1 .. size : final[2 + i] = tail[i]
    <3>1. base \in Seq(both) /\ tail \in Seq(both)
      BY <2>2, <1>5 DEF Headed
    <3>2. Len(base) = 2 /\ Len(tail) = size
      BY <1>5, <2>2
    <3> HIDE DEF both, size
    <3>6. /\ base \o tail \in Seq(both) /\ Len(base \o tail) = Len(base) + Len(tail)
          /\ \A i \in 1 .. Len(base) + Len(tail) :
               (base \o tail)[i] = IF i <= Len(base) THEN base[i] ELSE tail[i - Len(base)]
      BY <3>1, ConcatProperties, Zenon
    <3>3. /\ final \in Seq(both) /\ Len(final) = 2 + size
          /\ \A i \in 1 .. 2 + size :
               final[i] = IF i <= 2 THEN base[i] ELSE tail[i - 2]
      BY <2>3, <3>6, <3>2, Zenon
    <3>4. \A i \in 1 .. 2 : i \in 1 .. 2 + size /\ i <= 2
      BY <2>2
    <3>5. \A i \in 1 .. size : 2 + i \in 1 .. 2 + size /\ ~(2 + i <= 2) /\ 2 + i - 2 = i
      BY <2>2
    <3> QED BY <3>3, <3>4, <3>5
  <2>5. final \in Seq(Range(final)) /\ final # <<>> /\ DOMAIN final = 1 .. 2 + size
    <3>1. final \in Seq(Range(final)) /\ DOMAIN final = 1 .. Len(final)
      BY <2>4, SequenceOfItsRange
    <3> QED BY <2>2, <2>4, <3>1
  <2>6. \A i \in DOMAIN final : i \in 1 .. 2 \/ \E h \in 1 .. size : i = 2 + h
    <3>1. \A i \in 1 .. 2 + size : i \in 1 .. 2 \/ (i - 2 \in 1 .. size /\ i = 2 + (i - 2))
      BY <2>2
    <3> QED BY <2>5, <3>1
  <2>7. /\ DOMAIN base = 1 .. 2
        /\ \A i \in 1 .. 2 : IsMessage(base[i]) /\ base[i].role # "tool"
                             /\ (base[i].role = "system" <=> i = 1)
        /\ \A i \in 1 .. 2 : base[i].id \in IdsOf(base)
    <3>1. DOMAIN base = 1 .. 2
      BY <1>5
    <3> QED BY <1>3, <1>5, <3>1 DEF Headed, IdsOf
  <2>8. \A h \in 1 .. size : /\ IsMessage(final[2 + h]) /\ final[2 + h].role # "system"
                             /\ final[2 + h].id \in IdsOf(s)
    <3> TAKE h \in 1 .. size
    <3>1. k + h - 1 \in DOMAIN s /\ k + h - 1 # 1
      BY <1>1, <2>1
    <3>2. s[k + h - 1].role # "system" /\ s[k + h - 1].id \in IdsOf(s)
      BY <3>1 DEF Headed, IdsOf
    <3> QED BY <2>2, <2>4, <3>2
  <2>9. \A i \in DOMAIN final : /\ IsMessage(final[i]) /\ (final[i].role = "system" <=> i = 1)
                                /\ final[i].id \in IdsOf(s) \union {brief.id}
    <3> SUFFICES ASSUME NEW i \in DOMAIN final
                 PROVE  /\ IsMessage(final[i]) /\ (final[i].role = "system" <=> i = 1)
                        /\ final[i].id \in IdsOf(s) \union {brief.id}
      OBVIOUS
    <3>1. CASE i \in 1 .. 2
      BY <1>5, <1>6, <2>4, <2>7, <3>1
    <3>2. ASSUME NEW h \in 1 .. size, i = 2 + h
          PROVE  /\ IsMessage(final[i]) /\ (final[i].role = "system" <=> i = 1)
                 /\ final[i].id \in IdsOf(s) \union {brief.id}
      BY <2>2, <2>8, <3>2
    <3> QED BY <2>6, <3>1, <3>2
  <2>10. ProtocolValidSuffix(final)
    <3> SUFFICES ASSUME NEW i \in DOMAIN final, final[i].role = "tool"
                 PROVE  \E j \in 1 .. i - 1 : final[i].answers \in final[j].calls
      BY DEF ProtocolValidSuffix
    <3>1. PICK h \in 1 .. size : i = 2 + h
      BY <2>4, <2>6, <2>7
    <3> DEFINE raw == SubSeq(s, k, Len(s))
    <3>2. /\ DOMAIN raw = 1 .. size
          /\ \A g \in 1 .. size : raw[g] = s[k + g - 1]
      BY <1>1, <2>1
    <3> HIDE DEF raw
    <3>3. ProtocolValidSuffix(raw)
      BY <2>1 DEF raw
    <3>4. raw[h].role = "tool"
      BY <2>2, <2>4, <3>1, <3>2
    <3>5. PICK j \in 1 .. h - 1 : raw[h].answers \in raw[j].calls
      BY <3>2, <3>3, <3>4 DEF ProtocolValidSuffix
    <3>6. j \in 1 .. size
      BY <2>2, <3>5
    <3>7. final[i].answers \in final[2 + j].calls
      BY <2>2, <2>4, <3>1, <3>2, <3>5, <3>6, ZenonT(60)
    <3>8. 2 + j \in 1 .. i - 1
      BY <2>2, <3>1, <3>5
    <3> QED BY <3>7, <3>8
  <2>11. IdsOf(final) \subseteq IdsOf(s) \union {brief.id}
    BY <2>9 DEF IdsOf
  <2>12. Headed(final)
    BY <2>5, <2>9, <2>10 DEF Headed
  <2> QED BY <1>5, <2>2, <2>4, <2>11, <2>12
<1>9. CASE starts # {}
  <2> DEFINE first == CHOOSE k \in starts : \A t \in starts : k <= t
  <2>1. starts \in SUBSET Nat
    BY <1>1, <1>10
  <2>2. first \in starts
    BY <1>9, <2>1, LeastCounterexample, Zenon
  <2> HIDE DEF first
  <2> QED BY <1>2, <1>7, <1>8, <2>2 DEF first
<1> QED BY <1>2, <1>7, <1>9 DEF final

-----------------------------------------------------------------------------
(* The requests of one agent: archive, cut and retry.                      *)

\* What a rejected request is rebuilt from is archived, and what a request in
\* flight lacks of the conversation is.
CompactionInv ==
  /\ nextId \in Nat /\ archivedIds \subseteq 1 .. nextId - 1
  /\ Headed(conversation) /\ IdsOf(conversation) \subseteq 1 .. nextId - 1
  /\ compaction \in {"model", "recover", "emergency"} =>
       Headed(outgoing) /\ IdsOf(outgoing) \subseteq 1 .. nextId - 1
  /\ compaction \in {"recover", "emergency"} =>
       IdsOf(conversation) \union IdsOf(outgoing) \subseteq archivedIds
  /\ compaction = "model" => IdsOf(conversation) \subseteq IdsOf(outgoing) \union archivedIds
  /\ RequestKeepsInstruction

LEMMA FreshId ==
  ASSUME CompactionInv
  PROVE  /\ nextId > 0 /\ nextId \notin archivedIds
         /\ (1 .. nextId - 1) \union {nextId} \subseteq 1 .. (nextId + 1) - 1
<1>1. Len(conversation) \in Nat /\ DOMAIN conversation = 1 .. Len(conversation)
  BY SequenceOfItsRange DEF CompactionInv, Headed
<1>2. Len(conversation) # 0
  BY <1>1 DEF CompactionInv, Headed
<1>3. conversation[1].id \in 1 .. nextId - 1
  BY <1>1, <1>2 DEF CompactionInv, IdsOf
<1> QED BY <1>3 DEF CompactionInv

\* A step of the conversation itself archives nothing and sends nothing.
LEMMA ConversationGrows ==
  ASSUME CompactionInv, NEW m, Grown(m), IsMessage(m), m.id = nextId, m.role # "system",
         m.role = "tool" => \E i \in DOMAIN conversation : m.answers \in conversation[i].calls,
         compaction' = "converse", UNCHANGED archivedIds
  PROVE  CompactionInv' /\ IdsOf(conversation) \subseteq IdsOf(conversation')
<1>1. conversation' = Append(conversation, m) /\ nextId' = nextId + 1
  BY DEF Grown
<1>2. /\ Headed(conversation')
      /\ IdsOf(conversation') = IdsOf(conversation) \union {nextId}
  BY <1>1, HeadedGrows DEF CompactionInv
<1>3. /\ IdsOf(conversation') \subseteq 1 .. nextId' - 1
      /\ archivedIds' \subseteq 1 .. nextId' - 1 /\ nextId' \in Nat
  <2>1. IdsOf(conversation') \subseteq (1 .. nextId - 1) \union {nextId}
    BY <1>2 DEF CompactionInv
  <2>2. archivedIds' \subseteq (1 .. nextId - 1) \union {nextId}
    BY DEF CompactionInv
  <2> QED BY <1>1, <2>1, <2>2, FreshId DEF CompactionInv
<1> QED BY <1>2, <1>3 DEF CompactionInv, RequestKeepsInstruction

\* A request goes out as the conversation stands.
LEMMA RequestGoesOut ==
  ASSUME CompactionInv, Headed(conversation'), nextId' \in Nat,
         IdsOf(conversation') \subseteq 1 .. nextId' - 1,
         archivedIds' \subseteq 1 .. nextId' - 1,
         outgoing' = conversation', compaction' = "model"
  PROVE  CompactionInv'
<1>1. 1 \in DOMAIN outgoing' /\ outgoing'[1].role = "system"
  <2>1. Len(outgoing') \in Nat /\ DOMAIN outgoing' = 1 .. Len(outgoing')
    BY SequenceOfItsRange DEF Headed
  <2>2. Len(outgoing') # 0
    BY <2>1 DEF Headed
  <2> QED BY <2>1, <2>2 DEF Headed
<1> QED BY <1>1 DEF CompactionInv, RequestKeepsInstruction

LEMMA BriefIsMessage ==
  ASSUME CompactionInv, NEW size
  PROVE  /\ IsMessage(BriefMessage(size)) /\ BriefMessage(size).role = "user"
         /\ BriefMessage(size).id = nextId
BY MessageIsMessage DEF BriefMessage, CompactionInv

LEMMA SummarizedStep ==
  ASSUME CompactionInv, Summarized
  PROVE  /\ CompactionInv'
         /\ IdsOf(conversation) \subseteq IdsOf(conversation') \union archivedIds'
         /\ IdsOf(conversation') \subseteq IdsOf(outgoing') \union archivedIds'
<1>1. PICK size, low :
        /\ conversation' = FinalizeWithVerbatimTail(conversation, BriefMessage(size), HeaderSize, low)
        /\ outgoing' = conversation'
  BY Zenon DEF Summarized
<1>2. /\ archivedIds' = archivedIds \union IdsOf(conversation)
      /\ compaction' = "model" /\ nextId' = nextId + 1
  BY Zenon DEF Summarized
<1>3. /\ Headed(conversation')
      /\ IdsOf(conversation') \subseteq IdsOf(conversation) \union {nextId}
  <2>1. BriefedFrom(conversation, BriefMessage(size), conversation')
    BY <1>1, RebuiltIsHeaded, BriefIsMessage, Zenon DEF CompactionInv
  <2> QED BY <2>1, BriefIsMessage DEF BriefedFrom
<1>4. /\ IdsOf(conversation') \subseteq 1 .. nextId' - 1
      /\ archivedIds' \subseteq 1 .. nextId' - 1 /\ nextId' \in Nat
  <2>1. IdsOf(conversation') \subseteq (1 .. nextId - 1) \union {nextId}
    BY <1>3 DEF CompactionInv
  <2>2. archivedIds' \subseteq (1 .. nextId - 1) \union {nextId}
    BY <1>2 DEF CompactionInv
  <2> QED BY <1>2, <2>1, <2>2, FreshId DEF CompactionInv
<1> QED BY <1>1, <1>2, <1>3, <1>4, RequestGoesOut

LEMMA RecoverStep ==
  ASSUME CompactionInv, NEW messages, NEW from, Recover(messages, from),
         Headed(messages), IdsOf(messages) \subseteq 1 .. nextId - 1,
         IdsOf(conversation) \subseteq IdsOf(messages) \union archivedIds,
         UNCHANGED <<conversation, nextId>>
  PROVE  CompactionInv' /\ archivedIds \subseteq archivedIds' /\ compaction' = "recover"
BY DEF Recover, CompactionInv, RequestKeepsInstruction

LEMMA RebuiltStep ==
  ASSUME CompactionInv, compaction \in {"recover", "emergency"}, NEW size, Rebuilt(size),
         UNCHANGED archivedIds
  PROVE  /\ CompactionInv'
         /\ IdsOf(conversation) \subseteq IdsOf(conversation') \union archivedIds'
         /\ compaction' = "model" =>
              IdsOf(conversation') \subseteq IdsOf(outgoing') \union archivedIds'
<1>1. PICK low, smaller :
        LET final == FinalizeWithVerbatimTail(outgoing, BriefMessage(size), HeaderSize, low) IN
        IF resumes = "before" \/ smaller
          THEN /\ outgoing' = final /\ compaction' = "model" /\ nextId' = nextId + 1
               /\ conversation' = IF resumes = "before" THEN final ELSE conversation
          ELSE /\ outgoing' = <<>> /\ compaction' = "failed"
               /\ UNCHANGED <<conversation, nextId>>
  BY Zenon DEF Rebuilt
<1>2. PICK final : final = FinalizeWithVerbatimTail(outgoing, BriefMessage(size), HeaderSize, low)
  OBVIOUS
<1>3. /\ Headed(final) /\ Len(final) > 1 /\ final[2] = BriefMessage(size)
      /\ IdsOf(final) \subseteq IdsOf(outgoing) \union {nextId}
  <2>1. Headed(outgoing)
    BY DEF CompactionInv
  <2>2. BriefedFrom(outgoing, BriefMessage(size), final)
    BY <1>2, <2>1, RebuiltIsHeaded, BriefIsMessage, Zenon
  <2> QED BY <2>2, BriefIsMessage DEF BriefedFrom
<1>4. CASE compaction' = "failed" /\ UNCHANGED <<conversation, nextId>>
  BY <1>4 DEF CompactionInv, RequestKeepsInstruction
<1>5. ASSUME outgoing' = final, compaction' = "model", nextId' = nextId + 1,
             conversation' \in {final, conversation}
      PROVE  /\ CompactionInv'
             /\ IdsOf(conversation) \subseteq archivedIds
             /\ IdsOf(conversation') \subseteq IdsOf(outgoing') \union archivedIds'
  <2>1. /\ IdsOf(outgoing') \subseteq 1 .. nextId' - 1 /\ nextId' \in Nat
        /\ IdsOf(conversation') \subseteq 1 .. nextId' - 1
        /\ archivedIds' \subseteq 1 .. nextId' - 1
    <3>1. IdsOf(final) \subseteq (1 .. nextId - 1) \union {nextId}
      BY <1>3 DEF CompactionInv
    <3>2. /\ IdsOf(conversation) \subseteq (1 .. nextId - 1) \union {nextId}
          /\ archivedIds \subseteq (1 .. nextId - 1) \union {nextId} /\ nextId \in Nat
      BY DEF CompactionInv
    <3> QED BY <1>5, <3>1, <3>2, FreshId
  <2>2. Headed(conversation') /\ Headed(outgoing')
    BY <1>3, <1>5 DEF CompactionInv
  <2>3. /\ IdsOf(conversation) \subseteq archivedIds
        /\ IdsOf(conversation') \subseteq IdsOf(outgoing') \union archivedIds'
    BY <1>5 DEF CompactionInv
  <2>4. /\ outgoing'[1].role = "system"
        /\ Len(outgoing') > 1 /\ outgoing'[2].role = "user" /\ outgoing'[2].id \notin archivedIds'
    <3>1. Len(final) \in Nat /\ DOMAIN final = 1 .. Len(final)
      BY <1>3, SequenceOfItsRange DEF Headed
    <3>2. final[1].role = "system"
      BY <1>3, <3>1 DEF Headed
    <3>3. final[2].role = "user" /\ final[2].id = nextId /\ nextId \notin archivedIds
      BY <1>3, BriefIsMessage, FreshId
    <3> QED BY <1>3, <1>5, <3>2, <3>3
  <2> QED BY <2>1, <2>2, <2>3, <2>4, <1>5 DEF CompactionInv, RequestKeepsInstruction
<1> QED BY <1>1, <1>2, <1>4, <1>5 DEF CompactionInv

LEMMA CompactionStep ==
  ASSUME CompactionInv, [CompactionNext]_compactionVars
  PROVE  /\ CompactionInv'
         /\ IdsOf(conversation) \subseteq IdsOf(conversation') \union archivedIds'
         /\ compactionVars' # compactionVars /\ compaction' = "model" =>
              IdsOf(conversation') \subseteq IdsOf(outgoing') \union archivedIds'
<1> DEFINE Goal == /\ CompactionInv'
                   /\ IdsOf(conversation) \subseteq IdsOf(conversation') \union archivedIds'
                   /\ compactionVars' # compactionVars /\ compaction' = "model" =>
                        IdsOf(conversation') \subseteq IdsOf(outgoing') \union archivedIds'
<1>1. CASE UNCHANGED compactionVars
  BY <1>1 DEF compactionVars, CompactionInv, RequestKeepsInstruction
<1>2. CASE UserSpeaks
  <2>1. PICK m : Grown(m) /\ IsMessage(m) /\ m.id = nextId /\ m.role = "user"
    BY <1>2, MessageIsMessage DEF UserSpeaks, CompactionInv
  <2>2. compaction' = "converse" /\ UNCHANGED archivedIds
    BY <1>2 DEF UserSpeaks
  <2> QED BY <2>1, <2>2, ConversationGrows
<1>3. CASE ToolReplies
  <2>1. PICK call, m :
          call \in OpenCalls(conversation) /\ Grown(m) /\ IsMessage(m) /\ m.id = nextId /\ m.role = "tool" /\ m.answers = call
    BY <1>3, MessageIsMessage DEF ToolReplies, CompactionInv
  <2>2. \E i \in DOMAIN conversation : call \in conversation[i].calls
    BY <2>1 DEF OpenCalls
  <2>3. compaction' = "converse" /\ UNCHANGED archivedIds
    BY <1>3 DEF ToolReplies
  <2> QED BY <2>1, <2>2, <2>3, ConversationGrows
<1>4. CASE ModelTakes
  <2>1. PICK m : Grown(m) /\ IsMessage(m) /\ m.id = nextId /\ m.role = "assistant"
    <3>1. PICK calls, prompt, completion :
            Grown(Message(nextId, "assistant", 1, calls, 0, prompt, completion))
      BY <1>4, Zenon DEF ModelTakes
    <3> QED BY <3>1, MessageIsMessage DEF CompactionInv
  <2>2. compaction' = "converse" /\ UNCHANGED archivedIds
    BY <1>4 DEF ModelTakes
  <2> QED BY <2>1, <2>2, ConversationGrows
<1>5. CASE RequestFits
  <2>1. /\ UNCHANGED <<conversation, archivedIds, nextId>> /\ outgoing' = conversation
        /\ compaction' = "model"
    BY <1>5, Zenon DEF RequestFits
  <2>2. CompactionInv'
    BY <2>1, RequestGoesOut DEF CompactionInv
  <2> QED BY <2>1, <2>2
<1>6. CASE RequestSummarizes
  <2>1. UNCHANGED <<conversation, outgoing, archivedIds, nextId>> /\ compaction' = "summarize"
    BY <1>6, Zenon DEF RequestSummarizes
  <2> QED BY <2>1 DEF CompactionInv, RequestKeepsInstruction
<1>7. CASE RequestTooLarge
  <2>1. UNCHANGED <<conversation, nextId>> /\ Recover(conversation, "before")
    BY <1>7, Zenon DEF RequestTooLarge
  <2>2. CompactionInv' /\ compaction' = "recover"
    BY <2>1, RecoverStep DEF CompactionInv
  <2> QED BY <2>1, <2>2
<1>8. CASE Summarized
  BY <1>8, SummarizedStep
<1>9. CASE SummaryRetried
  BY <1>9 DEF SummaryRetried, CompactionInv, RequestKeepsInstruction
<1>10. CASE CompactionFails
  BY <1>10 DEF CompactionFails, CompactionInv, RequestKeepsInstruction
<1>11. CASE ProviderOverflows
  <2>1. UNCHANGED <<conversation, nextId>> /\ Recover(outgoing, "model") /\ compaction = "model"
    BY <1>11, Zenon DEF ProviderOverflows
  <2>2. CompactionInv' /\ compaction' = "recover"
    BY <2>1, RecoverStep DEF CompactionInv
  <2> QED BY <2>1, <2>2
<1>12. CASE EmergencyAsks
  <2>1. /\ UNCHANGED <<conversation, outgoing, archivedIds, nextId>>
        /\ compaction = "recover" /\ compaction' = "emergency"
    BY <1>12, Zenon DEF EmergencyAsks
  <2> QED BY <2>1 DEF CompactionInv, RequestKeepsInstruction
<1>13. CASE EmergencyOverflows
  <2>1. /\ UNCHANGED <<conversation, outgoing, archivedIds, nextId>>
        /\ compaction = "emergency" /\ compaction' = "recover"
    BY <1>13, Zenon DEF EmergencyOverflows
  <2> QED BY <2>1 DEF CompactionInv, RequestKeepsInstruction
<1>14. CASE RecoveryFinishes
  <2>1. PICK size : Rebuilt(size)
    BY <1>14, Zenon DEF RecoveryFinishes
  <2>2. UNCHANGED archivedIds /\ compaction \in {"recover", "emergency"}
    <3>1. UNCHANGED archivedIds /\ (compaction = "recover" \/ compaction = "emergency")
      BY <1>14, Zenon DEF RecoveryFinishes
    <3> QED BY <3>1
  <2> QED BY <2>1, <2>2, RebuiltStep
<1> QED BY <1>1, <1>2, <1>3, <1>4, <1>5, <1>6, <1>7, <1>8, <1>9, <1>10, <1>11, <1>12, <1>13,
           <1>14 DEF CompactionNext

LEMMA CompactionInitInv ==
  ASSUME CompactionInit
  PROVE  CompactionInv
<1>1. /\ IsMessage(System) /\ System.id = 1 /\ System.role = "system"
  BY MessageIsMessage DEF System
<1>2. PICK m : m = System
  OBVIOUS
<1>3. conversation = <<m>> /\ nextId = 2 /\ archivedIds = {} /\ compaction = "converse"
  BY <1>2 DEF CompactionInit
<1>4. /\ conversation \in Seq({m}) /\ Len(conversation) = 1 /\ DOMAIN conversation = {1}
      /\ conversation[1] = m
  BY <1>3
<1>5. conversation \in Seq(Range(conversation)) /\ conversation # <<>>
  BY <1>4, SequenceOfItsRange, SMTT(30)
<1>6. Headed(conversation) /\ IdsOf(conversation) = {1}
  BY <1>1, <1>2, <1>4, <1>5 DEF Headed, IdsOf, ProtocolValidSuffix
<1> QED BY <1>3, <1>6 DEF CompactionInv, RequestKeepsInstruction

\* What a rejected request is rebuilt from is archived, whatever the provider
\* rejects, names, answers or fails.
THEOREM CompactionCorrect == CompactionSpec => []CompactionInv
<1>1. CompactionInit => CompactionInv
  BY CompactionInitInv
<1>2. CompactionInv /\ [CompactionNext]_compactionVars => CompactionInv'
  BY CompactionStep
<1> QED BY <1>1, <1>2, PTL DEF CompactionSpec

\* Every request, summarized, recovered or recovered again, for messages of any
\* size and a provider of any ceiling: a tool result follows its call, the
\* agent's instruction heads it, and what it lacks of the conversation is
\* behind a brief (finalizeWithVerbatimTail, recoverOverflow).
THEOREM RequestsStayValidCorrect == CompactionSpec => []RequestsStayValid
<1>1. CompactionInv => RequestsStayValid
  BY DEF CompactionInv, RequestsStayValid, ResultsFollowCalls, Headed
<1> QED BY <1>1, CompactionCorrect, PTL

\* A message leaves the conversation, or the request, only once it is in an
\* exact transcript (cacheAlignedCompaction, recoverOverflow).
THEOREM DroppedIsArchivedCorrect == CompactionSpec => DroppedIsArchived
<1>1. CompactionInv /\ [CompactionNext]_compactionVars =>
        [/\ IdsOf(conversation) \subseteq IdsOf(conversation') \union archivedIds'
         /\ compaction' = "model" =>
              IdsOf(conversation') \subseteq IdsOf(outgoing') \union archivedIds']_compactionVars
  BY CompactionStep
<1> QED BY <1>1, CompactionCorrect, PTL DEF CompactionSpec, DroppedIsArchived

-----------------------------------------------------------------------------
(* How many epochs a run of an agent can begin.                             *)

\* The next request goes out in the epoch of the surface.
InItsEpoch(run) ==
  /\ run.surface.epoch > 0 /\ run.surface.header = run.header
  /\ IsPrefix(run.surface.messages, run.messages)

\* A run may begin an epoch with its first request, and one more after it was
\* compacted: it is compacted once.
EpochsLeft(run) ==
  (IF run.pc = "locked" \/ (run.pc = "before" /\ ~InItsEpoch(run)) THEN 1 ELSE 0)
    + (IF run.pc # "locked" /\ Contains(run.messages, Brief) THEN 0 ELSE 1)

\* The epoch a goroutine works in.
EpochOf(run) == IF run.pc = "locked" THEN surfaceHead.epoch ELSE run.surface.epoch

BudgetOf(w) ==
  LET run == agentRun[w] IN
  /\ run.attempt \in 0 .. 2
  /\ run.pc # "idle" => runsStarted > 0 /\ EpochOf(run) + EpochsLeft(run) <= 2 * runsStarted
  /\ run.pc = "after" => run.surface.epoch > 0 /\ run.surface.header = run.header

EpochBudget ==
  /\ runsStarted \in 0 .. MaxRuns
  /\ surfaceHead.epoch <= 2 * runsStarted
  /\ epochsStarted \subseteq (1 .. 2 * runsStarted) \X Headers
  /\ surfaceLock \in AgentRuns \union {NoHolder}
  /\ \A w \in AgentRuns : BudgetOf(w)

BudgetInv == SurfaceInv /\ EpochBudget

\* While a goroutine is under way the others are idle.
LEMMA HolderBudget ==
  ASSUME SurfaceInv, SurfaceInv', EpochBudget, NEW w \in AgentRuns, agentRun[w].pc # "idle",
         surfaceLock' = surfaceLock, runsStarted' = runsStarted,
         \A v \in AgentRuns : v # w => agentRun'[v] = agentRun[v],
         surfaceHead'.epoch <= 2 * runsStarted, BudgetOf(w)',
         epochsStarted' \subseteq (1 .. 2 * runsStarted) \X Headers
  PROVE  EpochBudget'
<1>1. \A v \in AgentRuns : v # w => agentRun'[v] = agentRun[v] /\ agentRun[v].pc = "idle"
  BY DEF SurfaceInv, LockHeld
<1>2. \A v \in AgentRuns : v # w => BudgetOf(v)'
  BY <1>1 DEF BudgetOf, EpochBudget
<1> QED BY <1>2 DEF EpochBudget

LEMMA ContainsAppended ==
  ASSUME NEW m \in Seq(Messages), NEW x \in Messages, x # Brief
  PROVE  Contains(Append(m, x), Brief) <=> Contains(m, Brief)
<1>1. /\ DOMAIN m = 1 .. Len(m) /\ DOMAIN Append(m, x) = 1 .. (Len(m) + 1) /\ Len(m) \in Nat
      /\ Append(m, x)[Len(m) + 1] = x /\ \A i \in 1 .. Len(m) : Append(m, x)[i] = m[i]
      /\ Len(Append(m, x)) = Len(m) + 1
  OBVIOUS
<1>2. \A i \in 1 .. (Len(m) + 1) : i \in 1 .. Len(m) \/ i = Len(m) + 1
  BY <1>1
<1>3. \A i \in 1 .. Len(m) : i \in 1 .. (Len(m) + 1)
  BY <1>1
<1> QED BY <1>1, <1>2, <1>3, Zenon DEF Contains

LEMMA BudgetInit == ASSUME SurfaceInit PROVE BudgetInv
<1>1. SurfaceInv
  BY SurfaceInitInv
<1>2. /\ surfaceHead.epoch = 0 /\ epochsStarted = {} /\ surfaceLock = NoHolder
      /\ runsStarted = 0 /\ \A w \in AgentRuns : agentRun[w].pc = "idle" /\ agentRun[w].attempt = 0
  BY DEF SurfaceInit, FreshSurface, IdleRun
<1>3. \A w \in AgentRuns : BudgetOf(w)
  BY <1>2 DEF BudgetOf
<1> QED BY <1>1, <1>2, <1>3, SurfaceAssumption DEF BudgetInv, EpochBudget

\* A goroutine that gets the lock may begin two epochs more.
LEMMA RunLockBudget ==
  ASSUME BudgetInv, SurfaceInv', NEW w \in AgentRuns, RunLock(w)
  PROVE  EpochBudget'
<1>1. /\ surfaceHead' = surfaceHead /\ epochsStarted' = epochsStarted
      /\ surfaceLock = NoHolder /\ surfaceLock' = w /\ runsStarted' = runsStarted + 1
      /\ runsStarted < MaxRuns
      /\ agentRun' = [agentRun EXCEPT ![w].pc = "locked"]
  BY DEF RunLock
<1>2. /\ agentRun \in [AgentRuns -> RunRecords] /\ surfaceHead.epoch \in Nat
      /\ MaxRuns \in Nat /\ runsStarted \in 0 .. MaxRuns /\ surfaceHead.epoch <= 2 * runsStarted
      /\ epochsStarted \subseteq (1 .. 2 * runsStarted) \X Headers
      /\ \A v \in AgentRuns : agentRun[v].attempt \in 0 .. 2
  BY SurfaceAssumption DEF BudgetInv, SurfaceInv, SurfaceTypes, SurfaceRecords, EpochBudget, BudgetOf
<1>3. /\ agentRun'[w].pc = "locked" /\ agentRun'[w].attempt = agentRun[w].attempt
      /\ \A v \in AgentRuns : v # w => agentRun'[v] = agentRun[v]
  BY <1>1, <1>2 DEF RunRecords
<1>4. \A v \in AgentRuns : v # w => agentRun'[v].pc = "idle"
  BY <1>1, <1>3, SurfaceAssumption DEF BudgetInv, SurfaceInv, LockHeld
<1>5. BudgetOf(w)'
  BY <1>1, <1>2, <1>3 DEF BudgetOf, EpochOf, EpochsLeft
<1>6. \A v \in AgentRuns : BudgetOf(v)'
  BY <1>2, <1>3, <1>4, <1>5 DEF BudgetOf
<1>7. (1 .. 2 * runsStarted) \X Headers \subseteq (1 .. 2 * runsStarted') \X Headers
  BY <1>1, <1>2
<1> QED BY <1>1, <1>2, <1>6, <1>7 DEF EpochBudget

LEMMA RunPrepareBudget ==
  ASSUME BudgetInv, SurfaceInv', NEW w \in AgentRuns, RunPrepare(w)
  PROVE  EpochBudget'
<1>1. PICK h \in Headers, d \in Snapshots :
        agentRun' = [agentRun EXCEPT
                      ![w] = [pc |-> "before", surface |-> surfaceHead,
                              messages |-> Prepared(surfaceHead, request, d),
                              header |-> h, snapshot |-> d, attempt |-> 1]]
  BY DEF RunPrepare
<1>2. /\ agentRun[w].pc = "locked"
      /\ UNCHANGED <<surfaceHead, epochsStarted, surfaceLock, request, runsStarted>>
  BY DEF RunPrepare
<1>3. /\ agentRun \in [AgentRuns -> RunRecords] /\ surfaceHead.epoch \in Nat
      /\ MaxRuns \in Nat /\ runsStarted \in 0 .. MaxRuns
      /\ surfaceHead.epoch + 2 <= 2 * runsStarted /\ runsStarted > 0
      /\ epochsStarted \subseteq (1 .. 2 * runsStarted) \X Headers
      /\ surfaceHead.epoch <= 2 * runsStarted
  <2>1. /\ agentRun \in [AgentRuns -> RunRecords] /\ surfaceHead.epoch \in Nat
        /\ MaxRuns \in Nat /\ runsStarted \in 0 .. MaxRuns
        /\ epochsStarted \subseteq (1 .. 2 * runsStarted) \X Headers
        /\ surfaceHead.epoch <= 2 * runsStarted /\ BudgetOf(w)
    BY SurfaceAssumption DEF BudgetInv, SurfaceInv, SurfaceTypes, SurfaceRecords, EpochBudget
  <2>2. EpochsLeft(agentRun[w]) = 2 /\ EpochOf(agentRun[w]) = surfaceHead.epoch
    BY <1>2 DEF EpochsLeft, EpochOf
  <2> QED BY <1>2, <2>1, <2>2 DEF BudgetOf
<1>4. /\ agentRun'[w].pc = "before" /\ agentRun'[w].surface = surfaceHead
      /\ agentRun'[w].attempt = 1
      /\ \A v \in AgentRuns : v # w => agentRun'[v] = agentRun[v]
  BY <1>1, <1>3
<1>5. EpochsLeft(agentRun'[w]) \in 0 .. 2
  BY DEF EpochsLeft
<1>6. BudgetOf(w)'
  BY <1>2, <1>3, <1>4, <1>5 DEF BudgetOf, EpochOf
<1> QED BY <1>2, <1>3, <1>4, <1>6, HolderBudget DEF BudgetInv

\* What a goroutine under way works on, and what its epoch leaves it.
LEMMA UnderWay ==
  ASSUME BudgetInv, NEW w \in AgentRuns, agentRun[w].pc \in {"before", "model", "after"}
  PROVE  /\ agentRun \in [AgentRuns -> RunRecords] /\ agentRun[w] \in RunRecords
         /\ surfaceHead \in SurfaceRecords /\ surfaceHead.epoch \in Nat
         /\ surfaceHead.epoch <= 2 * runsStarted
         /\ agentRun[w].surface.epoch \in Nat /\ agentRun[w].surface.messages \in Seq(Messages)
         /\ agentRun[w].messages \in Seq(Messages)
         /\ runsStarted \in Nat /\ runsStarted > 0 /\ agentRun[w].attempt \in 0 .. 2
         /\ epochsStarted \subseteq (1 .. 2 * runsStarted) \X Headers
         /\ agentRun[w].surface.epoch + EpochsLeft(agentRun[w]) <= 2 * runsStarted
         /\ RunInv(w) /\ agentRun[w].header \in Headers
<1>1. agentRun[w] \in RunRecords /\ surfaceHead \in SurfaceRecords /\ RunInv(w)
      /\ agentRun \in [AgentRuns -> RunRecords]
  BY DEF BudgetInv, SurfaceInv, SurfaceTypes
<1>2. agentRun[w].surface \in SurfaceRecords /\ agentRun[w].messages \in Seq(Messages)
  BY <1>1 DEF RunRecords
<1>3. runsStarted \in Nat /\ BudgetOf(w) /\ surfaceHead.epoch <= 2 * runsStarted
      /\ epochsStarted \subseteq (1 .. 2 * runsStarted) \X Headers
  BY SurfaceAssumption DEF BudgetInv, EpochBudget
<1>4. /\ runsStarted > 0 /\ agentRun[w].attempt \in 0 .. 2
      /\ agentRun[w].surface.epoch + EpochsLeft(agentRun[w]) <= 2 * runsStarted
  BY <1>3 DEF BudgetOf, EpochOf
<1>5. agentRun[w].header \in Headers
  BY <1>1 DEF RunInv
<1> QED BY <1>1, <1>2, <1>3, <1>4, <1>5 DEF SurfaceRecords

\* It is compacted once: that spends what it kept for it.
LEMMA RunCompactBudget ==
  ASSUME BudgetInv, SurfaceInv', NEW w \in AgentRuns, RunCompact(w)
  PROVE  EpochBudget'
<1>1. PICK n \in 0 .. Len(agentRun[w].messages) :
        agentRun' = [agentRun EXCEPT ![w].messages = <<Brief>> \o SubSeq(@, n + 1, Len(@))]
  BY DEF RunCompact
<1> DEFINE old == agentRun[w]
           t == SubSeq(old.messages, n + 1, Len(old.messages))
           m == <<Brief>> \o t
<1>2. /\ old.pc = "before" /\ ~Contains(old.messages, Brief)
      /\ UNCHANGED <<surfaceHead, epochsStarted, surfaceLock, request, runsStarted>>
  BY DEF RunCompact
<1>3. /\ agentRun \in [AgentRuns -> RunRecords] /\ old \in RunRecords
      /\ old.messages \in Seq(Messages) /\ old.surface.epoch \in Nat
      /\ surfaceHead.epoch <= 2 * runsStarted
      /\ runsStarted \in Nat /\ runsStarted > 0 /\ old.attempt \in 0 .. 2
      /\ epochsStarted \subseteq (1 .. 2 * runsStarted) \X Headers
      /\ old.surface.epoch + EpochsLeft(old) <= 2 * runsStarted
  BY <1>2, UnderWay
<1>4. /\ agentRun'[w].pc = "before" /\ agentRun'[w].surface = old.surface
      /\ agentRun'[w].attempt = old.attempt /\ agentRun'[w].messages = m
      /\ \A v \in AgentRuns : v # w => agentRun'[v] = agentRun[v]
  BY <1>1, <1>2, <1>3 DEF RunRecords
<1>5. Contains(m, Brief)
  <2>1. t \in Seq(Messages)
    <3>1. /\ \A i \in n + 1 .. Len(old.messages) : i \in 1 .. Len(old.messages)
                                                   /\ old.messages[i] \in Messages
          /\ n + 1 \in Int /\ Len(old.messages) \in Int
      BY <1>3
    <3> QED BY <3>1, SubSeqProperties, Zenon
  <2>2. <<Brief>> \in Seq({Brief}) /\ Len(<<Brief>>) = 1 /\ <<Brief>>[1] = Brief
    OBVIOUS
  <2> HIDE DEF t
  <2>3. Len(m) = 1 + Len(t) /\ Len(t) \in Nat /\ m[1] = Brief /\ m \in Seq(Messages \union {Brief})
    BY <2>1, <2>2
  <2> QED BY <2>3 DEF Contains
<1> HIDE DEF m
<1>6. EpochsLeft(old) >= 1 /\ EpochsLeft(agentRun'[w]) \in 0 .. 1
  BY <1>2, <1>4, <1>5 DEF EpochsLeft
<1>7. EpochsLeft(old) \in 0 .. 2
  BY DEF EpochsLeft
<1>8. agentRun'[w].surface.epoch + EpochsLeft(agentRun'[w]) <= 2 * runsStarted
  <2> HIDE DEF old
  <2> QED BY <1>3, <1>4, <1>6, <1>7
<1>9. BudgetOf(w)'
  BY <1>2, <1>3, <1>4, <1>8 DEF BudgetOf, EpochOf
<1> QED BY <1>2, <1>3, <1>4, <1>9, HolderBudget DEF BudgetInv

\* A request that is not settled spends an epoch at most.
LEMMA BeforeModelBudget ==
  ASSUME BudgetInv, SurfaceInv', NEW w \in AgentRuns, BeforeModel(w)
  PROVE  EpochBudget'
<1> DEFINE old == agentRun[w]
           epoch == EpochAfter(old.surface, old.header, old.messages)
<1>1. /\ old.pc = "before"
      /\ epochsStarted' = IF epoch # old.surface.epoch
                            THEN epochsStarted \union {<<epoch, old.header>>}
                            ELSE epochsStarted
      /\ agentRun' = [agentRun EXCEPT ![w].pc = "model", ![w].surface.epoch = epoch,
                                      ![w].surface.header = old.header]
      /\ UNCHANGED <<surfaceHead, surfaceLock, request, runsStarted>>
  BY DEF BeforeModel
<1>2. /\ agentRun \in [AgentRuns -> RunRecords] /\ old \in RunRecords
      /\ old.messages \in Seq(Messages) /\ old.surface.epoch \in Nat
      /\ surfaceHead.epoch <= 2 * runsStarted
      /\ runsStarted \in Nat /\ runsStarted > 0 /\ old.attempt \in 0 .. 2
      /\ epochsStarted \subseteq (1 .. 2 * runsStarted) \X Headers
      /\ old.surface.epoch + EpochsLeft(old) <= 2 * runsStarted
      /\ old.header \in Headers
  BY <1>1, UnderWay
<1>3. /\ epoch \in {old.surface.epoch, old.surface.epoch + 1}
      /\ InItsEpoch(old) => epoch = old.surface.epoch
  BY DEF EpochAfter, InItsEpoch
<1>4. old.surface \in SurfaceRecords
  BY <1>2 DEF RunRecords
<1> HIDE DEF epoch
<1>5. /\ agentRun'[w].pc = "model" /\ agentRun'[w].surface.epoch = epoch
      /\ agentRun'[w].attempt = old.attempt /\ agentRun'[w].messages = old.messages
      /\ \A v \in AgentRuns : v # w => agentRun'[v] = agentRun[v]
  BY <1>1, <1>2, <1>4 DEF RunRecords, SurfaceRecords
<1>6. /\ epoch + EpochsLeft(agentRun'[w]) <= 2 * runsStarted
      /\ epoch # old.surface.epoch => epoch \in 1 .. 2 * runsStarted
  <2>1. InItsEpoch(old) \in BOOLEAN
    BY DEF InItsEpoch
  <2>2. CASE InItsEpoch(old)
    <3>1. EpochsLeft(agentRun'[w]) = EpochsLeft(old) /\ epoch = old.surface.epoch
      BY <1>1, <1>3, <1>5, <2>2 DEF EpochsLeft
    <3> QED BY <1>2, <3>1
  <2>3. CASE ~InItsEpoch(old)
    <3>1. /\ EpochsLeft(old) = EpochsLeft(agentRun'[w]) + 1
          /\ EpochsLeft(agentRun'[w]) \in 0 .. 1
      BY <1>1, <1>5, <2>3 DEF EpochsLeft
    <3> HIDE DEF old
    <3> QED BY <1>2, <1>3, <3>1
  <2> QED BY <2>2, <2>3
<1>7. BudgetOf(w)'
  BY <1>1, <1>2, <1>5, <1>6 DEF BudgetOf, EpochOf
<1>8. epochsStarted' \subseteq (1 .. 2 * runsStarted) \X Headers
  BY <1>1, <1>2, <1>6
<1> QED BY <1>1, <1>2, <1>5, <1>7, <1>8, HolderBudget DEF BudgetInv

LEMMA ModelAnswersBudget ==
  ASSUME BudgetInv, SurfaceInv', NEW w \in AgentRuns, ModelAnswers(w)
  PROVE  EpochBudget'
<1> DEFINE old == agentRun[w]
           m == Append(old.messages, AnswerOf(w))
           s == [old.surface EXCEPT !.messages = m, !.lastSession = request,
                                    !.lastSnapshot = old.snapshot]
<1>1. /\ old.pc = "model" /\ surfaceHead' = s
      /\ agentRun' = [agentRun EXCEPT ![w].pc = "after", ![w].surface = s,
                                      ![w].messages = s.messages]
      /\ UNCHANGED <<epochsStarted, surfaceLock, request, runsStarted>>
  BY DEF ModelAnswers
<1>2. /\ agentRun \in [AgentRuns -> RunRecords] /\ old \in RunRecords
      /\ old.messages \in Seq(Messages) /\ old.surface.epoch \in Nat
      /\ surfaceHead \in SurfaceRecords
      /\ runsStarted \in Nat /\ runsStarted > 0 /\ old.attempt \in 0 .. 2
      /\ epochsStarted \subseteq (1 .. 2 * runsStarted) \X Headers
      /\ old.surface.epoch + EpochsLeft(old) <= 2 * runsStarted
      /\ RunInv(w) /\ old.header \in Headers
  BY <1>1, UnderWay
<1>3. old.surface \in SurfaceRecords
  BY <1>2 DEF RunRecords
<1>4. old.surface.epoch > 0 /\ old.surface.header = old.header
  <2>1. old.surface.epoch = EpochAfter(surfaceHead, old.header, old.messages)
        /\ old.surface.header = old.header
    BY <1>1, <1>2 DEF RunInv
  <2>2. EpochAfter(surfaceHead, old.header, old.messages) \in Nat \ {0}
    BY <1>2, EpochAfterKeeps
  <2> QED BY <1>2, <2>1, <2>2
<1>5. Contains(m, Brief) <=> Contains(old.messages, Brief)
  <2>1. AnswerOf(w) \in Messages /\ AnswerOf(w) # Brief
    BY MessageTags
  <2> QED BY <1>2, <2>1, ContainsAppended
<1> HIDE DEF m
<1>6. s.epoch = old.surface.epoch /\ s.header = old.surface.header /\ s.messages = m
  BY <1>3 DEF SurfaceRecords
<1> HIDE DEF s
<1>7. /\ agentRun'[w].pc = "after" /\ agentRun'[w].surface = s /\ agentRun'[w].messages = m
      /\ agentRun'[w].attempt = old.attempt /\ agentRun'[w].header = old.header
      /\ \A v \in AgentRuns : v # w => agentRun'[v] = agentRun[v]
  BY <1>1, <1>2, <1>6 DEF RunRecords
<1>8. EpochsLeft(agentRun'[w]) = EpochsLeft(old) /\ EpochsLeft(old) \in 0 .. 2
  BY <1>1, <1>5, <1>7 DEF EpochsLeft
<1>9. BudgetOf(w)'
  BY <1>1, <1>2, <1>4, <1>6, <1>7, <1>8 DEF BudgetOf, EpochOf
<1>10. surfaceHead'.epoch <= 2 * runsStarted
  <2> HIDE DEF old
  <2> QED BY <1>1, <1>2, <1>6, <1>8
<1> QED BY <1>1, <1>2, <1>7, <1>9, <1>10, HolderBudget DEF BudgetInv

LEMMA AfterAgentBudget ==
  ASSUME BudgetInv, SurfaceInv', NEW w \in AgentRuns, AfterAgent(w)
  PROVE  EpochBudget'
<1> DEFINE old == agentRun[w]
           m == Append(old.messages, ToolResults)
           s == [surfaceHead EXCEPT !.messages = m]
<1>1. /\ agentRun \in [AgentRuns -> RunRecords] /\ old \in RunRecords
      /\ old.messages \in Seq(Messages) /\ old.pc = "after"
      /\ surfaceHead \in SurfaceRecords /\ surfaceHead.epoch <= 2 * runsStarted
      /\ runsStarted \in Nat /\ runsStarted > 0 /\ old.attempt \in 0 .. 2
      /\ epochsStarted \subseteq (1 .. 2 * runsStarted) \X Headers
      /\ old.surface.epoch + EpochsLeft(old) <= 2 * runsStarted
      /\ RunInv(w)
  BY UnderWay DEF AfterAgent
<1>2. /\ old.surface = surfaceHead
      /\ old.surface.epoch > 0 /\ old.surface.header = old.header
  BY <1>1 DEF RunInv, BudgetInv, EpochBudget, BudgetOf
<1>3. /\ surfaceHead' = s /\ agentRun' = [agentRun EXCEPT ![w].surface = s, ![w].messages = m]
      /\ UNCHANGED <<epochsStarted, surfaceLock, request, runsStarted>>
  <2>1. s.messages = m
    BY <1>1 DEF SurfaceRecords
  <2> QED BY <1>2, <2>1 DEF AfterAgent
<1>4. Contains(m, Brief) <=> Contains(old.messages, Brief)
  <2>1. ToolResults \in Messages /\ ToolResults # Brief
    BY MessageTags
  <2> QED BY <1>1, <2>1, ContainsAppended
<1> HIDE DEF m
<1>5. s.epoch = surfaceHead.epoch /\ s.header = surfaceHead.header /\ s.messages = m
  BY <1>1 DEF SurfaceRecords
<1> HIDE DEF s
<1>6. /\ agentRun'[w].pc = "after" /\ agentRun'[w].surface = s /\ agentRun'[w].messages = m
      /\ agentRun'[w].attempt = old.attempt /\ agentRun'[w].header = old.header
      /\ \A v \in AgentRuns : v # w => agentRun'[v] = agentRun[v]
  BY <1>1, <1>3 DEF RunRecords
<1>7. EpochsLeft(agentRun'[w]) = EpochsLeft(old) /\ EpochsLeft(old) \in 0 .. 2
  BY <1>1, <1>4, <1>6 DEF EpochsLeft
<1>8. BudgetOf(w)'
  BY <1>1, <1>2, <1>3, <1>5, <1>6, <1>7 DEF BudgetOf, EpochOf
<1> QED BY <1>1, <1>3, <1>5, <1>6, <1>8, HolderBudget DEF BudgetInv

\* A request that only goes on after what was committed is settled.
LEMMA GoesOnBudget ==
  ASSUME BudgetInv, SurfaceInv', NEW w \in AgentRuns, agentRun[w].pc = "after",
         NEW x \in Messages, x # Brief, NEW a \in 0 .. 2,
         agentRun' = [agentRun EXCEPT ![w] =
                       [agentRun[w] EXCEPT !.pc = "before", !.attempt = a,
                                           !.messages = Append(surfaceHead.messages, x)]],
         UNCHANGED <<surfaceHead, epochsStarted, surfaceLock, request, runsStarted>>
  PROVE  EpochBudget'
<1> DEFINE old == agentRun[w]
           m == Append(surfaceHead.messages, x)
<1>1. /\ agentRun \in [AgentRuns -> RunRecords] /\ old \in RunRecords
      /\ surfaceHead \in SurfaceRecords /\ surfaceHead.epoch <= 2 * runsStarted
      /\ old.messages \in Seq(Messages) /\ old.surface.epoch \in Nat
      /\ runsStarted \in Nat /\ runsStarted > 0
      /\ epochsStarted \subseteq (1 .. 2 * runsStarted) \X Headers
      /\ old.surface.epoch + EpochsLeft(old) <= 2 * runsStarted
      /\ RunInv(w)
  BY UnderWay
<1>2. /\ old.surface = surfaceHead /\ old.messages = surfaceHead.messages
      /\ old.surface.epoch > 0 /\ old.surface.header = old.header
  BY <1>1 DEF RunInv, BudgetInv, EpochBudget, BudgetOf
<1>3. (Contains(m, Brief) <=> Contains(old.messages, Brief)) /\ IsPrefix(old.messages, m)
  <2>1. IsPrefix(old.messages, old.messages)
    BY <1>1 DEF IsPrefix
  <2> QED BY <1>1, <1>2, <2>1, ContainsAppended, PrefixOfAppend
<1> HIDE DEF m
<1> DEFINE r == [old EXCEPT !.pc = "before", !.attempt = a, !.messages = m]
<1>4. /\ agentRun'[w] = r /\ \A v \in AgentRuns : v # w => agentRun'[v] = agentRun[v]
      /\ r.pc = "before" /\ r.surface = old.surface /\ r.messages = m /\ r.attempt = a
      /\ r.header = old.header
  <2>1. agentRun'[w] = r /\ \A v \in AgentRuns : v # w => agentRun'[v] = agentRun[v]
    BY <1>1 DEF m
  <2>2. PICK f \in RunRecords : f = old
    BY <1>1
  <2> HIDE DEF old
  <2>3. /\ r.pc = "before" /\ r.surface = old.surface /\ r.messages = m /\ r.attempt = a
        /\ r.header = old.header
    BY <2>2 DEF RunRecords
  <2> HIDE DEF r
  <2> QED BY <2>1, <2>3
<1> HIDE DEF r
<1>5. /\ agentRun'[w].pc = "before" /\ agentRun'[w].surface = old.surface
      /\ agentRun'[w].messages = m
      /\ agentRun'[w].attempt = a /\ agentRun'[w].header = old.header
      /\ \A v \in AgentRuns : v # w => agentRun'[v] = agentRun[v]
  BY <1>4
<1>6. InItsEpoch(agentRun'[w])
  BY <1>2, <1>3, <1>5 DEF InItsEpoch
<1>7. EpochsLeft(agentRun'[w]) = EpochsLeft(old)
  BY <1>3, <1>5, <1>6 DEF EpochsLeft
<1>8. BudgetOf(w)'
  BY <1>1, <1>5, <1>7 DEF BudgetOf, EpochOf
<1> QED BY <1>1, <1>5, <1>8, HolderBudget DEF BudgetInv

LEMMA AfterStepsBudget ==
  ASSUME BudgetInv, SurfaceInv', NEW w \in AgentRuns, ToolCycle(w) \/ LeaderCorrects(w)
  PROVE  EpochBudget'
<1> DEFINE old == agentRun[w]
<1>1. old.pc = "after"
      /\ UNCHANGED <<surfaceHead, epochsStarted, surfaceLock, request, runsStarted>>
  BY DEF ToolCycle, LeaderCorrects
<1>2. /\ agentRun \in [AgentRuns -> RunRecords] /\ old \in RunRecords /\ old.attempt \in 0 .. 2
      /\ RunInv(w) /\ surfaceHead \in SurfaceRecords
  BY <1>1, UnderWay
<1>3. /\ old.surface = surfaceHead /\ old.messages = surfaceHead.messages
      /\ surfaceHead.lastSession = request /\ surfaceHead.lastSnapshot = old.snapshot
      /\ old.snapshot \in Snapshots
  BY <1>1, <1>2 DEF RunInv
<1>4. /\ Correction \in Messages /\ Correction # Brief
      /\ ToolResults \in Messages /\ ToolResults # Brief
  BY MessageTags
<1>5. CASE ToolCycle(w)
  <2>1. agentRun' = [agentRun EXCEPT ![w] =
                      [agentRun[w] EXCEPT !.pc = "before", !.attempt = old.attempt,
                                          !.messages = Append(surfaceHead.messages, ToolResults)]]
    BY <1>2, <1>3, <1>5 DEF ToolCycle, RunRecords
  <2> QED BY <1>1, <1>2, <1>4, <2>1, GoesOnBudget
<1>6. CASE LeaderCorrects(w)
  <2>1. Prepared(surfaceHead, request, old.snapshot) = surfaceHead.messages
    <3>1. /\ request \in 1 .. MaxRequests /\ surfaceHead.lastSession <= request
          /\ ExactTail(surfaceHead.messages, surfaceHead.lastSession, surfaceHead.lastSnapshot)
      BY DEF BudgetInv, SurfaceInv, SurfaceTypes, HeadInv
    <3> QED BY <1>2, <1>3, <3>1, ExactPrepared
  <2>2. agentRun' = [agentRun EXCEPT
                      ![w].pc = "before", ![w].attempt = 2,
                      ![w].messages = Append(surfaceHead.messages, Correction)]
    BY <1>3, <1>6, <2>1 DEF LeaderCorrects
  <2>3. agentRun' = [agentRun EXCEPT ![w] =
                      [agentRun[w] EXCEPT !.pc = "before", !.attempt = 2,
                                          !.messages = Append(surfaceHead.messages, Correction)]]
    BY <1>2, <2>2 DEF RunRecords
  <2>4. 2 \in 0 .. 2
    OBVIOUS
  <2> QED BY <1>1, <1>4, <2>3, <2>4, GoesOnBudget, Zenon
<1> QED BY <1>5, <1>6

LEMMA IdleBudget ==
  ASSUME BudgetInv,
         (\E w \in AgentRuns : SurfaceRunReturns(w)) \/ SurfaceCrash \/ NextRequest
  PROVE  EpochBudget'
<1>1. /\ agentRun \in [AgentRuns -> RunRecords]
      /\ IdleRun.pc = "idle" /\ IdleRun.attempt = 0
      /\ UNCHANGED <<surfaceHead, epochsStarted, runsStarted>>
  BY DEF BudgetInv, SurfaceInv, SurfaceTypes, IdleRun, SurfaceRunReturns, SurfaceCrash, NextRequest
<1>2. /\ surfaceLock' \in AgentRuns \union {NoHolder}
      /\ \A v \in AgentRuns : agentRun'[v].pc = "idle" /\ agentRun'[v].attempt \in 0 .. 2
  <2>1. ASSUME NEW w \in AgentRuns, SurfaceRunReturns(w)
        PROVE  /\ surfaceLock' \in AgentRuns \union {NoHolder}
               /\ \A v \in AgentRuns : agentRun'[v].pc = "idle" /\ agentRun'[v].attempt \in 0 .. 2
    <3>1. \A v \in AgentRuns : agentRun'[v] = IdleRun
                                 \/ (agentRun'[v] = agentRun[v] /\ v # w)
      BY <1>1, <2>1 DEF SurfaceRunReturns
    <3>2. \A v \in AgentRuns : v # w => agentRun[v].pc = "idle"
      BY <2>1 DEF SurfaceRunReturns, BudgetInv, SurfaceInv, LockHeld
    <3>3. \A v \in AgentRuns : agentRun[v].attempt \in 0 .. 2
      BY DEF BudgetInv, EpochBudget, BudgetOf
    <3> QED BY <1>1, <2>1, <3>1, <3>2, <3>3 DEF SurfaceRunReturns
  <2>2. CASE SurfaceCrash
    BY <1>1, <2>2 DEF SurfaceCrash
  <2>3. CASE NextRequest
    BY <2>3 DEF NextRequest, BudgetInv, EpochBudget, BudgetOf
  <2> QED BY <2>1, <2>2, <2>3
<1>3. \A v \in AgentRuns : BudgetOf(v)'
  BY <1>2 DEF BudgetOf
<1> QED BY <1>1, <1>2, <1>3 DEF BudgetInv, EpochBudget

LEMMA BudgetNext ==
  ASSUME BudgetInv, [SurfaceNext]_surfaceVars
  PROVE  BudgetInv'
<1>1. SurfaceInv'
  BY SurfaceNextInv DEF BudgetInv
<1>2. CASE UNCHANGED surfaceVars
  <2>1. EpochBudget'
    BY <1>2 DEF BudgetInv, EpochBudget, BudgetOf, EpochOf, EpochsLeft, InItsEpoch, surfaceVars
  <2> QED BY <1>1, <2>1 DEF BudgetInv
<1>3. ASSUME NEW w \in AgentRuns,
             \/ RunLock(w) \/ RunPrepare(w) \/ RunCompact(w) \/ BeforeModel(w)
             \/ ModelAnswers(w) \/ ToolCycle(w) \/ AfterAgent(w) \/ LeaderCorrects(w)
             \/ SurfaceRunReturns(w)
      PROVE  EpochBudget'
  BY <1>1, <1>3, RunLockBudget, RunPrepareBudget, RunCompactBudget, BeforeModelBudget,
     ModelAnswersBudget, AfterAgentBudget, AfterStepsBudget, IdleBudget
<1>4. CASE SurfaceCrash \/ NextRequest
  BY <1>1, <1>4, IdleBudget DEF BudgetInv
<1> QED BY <1>1, <1>2, <1>3, <1>4 DEF SurfaceNext, BudgetInv

\* The state of a surface has its type: a run begins two epochs at most, one
\* with its first request and one when it was compacted, and is corrected once
\* (BeforeModelRewriteState, the leader's attempts in tool_lead.go).
THEOREM SurfaceTypeCorrect == SurfaceSpec => []SurfaceTypeOK
<1>1. SurfaceInit => BudgetInv
  BY BudgetInit
<1>2. BudgetInv /\ [SurfaceNext]_surfaceVars => BudgetInv'
  BY BudgetNext
<1>3. BudgetInv => SurfaceTypeOK
  <2> SUFFICES ASSUME BudgetInv
               PROVE  SurfaceTypeOK
    OBVIOUS
  <2>1. /\ surfaceHead \in SurfaceRecords /\ request \in 1 .. MaxRequests
        /\ agentRun \in [AgentRuns -> RunRecords]
    BY DEF BudgetInv, SurfaceInv, SurfaceTypes
  <2>2. /\ runsStarted \in 0 .. MaxRuns /\ surfaceHead.epoch <= 2 * runsStarted /\ MaxRuns \in Nat
        /\ epochsStarted \subseteq (1 .. 2 * runsStarted) \X Headers
        /\ surfaceLock \in AgentRuns \union {NoHolder}
        /\ \A w \in AgentRuns : agentRun[w].attempt \in 0 .. 2
    BY SurfaceAssumption DEF BudgetInv, EpochBudget, BudgetOf
  <2>3. \A s \in Seq(Messages) : Range(s) \subseteq Messages
    BY DEF Range
  <2>4. /\ surfaceHead.epoch \in Nat /\ surfaceHead.header \in Headers \union {NoHeader}
        /\ surfaceHead.messages \in Seq(Messages) /\ surfaceHead.lastSession \in 0 .. MaxRequests
        /\ surfaceHead.lastSnapshot \in Snapshots \union {NoSnapshot}
    BY <2>1 DEF SurfaceRecords
  <2>5. \A w \in AgentRuns : /\ agentRun[w].pc \in {"idle", "locked", "before", "model", "after"}
                             /\ agentRun[w].messages \in Seq(Messages)
    BY <2>1 DEF RunRecords
  <2>6. surfaceHead.epoch \in 0 .. 2 * MaxRuns
        /\ (1 .. 2 * runsStarted) \X Headers \subseteq (1 .. 2 * MaxRuns) \X Headers
    BY <2>2, <2>4
  <2> QED BY <2>1, <2>2, <2>3, <2>4, <2>5, <2>6 DEF SurfaceTypeOK
<1> QED BY <1>1, <1>2, <1>3, PTL DEF SurfaceSpec

-----------------------------------------------------------------------------
(* What a request weighs is a number of tokens.                             *)

Positive == Nat \ {0}

\* A message whose size and reported usage are known.
IsMeasured(m) == m.size \in Positive /\ m.completion \in Nat /\ m.prompt \in Nat

AreMeasured(s) == s \in Seq(Range(s)) /\ \A i \in DOMAIN s : IsMeasured(s[i])

\* What is drawn from messages that are measured is measured.
LEMMA MeasuredFrom ==
  ASSUME NEW S, NEW s \in Seq(S), \A m \in S : IsMeasured(m)
  PROVE  AreMeasured(s)
BY SequenceOfItsRange DEF AreMeasured

\* A ratio of sizes to tokens: r is at most q.
IsRatio(r) == r.n \in Positive /\ r.d \in Positive
AtMost(r, q) == r.n * q.d <= q.n * r.d

LEMMA ProductGrows ==
  ASSUME NEW a \in Nat, NEW b \in Nat, a <= b, NEW c \in Nat
  PROVE  a * c <= b * c
<1>1. PICK e \in Nat : b = a + e
  <2>1. b - a \in Nat /\ b = a + (b - a)
    OBVIOUS
  <2> QED BY <2>1
<1>2. b * c = a * c + e * c /\ e * c >= 0
  BY <1>1
<1> QED BY <1>2

LEMMA ProductCancels ==
  ASSUME NEW a \in Nat, NEW b \in Nat, NEW c \in Positive, a * c <= b * c
  PROVE  a <= b
<1> SUFFICES ASSUME b + 1 <= a
             PROVE  FALSE
  OBVIOUS
<1>1. (b + 1) * c <= a * c
  BY ProductGrows DEF Positive
<1>2. (b + 1) * c = b * c + c /\ c > 0
  BY DEF Positive
<1> QED BY <1>1, <1>2 DEF Positive

LEMMA AtMostIsTransitive ==
  ASSUME NEW a, NEW b, NEW c, IsRatio(a), IsRatio(b), IsRatio(c), AtMost(a, b), AtMost(b, c)
  PROVE  AtMost(a, c)
<1>1. PICK an \in Positive, ad \in Positive, bn \in Positive, bd \in Positive,
           cn \in Positive, cd \in Positive :
        an = a.n /\ ad = a.d /\ bn = b.n /\ bd = b.d /\ cn = c.n /\ cd = c.d
  BY DEF IsRatio
<1>2. an * bd <= bn * ad /\ bn * cd <= cn * bd
  BY <1>1 DEF AtMost
<1>3. (an * bd) * cd <= (bn * ad) * cd
  BY <1>2, ProductGrows DEF Positive
<1>4. (bn * cd) * ad <= (cn * bd) * ad
  BY <1>2, ProductGrows DEF Positive
<1>5. (bn * ad) * cd = (bn * cd) * ad
  BY DEF Positive
<1>6. (an * cd) * bd <= (cn * ad) * bd
  <2>1. (an * cd) * bd = (an * bd) * cd /\ (cn * ad) * bd = (cn * bd) * ad
    BY DEF Positive
  <2>2. /\ (an * bd) * cd \in Nat /\ (bn * ad) * cd \in Nat /\ (cn * bd) * ad \in Nat
    BY DEF Positive
  <2> QED BY <1>3, <1>4, <1>5, <2>1, <2>2
<1>7. an * cd \in Nat /\ cn * ad \in Nat
  BY DEF Positive
<1>8. an * cd <= cn * ad
  BY <1>6, <1>7, ProductCancels
<1> QED BY <1>1, <1>8 DEF AtMost

LEMMA AtMostIsTotal ==
  ASSUME NEW a, NEW b, IsRatio(a), IsRatio(b)
  PROVE  (AtMost(a, b) \/ AtMost(b, a)) /\ AtMost(a, a)
<1>1. PICK an \in Positive, ad \in Positive, bn \in Positive, bd \in Positive :
        an = a.n /\ ad = a.d /\ bn = b.n /\ bd = b.d
  BY DEF IsRatio
<1>2. an * bd \in Nat /\ bn * ad \in Nat /\ an * ad \in Nat
  BY DEF Positive
<1> QED BY <1>1, <1>2 DEF AtMost

OneToOne == [n |-> 1, d |-> 1]
RatioAt(s, i) == [n |-> s[i].size, d |-> s[i].completion]
Observed(s) == {i \in DOMAIN s : s[i].role = "assistant" /\ s[i].completion > 0}
Ratios(s) == {OneToOne} \union {RatioAt(s, i) : i \in Observed(s)}

LEMMA RatiosOf ==
  ASSUME NEW s, AreMeasured(s)
  PROVE  \A r \in Ratios(s) : IsRatio(r)
<1>1. IsRatio(OneToOne)
  BY DEF IsRatio, OneToOne, Positive
<1>2. \A i \in Observed(s) : IsRatio(RatioAt(s, i))
  BY DEF Observed, AreMeasured, IsMeasured, IsRatio, RatioAt, Positive
<1> QED BY <1>1, <1>2 DEF Ratios

\* Of the ratios observed so far there is a smallest.
LEMMA SmallestRatio ==
  ASSUME NEW s, AreMeasured(s)
  PROVE  \E r \in Ratios(s) : \A q \in Ratios(s) : AtMost(r, q)
<1>1. Len(s) \in Nat /\ DOMAIN s = 1 .. Len(s) /\ Observed(s) \subseteq 1 .. Len(s)
  BY SequenceOfItsRange DEF AreMeasured, Observed
<1>2. \A r \in Ratios(s) : IsRatio(r)
  BY RatiosOf
<1>3. OneToOne \in Ratios(s) /\ \A i \in Observed(s) : RatioAt(s, i) \in Ratios(s)
  BY DEF Ratios
<1> DEFINE Smallest(r, k) == /\ AtMost(r, OneToOne)
                             /\ \A i \in Observed(s) : i <= k => AtMost(r, RatioAt(s, i))
           Bad == {k \in 0 .. Len(s) : ~ \E r \in Ratios(s) : Smallest(r, k)}
<1>4. Bad = {}
  <2> SUFFICES ASSUME Bad # {}
               PROVE  FALSE
    OBVIOUS
  <2>1. Bad \in SUBSET Nat
    BY <1>1
  <2> HIDE DEF Bad
  <2>2. PICK k \in Bad : \A m \in Bad : k <= m
    BY <2>1, LeastCounterexample
  <2>3. k \in 0 .. Len(s) /\ k \in Nat /\ ~ \E r \in Ratios(s) : Smallest(r, k)
    <3> HIDE DEF Smallest
    <3>1. k \in 0 .. Len(s) /\ ~ \E r \in Ratios(s) : Smallest(r, k)
      BY DEF Bad
    <3> QED BY <1>1, <3>1
  <2>4. CASE k = 0
    <3>1. AtMost(OneToOne, OneToOne)
      BY <1>2, <1>3, AtMostIsTotal
    <3>2. \A i \in Observed(s) : ~(i <= 0)
      BY <1>1
    <3>3. Smallest(OneToOne, 0)
      BY <3>1, <3>2
    <3> HIDE DEF Smallest
    <3> QED BY <1>3, <2>3, <2>4, <3>3
  <2>5. CASE k # 0
    <3>1. k - 1 \in 0 .. Len(s) /\ ~(k <= k - 1)
      BY <1>1, <2>3, <2>5
    <3>2. k - 1 \notin Bad
      BY <2>2, <3>1
    <3>3. PICK r \in Ratios(s) : Smallest(r, k - 1)
      BY <3>1, <3>2 DEF Bad
    <3>4. \A i \in Observed(s) : i <= k => i <= k - 1 \/ i = k
      BY <1>1, <2>3
    <3>5. CASE k \notin Observed(s) \/ AtMost(r, RatioAt(s, k))
      <4>1. Smallest(r, k)
        BY <3>3, <3>4, <3>5
      <4> HIDE DEF Smallest
      <4> QED BY <2>3, <4>1
    <3>6. CASE k \in Observed(s) /\ ~AtMost(r, RatioAt(s, k))
      <4> DEFINE q == RatioAt(s, k)
      <4>1. q \in Ratios(s) /\ IsRatio(q) /\ IsRatio(r)
        BY <1>2, <1>3, <3>6
      <4> HIDE DEF q
      <4>2. AtMost(q, r) /\ AtMost(q, q)
        BY <3>6, <4>1, AtMostIsTotal DEF q
      <4>3. AtMost(q, OneToOne)
        BY <1>2, <1>3, <3>3, <4>1, <4>2, AtMostIsTransitive
      <4>4. \A i \in Observed(s) : i <= k - 1 => AtMost(q, RatioAt(s, i))
        BY <1>2, <1>3, <3>3, <4>1, <4>2, AtMostIsTransitive
      <4>5. Smallest(q, k)
        BY <3>4, <4>2, <4>3, <4>4 DEF q
      <4> HIDE DEF Smallest
      <4> QED BY <2>3, <4>1, <4>5
    <3> QED BY <3>5, <3>6
  <2> QED BY <2>4, <2>5
<1>5. PICK r \in Ratios(s) : Smallest(r, Len(s))
  <2>1. Len(s) \in 0 .. Len(s)
    BY <1>1
  <2> HIDE DEF Smallest
  <2> QED BY <1>4, <2>1
<1>6. \A i \in Observed(s) : i <= Len(s)
  BY <1>1
<1>7. \A q \in Ratios(s) : AtMost(r, q)
  BY <1>5, <1>6 DEF Ratios
<1> QED BY <1>7

LEMMA RatioIsPositive ==
  ASSUME NEW s, AreMeasured(s)
  PROVE  IsRatio(Ratio(s))
<1>1. Ratio(s) = CHOOSE r \in Ratios(s) : \A q \in Ratios(s) : AtMost(r, q)
  BY Zenon DEF Ratio, Ratios, Observed, OneToOne, RatioAt, AtMost
<1>2. Ratio(s) \in Ratios(s)
  BY <1>1, SmallestRatio, Zenon
<1> QED BY <1>2, RatiosOf

LEMMA TokensAreNatural ==
  ASSUME NEW r, IsRatio(r), NEW size \in Nat
  PROVE  Tokens(size, r) \in Nat
<1>1. PICK n \in Positive, d \in Positive : n = r.n /\ d = r.d
  BY DEF IsRatio
<1>2. size * d + n - 1 \in Nat
  <2>1. size * d \in Nat /\ n - 1 \in Nat
    BY DEF Positive
  <2> QED BY <2>1
<1>3. \A x \in Nat, y \in Positive : x \div y \in Nat
  BY DEF Positive
<1>4. (size * d + n - 1) \div n \in Nat
  BY <1>2, <1>3
<1> QED BY <1>1, <1>4 DEF Tokens

\* The running sums of n numbers.
LEMMA SumsExist ==
  ASSUME NEW n \in Nat, NEW g
  PROVE  \E f : f = [i \in 0 .. n |-> IF i = 0 THEN 0 ELSE f[i - 1] + g[i]]
<1> DEFINE Sums(f, k) == f = [i \in 0 .. k |-> IF i = 0 THEN 0 ELSE f[i - 1] + g[i]]
           Bad == {k \in 0 .. n : ~ \E f : Sums(f, k)}
<1>1. Bad = {}
  <2> SUFFICES ASSUME Bad # {}
               PROVE  FALSE
    OBVIOUS
  <2>1. Bad \in SUBSET Nat
    OBVIOUS
  <2> HIDE DEF Bad
  <2>2. PICK k \in Bad : \A m \in Bad : k <= m
    BY <2>1, LeastCounterexample
  <2>3. k \in 0 .. n /\ k \in Nat /\ ~ \E f : Sums(f, k)
    <3> HIDE DEF Sums
    <3>1. k \in 0 .. n /\ ~ \E f : Sums(f, k)
      BY DEF Bad
    <3> QED BY <3>1
  <2>4. CASE k = 0
    <3>1. PICK f : f = [i \in 0 .. 0 |-> 0]
      OBVIOUS
    <3>2. f = [i \in 0 .. 0 |-> IF i = 0 THEN 0 ELSE f[i - 1] + g[i]]
      BY <3>1
    <3>3. Sums(f, k)
      BY <2>4, <3>2
    <3> HIDE DEF Sums
    <3> QED BY <2>3, <3>3
  <2>5. CASE k # 0
    <3>1. k - 1 \in 0 .. n /\ ~(k <= k - 1)
      BY <2>3, <2>5
    <3>2. k - 1 \notin Bad
      BY <2>2, <3>1
    <3>3. PICK f : Sums(f, k - 1)
      BY <3>1, <3>2 DEF Bad
    <3>4. PICK h : h = [i \in 0 .. k |-> IF i = k THEN f[k - 1] + g[k] ELSE f[i]]
      OBVIOUS
    <3>5. \A i \in 0 .. (k - 1) : f[i] = IF i = 0 THEN 0 ELSE f[i - 1] + g[i]
      BY <3>3, Zenon
    <3>6. h[k] = f[k - 1] + g[k] /\ \A i \in 0 .. (k - 1) : h[i] = f[i]
      BY <2>3, <3>4
    <3>7. ASSUME NEW i \in 0 .. k
          PROVE  h[i] = IF i = 0 THEN 0 ELSE h[i - 1] + g[i]
      <4>1. CASE i = k
        <5>1. k - 1 \in 0 .. (k - 1)
          BY <2>3, <2>5
        <5> QED BY <2>5, <3>6, <4>1, <5>1
      <4>2. CASE i # k
        <5>1. i \in 0 .. (k - 1) /\ (i # 0 => i - 1 \in 0 .. (k - 1))
          BY <2>3, <4>2
        <5> QED BY <3>5, <3>6, <5>1
      <4> QED BY <4>1, <4>2
    <3>8. h = [i \in 0 .. k |-> IF i = 0 THEN 0 ELSE h[i - 1] + g[i]]
      BY <3>4, <3>7
    <3>9. Sums(h, k)
      BY <3>8
    <3> HIDE DEF Sums
    <3> QED BY <2>3, <3>9
  <2> QED BY <2>4, <2>5
<1>2. n \in 0 .. n
  OBVIOUS
<1> QED BY <1>1, <1>2

LEMMA SumsAreNatural ==
  ASSUME NEW n \in Nat, NEW g, \A i \in 1 .. n : g[i] \in Nat, NEW f,
         \A i \in 0 .. n : f[i] = IF i = 0 THEN 0 ELSE f[i - 1] + g[i]
  PROVE  \A i \in 0 .. n : f[i] \in Nat
<1> DEFINE Wrong == {i \in 0 .. n : f[i] \notin Nat}
<1> SUFFICES ASSUME Wrong # {}
             PROVE  FALSE
  OBVIOUS
<1>1. Wrong \in SUBSET Nat
  OBVIOUS
<1> HIDE DEF Wrong
<1>2. PICK k \in Wrong : \A m \in Wrong : k <= m
  BY <1>1, LeastCounterexample
<1>3. k \in 0 .. n /\ k \in Nat /\ f[k] \notin Nat
  BY <1>2 DEF Wrong
<1>4. k # 0
  BY <1>3
<1>5. k - 1 \in 0 .. n /\ ~(k <= k - 1) /\ k \in 1 .. n
  BY <1>3, <1>4
<1>6. f[k - 1] \in Nat
  BY <1>2, <1>5 DEF Wrong
<1>7. f[k] = f[k - 1] + g[k] /\ g[k] \in Nat
  BY <1>3, <1>4, <1>5
<1> QED BY <1>3, <1>6, <1>7

\* The messages of a request count as a number of tokens.
LEMMA TokensOfAreNatural ==
  ASSUME NEW s, AreMeasured(s), NEW r, IsRatio(r)
  PROVE  TokensOf(s, r) \in Nat
<1>1. Len(s) \in Nat /\ DOMAIN s = 1 .. Len(s)
  BY SequenceOfItsRange DEF AreMeasured
<1>2. PICK g : g = [i \in 0 .. Len(s) |-> Tokens(s[i].size, r)]
  OBVIOUS
<1>3. \A i \in 1 .. Len(s) : g[i] \in Nat
  <2> SUFFICES ASSUME NEW i \in 1 .. Len(s)
               PROVE  g[i] \in Nat
    OBVIOUS
  <2>1. s[i].size \in Nat /\ i \in 0 .. Len(s)
    BY <1>1 DEF AreMeasured, IsMeasured, Positive
  <2> QED BY <1>2, <2>1, TokensAreNatural
<1>4. PICK f : f = [i \in 0 .. Len(s) |-> IF i = 0 THEN 0 ELSE f[i - 1] + g[i]]
  BY <1>1, SumsExist
<1>5. f = [i \in 0 .. Len(s) |-> IF i = 0 THEN 0 ELSE f[i - 1] + Tokens(s[i].size, r)]
  <2>1. \A i \in 0 .. Len(s) : g[i] = Tokens(s[i].size, r)
    BY <1>2
  <2> QED BY <1>4, <2>1, Zenon
<1>6. PICK sum :
        /\ sum = CHOOSE h : h = [i \in 0 .. Len(s) |->
                                   IF i = 0 THEN 0 ELSE h[i - 1] + Tokens(s[i].size, r)]
        /\ TokensOf(s, r) = sum[Len(s)]
  BY Zenon DEF TokensOf
<1>7. sum = [i \in 0 .. Len(s) |-> IF i = 0 THEN 0 ELSE sum[i - 1] + Tokens(s[i].size, r)]
  BY <1>5, <1>6, Zenon
<1>8. \A i \in 0 .. Len(s) : sum[i] = IF i = 0 THEN 0 ELSE sum[i - 1] + g[i]
  BY <1>2, <1>7, Zenon
<1>9. \A i \in 0 .. Len(s) : sum[i] \in Nat
  BY <1>1, <1>3, <1>8, SumsAreNatural
<1>10. Len(s) \in 0 .. Len(s)
  BY <1>1
<1> QED BY <1>6, <1>9, <1>10

LEMMA EstimateIsNatural ==
  ASSUME NEW s, AreMeasured(s), NEW calibration, AreMeasured(calibration), NEW header \in Nat
  PROVE  EstimateFresh(s, header, calibration) \in Nat
<1>1. IsRatio(Ratio(calibration))
  BY RatioIsPositive
<1>2. TokensOf(s, Ratio(calibration)) \in Nat /\ Tokens(header, Ratio(calibration)) \in Nat
  BY <1>1, TokensOfAreNatural, TokensAreNatural
<1> QED BY <1>2 DEF EstimateFresh

\* A set of positions has a highest one.
LEMMA HighestOf ==
  ASSUME NEW n \in Nat, NEW S \in SUBSET (1 .. n)
  PROVE  Highest(S) \in S \union {0} /\ (S # {} => Highest(S) \in S)
<1>1. CASE S = {}
  BY <1>1 DEF Highest
<1>2. CASE S # {}
  <2> DEFINE T == {m \in 0 .. n : n - m \in S}
  <2>1. T # {} /\ T \in SUBSET Nat
    <3>1. PICK x \in S : TRUE
      BY <1>2
    <3>2. x \in 1 .. n /\ n - x \in 0 .. n /\ n - (n - x) = x
      OBVIOUS
    <3> QED BY <3>1, <3>2
  <2>2. PICK m \in T : \A k \in T : m <= k
    BY <2>1, LeastCounterexample
  <2>3. n - m \in S /\ \A y \in S : y <= n - m
    <3>1. n - m \in S /\ m \in 0 .. n
      OBVIOUS
    <3>2. \A y \in S : y \in 1 .. n /\ n - y \in 0 .. n /\ n - (n - y) = y
      OBVIOUS
    <3>3. \A y \in S : n - y \in T
      BY <3>2
    <3> HIDE DEF T
    <3> QED BY <2>2, <3>1, <3>2, <3>3
  <2>4. Highest(S) \in S
    <3>1. Highest(S) = CHOOSE x \in S : \A y \in S : y <= x
      BY <1>2 DEF Highest
    <3> QED BY <2>3, <3>1, Zenon
  <2> QED BY <2>4
<1> QED BY <1>1, <1>2

LEMMA MeasuredPart ==
  ASSUME NEW s, AreMeasured(s), NEW k \in 1 .. Len(s) + 1, NEW n \in k - 1 .. Len(s)
  PROVE  AreMeasured(SubSeq(s, k, n))
<1> DEFINE M == {m \in Range(s) : IsMeasured(m)}
<1>1. s \in Seq(Range(s)) /\ Len(s) \in Nat /\ DOMAIN s = 1 .. Len(s)
  BY SequenceOfItsRange DEF AreMeasured
<1>2. \A i \in k .. n : i \in 1 .. Len(s)
  BY <1>1
<1>3. \A i \in k .. n : s[i] \in M
  BY <1>1, <1>2 DEF AreMeasured, Range
<1>4. SubSeq(s, k, n) \in Seq(M)
  <2>1. k \in Int /\ n \in Int
    BY <1>1
  <2> HIDE DEF M
  <2> QED BY <1>3, <2>1, SubSeqProperties, Zenon
<1>5. \A m \in M : IsMeasured(m)
  OBVIOUS
<1> HIDE DEF M
<1> QED BY <1>4, <1>5, MeasuredFrom

LEMMA CountIsNatural ==
  ASSUME NEW s, AreMeasured(s), NEW header \in Nat, NEW same \in BOOLEAN
  PROVE  Count(s, header, same) \in Nat
<1> DEFINE reported == {i \in DOMAIN s : s[i].role = "assistant" /\ s[i].prompt > 0}
           last == Highest(reported)
           ratio == Ratio(s)
           base == IF last = 0 THEN 0 ELSE s[last].prompt + s[last].completion
           rest == TokensOf(SubSeq(s, last + 1, Len(s)), ratio)
           head == IF last = 0 \/ ~same THEN Tokens(header, ratio) ELSE 0
<1>1. Len(s) \in Nat /\ DOMAIN s = 1 .. Len(s)
  BY SequenceOfItsRange DEF AreMeasured
<1>2. Count(s, header, same) = base + rest + head
  BY Zenon DEF Count
<1>3. IsRatio(ratio)
  BY RatioIsPositive
<1>4. last \in 0 .. Len(s) /\ (last # 0 => last \in DOMAIN s)
  <2>1. reported \in SUBSET (1 .. Len(s))
    BY <1>1
  <2> HIDE DEF reported
  <2>2. last \in reported \union {0}
    BY <1>1, <2>1, HighestOf
  <2> HIDE DEF last
  <2>3. last = 0 \/ last \in 1 .. Len(s)
    BY <2>1, <2>2
  <2> QED BY <1>1, <2>3
<1> HIDE DEF last, ratio
<1>5. base \in Nat
  BY <1>4 DEF AreMeasured, IsMeasured
<1>6. rest \in Nat
  <2>1. last + 1 \in 1 .. Len(s) + 1 /\ Len(s) \in (last + 1) - 1 .. Len(s)
    BY <1>1, <1>4
  <2>2. AreMeasured(SubSeq(s, last + 1, Len(s)))
    BY <2>1, MeasuredPart
  <2> QED BY <1>3, <2>2, TokensOfAreNatural
<1>7. head \in Nat
  BY <1>3, TokensAreNatural
<1> HIDE DEF base, rest, head
<1> QED BY <1>2, <1>5, <1>6, <1>7

\* What a cut keeps of a conversation are copies of its messages.
Copies(s) == {[s[j] EXCEPT !.prompt = 0, !.completion = 0] : j \in DOMAIN s}

LEMMA CopiesOfPart ==
  ASSUME NEW s, Headed(s), NEW k \in 1 .. Len(s), NEW n \in k .. Len(s)
  PROVE  Clone(SubSeq(s, k, n)) \in Seq(Copies(s))
<1> DEFINE raw == SubSeq(s, k, n)
<1>1. s \in Seq(Range(s)) /\ Len(s) \in Nat /\ DOMAIN s = 1 .. Len(s)
  BY SequenceOfItsRange DEF Headed
<1>2. /\ raw \in Seq(Range(s)) /\ Len(raw) = n - k + 1
      /\ \A i \in 1 .. n - k + 1 : raw[i] = s[k + i - 1] /\ k + i - 1 \in DOMAIN s
  BY <1>1
<1> HIDE DEF raw
<1>3. DOMAIN raw = 1 .. n - k + 1 /\ n - k + 1 \in Nat
  BY <1>1, <1>2
<1>4. \A i \in 1 .. n - k + 1 : [raw[i] EXCEPT !.prompt = 0, !.completion = 0] \in Copies(s)
  BY <1>2, Zenon DEF Copies
<1>5. Clone(raw) = [i \in 1 .. n - k + 1 |-> [raw[i] EXCEPT !.prompt = 0, !.completion = 0]]
  BY <1>3 DEF Clone
<1>6. PICK c : c = Clone(raw)
  OBVIOUS
<1>7. DOMAIN c = 1 .. n - k + 1 /\ \A i \in 1 .. n - k + 1 : c[i] \in Copies(s)
  BY <1>4, <1>5, <1>6, Zenon
<1>8. c = [i \in 1 .. n - k + 1 |-> c[i]]
  BY <1>5, <1>6, <1>7, Zenon
<1>9. c \in Seq(Copies(s))
  <2>1. c \in [1 .. n - k + 1 -> Copies(s)]
    BY <1>7, <1>8
  <2> QED BY <1>3, <2>1
<1> QED BY <1>6, <1>9 DEF raw

LEMMA FinalIsCopied ==
  ASSUME NEW s, Headed(s), NEW brief, NEW header, NEW low
  PROVE  FinalizeWithVerbatimTail(s, brief, header, low) \in Seq(Copies(s) \union {brief})
<1>1. Len(s) \in Nat \ {0} /\ DOMAIN s = 1 .. Len(s) /\ SystemEnd(s) = 1
  BY SequenceOfItsRange, OneSystemMessage DEF Headed
<1> DEFINE kept == Copies(s) \union {brief}
           systems == SystemEnd(s)
           base == Append(Clone(SubSeq(s, 1, systems)), brief)
           starts == {k \in systems + 1 .. Len(s) :
                        /\ s[k].role # "tool"
                        /\ ProtocolValidSuffix(Suffix(s, k))
                        /\ EstimateFresh(base \o Clone(Suffix(s, k)), header, s) <= low}
           first == CHOOSE k \in starts : \A t \in starts : k <= t
           final == FinalizeWithVerbatimTail(s, brief, header, low)
<1>2. final = IF low <= 0 \/ starts = {} THEN base ELSE base \o Clone(Suffix(s, first))
  BY Zenon DEF FinalizeWithVerbatimTail
<1> HIDE DEF final
<1>3. base \in Seq(kept)
  <2>1. PICK top : top = Clone(SubSeq(s, 1, 1))
    OBVIOUS
  <2>2. top \in Seq(Copies(s))
    <3>1. 1 \in 1 .. Len(s) /\ 1 \in 1 .. Len(s)
      BY <1>1
    <3> QED BY <2>1, <3>1, CopiesOfPart
  <2>3. PICK U : U = kept
    OBVIOUS
  <2>4. top \in Seq(U) /\ brief \in U
    BY <2>2, <2>3
  <2>5. Append(top, brief) \in Seq(U)
    BY <2>4, AppendProperties, Zenon
  <2> QED BY <1>1, <2>1, <2>3, <2>5
<1> HIDE DEF base
<1>4. CASE starts # {}
  <2>1. starts \in SUBSET Nat /\ \A k \in starts : k \in 1 .. Len(s) /\ Len(s) \in k .. Len(s)
    BY <1>1
  <2>2. first \in starts
    BY <1>4, <2>1, LeastCounterexample, Zenon
  <2> HIDE DEF first, starts
  <2>3. PICK tail : tail = Clone(Suffix(s, first))
    OBVIOUS
  <2>4. tail \in Seq(Copies(s))
    BY <2>1, <2>2, <2>3, CopiesOfPart DEF Suffix
  <2>5. PICK U : U = kept
    OBVIOUS
  <2>6. tail \in Seq(U) /\ base \in Seq(U)
    BY <1>3, <2>4, <2>5
  <2>7. base \o tail \in Seq(U)
    BY <2>6, ConcatProperties, Zenon
  <2> QED BY <1>2, <1>3, <2>3, <2>5, <2>7 DEF final
<1>5. CASE starts = {}
  BY <1>2, <1>3, <1>5 DEF final
<1> QED BY <1>4, <1>5

LEMMA HeadIsCopied ==
  ASSUME NEW s, Headed(s), NEW header, NEW high, NEW instruction
  PROVE  EmergencySummaryHead(s, header, high, instruction) \in Seq(Copies(s))
<1>1. Len(s) \in Nat \ {0} /\ DOMAIN s = 1 .. Len(s) /\ SystemEnd(s) = 1
  BY SequenceOfItsRange, OneSystemMessage DEF Headed
<1> DEFINE systems == SystemEnd(s)
           boundaries ==
             {b \in systems + 1 .. Len(s) - 1 :
                /\ ProtocolValidPrefix(SubSeq(s, 1, b))
                /\ ProtocolValidSuffix(Suffix(s, b + 1))
                /\ EstimateFresh(Append(Clone(SubSeq(s, 1, b)), instruction), header, s) <= high}
           cut == Highest(boundaries)
           head == EmergencySummaryHead(s, header, high, instruction)
<1>2. head = IF high <= 0 \/ boundaries = {} THEN <<>> ELSE Clone(SubSeq(s, 1, cut))
  BY Zenon DEF EmergencySummaryHead
<1> HIDE DEF head
<1>3. <<>> \in Seq(Copies(s))
  OBVIOUS
<1>4. CASE boundaries # {}
  <2>1. boundaries \in SUBSET (1 .. Len(s))
    BY <1>1
  <2> HIDE DEF boundaries
  <2>3. cut \in boundaries
    BY <1>1, <1>4, <2>1, HighestOf
  <2> HIDE DEF cut
  <2>4. 1 \in 1 .. Len(s) /\ cut \in 1 .. Len(s)
    BY <1>1, <2>1, <2>3
  <2>5. Clone(SubSeq(s, 1, cut)) \in Seq(Copies(s))
    BY <2>4, CopiesOfPart
  <2> QED BY <1>2, <1>3, <2>5 DEF head
<1>5. CASE boundaries = {}
  BY <1>2, <1>3, <1>5 DEF head
<1> QED BY <1>4, <1>5

LEMMA CopiesAreMeasured ==
  ASSUME NEW s, Headed(s), AreMeasured(s)
  PROVE  \A m \in Copies(s) : IsMeasured(m)
<1> SUFFICES ASSUME NEW j \in DOMAIN s
             PROVE  IsMeasured([s[j] EXCEPT !.prompt = 0, !.completion = 0])
  BY DEF Copies
<1>1. IsMessage(s[j]) /\ IsMeasured(s[j])
  BY DEF Headed, AreMeasured
<1> QED BY <1>1 DEF IsMessage, IsMeasured

\* A rebuilt request, and the head to summarize, are measured.
LEMMA CutsAreMeasured ==
  ASSUME NEW s, Headed(s), AreMeasured(s), NEW m, IsMeasured(m), NEW header, NEW high
  PROVE  /\ AreMeasured(FinalizeWithVerbatimTail(s, m, header, high))
         /\ AreMeasured(EmergencySummaryHead(s, header, high, m))
         /\ AreMeasured(Append(EmergencySummaryHead(s, header, high, m), m))
<1>1. PICK U : U = Copies(s) \union {m}
  OBVIOUS
<1>2. \A x \in U : IsMeasured(x)
  BY <1>1, CopiesAreMeasured
<1>3. PICK final, head : /\ final = FinalizeWithVerbatimTail(s, m, header, high)
                         /\ head = EmergencySummaryHead(s, header, high, m)
  OBVIOUS
<1>4. final \in Seq(U)
  BY <1>1, <1>3, FinalIsCopied
<1>5. head \in Seq(U) /\ m \in U
  <2>1. head \in Seq(Copies(s))
    BY <1>3, HeadIsCopied
  <2> QED BY <1>1, <2>1
<1>6. Append(head, m) \in Seq(U)
  BY <1>5, AppendProperties, Zenon
<1> QED BY <1>2, <1>3, <1>4, <1>5, <1>6, MeasuredFrom, Zenon

-----------------------------------------------------------------------------
(* The requests of one agent: types.                                        *)

MeasureInv ==
  /\ CompactionInv
  /\ compaction \in CompactionPc /\ resumes \in {"before", "model"}
  /\ observedLimit \in Nat /\ headBound \in Nat /\ headerSeen \in BOOLEAN
  /\ retryDelay \in RetryDelays \union {0}
  /\ AreMeasured(conversation)
  /\ IF compaction \in {"model", "recover", "emergency"} THEN AreMeasured(outgoing)
     ELSE outgoing = <<>>

\* A message of the run, as it is made.
LEMMA MadeIsMeasured ==
  ASSUME NEW id, NEW role, NEW size \in Positive, NEW calls, NEW call, NEW prompt \in Nat,
         NEW completion \in Nat
  PROVE  IsMeasured(Message(id, role, size, calls, call, prompt, completion))
BY DEF Message, IsMeasured

LEMMA MeasuredGrows ==
  ASSUME NEW s, AreMeasured(s), NEW m, IsMeasured(m)
  PROVE  AreMeasured(Append(s, m))
<1>1. PICK U : U = Range(s) \union {m}
  OBVIOUS
<1>2. s \in Seq(U) /\ m \in U
  BY <1>1 DEF AreMeasured
<1>3. \A x \in U : IsMeasured(x)
  BY <1>1 DEF AreMeasured, Range
<1>4. Append(s, m) \in Seq(U)
  BY <1>2, AppendProperties, Zenon
<1> QED BY <1>3, <1>4, MeasuredFrom

LEMMA NothingIsMeasured == AreMeasured(<<>>)
  BY DEF AreMeasured, Range

LEMMA ConstantsAreMeasured ==
  /\ HeaderSize \in Nat /\ IsMeasured(InstructionMessage) /\ IsMeasured(System)
  /\ \A size \in MessageSizes : IsMeasured(BriefMessage(size))
  /\ \A named \in NamedCeilings : named \in Nat
<1>1. 1 \in Positive /\ 0 \in Nat /\ InstructionSize \in Positive
      /\ MessageSizes \subseteq Positive
  BY CompactionAssumption DEF Positive
<1>2. IsMeasured(InstructionMessage) /\ IsMeasured(System)
  BY <1>1, MadeIsMeasured DEF InstructionMessage, System
<1>3. \A size \in MessageSizes : IsMeasured(BriefMessage(size))
  BY <1>1, MadeIsMeasured DEF BriefMessage
<1> QED BY <1>2, <1>3, CompactionAssumption

\* What an overflow teaches about the ceiling.
LEMMA NarrowedIsNatural ==
  ASSUME MeasureInv, NEW s, AreMeasured(s), NEW named \in NamedCeilings
  PROVE  Narrowed(s, named) \in Nat
<1>1. Count(s, HeaderSize, headerSeen) \in Nat
  BY CountIsNatural, ConstantsAreMeasured DEF MeasureInv
<1>2. named \in Nat /\ observedLimit \in Nat
  BY ConstantsAreMeasured DEF MeasureInv
<1> QED BY <1>1, <1>2 DEF Narrowed

\* The conversation grows by a message.
LEMMA GrownIsMeasured ==
  ASSUME MeasureInv, CompactionInv', UserSpeaks \/ ToolReplies \/ ModelTakes
  PROVE  MeasureInv'
<1>1. \E m : conversation' = Append(conversation, m) /\ IsMeasured(m)
  <2>1. CASE UserSpeaks
    <3>1. PICK size \in MessageSizes :
            conversation' = Append(conversation, Message(nextId, "user", size, {}, 0, 0, 0))
      BY <2>1 DEF UserSpeaks, Grown
    <3>2. size \in Positive /\ 0 \in Nat
      BY CompactionAssumption DEF Positive
    <3> QED BY <3>1, <3>2, MadeIsMeasured
  <2>2. CASE ToolReplies
    <3>1. PICK call \in OpenCalls(conversation), size \in MessageSizes :
            conversation' = Append(conversation, Message(nextId, "tool", size, {}, call, 0, 0))
      BY <2>2, Zenon DEF ToolReplies, Grown
    <3>2. size \in Positive /\ 0 \in Nat
      BY CompactionAssumption DEF Positive
    <3> QED BY <3>1, <3>2, MadeIsMeasured
  <2>3. CASE ModelTakes
    <3>1. PICK calls, completion :
            /\ completion \in 0 .. 2
            /\ conversation' =
                 Append(conversation,
                        Message(nextId, "assistant", 1, calls, 0,
                                IF completion = 0 THEN 0
                                ELSE EstimateFresh(outgoing, HeaderSize, <<>>), completion))
      BY <2>3, Zenon DEF ModelTakes, Grown
    <3>2. AreMeasured(outgoing)
      BY <2>3 DEF ModelTakes, MeasureInv
    <3>3. EstimateFresh(outgoing, HeaderSize, <<>>) \in Nat
      BY <3>2, NothingIsMeasured, ConstantsAreMeasured, EstimateIsNatural
    <3>4. PICK prompt :
            prompt = IF completion = 0 THEN 0 ELSE EstimateFresh(outgoing, HeaderSize, <<>>)
      OBVIOUS
    <3>5. prompt \in Nat
      BY <3>3, <3>4
    <3>6. 1 \in Positive /\ completion \in Nat
      BY <3>1 DEF Positive
    <3>7. IsMeasured(Message(nextId, "assistant", 1, calls, 0, prompt, completion))
      BY <3>5, <3>6, MadeIsMeasured
    <3> QED BY <3>1, <3>4, <3>7
  <2> QED BY <2>1, <2>2, <2>3
<1>2. AreMeasured(conversation')
  BY <1>1, MeasuredGrows DEF MeasureInv
<1>3. /\ compaction' = "converse" /\ outgoing' = <<>>
      /\ UNCHANGED <<observedLimit, headerSeen, resumes, headBound, retryDelay>>
  BY DEF UserSpeaks, ToolReplies, ModelTakes, MeasureInv
<1> QED BY <1>2, <1>3 DEF MeasureInv, CompactionPc

\* A rejected request is archived and recovered.
LEMMA RecoverIsMeasured ==
  ASSUME MeasureInv, CompactionInv', RequestTooLarge \/ ProviderOverflows
  PROVE  MeasureInv'
<1>1. ASSUME NEW s, AreMeasured(s), NEW from \in {"before", "model"}, Recover(s, from),
             UNCHANGED <<conversation, retryDelay>>, observedLimit' \in Nat
      PROVE  MeasureInv'
  <2>1. headBound' \in Nat
    BY <1>1, ConstantsAreMeasured, EstimateIsNatural DEF Recover
  <2> QED BY <1>1, <2>1 DEF Recover, MeasureInv, CompactionPc
<1>2. CASE RequestTooLarge
  <2>1. Recover(conversation, "before") /\ UNCHANGED <<conversation, observedLimit, retryDelay>>
    BY <1>2, Zenon DEF RequestTooLarge
  <2> QED BY <1>1, <2>1 DEF MeasureInv
<1>3. CASE ProviderOverflows
  <2>1. PICK named \in NamedCeilings : observedLimit' = Narrowed(outgoing, named)
    BY <1>3 DEF ProviderOverflows
  <2>2. /\ AreMeasured(outgoing) /\ Recover(outgoing, "model")
        /\ UNCHANGED <<conversation, retryDelay>>
    BY <1>3 DEF ProviderOverflows, MeasureInv
  <2>3. observedLimit' \in Nat
    BY <2>1, <2>2, NarrowedIsNatural
  <2> QED BY <1>1, <2>2, <2>3
<1> QED BY <1>2, <1>3

\* The head of a rejected request, asked to be summarized and perhaps rejected
\* itself.
LEMMA EmergencyIsMeasured ==
  ASSUME MeasureInv, CompactionInv', EmergencyAsks \/ EmergencyOverflows
  PROVE  MeasureInv'
<1>1. compaction \in {"recover", "emergency"} /\ UNCHANGED <<conversation, outgoing>>
      /\ UNCHANGED <<headerSeen, resumes>> /\ compaction' \in {"recover", "emergency"}
  BY Zenon DEF EmergencyAsks, EmergencyOverflows
<1>2. AreMeasured(outgoing) /\ Headed(outgoing)
  BY <1>1 DEF MeasureInv, CompactionInv
<1>3. AreMeasured(EmergencyHead) /\ AreMeasured(Append(EmergencyHead, InstructionMessage))
  BY <1>2, CutsAreMeasured, ConstantsAreMeasured, Zenon DEF EmergencyHead
<1>4. headBound' \in Nat /\ observedLimit' \in Nat /\ retryDelay' \in RetryDelays \union {0}
  <2>1. CASE EmergencyAsks
    <3>1. /\ headBound' = EstimateFresh(EmergencyHead, HeaderSize, outgoing)
          /\ UNCHANGED observedLimit /\ retryDelay' = 0
      BY <2>1, Zenon DEF EmergencyAsks
    <3> QED BY <1>2, <1>3, <3>1, ConstantsAreMeasured, EstimateIsNatural DEF MeasureInv
  <2>2. CASE EmergencyOverflows
    <3>1. PICK named \in NamedCeilings :
            observedLimit' = Narrowed(Append(EmergencyHead, InstructionMessage), named)
      BY <2>2, Zenon DEF EmergencyOverflows
    <3>2. UNCHANGED <<headBound, retryDelay>>
      BY <2>2, Zenon DEF EmergencyOverflows
    <3> QED BY <1>3, <3>1, <3>2, NarrowedIsNatural DEF MeasureInv
  <2> QED BY <2>1, <2>2
<1> QED BY <1>1, <1>2, <1>4 DEF MeasureInv, CompactionPc

\* A request is rebuilt around a brief.
LEMMA RebuiltIsMeasured ==
  ASSUME MeasureInv, CompactionInv', Summarized \/ RecoveryFinishes
  PROVE  MeasureInv'
<1>1. CASE Summarized
  <2>1. PICK size, low :
          /\ size \in MessageSizes
          /\ conversation' = FinalizeWithVerbatimTail(conversation, BriefMessage(size),
                                                      HeaderSize, low)
          /\ outgoing' = conversation'
    BY <1>1, Zenon DEF Summarized
  <2>2. AreMeasured(conversation')
    BY <2>1, CutsAreMeasured, ConstantsAreMeasured, Zenon DEF MeasureInv, CompactionInv
  <2>3. compaction' = "model" /\ UNCHANGED <<observedLimit, headerSeen, resumes, headBound, retryDelay>>
    BY <1>1, Zenon DEF Summarized
  <2> QED BY <2>1, <2>2, <2>3 DEF MeasureInv, CompactionPc
<1>2. CASE RecoveryFinishes
  <2>1. PICK size \in MessageSizes : Rebuilt(size)
    BY <1>2, Zenon DEF RecoveryFinishes
  <2>2. /\ compaction = "recover" \/ compaction = "emergency"
        /\ UNCHANGED <<observedLimit, headerSeen, resumes, headBound, retryDelay>>
    BY <1>2, Zenon DEF RecoveryFinishes
  <2>3. PICK low, smaller :
          LET final == FinalizeWithVerbatimTail(outgoing, BriefMessage(size), HeaderSize, low) IN
          IF resumes = "before" \/ smaller
            THEN /\ outgoing' = final /\ compaction' = "model" /\ nextId' = nextId + 1
                 /\ conversation' = IF resumes = "before" THEN final ELSE conversation
            ELSE /\ outgoing' = <<>> /\ compaction' = "failed"
                 /\ UNCHANGED <<conversation, nextId>>
    BY <2>1, Zenon DEF Rebuilt
  <2>4. PICK final : final = FinalizeWithVerbatimTail(outgoing, BriefMessage(size), HeaderSize, low)
    OBVIOUS
  <2>5. AreMeasured(outgoing) /\ Headed(outgoing)
    BY <2>2 DEF MeasureInv, CompactionInv
  <2>6. AreMeasured(final)
    BY <2>4, <2>5, CutsAreMeasured, ConstantsAreMeasured, Zenon
  <2>7. CASE outgoing' = final /\ compaction' = "model" /\ conversation' \in {final, conversation}
    BY <2>2, <2>6, <2>7 DEF MeasureInv, CompactionPc
  <2>8. CASE outgoing' = <<>> /\ compaction' = "failed" /\ UNCHANGED conversation
    BY <2>2, <2>8 DEF MeasureInv, CompactionPc
  <2> QED BY <2>3, <2>4, <2>7, <2>8
<1> QED BY <1>1, <1>2

LEMMA MeasureStep ==
  ASSUME MeasureInv, [CompactionNext]_compactionVars
  PROVE  MeasureInv'
<1>1. CompactionInv'
  BY CompactionStep DEF MeasureInv
<1>2. CASE UNCHANGED compactionVars
  BY <1>1, <1>2 DEF MeasureInv, compactionVars
<1>3. CASE RequestFits
  <2>1. /\ compaction' = "model" /\ outgoing' = conversation /\ headerSeen' = TRUE
        /\ UNCHANGED <<conversation, observedLimit, resumes, headBound, retryDelay>>
    BY <1>3, Zenon DEF RequestFits
  <2> QED BY <1>1, <2>1 DEF MeasureInv, CompactionPc
<1>4. CASE RequestSummarizes
  <2>1. /\ compaction = "converse" /\ compaction' = "summarize" /\ headerSeen' = TRUE
        /\ retryDelay' = 0
        /\ UNCHANGED <<conversation, outgoing, observedLimit, resumes, headBound>>
    BY <1>4, Zenon DEF RequestSummarizes
  <2> QED BY <1>1, <2>1 DEF MeasureInv, CompactionPc
<1>5. CASE SummaryRetried
  BY <1>1, <1>5 DEF SummaryRetried, MeasureInv, CompactionPc
<1>6. CASE CompactionFails
  BY <1>1, <1>6 DEF CompactionFails, MeasureInv, CompactionPc
<1> QED BY <1>1, <1>2, <1>3, <1>4, <1>5, <1>6, GrownIsMeasured, RecoverIsMeasured,
           EmergencyIsMeasured, RebuiltIsMeasured DEF CompactionNext

\* The state of a run has its type, whatever the sizes of its messages and the
\* ceilings a provider names: what is estimated, counted and bounded are
\* numbers of tokens, every message has a size, an id given before and one of
\* the four roles (contextBudget, cacheAlignedCompaction, recoverOverflow).
THEOREM CompactionTypeCorrect == CompactionSpec => []CompactionTypeOK
<1>1. CompactionInit => MeasureInv
  <2> SUFFICES ASSUME CompactionInit
               PROVE  MeasureInv
    OBVIOUS
  <2>1. CompactionInv
    BY CompactionInitInv
  <2>2. AreMeasured(conversation)
    <3>1. PICK m : m = System
      OBVIOUS
    <3>2. conversation \in Seq({m}) /\ IsMeasured(m)
      BY <3>1, ConstantsAreMeasured DEF CompactionInit
    <3> QED BY <3>2, MeasuredFrom
  <2> QED BY <2>1, <2>2 DEF CompactionInit, MeasureInv, CompactionPc
<1>2. MeasureInv /\ [CompactionNext]_compactionVars => MeasureInv'
  BY MeasureStep
<1>3. MeasureInv => CompactionTypeOK
  <2> SUFFICES ASSUME MeasureInv
               PROVE  CompactionTypeOK
    OBVIOUS
  <2>1. ASSUME NEW s, Headed(s), AreMeasured(s), IdsOf(s) \subseteq 1 .. nextId - 1,
               NEW m \in Range(s)
        PROVE  /\ m.role \in {"system", "user", "assistant", "tool"}
               /\ m.id \in 1 .. nextId - 1 /\ m.size > 0
    <3>1. PICK i \in DOMAIN s : m = s[i]
      BY DEF Range
    <3>2. IsMessage(m) /\ IsMeasured(m) /\ m.id \in IdsOf(s)
      BY <2>1, <3>1 DEF Headed, AreMeasured, IdsOf
    <3> QED BY <2>1, <3>2 DEF IsMessage, IsMeasured, Positive
  <2>2. archivedIds \subseteq 1 .. nextId
    BY DEF MeasureInv, CompactionInv
  <2>3. \A m \in Range(conversation) :
          /\ m.role \in {"system", "user", "assistant", "tool"}
          /\ m.id \in 1 .. nextId - 1 /\ m.size > 0
    BY <2>1 DEF MeasureInv, CompactionInv
  <2>4. \A m \in Range(outgoing) :
          /\ m.role \in {"system", "user", "assistant", "tool"}
          /\ m.id \in 1 .. nextId - 1 /\ m.size > 0
    <3>1. CASE compaction \in {"model", "recover", "emergency"}
      BY <2>1, <3>1 DEF MeasureInv, CompactionInv
    <3>2. CASE outgoing = <<>>
      BY <3>2 DEF Range
    <3> QED BY <3>1, <3>2 DEF MeasureInv
  <2> QED BY <2>2, <2>3, <2>4 DEF MeasureInv, CompactionTypeOK
<1> QED BY <1>1, <1>2, <1>3, PTL DEF CompactionSpec

==============================================================================
