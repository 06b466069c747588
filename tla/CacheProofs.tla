----------------------------- MODULE CacheProofs -----------------------------
(***************************************************************************)
(* Proofs about Cache for any number of writers, readers, evictors and     *)
(* recoverers of one key.                                                  *)
(***************************************************************************)
EXTENDS Cache, FiniteSetTheorems, TLAPS

-----------------------------------------------------------------------------
(* Types *)

Steps ==
    {"start", "envelope", "payload", "scan", "create", "owner", "beat",
     "reap", "abort", "evict", "purge", "stage", "write", "describe",
     "refresh", "hide", "install", "restore", "withdraw", "cleanup",
     "reopen", "release", "unlink", "sweep", "reap lease", "reinstate",
     "supersede", "done", "crashed"}

\* The paths a listing can have.
Paths == ({1} \X Evictors) \cup {<<2, Nobody>>} \cup ({3, 4} \X Writers)

LookState == [goal : {"publish", "recheck"},
              stage : {"first", "retry", "previous", "last"},
              at : {"final"} \cup Writers, todo : SUBSET Writers,
              seen : Generations]
SweepState == [todo : SUBSET Paths, at : Holders \cup {Nobody}]
Outcome ==
    [kind : {"none", "hit", "miss", "error", "published", "evicted", "recovered"},
     envelope : Generations \cup {Nobody}, payload : Generations \cup {Nobody}]

\* TypeOK with the domains of the functions and the program counters.
TypeInv ==
    /\ place \in [Generations -> {"absent", "staged", "final"} \cup Holders]
    /\ files \in [Generations -> SUBSET Whole]
    /\ corrupt \subseteq {Old}
    /\ lease \in [held : BOOLEAN, owner : Holders \cup {Nobody},
                  beat : BOOLEAN, stale : BOOLEAN]
    /\ pc \in [Processes -> Steps]
    /\ look \in [Lookers -> LookState]
    /\ sweep \in [Recoverers -> SweepState]
    /\ result \in [Processes -> Outcome]

\* The initial directories, lease and calls have their types.
LEMMA InitTypeInv == Init => TypeInv
<1> SUFFICES ASSUME Init PROVE TypeInv
  OBVIOUS
<1>1. PICK entry \in InitialEntry :
        /\ place = [g \in Generations |->
                       IF g = Old /\ entry # "none" THEN "final" ELSE "absent"]
        /\ files = [g \in Generations |->
                       IF g = Old /\ entry # "none" THEN Whole ELSE {}]
        /\ corrupt = IF entry = "corrupt" THEN {Old} ELSE {}
  BY DEF Init
<1>2. place \in [Generations -> {"absent", "staged", "final"} \cup Holders]
  BY <1>1
<1>3. files \in [Generations -> SUBSET Whole] /\ corrupt \subseteq {Old}
  BY <1>1
<1>4. lease \in [held : BOOLEAN, owner : Holders \cup {Nobody},
                 beat : BOOLEAN, stale : BOOLEAN]
  BY DEF Init, NoLease
<1>5. look \in [Lookers -> LookState]
  BY DEF Init, LookState, Generations
<1>6. sweep \in [Recoverers -> SweepState]
  BY DEF Init, SweepState
<1>7. pc \in [Processes -> Steps]
  BY DEF Init, Steps
<1>8. result \in [Processes -> Outcome]
  BY DEF Init, Outcome, Value
<1> QED
  BY <1>2, <1>3, <1>4, <1>5, <1>6, <1>7, <1>8 DEF TypeInv

\* What a call returns is an outcome.
LEMMA OutcomesTyped ==
    /\ Error \in Outcome /\ Miss \in Outcome
    /\ \A g, h \in Generations \cup {Nobody} :
          \A k \in {"hit", "none", "published", "evicted", "recovered"} :
             Value(k, g, h) \in Outcome
BY DEF Error, Miss, Value, Outcome

\* A lookup that goes on.
LEMMA LookAtTyped ==
    ASSUME TypeInv, NEW p \in Lookers, NEW stage \in {"retry", "previous", "last"},
           NEW name \in {"final"} \cup Writers, NEW todo \in SUBSET Writers,
           LookAt(p, stage, name, todo)
    PROVE  /\ look' \in [Lookers -> LookState] /\ pc' \in [Processes -> Steps]
           /\ result' \in [Processes -> Outcome]
<1>1. look[p] \in LookState
  BY DEF TypeInv
<1>2. [look[p] EXCEPT !.stage = stage, !.at = name, !.todo = todo] \in LookState
  BY <1>1 DEF LookState
<1> QED
  BY <1>2 DEF LookAt, Goto, TypeInv, Steps

\* A lookup that ends, with whatever it found.
LEMMA LookEndTyped ==
    ASSUME TypeInv, NEW p \in Lookers, NEW value \in Outcome, LookEnd(p, value)
    PROVE  /\ look' \in [Lookers -> LookState] /\ pc' \in [Processes -> Steps]
           /\ result' \in [Processes -> Outcome]
<1>1. look' = look /\ \E s \in Steps : pc' = [pc EXCEPT ![p] = s]
  BY DEF LookEnd, Return, Goto, Steps
<1>2. result' = result \/ result' = [result EXCEPT ![p] = value]
  BY DEF LookEnd, Return
<1> QED
  BY <1>1, <1>2 DEF TypeInv

\* A lookup whose path had nothing to offer.
LEMMA LookOnTyped ==
    ASSUME TypeInv, NEW p \in Lookers, LookOn(p)
    PROVE  /\ look' \in [Lookers -> LookState] /\ pc' \in [Processes -> Steps]
           /\ result' \in [Processes -> Outcome]
<1>1. look[p] \in LookState
  BY DEF TypeInv
<1>2. \/ Goto(p, "scan") /\ UNCHANGED <<look, result>>
      \/ \E w \in look[p].todo : LookAt(p, "previous", w, look[p].todo \ {w})
      \/ LookAt(p, "last", "final", {})
      \/ LookEnd(p, Miss)
  BY <1>1 DEF LookOn, LookState
<1>3. CASE Goto(p, "scan") /\ UNCHANGED <<look, result>>
  BY <1>3 DEF Goto, TypeInv, Steps
<1>4. CASE \E w \in look[p].todo : LookAt(p, "previous", w, look[p].todo \ {w})
  <2>1. PICK w \in look[p].todo : LookAt(p, "previous", w, look[p].todo \ {w})
    BY <1>4
  <2>2. w \in Writers /\ look[p].todo \ {w} \in SUBSET Writers
    BY <1>1 DEF LookState
  <2> QED
    BY <2>1, <2>2, LookAtTyped
<1>5. CASE LookAt(p, "last", "final", {})
  BY <1>5, LookAtTyped
<1>6. CASE LookEnd(p, Miss)
  BY <1>6, LookEndTyped, OutcomesTyped
<1> QED
  BY <1>2, <1>3, <1>4, <1>5, <1>6

\* Lookups keep the types.
LEMMA LookupTyped ==
    ASSUME TypeInv, NEW p \in Lookers, Lookup(p)
    PROVE  TypeInv'
<1>1. CASE LookStart(p)
  BY <1>1 DEF LookStart, Goto, TypeInv, Steps
<1>2. CASE LookEnvelope(p)
  <2> DEFINE found == {g \in At(look[p].at) : /\ "metadata" \in files[g]
                                              /\ Contract[g] = Contract[p]}
  <2>1. UNCHANGED <<place, files, corrupt, lease, sweep>>
    BY <1>2 DEF LookEnvelope
  <2>2. CASE found = {}
    <3>1. LookOn(p)
      BY <1>2, <2>2 DEF LookEnvelope
    <3> QED
      BY <2>1, <3>1, LookOnTyped DEF TypeInv
  <2>3. CASE found # {}
    <3>1. (CHOOSE g \in found : TRUE) \in Generations
      BY <2>3 DEF At
    <3>2. PICK g \in Generations : look' = [look EXCEPT ![p].seen = g]
      BY <1>2, <2>3, <3>1 DEF LookEnvelope
    <3>3. look[p] \in LookState
      BY DEF TypeInv
    <3>4. [look[p] EXCEPT !.seen = g] \in LookState
      BY <3>3 DEF LookState
    <3>5. look' \in [Lookers -> LookState]
      BY <3>2, <3>4 DEF TypeInv
    <3>6. Goto(p, "payload") /\ UNCHANGED result
      BY <1>2, <2>3 DEF LookEnvelope
    <3> QED
      BY <2>1, <3>5, <3>6 DEF TypeInv, Goto, Steps
  <2> QED
    BY <2>2, <2>3
<1>3. CASE LookPayload(p)
  <2> DEFINE found == {g \in At(look[p].at) : /\ "payload" \in files[g]
                                              /\ Validates(p, look[p].seen, g)}
  <2>1. UNCHANGED <<place, files, corrupt, lease, sweep>>
    BY <1>3 DEF LookPayload
  <2>2. CASE found = {}
    <3>1. LookOn(p)
      BY <1>3, <2>2 DEF LookPayload
    <3> QED
      BY <2>1, <3>1, LookOnTyped DEF TypeInv
  <2>3. CASE found # {}
    <3>1. (CHOOSE g \in found : TRUE) \in Generations
      BY <2>3 DEF At
    <3>2. PICK g \in Generations : LookEnd(p, Value("hit", look[p].seen, g))
      BY <1>3, <2>3, <3>1 DEF LookPayload
    <3>3. look[p].seen \in Generations
      BY DEF TypeInv, LookState
    <3>4. Value("hit", look[p].seen, g) \in Outcome
      BY <3>3, OutcomesTyped
    <3> QED
      BY <2>1, <3>2, <3>4, LookEndTyped DEF TypeInv
  <2> QED
    BY <2>2, <2>3
<1>4. CASE LookScan(p)
  <2>1. {w \in Writers : ~Free(w)} \in SUBSET Writers
    OBVIOUS
  <2>2. LookAt(p, "retry", "final", {w \in Writers : ~Free(w)})
    BY <1>4 DEF LookScan
  <2> QED
    BY <1>4, <2>1, <2>2, LookAtTyped DEF LookScan, TypeInv
<1> QED
  BY <1>1, <1>2, <1>3, <1>4 DEF Lookup

\* The lease protocol keeps the types.
LEMMA LeaseTyped ==
    ASSUME TypeInv, NEW p \in Holders, Lease(p)
    PROVE  TypeInv'
<1> DEFINE LeaseState == [held : BOOLEAN, owner : Holders \cup {Nobody},
                          beat : BOOLEAN, stale : BOOLEAN]
<1>0. NoLease \in LeaseState /\ [NoLease EXCEPT !.held = TRUE] \in LeaseState
  BY DEF NoLease
<1>1. CASE LeaseCreate(p)
  BY <1>0, <1>1 DEF LeaseCreate, Goto, TypeInv, Steps
<1>2. CASE LeaseInitialize(p)
  <2>1. lease' \in LeaseState
    BY <1>2 DEF LeaseInitialize, TypeInv
  <2>2. pc' \in [Processes -> Steps]
    BY <1>2 DEF LeaseInitialize, TypeInv, Goto, Steps
  <2>3. look' \in [Lookers -> LookState]
    <3>1. CASE p \in Writers
      <4>1. look[p] \in LookState
        BY <3>1 DEF TypeInv, Lookers
      <4>2. [look[p] EXCEPT !.goal = "recheck", !.stage = "first",
                            !.at = "final", !.todo = {}] \in LookState
        BY <4>1 DEF LookState
      <4> QED
        BY <1>2, <4>2 DEF LeaseInitialize, TypeInv
    <3>2. CASE p \notin Writers
      BY <1>2, <3>2 DEF LeaseInitialize, TypeInv
    <3> QED
      BY <3>1, <3>2
  <2> QED
    BY <1>2, <2>1, <2>2, <2>3 DEF LeaseInitialize, TypeInv
<1>3. CASE LeaseContended(p)
  BY <1>3, OutcomesTyped DEF LeaseContended, Goto, Return, TypeInv, Steps
<1>4. CASE LeaseReap(p)
  BY <1>0, <1>4, OutcomesTyped DEF LeaseReap, Goto, Return, TypeInv, Steps
<1>5. CASE LeaseRelease(p)
  BY <1>5 DEF LeaseRelease, Goto, TypeInv, Steps
<1>6. CASE LeaseUnlink(p)
  BY <1>0, <1>6 DEF LeaseUnlink, Goto, TypeInv, Steps
<1> QED
  BY <1>1, <1>2, <1>3, <1>4, <1>5, <1>6 DEF Lease

\* Moving one directory, and deleting one file after the other.
LEMMA MoveTyped ==
    ASSUME TypeInv, NEW g \in Generations,
           NEW name \in {"absent", "staged", "final"} \cup Holders, Move(g, name)
    PROVE  place' \in [Generations -> {"absent", "staged", "final"} \cup Holders]
BY DEF Move, TypeInv

\* remove_dir_all keeps the types.
LEMMA RemoveTyped ==
    ASSUME TypeInv, NEW g \in Generations, Remove(g)
    PROVE  /\ place' \in [Generations -> {"absent", "staged", "final"} \cup Holders]
           /\ files' \in [Generations -> SUBSET Whole]
<1>1. CASE files[g] = {} /\ Move(g, "absent") /\ UNCHANGED files
  BY <1>1, MoveTyped DEF TypeInv
<1>2. CASE \E f \in files[g] :
             files' = [files EXCEPT ![g] = @ \ {f}] /\ UNCHANGED place
  BY <1>2 DEF TypeInv
<1> QED
  BY <1>1, <1>2 DEF Remove

\* Publications keep the types.
LEMMA PublishTyped ==
    ASSUME TypeInv, NEW p \in Writers, Publish(p)
    PROVE  TypeInv'
<1>0. p \in Generations /\ p \in Holders /\ p \in Processes
  BY DEF Generations, Holders, Processes
<1> USE <1>0
<1>1. CASE StagingCreate(p)
  BY <1>1, MoveTyped DEF StagingCreate, Goto, TypeInv, Steps
<1>2. CASE StagingWrite(p)
  <2>1. files' \in [Generations -> SUBSET Whole]
    BY <1>2 DEF StagingWrite, TypeInv, Whole
  <2>2. pc' \in [Processes -> Steps]
    BY <1>2 DEF StagingWrite, Goto, TypeInv, Steps
  <2>3. lease' \in [held : BOOLEAN, owner : Holders \cup {Nobody},
                    beat : BOOLEAN, stale : BOOLEAN]
    BY <1>2 DEF StagingWrite, TypeInv
  <2> QED
    BY <1>2, <2>1, <2>2, <2>3 DEF StagingWrite, TypeInv
<1>3. CASE StagingRefresh(p)
  <2>1. lease' \in [held : BOOLEAN, owner : Holders \cup {Nobody},
                    beat : BOOLEAN, stale : BOOLEAN]
    BY <1>3 DEF StagingRefresh, TypeInv
  <2> QED
    BY <1>3, <2>1 DEF StagingRefresh, Goto, TypeInv, Steps
<1>4. ASSUME Withdraw(p), UNCHANGED <<corrupt, lease, look, sweep>>
      PROVE  TypeInv'
  <2>1. place' \in [Generations -> {"absent", "staged", "final"} \cup Holders]
    BY <1>4 DEF Withdraw, TypeInv
  <2>2. files' \in [Generations -> SUBSET Whole]
    BY <1>4 DEF Withdraw, TypeInv
  <2>3. pc' \in [Processes -> Steps] /\ result' \in [Processes -> Outcome]
    BY <1>4, OutcomesTyped DEF Withdraw, Return, Goto, TypeInv, Steps
  <2> QED
    BY <1>4, <2>1, <2>2, <2>3 DEF TypeInv
<1>5. CASE StagingFail(p)
  BY <1>4, <1>5 DEF StagingFail
<1>6. CASE PublishHide(p)
  <2>1. place' \in [Generations -> {"absent", "staged", "final"} \cup Holders]
    BY <1>6 DEF PublishHide, TypeInv
  <2> QED
    BY <1>6, <2>1 DEF PublishHide, Goto, TypeInv, Steps
<1>7. CASE PublishInstall(p)
  BY <1>7, MoveTyped DEF PublishInstall, Goto, TypeInv, Steps
<1>8. CASE PublishInstallFails(p)
  BY <1>8 DEF PublishInstallFails, Goto, TypeInv, Steps
<1>9. CASE PublishRestore(p)
  <2>1. place' \in [Generations -> {"absent", "staged", "final"} \cup Holders]
    BY <1>9, MoveTyped DEF PublishRestore, At, TypeInv
  <2> QED
    BY <1>9, <2>1 DEF PublishRestore, Goto, TypeInv, Steps
<1>10. CASE PublishWithdraw(p)
  BY <1>4, <1>10 DEF PublishWithdraw
<1>11. CASE PublishCleanup(p)
  <2>1. CASE Free(p)
    BY <1>11, <2>1 DEF PublishCleanup, Goto, TypeInv, Steps
  <2>2. CASE ~Free(p)
    <3>1. PICK g \in At(p) : Remove(g)
      BY <1>11, <2>2 DEF PublishCleanup
    <3>2. UNCHANGED <<pc, corrupt, lease, look, sweep, result>>
      BY <1>11, <2>2 DEF PublishCleanup
    <3> QED
      BY <3>1, <3>2, RemoveTyped DEF TypeInv, At
  <2> QED
    BY <2>1, <2>2
<1>12. CASE PublishReopen(p)
  <2> DEFINE found == {g \in At("final") : /\ "payload" \in files[g]
                                           /\ Length[g] = Length[p]}
             value == IF found = {} THEN Error
                      ELSE Value("published", p, CHOOSE g \in found : TRUE)
  <2>1. found # {} => (CHOOSE g \in found : TRUE) \in Generations
    BY DEF At
  <2>2. value \in Outcome
    BY <2>1, OutcomesTyped
  <2>3. Return(p, value, "release")
    BY <1>12 DEF PublishReopen
  <2>4. UNCHANGED <<place, files, corrupt, lease, look, sweep>>
    BY <1>12 DEF PublishReopen
  <2> HIDE DEF value
  <2> QED
    BY <2>2, <2>3, <2>4 DEF Return, Goto, TypeInv, Steps
<1> QED
  BY <1>1, <1>2, <1>3, <1>5, <1>6, <1>7, <1>8, <1>9, <1>10, <1>11, <1>12
     DEF Publish

\* Evictions keep the types.
LEMMA EvictTyped ==
    ASSUME TypeInv, NEW p \in Evictors, Evict(p)
    PROVE  TypeInv'
<1>0. p \in Holders /\ p \in Processes
  BY DEF Holders, Processes
<1>1. CASE EvictStart(p)
  BY <1>1 DEF EvictStart, Goto, TypeInv, Steps
<1>2. CASE EvictHide(p)
  <2>1. place' \in [Generations -> {"absent", "staged", "final"} \cup Holders]
    <3>1. CASE Free("final")
      BY <1>2, <3>1 DEF EvictHide, TypeInv
    <3>2. CASE ~Free("final")
      <4>1. PICK g \in At("final") : Move(g, p)
        BY <1>2, <3>2 DEF EvictHide
      <4> QED
        BY <1>0, <4>1, MoveTyped DEF At
    <3> QED
      BY <3>1, <3>2
  <2>2. pc' \in [Processes -> Steps] /\ result' \in [Processes -> Outcome]
    <3>1. Value("none", Nobody, Nobody) \in Outcome
      BY OutcomesTyped
    <3>2. result' = result \/ result' = [result EXCEPT ![p] =
                                           Value("none", Nobody, Nobody)]
      BY <1>2 DEF EvictHide, Return
    <3>3. Goto(p, "release") \/ Goto(p, "purge")
      BY <1>2 DEF EvictHide, Return
    <3> QED
      BY <3>1, <3>2, <3>3 DEF Goto, TypeInv, Steps
  <2> QED
    BY <1>2, <2>1, <2>2 DEF EvictHide, TypeInv
<1>3. CASE EvictPurge(p)
  <2>1. place' \in [Generations -> {"absent", "staged", "final"} \cup Holders]
    BY <1>3 DEF EvictPurge, TypeInv
  <2>2. files' \in [Generations -> SUBSET Whole]
    BY <1>3 DEF EvictPurge, TypeInv
  <2>3. pc' \in [Processes -> Steps] /\ result' \in [Processes -> Outcome]
    BY <1>3, OutcomesTyped DEF EvictPurge, Return, Goto, TypeInv, Steps
  <2> QED
    BY <1>3, <2>1, <2>2, <2>3 DEF EvictPurge, TypeInv
<1> QED
  BY <1>1, <1>2, <1>3 DEF Evict

\* A listing holds the paths of what is there.
LEMMA ListingTyped == Listing \subseteq Paths
BY DEF Listing, Paths

\* Recoveries keep the types.
LEMMA RecoverTyped ==
    ASSUME TypeInv, NEW r \in Recoverers, Recover(r)
    PROVE  TypeInv'
<1>0. r \in Processes /\ sweep[r] \in SweepState
  BY DEF Processes, TypeInv
<1>1. CASE RecoverStart(r)
  <2>1. [sweep[r] EXCEPT !.todo = Listing] \in SweepState
    BY <1>0, ListingTyped DEF SweepState
  <2>2. sweep' \in [Recoverers -> SweepState]
    BY <1>1, <2>1 DEF RecoverStart, TypeInv
  <2> QED
    BY <1>1, <2>2 DEF RecoverStart, Goto, TypeInv, Steps
<1>2. CASE RecoverPath(r)
  <2>1. PICK path \in sweep[r].todo :
          sweep' = [sweep EXCEPT ![r] = [todo |-> @.todo \ {path}, at |-> path[2]]]
    BY <1>2 DEF RecoverPath
  <2>2. path \in Paths
    BY <1>0, <2>1 DEF SweepState
  <2>3. path[2] \in Holders \cup {Nobody}
    BY <2>2 DEF Paths, Holders
  <2>4. [todo |-> sweep[r].todo \ {path}, at |-> path[2]] \in SweepState
    BY <1>0, <2>3 DEF SweepState
  <2>5. sweep' \in [Recoverers -> SweepState]
    BY <2>1, <2>4 DEF TypeInv
  <2>6. \E s \in Steps : Goto(r, s)
    BY <1>2 DEF RecoverPath, Steps
  <2>7. \E gone : place' = [g \in Generations |->
                               IF g \in gone THEN "absent" ELSE place[g]]
    BY <1>2 DEF RecoverPath
  <2>8. \E gone : files' = [g \in Generations |->
                               IF g \in gone THEN {} ELSE files[g]]
    BY <1>2 DEF RecoverPath
  <2>9. UNCHANGED <<corrupt, lease, look, result>>
    BY <1>2 DEF RecoverPath
  <2>10. place' \in [Generations -> {"absent", "staged", "final"} \cup Holders]
    BY <2>7 DEF TypeInv
  <2>11. files' \in [Generations -> SUBSET Whole]
    BY <2>8 DEF TypeInv
  <2>12. pc' \in [Processes -> Steps]
    BY <2>6 DEF Goto, TypeInv
  <2> QED
    BY <2>5, <2>9, <2>10, <2>11, <2>12 DEF TypeInv
<1>3. CASE RecoverReap(r)
  <2>1. NoLease \in [held : BOOLEAN, owner : Holders \cup {Nobody},
                     beat : BOOLEAN, stale : BOOLEAN]
    BY DEF NoLease
  <2> QED
    BY <1>3, <2>1 DEF RecoverReap, Goto, TypeInv, Steps
<1>4. CASE RecoverRestore(r)
  BY <1>4 DEF RecoverRestore, Goto, TypeInv, Steps
<1>5. CASE RecoverReinstate(r)
  <2>1. place' \in [Generations -> {"absent", "staged", "final"} \cup Holders]
    BY <1>5, MoveTyped DEF RecoverReinstate, At, TypeInv
  <2>2. pc' \in [Processes -> Steps]
    BY <1>5 DEF RecoverReinstate, Goto, TypeInv, Steps
  <2> QED
    BY <1>5, <2>1, <2>2 DEF RecoverReinstate, TypeInv
<1>6. CASE RecoverSupersede(r)
  <2>1. /\ place' \in [Generations -> {"absent", "staged", "final"} \cup Holders]
        /\ files' \in [Generations -> SUBSET Whole]
    BY <1>6, RemoveTyped DEF RecoverSupersede, At, TypeInv
  <2>2. pc' \in [Processes -> Steps] /\ result' \in [Processes -> Outcome]
    BY <1>6, OutcomesTyped DEF RecoverSupersede, Return, Goto, TypeInv, Steps
  <2> QED
    BY <1>6, <2>1, <2>2 DEF RecoverSupersede, TypeInv
<1>7. CASE RecoverEnd(r)
  BY <1>7, OutcomesTyped DEF RecoverEnd, Return, Goto, TypeInv, Steps
<1> QED
  BY <1>1, <1>2, <1>3, <1>4, <1>5, <1>6, <1>7 DEF Recover

\* Every step keeps the types.
LEMMA NextTypeInv == TypeInv /\ [Next]_vars => TypeInv'
<1> SUFFICES ASSUME TypeInv, [Next]_vars PROVE TypeInv'
  OBVIOUS
<1>1. CASE UNCHANGED vars
  BY <1>1 DEF vars, TypeInv
<1>2. ASSUME NEW p \in Processes, Process(p) PROVE TypeInv'
  BY <1>2, LookupTyped, LeaseTyped, PublishTyped, EvictTyped, RecoverTyped
     DEF Process
<1>3. ASSUME NEW p \in Holders, Crash(p) PROVE TypeInv'
  BY <1>3 DEF Crash, Goto, TypeInv, Steps
<1>4. CASE Age
  BY <1>4 DEF Age, TypeInv
<1> QED
  BY <1>1, <1>2, <1>3, <1>4 DEF Next, Finished

\* Every reachable state is well typed.
LEMMA Typed == Spec => []TypeInv
BY InitTypeInv, NextTypeInv, PTL DEF Spec

\* Directories, lease and lookups keep their types (cache.rs:
\* lookup_with_validation_and_cancellation visits the final path and the
\* replacement paths of the key, and no other).
THEOREM CacheTypeCorrect == Spec => []TypeOK
<1>1. TypeInv => TypeOK
  BY DEF TypeInv, TypeOK, LookState
<1> QED
  BY <1>1, Typed, PTL

-----------------------------------------------------------------------------
(* Processes share nothing but the directories and the lease *)

\* Payloads do not rot, and nobody else's call is touched.
Alone(p) ==
    /\ corrupt' = corrupt
    /\ \A q \in Processes \ {p} : pc'[q] = pc[q] /\ result'[q] = result[q]
    /\ \A q \in Lookers \ {p} : look'[q] = look[q]
    /\ \A q \in Recoverers \ {p} : sweep'[q] = sweep[q]

\* A lookup changes nothing that others see.
LEMMA LookupAlone ==
    ASSUME TypeInv, NEW p \in Lookers, Lookup(p)
    PROVE  Alone(p) /\ UNCHANGED <<place, files, lease, sweep>>
<1>1. UNCHANGED <<place, files, corrupt, lease, sweep>>
  BY DEF Lookup, LookStart, LookEnvelope, LookPayload, LookScan
<1>2. ASSUME NEW value, LookEnd(p, value) PROVE Alone(p)
  BY <1>1, <1>2 DEF LookEnd, Return, Goto, TypeInv, Alone
<1>3. ASSUME NEW stage, NEW name, NEW todo, LookAt(p, stage, name, todo)
      PROVE  Alone(p)
  BY <1>1, <1>3 DEF LookAt, Goto, TypeInv, Alone
<1>4. ASSUME LookOn(p) PROVE Alone(p)
  <2>1. CASE Goto(p, "scan") /\ UNCHANGED <<look, result>>
    BY <1>1, <2>1 DEF Goto, TypeInv, Alone
  <2>2. look[p].stage \in {"first", "retry", "previous", "last"}
    BY DEF TypeInv, LookState
  <2>3. \/ Goto(p, "scan") /\ UNCHANGED <<look, result>>
        \/ \E w \in look[p].todo : LookAt(p, "previous", w, look[p].todo \ {w})
        \/ LookAt(p, "last", "final", {})
        \/ LookEnd(p, Miss)
    BY <1>4, <2>2 DEF LookOn
  <2> QED
    BY <1>2, <1>3, <2>1, <2>3
<1>5. CASE LookStart(p)
  BY <1>1, <1>5 DEF LookStart, Goto, TypeInv, Alone
<1>6. CASE LookEnvelope(p)
  <2>1. CASE Goto(p, "payload") /\ UNCHANGED result
             /\ \E g : look' = [look EXCEPT ![p].seen = g]
    BY <1>1, <2>1 DEF Goto, TypeInv, Alone
  <2> QED
    BY <1>4, <1>6, <2>1 DEF LookEnvelope
<1>7. CASE LookPayload(p)
  BY <1>2, <1>4, <1>7 DEF LookPayload
<1>8. CASE LookScan(p)
  BY <1>3, <1>8 DEF LookScan
<1> QED
  BY <1>1, <1>5, <1>6, <1>7, <1>8 DEF Lookup

\* The lease protocol touches the lease only, and gives up with an error.
LEMMA LeaseAlone ==
    ASSUME TypeInv, NEW p \in Holders, Lease(p)
    PROVE  /\ Alone(p) /\ UNCHANGED <<place, files, sweep>>
           /\ pc'[p] # "payload" /\ result'[p] \in {result[p], Error}
<1>0. p \in Processes
  BY DEF Processes
<1>1. CASE LeaseCreate(p)
  BY <1>0, <1>1 DEF LeaseCreate, Goto, TypeInv, Alone
<1>2. CASE LeaseInitialize(p)
  <2>1. UNCHANGED <<place, files, corrupt, sweep, result>>
    BY <1>2 DEF LeaseInitialize
  <2>2. \A q \in Processes \ {p} : pc'[q] = pc[q]
    BY <1>2 DEF LeaseInitialize, Goto, TypeInv
  <2>3. \A q \in Lookers \ {p} : look'[q] = look[q]
    BY <1>2 DEF LeaseInitialize, TypeInv
  <2>4. pc'[p] # "payload"
    BY <1>0, <1>2 DEF LeaseInitialize, Goto, TypeInv
  <2> QED
    BY <2>1, <2>2, <2>3, <2>4 DEF Alone
<1>3. CASE LeaseContended(p)
  BY <1>0, <1>3 DEF LeaseContended, Return, Goto, TypeInv, Alone
<1>4. CASE LeaseReap(p)
  BY <1>0, <1>4 DEF LeaseReap, Return, Goto, TypeInv, Alone
<1>5. CASE LeaseRelease(p)
  BY <1>0, <1>5 DEF LeaseRelease, Goto, TypeInv, Alone
<1>6. CASE LeaseUnlink(p)
  BY <1>0, <1>6 DEF LeaseUnlink, Goto, TypeInv, Alone
<1> QED
  BY <1>1, <1>2, <1>3, <1>4, <1>5, <1>6 DEF Lease

\* A publication reports an error or what it published.
LEMMA PublishAlone ==
    ASSUME TypeInv, NEW p \in Writers, Publish(p)
    PROVE  /\ Alone(p) /\ UNCHANGED <<look, sweep>>
           /\ pc'[p] # "payload"
           /\ \/ result'[p] \in {result[p], Error}
              \/ pc[p] = "reopen" /\ result'[p].kind = "published"
<1>0. p \in Processes
  BY DEF Holders, Processes
<1>1. UNCHANGED <<corrupt, look, sweep>>
  BY DEF Publish, StagingCreate, StagingWrite, StagingRefresh, StagingFail,
         PublishHide, PublishInstall, PublishInstallFails, PublishRestore,
         PublishWithdraw, PublishCleanup, PublishReopen
<1> DEFINE Stays == \A q \in Processes \ {p} : pc'[q] = pc[q] /\ result'[q] = result[q]
           Reports == result'[p] \in {result[p], Error}
<1>2. CASE StagingCreate(p) \/ StagingRefresh(p) \/ PublishHide(p)
           \/ PublishInstall(p) \/ PublishInstallFails(p) \/ PublishRestore(p)
  <2>1. UNCHANGED result /\ \E s \in Steps \ {"payload"} : Goto(p, s)
    BY <1>2 DEF StagingCreate, StagingRefresh, PublishHide, PublishInstall,
                PublishInstallFails, PublishRestore, Steps
  <2> QED
    BY <1>0, <1>1, <2>1 DEF Goto, TypeInv, Alone
<1>3. CASE StagingWrite(p)
  <2>1. UNCHANGED result /\ \E s \in Steps \ {"payload"} : Goto(p, s)
    BY <1>3 DEF StagingWrite, Steps
  <2> QED
    BY <1>0, <1>1, <2>1 DEF Goto, TypeInv, Alone
<1>4. CASE StagingFail(p) \/ PublishWithdraw(p)
  <2>1. Return(p, Error, "release")
    BY <1>4 DEF StagingFail, PublishWithdraw, Withdraw
  <2> QED
    BY <1>0, <1>1, <2>1 DEF Return, Goto, TypeInv, Alone
<1>5. CASE PublishCleanup(p)
  <2>1. UNCHANGED result /\ (UNCHANGED pc \/ Goto(p, "reopen")) /\ pc[p] = "cleanup"
    BY <1>5 DEF PublishCleanup
  <2> QED
    BY <1>0, <1>1, <2>1 DEF Goto, TypeInv, Alone
<1>6. CASE PublishReopen(p)
  <2>1. PICK value : /\ Return(p, value, "release")
                     /\ value = Error \/ value.kind = "published"
    BY <1>6 DEF PublishReopen, Value
  <2> QED
    BY <1>0, <1>1, <1>6, <2>1 DEF Return, Goto, TypeInv, Alone, PublishReopen
<1> QED
  BY <1>2, <1>3, <1>4, <1>5, <1>6 DEF Publish

\* An eviction reports that it evicted, that there was nothing, or an error.
LEMMA EvictAlone ==
    ASSUME TypeInv, NEW p \in Evictors, Evict(p)
    PROVE  Alone(p) /\ UNCHANGED <<look, sweep, lease>> /\ pc'[p] # "payload"
<1>0. p \in Processes
  BY DEF Holders, Processes
<1>1. UNCHANGED <<corrupt, look, sweep, lease>>
  BY DEF Evict, EvictStart, EvictHide, EvictPurge
<1>2. \E s \in Steps \ {"payload"} : Goto(p, s)
  BY DEF Evict, EvictStart, EvictHide, EvictPurge, Return, Steps
<1>3. UNCHANGED result \/ \E v : result' = [result EXCEPT ![p] = v]
  BY DEF Evict, EvictStart, EvictHide, EvictPurge, Return
<1> QED
  BY <1>0, <1>1, <1>2, <1>3 DEF Goto, TypeInv, Alone

\* A recovery touches only its own call.
LEMMA RecoverAlone ==
    ASSUME TypeInv, NEW r \in Recoverers, Recover(r)
    PROVE  Alone(r) /\ UNCHANGED look
<1>0. r \in Processes
  BY DEF Processes
<1>1. UNCHANGED <<corrupt, look>>
  BY DEF Recover, RecoverStart, RecoverPath, RecoverReap, RecoverRestore,
         RecoverReinstate, RecoverSupersede, RecoverEnd
<1>2. \E s : Goto(r, s)
  BY DEF Recover, RecoverStart, RecoverPath, RecoverReap, RecoverRestore,
         RecoverReinstate, RecoverSupersede, RecoverEnd, Return
<1>3. UNCHANGED result \/ \E v : result' = [result EXCEPT ![r] = v]
  BY DEF Recover, RecoverStart, RecoverPath, RecoverReap, RecoverRestore,
         RecoverReinstate, RecoverSupersede, RecoverEnd, Return
<1>4. UNCHANGED sweep \/ \E v : sweep' = [sweep EXCEPT ![r] = v]
  BY DEF Recover, RecoverStart, RecoverPath, RecoverReap, RecoverRestore,
         RecoverReinstate, RecoverSupersede, RecoverEnd
<1> QED
  BY <1>0, <1>1, <1>2, <1>3, <1>4 DEF Goto, TypeInv, Alone

-----------------------------------------------------------------------------
(* What a lookup that validates returns *)

\* The envelope a lookup has read is of its contract, which is what is left
\* to know when it opens a payload by path.
HitInv ==
    \A p \in Lookers \ Trusting :
        /\ pc[p] = "payload" => Contract[look[p].seen] = Contract[p]
        /\ HitWhole(p)

\* No lookup has read anything yet.
LEMMA InitHitInv == Init => HitInv
BY DEF Init, HitInv, HitWhole, Value, Lookers, Holders, Processes

\* A lookup that ends with a whole hit or a miss.
LEMMA LookEndWhole ==
    ASSUME TypeInv, NEW p \in Lookers \ Trusting, HitInv,
           NEW value \in Outcome, LookEnd(p, value), UNCHANGED corrupt,
           value.kind = "hit" => /\ value.envelope = value.payload
                                 /\ value.payload \notin corrupt
                                 /\ Contract[value.envelope] = Contract[p]
    PROVE  HitWhole(p)' /\ pc'[p] # "payload"
<1>1. p \in Processes
  BY DEF Processes
<1>2. result' = result \/ result' = [result EXCEPT ![p] = value]
  BY DEF LookEnd, Return
<1>3. HitWhole(p)'
  BY <1>1, <1>2 DEF HitInv, HitWhole, TypeInv
<1>4. \E s \in Steps \ {"payload"} : Goto(p, s)
  BY DEF LookEnd, Return, Steps
<1> QED
  BY <1>1, <1>3, <1>4 DEF Goto, TypeInv

\* A lookup that goes on, or ends without a hit.
LEMMA LookOnWhole ==
    ASSUME TypeInv, NEW p \in Lookers \ Trusting, HitInv, LookOn(p),
           UNCHANGED corrupt
    PROVE  HitWhole(p)' /\ pc'[p] # "payload"
<1>1. p \in Processes
  BY DEF Processes
<1>2. look[p].stage \in {"first", "retry", "previous", "last"}
  BY DEF TypeInv, LookState
<1>3. \/ Goto(p, "scan") /\ UNCHANGED result
      \/ Goto(p, "envelope") /\ UNCHANGED result
      \/ LookEnd(p, Miss)
  BY <1>2 DEF LookOn, LookAt
<1>4. CASE LookEnd(p, Miss)
  BY <1>4, OutcomesTyped, LookEndWhole DEF Miss, Value
<1>5. CASE UNCHANGED result /\ (Goto(p, "scan") \/ Goto(p, "envelope"))
  BY <1>1, <1>5 DEF Goto, TypeInv, HitInv, HitWhole
<1> QED
  BY <1>3, <1>4, <1>5

\* Reading the envelope records its contract; opening the payload compares
\* length and digest with it.
LEMMA LookupWhole ==
    ASSUME TypeInv, NEW p \in Lookers \ Trusting, HitInv, Lookup(p)
    PROVE  /\ HitWhole(p)'
           /\ pc'[p] = "payload" => Contract[look'[p].seen] = Contract[p]
<1>0. p \in Processes /\ UNCHANGED corrupt
  BY LookupAlone DEF Processes, Alone
<1>1. CASE LookStart(p) \/ LookScan(p)
  <2>1. UNCHANGED result /\ Goto(p, "envelope")
    BY <1>1 DEF LookStart, LookScan, LookAt
  <2> QED
    BY <1>0, <2>1 DEF Goto, TypeInv, HitInv, HitWhole
<1>2. CASE LookEnvelope(p)
  <2> DEFINE found == {g \in At(look[p].at) : /\ "metadata" \in files[g]
                                              /\ Contract[g] = Contract[p]}
  <2>1. CASE found = {}
    BY <1>0, <1>2, <2>1, LookOnWhole DEF LookEnvelope
  <2>2. CASE found # {}
    <3>1. (CHOOSE g \in found : TRUE) \in found
      BY <2>2
    <3>2. PICK g \in found : look' = [look EXCEPT ![p].seen = g]
      BY <1>2, <2>2, <3>1 DEF LookEnvelope
    <3>3. look'[p].seen = g
      BY <3>2 DEF TypeInv, LookState
    <3>4. UNCHANGED result
      BY <1>2, <2>2 DEF LookEnvelope
    <3> QED
      BY <1>0, <3>3, <3>4 DEF HitInv, HitWhole
  <2> QED
    BY <2>1, <2>2
<1>3. CASE LookPayload(p)
  <2> DEFINE found == {g \in At(look[p].at) : /\ "payload" \in files[g]
                                              /\ Validates(p, look[p].seen, g)}
  <2>1. CASE found = {}
    BY <1>0, <1>3, <2>1, LookOnWhole DEF LookPayload
  <2>2. CASE found # {}
    <3>1. (CHOOSE g \in found : TRUE) \in found
      BY <2>2
    <3>2. PICK g \in found : LookEnd(p, Value("hit", look[p].seen, g))
      BY <1>3, <2>2, <3>1 DEF LookPayload
    <3>3. look[p].seen = g /\ g \notin corrupt
      BY <3>2 DEF Validates
    <3>4. Contract[look[p].seen] = Contract[p]
      BY <1>3 DEF HitInv, LookPayload
    <3>5. g \in Generations
      BY <3>2 DEF At
    <3>6. Value("hit", look[p].seen, g) \in Outcome
      BY <3>3, <3>5, OutcomesTyped
    <3> QED
      BY <1>0, <3>2, <3>3, <3>4, <3>6, LookEndWhole DEF Value
  <2> QED
    BY <2>1, <2>2
<1> QED
  BY <1>1, <1>2, <1>3 DEF Lookup

\* Every step keeps the lookups honest: others do not reach into a call, and
\* a writer's other steps do not return a hit.
LEMMA NextHitInv == TypeInv /\ HitInv /\ [Next]_vars => HitInv'
<1> SUFFICES ASSUME TypeInv, HitInv, [Next]_vars, NEW q \in Lookers \ Trusting
             PROVE  /\ pc'[q] = "payload" => Contract[look'[q].seen] = Contract[q]
                    /\ HitWhole(q)'
  BY DEF HitInv
<1>0. q \in Lookers /\ q \in Processes
  BY DEF Processes
<1>1. ASSUME UNCHANGED <<corrupt, look, result>>, pc'[q] \in {pc[q], "crashed"}
      PROVE  /\ pc'[q] = "payload" => Contract[look'[q].seen] = Contract[q]
             /\ HitWhole(q)'
  BY <1>1 DEF HitInv, HitWhole
<1>2. ASSUME NEW p \in Processes, Alone(p), p # q
      PROVE  /\ pc'[q] = "payload" => Contract[look'[q].seen] = Contract[q]
             /\ HitWhole(q)'
  BY <1>0, <1>2 DEF Alone, HitInv, HitWhole
<1>3. ASSUME UNCHANGED corrupt, pc'[q] # "payload",
             result'[q] \in {result[q], Error} \/ result'[q].kind = "published"
      PROVE  /\ pc'[q] = "payload" => Contract[look'[q].seen] = Contract[q]
             /\ HitWhole(q)'
  BY <1>3 DEF HitInv, HitWhole, Error
<1>4. ASSUME NEW p \in Processes, Process(p)
      PROVE  /\ pc'[q] = "payload" => Contract[look'[q].seen] = Contract[q]
             /\ HitWhole(q)'
  <2>1. CASE p \in Lookers /\ Lookup(p)
    BY <1>2, <2>1, LookupAlone, LookupWhole
  <2>2. CASE p \in Holders /\ Lease(p)
    BY <1>2, <1>3, <2>2, LeaseAlone DEF Alone
  <2>3. CASE p \in Writers /\ Publish(p)
    BY <1>2, <1>3, <2>3, PublishAlone DEF Alone
  <2>4. CASE p \in Evictors /\ Evict(p)
    <3>1. p # q
      BY <2>4, CacheAssumption DEF Lookers
    <3> QED
      BY <1>2, <2>4, <3>1, EvictAlone
  <2>5. CASE p \in Recoverers /\ Recover(p)
    <3>1. p # q
      BY <2>5, CacheAssumption DEF Lookers
    <3> QED
      BY <1>2, <2>5, <3>1, RecoverAlone
  <2> QED
    BY <1>4, <2>1, <2>2, <2>3, <2>4, <2>5 DEF Process
<1>5. ASSUME NEW p \in Holders, Crash(p)
      PROVE  /\ pc'[q] = "payload" => Contract[look'[q].seen] = Contract[q]
             /\ HitWhole(q)'
  BY <1>0, <1>1, <1>5 DEF Crash, Goto, TypeInv
<1>6. CASE Age
  BY <1>1, <1>6 DEF Age
<1>7. CASE UNCHANGED vars
  BY <1>1, <1>7 DEF vars
<1> QED
  BY <1>4, <1>5, <1>6, <1>7 DEF Next, Finished

\* Whatever is renamed, deleted, evicted or recovered between the three reads
\* of a lookup, and whoever crashes: what a validating lookup returns is one
\* whole generation of the contract it asked for (cache.rs: lookup_entry_path
\* compares the envelope, then the length and digest of what it opened).
THEOREM ValidatedHitsWhole == Spec => [](\A p \in Lookers \ Trusting : HitWhole(p))
<1>1. HitInv => \A p \in Lookers \ Trusting : HitWhole(p)
  BY DEF HitInv
<1> QED
  BY <1>1, Typed, InitHitInv, NextHitInv, PTL DEF Spec

\* Where no reader trusts the envelope, every hit is whole.
THEOREM HitsWhole == ASSUME Trusting = {} PROVE Spec => []HitsAreWhole
<1>1. (\A p \in Lookers \ Trusting : HitWhole(p)) => HitsAreWhole
  BY DEF HitsAreWhole
<1> QED
  BY <1>1, ValidatedHitsWhole, PTL

-----------------------------------------------------------------------------
(* The lease while nobody crashes *)

\* From the creation of the lease directory to its removal.
Working(p) == Owning(p) \/ pc[p] \in {"owner", "beat"}

\* The steps of those who lost their lease, or take one that was abandoned.
Forsaken == {"reap", "abort", "reap lease", "crashed"}

\* The lease is held exactly as long as one process works under it, it names
\* that process as soon as the owner file is written, and it never grows old.
\* A writer that has not started is not on its second lookup.
LeaseInv ==
    /\ ~lease.stale
    /\ \A p \in Processes : pc[p] \notin Forsaken
    /\ \A p, q \in Holders : Working(p) /\ Working(q) => p = q
    /\ \A p \in Holders : Working(p) => lease.held
    /\ \A p \in Holders : Working(p) => pc[p] = "owner" \/ lease.owner = p
    /\ lease.held => \E p \in Holders : Working(p)
    /\ \A w \in Writers : pc[w] = "start" => look[w].goal = "publish"

\* At first there is no lease and nobody works.
LEMMA InitLeaseInv == Init => LeaseInv
<1> SUFFICES ASSUME Init PROVE LeaseInv
  OBVIOUS
<1>1. lease = NoLease /\ \A p \in Processes : pc[p] = "start"
  BY DEF Init
<1>2. \A w \in Writers : look[w].goal = "publish"
  BY DEF Init, Lookers
<1>3. \A p \in Holders : ~Working(p)
  BY <1>1 DEF Working, Owning, Processes
<1> QED
  BY <1>1, <1>2, <1>3 DEF LeaseInv, NoLease, Forsaken

\* A step of one process does not change whether another one works.
LEMMA OthersWork ==
    ASSUME NEW p \in Processes, Alone(p), NEW q \in Holders, q # p
    PROVE  Working(q)' <=> Working(q)
<1>1. q \in Processes /\ (q \in Writers => q \in Lookers)
  BY DEF Processes, Lookers
<1>2. pc'[q] = pc[q] /\ (q \in Writers => look'[q] = look[q])
  BY <1>1 DEF Alone
<1> QED
  BY <1>2 DEF Working, Owning

\* A step that leaves the lease alone, of a process that goes on working or
\* goes on not working.
LEMMA SameWork ==
    ASSUME TypeInv, LeaseInv, NEW p \in Processes, Alone(p), lease' = lease,
           pc'[p] \notin Forsaken, pc'[p] # "start",
           p \in Holders => /\ Working(p)' <=> Working(p)
                            /\ pc[p] # "owner" /\ pc'[p] # "owner"
    PROVE  LeaseInv'
<1>1. \A q \in Holders : Working(q)' <=> Working(q)
  BY OthersWork
<1>2. \A q \in Holders : pc'[q] = "owner" <=> pc[q] = "owner"
  BY DEF Alone, Processes
<1>3. \A q \in Processes : pc'[q] \notin Forsaken
  BY DEF Alone, LeaseInv
<1>4. \A w \in Writers : pc'[w] = "start" => look'[w].goal = "publish"
  <2>1. SUFFICES ASSUME NEW w \in Writers, w # p, pc'[w] = "start"
                 PROVE  look'[w].goal = "publish"
    OBVIOUS
  <2>2. w \in Processes /\ w \in Lookers
    BY DEF Processes, Lookers
  <2> QED
    BY <2>1, <2>2 DEF Alone, LeaseInv
<1> QED
  BY <1>1, <1>2, <1>3, <1>4 DEF LeaseInv

\* A lookup does not change the goal it was started for.
LEMMA LookupGoal ==
    ASSUME TypeInv, NEW p \in Lookers, Lookup(p)
    PROVE  /\ look'[p].goal = look[p].goal
           /\ pc[p] \in {"start", "envelope", "payload", "scan"}
           /\ pc'[p] \in {"envelope", "payload", "scan", "done", "create", "release", "stage"}
           /\ p \in Writers =>
                /\ pc'[p] \in {"release", "stage"} => look[p].goal = "recheck"
                /\ pc'[p] \in {"done", "create"} => look[p].goal = "publish"
<1>0. p \in Processes /\ look[p] \in LookState
  BY DEF Processes, TypeInv
<1> DEFINE Goal ==
      /\ look'[p].goal = look[p].goal
      /\ pc'[p] \in {"envelope", "payload", "scan", "done", "create", "release", "stage"}
      /\ p \in Writers =>
           /\ pc'[p] \in {"release", "stage"} => look[p].goal = "recheck"
           /\ pc'[p] \in {"done", "create"} => look[p].goal = "publish"
<1>1. ASSUME NEW value, LookEnd(p, value) PROVE Goal
  <2>1. CASE p \in Readers
    <3>1. p \notin Writers /\ pc'[p] = "done" /\ look' = look
      BY <1>0, <1>1, <2>1, CacheAssumption DEF LookEnd, Return, Goto, TypeInv
    <3> QED
      BY <3>1
  <2>2. CASE p \notin Readers /\ look[p].goal = "publish"
    BY <1>0, <1>1, <2>2 DEF LookEnd, Return, Goto, TypeInv, Lookers
  <2>3. CASE p \notin Readers /\ look[p].goal = "recheck"
    <3>1. look' = look /\ (Goto(p, "release") \/ Goto(p, "stage"))
      BY <1>1, <2>3 DEF LookEnd, Return
    <3> QED
      BY <1>0, <2>3, <3>1 DEF Goto, TypeInv
  <2> QED
    BY <1>0, <2>1, <2>2, <2>3 DEF LookState
<1>2. ASSUME NEW stage, NEW name, NEW todo, LookAt(p, stage, name, todo)
      PROVE  Goal
  BY <1>0, <1>2 DEF LookAt, Goto, TypeInv, LookState
<1>3. ASSUME LookOn(p) PROVE Goal
  <2>1. CASE Goto(p, "scan") /\ UNCHANGED <<look, result>>
    BY <1>0, <2>1 DEF Goto, TypeInv
  <2>2. \/ Goto(p, "scan") /\ UNCHANGED <<look, result>>
        \/ \E w \in look[p].todo : LookAt(p, "previous", w, look[p].todo \ {w})
        \/ LookAt(p, "last", "final", {})
        \/ LookEnd(p, Miss)
    BY <1>0, <1>3 DEF LookOn, LookState
  <2> QED
    BY <1>1, <1>2, <2>1, <2>2
<1>4. CASE LookStart(p)
  BY <1>0, <1>4 DEF LookStart, Goto, TypeInv
<1>5. CASE LookEnvelope(p)
  <2>1. CASE Goto(p, "payload") /\ \E g : look' = [look EXCEPT ![p].seen = g]
    <3>1. PICK g : look' = [look EXCEPT ![p].seen = g]
      BY <2>1
    <3>2. look'[p] = [look[p] EXCEPT !.seen = g]
      BY <3>1 DEF TypeInv
    <3>3. look'[p].goal = look[p].goal
      BY <1>0, <3>2 DEF LookState
    <3>4. pc'[p] = "payload"
      BY <1>0, <2>1 DEF Goto, TypeInv
    <3> QED
      BY <1>5, <3>3, <3>4 DEF LookEnvelope
  <2> QED
    BY <1>3, <1>5, <2>1 DEF LookEnvelope
<1>6. CASE LookPayload(p)
  BY <1>1, <1>3, <1>6 DEF LookPayload
<1>7. CASE LookScan(p)
  BY <1>2, <1>7 DEF LookScan
<1>8. pc[p] \in {"start", "envelope", "payload", "scan"}
  BY DEF Lookup, LookStart, LookEnvelope, LookPayload, LookScan
<1> QED
  BY <1>4, <1>5, <1>6, <1>7, <1>8 DEF Lookup

\* A holder's lookup under the lease is work, the one before it is not.
LEMMA LookupLeaseInv ==
    ASSUME TypeInv, LeaseInv, NEW p \in Lookers, Lookup(p)
    PROVE  LeaseInv'
<1>1. Alone(p) /\ lease' = lease /\ p \in Processes
  BY LookupAlone DEF Processes
<1>2. pc'[p] \notin Forsaken /\ pc'[p] # "start" /\ pc'[p] # "owner" /\ pc[p] # "owner"
  BY LookupGoal DEF Forsaken
<1>3. ASSUME p \in Holders PROVE Working(p)' <=> Working(p)
  <2>1. p \in Writers
    BY <1>3, CacheAssumption DEF Holders, Lookers
  <2>2. look[p].goal \in {"publish", "recheck"}
    BY DEF TypeInv, LookState
  <2>3. CASE look[p].goal = "publish"
    <3>1. ~Working(p)
      BY <2>3, LookupGoal DEF Working, Owning
    <3>2. ~Working(p)'
      BY <2>1, <2>3, LookupGoal DEF Working, Owning
    <3> QED
      BY <3>1, <3>2
  <2>4. CASE look[p].goal = "recheck"
    <3>1. pc[p] # "start"
      BY <2>1, <2>4 DEF LeaseInv
    <3>2. Working(p)
      BY <2>1, <2>4, <3>1, LookupGoal DEF Working, Owning
    <3>3. Working(p)'
      BY <2>1, <2>4, LookupGoal DEF Working, Owning
    <3> QED
      BY <3>2, <3>3
  <2> QED
    BY <2>2, <2>3, <2>4
<1> QED
  BY <1>1, <1>2, <1>3, SameWork

\* The lease is created by one process at a time and removed by that process.
LEMMA LeaseLeaseInv ==
    ASSUME TypeInv, LeaseInv, NEW p \in Holders, Lease(p)
    PROVE  LeaseInv'
<1>0. p \in Processes /\ Alone(p) /\ (p \in Writers => p \in Lookers)
  BY LeaseAlone DEF Processes, Lookers
<1>1. \A q \in Holders \ {p} : Working(q)' <=> Working(q)
  BY <1>0, OthersWork
<1>2. ASSUME pc'[p] \notin Forsaken PROVE \A q \in Processes : pc'[q] \notin Forsaken
  BY <1>0, <1>2 DEF Alone, LeaseInv
<1>3. ASSUME pc'[p] # "start"
      PROVE  \A w \in Writers : pc'[w] = "start" => look'[w].goal = "publish"
  <2>1. SUFFICES ASSUME NEW w \in Writers, w # p, pc'[w] = "start"
                 PROVE  look'[w].goal = "publish"
    BY <1>3
  <2>2. w \in Processes /\ w \in Lookers
    BY DEF Processes, Lookers
  <2> QED
    BY <1>0, <2>1, <2>2 DEF Alone, LeaseInv
<1>4. \A q \in Holders \ {p} : pc'[q] = pc[q]
  BY <1>0 DEF Alone, Processes
<1>5. CASE LeaseCreate(p)
  <2>1. pc'[p] = "owner" /\ lease'.held /\ ~lease'.stale /\ ~lease.held
    BY <1>0, <1>5 DEF LeaseCreate, Goto, TypeInv, NoLease
  <2>2. \A q \in Holders \ {p} : ~Working(q)'
    BY <1>1, <2>1 DEF LeaseInv
  <2>3. Working(p)'
    BY <2>1 DEF Working
  <2> QED
    BY <1>2, <1>3, <2>1, <2>2, <2>3 DEF LeaseInv, Forsaken
<1>6. CASE LeaseInitialize(p)
  <2>1. Working(p) /\ lease.held
    BY <1>6 DEF LeaseInitialize, Working, LeaseInv
  <2>2. \A q \in Holders \ {p} : ~Working(q)'
    BY <1>1, <2>1 DEF LeaseInv
  <2>3. lease'.held /\ ~lease'.stale /\ lease'.owner = p
    <3>1. CASE pc[p] = "owner"
      BY <1>6, <2>1, <3>1 DEF LeaseInitialize, TypeInv, LeaseInv
    <3>2. CASE pc[p] = "beat"
      <4>1. lease.owner = p
        BY <2>1, <3>2 DEF LeaseInv
      <4> QED
        BY <1>6, <2>1, <3>2, <4>1 DEF LeaseInitialize, TypeInv
    <3> QED
      BY <1>6, <3>1, <3>2 DEF LeaseInitialize
  <2>4. /\ pc'[p] \in {"beat", "envelope", "evict"}
        /\ pc'[p] = "envelope" => p \in Writers /\ look'[p].goal = "recheck"
    <3>1. CASE pc[p] = "owner"
      BY <1>0, <1>6, <2>1, <3>1 DEF LeaseInitialize, Goto, TypeInv
    <3>2. CASE pc[p] = "beat" /\ p \in Writers
      <4>1. look[p] \in LookState
        BY <1>0, <3>2 DEF TypeInv
      <4>2. look'[p] = [look[p] EXCEPT !.goal = "recheck", !.stage = "first",
                                       !.at = "final", !.todo = {}]
        BY <1>0, <1>6, <2>1, <3>2 DEF LeaseInitialize, TypeInv
      <4>3. look'[p].goal = "recheck"
        BY <4>1, <4>2 DEF LookState
      <4>4. pc'[p] = "envelope"
        BY <1>0, <1>6, <2>1, <3>2 DEF LeaseInitialize, Goto, TypeInv
      <4> QED
        BY <3>2, <4>3, <4>4
    <3>3. CASE pc[p] = "beat" /\ p \notin Writers
      BY <1>0, <1>6, <2>1, <3>3 DEF LeaseInitialize, Goto, TypeInv
    <3> QED
      BY <1>6, <3>1, <3>2, <3>3 DEF LeaseInitialize
  <2>5. Working(p)'
    BY <2>4 DEF Working, Owning
  <2> QED
    BY <1>2, <1>3, <2>2, <2>3, <2>4, <2>5 DEF LeaseInv, Forsaken
<1>7. CASE LeaseContended(p)
  <2>1. lease' = lease /\ pc[p] = "create" /\ pc'[p] = "done"
    BY <1>0, <1>7 DEF LeaseContended, Return, Goto, TypeInv, LeaseInv
  <2>2. ~Working(p) /\ ~Working(p)'
    BY <2>1 DEF Working, Owning
  <2> QED
    BY <1>0, <2>1, <2>2, SameWork DEF Forsaken
<1>8. CASE LeaseReap(p)
  BY <1>0, <1>8 DEF LeaseReap, LeaseInv, Forsaken
<1>9. CASE LeaseRelease(p)
  <2>1. Working(p) /\ pc[p] = "release"
    BY <1>9 DEF LeaseRelease, Working, Owning
  <2>2. StillOwner(p)
    BY <2>1 DEF StillOwner, LeaseInv
  <2>3. lease' = lease /\ pc'[p] = "unlink"
    BY <1>0, <1>9, <2>2 DEF LeaseRelease, Goto, TypeInv
  <2>4. Working(p)'
    BY <2>3 DEF Working, Owning
  <2> QED
    BY <1>0, <2>1, <2>3, <2>4, SameWork DEF Forsaken
<1>10. CASE LeaseUnlink(p)
  <2>1. Working(p)
    BY <1>10 DEF LeaseUnlink, Working, Owning
  <2>2. \A q \in Holders \ {p} : ~Working(q)'
    BY <1>1, <2>1 DEF LeaseInv
  <2>3. pc'[p] = "done" /\ ~lease'.held /\ ~lease'.stale
    BY <1>0, <1>10 DEF LeaseUnlink, Goto, TypeInv, NoLease
  <2>4. ~Working(p)'
    BY <2>3 DEF Working, Owning
  <2> QED
    BY <1>2, <1>3, <2>2, <2>3, <2>4 DEF LeaseInv, Forsaken
<1> QED
  BY <1>5, <1>6, <1>7, <1>8, <1>9, <1>10 DEF Lease

\* A publication works under the lease from its first step to its last.
LEMMA PublishLeaseInv ==
    ASSUME TypeInv, LeaseInv, NEW p \in Writers, Publish(p)
    PROVE  LeaseInv'
<1>0. p \in Processes /\ p \in Holders /\ Alone(p)
  BY PublishAlone DEF Processes, Holders
<1>1. pc[p] \in {"stage", "write", "describe", "refresh", "hide", "install",
                 "restore", "withdraw", "cleanup", "reopen"}
  BY DEF Publish, StagingCreate, StagingWrite, StagingRefresh, StagingFail,
         PublishHide, PublishInstall, PublishInstallFails, PublishRestore,
         PublishWithdraw, PublishCleanup, PublishReopen
<1>2. \/ \E s \in {"write", "describe", "refresh", "hide", "install", "restore",
                    "withdraw", "cleanup", "reopen", "release"} : Goto(p, s)
      \/ UNCHANGED pc
  BY DEF Publish, StagingCreate, StagingWrite, StagingRefresh, StagingFail,
         PublishHide, PublishInstall, PublishInstallFails, PublishRestore,
         PublishWithdraw, PublishCleanup, PublishReopen, Withdraw, Return
<1>3. pc'[p] \in {"stage", "write", "describe", "refresh", "hide", "install",
                  "restore", "withdraw", "cleanup", "reopen", "release"}
  BY <1>0, <1>1, <1>2 DEF Goto, TypeInv
<1>4. lease' = lease \/ lease' = [lease EXCEPT !.stale = FALSE]
  BY DEF Publish, StagingCreate, StagingWrite, StagingRefresh, StagingFail,
         PublishHide, PublishInstall, PublishInstallFails, PublishRestore,
         PublishWithdraw, PublishCleanup, PublishReopen
<1>5. lease' = lease
  BY <1>4 DEF LeaseInv, TypeInv
<1>6. Working(p) /\ Working(p)'
  BY <1>1, <1>3 DEF Working, Owning
<1> QED
  BY <1>0, <1>1, <1>3, <1>5, <1>6, SameWork DEF Forsaken

\* So does an eviction.
LEMMA EvictLeaseInv ==
    ASSUME TypeInv, LeaseInv, NEW p \in Evictors, Evict(p)
    PROVE  LeaseInv'
<1>0. p \in Processes /\ p \in Holders /\ Alone(p) /\ lease' = lease /\ p \notin Writers
  BY EvictAlone, CacheAssumption DEF Processes, Holders
<1>1. \/ pc[p] = "start" /\ pc'[p] = "create"
      \/ pc[p] \in {"evict", "purge"} /\ pc'[p] \in {"purge", "release"}
  BY <1>0 DEF Evict, EvictStart, EvictHide, EvictPurge, Return, Goto, TypeInv
<1>2. Working(p)' <=> Working(p)
  BY <1>0, <1>1 DEF Working, Owning
<1> QED
  BY <1>0, <1>1, <1>2, SameWork DEF Forsaken

\* A recovery finds no abandoned lease.
LEMMA RecoverLeaseInv ==
    ASSUME TypeInv, LeaseInv, NEW r \in Recoverers, Recover(r)
    PROVE  LeaseInv'
<1>0. r \in Processes /\ r \notin Holders /\ Alone(r)
  BY RecoverAlone, CacheAssumption DEF Processes, Holders
<1>1. ~RecoverReap(r)
  BY <1>0 DEF RecoverReap, LeaseInv, Forsaken
<1>2. lease' = lease
  BY <1>1 DEF Recover, RecoverStart, RecoverPath, RecoverRestore,
              RecoverReinstate, RecoverSupersede, RecoverEnd
<1>3. \E s \in {"sweep", "restore", "reinstate", "supersede", "done"} : Goto(r, s)
  <2>1. CASE RecoverPath(r)
    BY <2>1 DEF RecoverPath, LeaseInv
  <2> QED
    BY <1>1, <2>1 DEF Recover, RecoverStart, RecoverRestore, RecoverReinstate,
                      RecoverSupersede, RecoverEnd, Return
<1>4. pc'[r] \in {"sweep", "restore", "reinstate", "supersede", "done"}
  BY <1>0, <1>3 DEF Goto, TypeInv
<1> QED
  BY <1>0, <1>2, <1>4, SameWork DEF Forsaken

\* Every step of a cache whose processes do not die.
LEMMA NextLeaseInv ==
    ASSUME MaxCrashes = 0, TypeInv, LeaseInv, [Next]_vars
    PROVE  LeaseInv'
<1>1. ASSUME NEW p \in Processes, Process(p) PROVE LeaseInv'
  BY <1>1, LookupLeaseInv, LeaseLeaseInv, PublishLeaseInv, EvictLeaseInv,
     RecoverLeaseInv DEF Process
<1>2. ASSUME NEW p \in Holders PROVE ~Crash(p)
  <2>1. {q \in Holders : pc[q] = "crashed"} = {}
    BY DEF LeaseInv, Forsaken, Processes
  <2> QED
    BY <2>1, FS_EmptySet DEF Crash
<1>3. ~Age
  BY DEF Age, LeaseInv, Working
<1>4. CASE UNCHANGED vars
  BY <1>4 DEF vars, LeaseInv, Working, Owning
<1> QED
  BY <1>1, <1>2, <1>3, <1>4 DEF Next, Finished

\* As long as no process dies, publishers and evictors of a key exclude one
\* another, however many there are and whatever they wait for (cache.rs:
\* WriterLease::acquire and drop).  One crash is enough to break this: the
\* run CacheReap.
THEOREM LeaseExcludes == ASSUME MaxCrashes = 0 PROVE Spec => []LeaseExclusive
<1>1. LeaseInv => LeaseExclusive
  <2> SUFFICES ASSUME LeaseInv PROVE LeaseExclusive
    OBVIOUS
  <2> DEFINE S == {p \in Holders : Owning(p)}
  <2>1. CASE S = {}
    BY <2>1, FS_EmptySet DEF LeaseExclusive
  <2>2. CASE S # {}
    <3>1. PICK p \in Holders : Owning(p)
      BY <2>2
    <3>2. S = {p}
      BY <3>1 DEF LeaseInv, Working
    <3>3. Cardinality({p}) = 1
      BY FS_Singleton
    <3> QED
      BY <3>2, <3>3 DEF LeaseExclusive
  <2> QED
    BY <2>1, <2>2
<1>2. TypeInv /\ LeaseInv /\ [Next]_vars => LeaseInv'
  BY NextLeaseInv
<1> QED
  BY <1>1, <1>2, Typed, InitLeaseInv, PTL DEF Spec

-----------------------------------------------------------------------------
(* How the entry moves *)

\* Every process minds its own call.
LEMMA ProcessAlone ==
    ASSUME TypeInv, NEW p \in Processes, Process(p) PROVE Alone(p)
BY LookupAlone, LeaseAlone, PublishAlone, EvictAlone, RecoverAlone DEF Process

\* The names of hidden directories are none of the fixed ones.
LEMMA Names ==
    ASSUME NEW p \in Holders
    PROVE  p \in Processes /\ p # "final" /\ p # "staged" /\ p # "absent" /\ p # Nobody
BY CacheAssumption DEF Processes

\* What one path of a sweep deletes: an evicted generation, or the staging of
\* a dead writer.
LEMMA PathDeletes ==
    ASSUME TypeInv, NEW r \in Recoverers, RecoverPath(r)
    PROVE  \E gone \in SUBSET Generations :
             /\ place' = [g \in Generations |->
                            IF g \in gone THEN "absent" ELSE place[g]]
             /\ files' = [g \in Generations |->
                            IF g \in gone THEN {} ELSE files[g]]
             /\ \A g \in gone : \/ place[g] \in Evictors
                                \/ place[g] = "staged" /\ pc[g] = "crashed"
<1>1. PICK path \in sweep[r].todo :
        LET gone == CASE Kinds[path[1]] = "evicted" -> At(path[2])
                      [] Kinds[path[1]] = "tmp" /\ place[path[2]] = "staged"
                         /\ pc[path[2]] = "crashed" /\ ~Guarded -> {path[2]}
                      [] OTHER -> {}
        IN  /\ place' = [g \in Generations |->
                            IF g \in gone THEN "absent" ELSE place[g]]
            /\ files' = [g \in Generations |->
                            IF g \in gone THEN {} ELSE files[g]]
  BY DEF RecoverPath
<1>2. path \in Paths
  BY DEF TypeInv, SweepState
<1>3. CASE path \in {1} \X Evictors
  <2>1. Kinds[path[1]] = "evicted" /\ path[2] \in Evictors
    BY <1>3 DEF Kinds
  <2>2. At(path[2]) \in SUBSET Generations /\ \A g \in At(path[2]) : place[g] \in Evictors
    BY <2>1 DEF At
  <2> QED
    BY <1>1, <2>1, <2>2
<1>4. CASE path = <<2, Nobody>> \/ path \in {3} \X Writers
  <2>1. Kinds[path[1]] \in {"lease", "previous"}
    BY <1>4 DEF Kinds
  <2> QED
    BY <1>1, <2>1
<1>5. CASE path \in {4} \X Writers
  <2>1. Kinds[path[1]] = "tmp" /\ path[2] \in Generations
    BY <1>5 DEF Kinds, Generations
  <2>2. CASE place[path[2]] = "staged" /\ pc[path[2]] = "crashed" /\ ~Guarded
    <3>1. {path[2]} \in SUBSET Generations
      BY <2>1
    <3> QED
      BY <1>1, <2>1, <2>2, <3>1
  <2>3. CASE ~(place[path[2]] = "staged" /\ pc[path[2]] = "crashed" /\ ~Guarded)
    BY <1>1, <2>1, <2>3
  <2> QED
    BY <2>2, <2>3
<1> QED
  BY <1>2, <1>3, <1>4, <1>5 DEF Paths

\* What a step may do to the directories: delete some, but never the entry;
\* move one to the entry's name if that is free; hide the entry under the own
\* name; or create the staging directory.
Drops ==
    \A g \in Generations :
        place'[g] = place[g] \/ (place[g] # "final" /\ place'[g] = "absent")
Reinstates ==
    /\ Free("final")
    /\ \E g \in Generations : /\ place[g] \in Holders \cup {"staged"}
                              /\ place' = [place EXCEPT ![g] = "final"]
Hides(p) ==
    /\ p \in Holders /\ pc[p] \in {"hide", "evict"} /\ pc'[p] \in {"install", "purge"}
    /\ \A g \in Generations :
          place'[g] = place[g] \/ (place[g] = "final" /\ place'[g] = p)
Stages(p) ==
    /\ p \in Writers /\ pc[p] = "stage" /\ pc'[p] = "write"
    /\ place' = [place EXCEPT ![p] = "staged"]

PlaceStep(p) == Drops \/ Reinstates \/ Hides(p) \/ Stages(p)

\* Deleting a hidden directory.
LEMMA RemoveDrops ==
    ASSUME TypeInv, NEW g \in Generations, Remove(g), place[g] # "final"
    PROVE  Drops
BY DEF Remove, Move, Drops, TypeInv

\* The steps of a publication.
LEMMA PublishPlaces ==
    ASSUME TypeInv, NEW p \in Writers, Publish(p)
    PROVE  PlaceStep(p)
<1>0. p \in Generations /\ p \in Holders /\ p \in Processes /\ p # "final"
  BY Names DEF Generations, Holders
<1>1. CASE StagingCreate(p)
  <2>1. Stages(p)
    BY <1>0, <1>1 DEF StagingCreate, Move, Goto, Stages, TypeInv
  <2> QED
    BY <2>1 DEF PlaceStep
<1>2. CASE UNCHANGED place
  BY <1>2 DEF PlaceStep, Drops
<1>3. CASE Withdraw(p)
  <2>1. Drops
    BY <1>3 DEF Withdraw, Drops, TypeInv
  <2> QED
    BY <2>1 DEF PlaceStep
<1>4. CASE PublishHide(p)
  <2>1. Hides(p)
    BY <1>0, <1>4 DEF PublishHide, Goto, Hides, TypeInv
  <2> QED
    BY <2>1 DEF PlaceStep
<1>5. CASE PublishInstall(p)
  <2>1. Reinstates
    BY <1>0, <1>5 DEF PublishInstall, Move, Reinstates
  <2> QED
    BY <2>1 DEF PlaceStep
<1>6. CASE PublishRestore(p)
  <2>1. CASE \E g \in At(p) : Free("final") /\ Move(g, "final")
    <3>1. Reinstates
      BY <1>0, <2>1 DEF At, Move, Reinstates
    <3> QED
      BY <3>1 DEF PlaceStep
  <2> QED
    BY <1>2, <1>6, <2>1 DEF PublishRestore
<1>7. CASE PublishCleanup(p)
  <2>1. ASSUME NEW g \in At(p), Remove(g) PROVE Drops
    <3>1. g \in Generations /\ place[g] # "final"
      BY <1>0 DEF At
    <3> QED
      BY <2>1, <3>1, RemoveDrops
  <2> QED
    BY <1>2, <1>7, <2>1 DEF PublishCleanup, PlaceStep
<1> QED
  BY <1>1, <1>2, <1>3, <1>4, <1>5, <1>6, <1>7
     DEF Publish, StagingWrite, StagingRefresh, StagingFail,
         PublishInstallFails, PublishWithdraw, PublishReopen

\* The steps of an eviction.
LEMMA EvictPlaces ==
    ASSUME TypeInv, NEW p \in Evictors, Evict(p)
    PROVE  PlaceStep(p)
<1>0. p \in Holders /\ p \in Processes /\ p # "final"
  BY Names DEF Holders
<1>1. CASE UNCHANGED place
  BY <1>1 DEF PlaceStep, Drops
<1>2. CASE EvictHide(p) /\ ~Free("final")
  <2>1. PICK g \in At("final") : Move(g, p)
    BY <1>2 DEF EvictHide
  <2>2. pc[p] = "evict" /\ pc'[p] = "purge"
    BY <1>0, <1>2 DEF EvictHide, Goto, TypeInv
  <2>3. Hides(p)
    BY <1>0, <2>1, <2>2 DEF At, Move, Hides, TypeInv
  <2> QED
    BY <2>3 DEF PlaceStep
<1>3. CASE EvictPurge(p)
  <2>1. Drops
    BY <1>0, <1>3 DEF EvictPurge, Drops
  <2> QED
    BY <2>1 DEF PlaceStep
<1> QED
  BY <1>1, <1>2, <1>3 DEF Evict, EvictStart, EvictHide

\* The steps of a recovery, which only deletes and reinstates.
LEMMA RecoverPlaces ==
    ASSUME TypeInv, NEW r \in Recoverers, Recover(r)
    PROVE  Drops \/ Reinstates
<1>0. ASSUME NEW g \in At(sweep[r].at)
      PROVE  g \in Generations /\ place[g] \in Holders /\ place[g] # "final"
  <2>1. place[g] \in Holders \cup {Nobody}
    BY DEF At, TypeInv, SweepState
  <2>2. place[g] # Nobody
    BY Names, CacheAssumption DEF At, TypeInv, Nobody
  <2> QED
    BY <2>1, <2>2, Names DEF At
<1>1. CASE UNCHANGED place
  BY <1>1 DEF Drops
<1>2. CASE RecoverPath(r)
  <2>1. PICK gone \in SUBSET Generations :
             /\ place' = [g \in Generations |->
                            IF g \in gone THEN "absent" ELSE place[g]]
             /\ \A g \in gone : place[g] \in Evictors \/ place[g] = "staged"
    BY <1>2, PathDeletes
  <2>2. \A g \in gone : place[g] # "final"
    BY <2>1, Names DEF Holders
  <2> QED
    BY <2>1, <2>2 DEF Drops
<1>3. CASE RecoverReinstate(r)
  <2>1. CASE Free("final") /\ \E g \in At(sweep[r].at) : Move(g, "final")
    BY <1>0, <2>1 DEF Move, Reinstates
  <2> QED
    BY <1>1, <1>3, <2>1 DEF RecoverReinstate
<1>4. CASE RecoverSupersede(r)
  <2>1. ASSUME NEW g \in At(sweep[r].at), Remove(g) PROVE Drops
    BY <1>0, <2>1, RemoveDrops
  <2> QED
    BY <1>1, <1>4, <2>1 DEF RecoverSupersede
<1> QED
  BY <1>1, <1>2, <1>3, <1>4
     DEF Recover, RecoverStart, RecoverReap, RecoverRestore, RecoverEnd

\* Every step of a process.
LEMMA ProcessPlaces ==
    ASSUME TypeInv, NEW p \in Processes, Process(p)
    PROVE  PlaceStep(p)
<1>1. CASE UNCHANGED place
  BY <1>1 DEF PlaceStep, Drops
<1> QED
  BY <1>1, LookupAlone, LeaseAlone, PublishPlaces, EvictPlaces, RecoverPlaces
     DEF Process, PlaceStep

\* The steps before a writer stages, before a holder hides the entry, and
\* while a writer may have a staging directory.
BeforeStaging ==
    {"start", "envelope", "payload", "scan", "create", "owner", "beat",
     "reap", "abort", "stage"}
BeforeHiding ==
    BeforeStaging \cup {"write", "describe", "refresh", "hide", "evict"}
Staging ==
    {"write", "describe", "refresh", "hide", "install", "restore",
     "withdraw", "crashed"}

\* No two directories have one name: a name is free until its process hides
\* the entry under it, a generation is nowhere until its writer stages it, and
\* a staging directory belongs to a writer that is not through with it.
DirInv ==
    /\ \A g, h \in Generations :
          place[g] = place[h] /\ place[g] \notin {"absent", "staged"} => g = h
    /\ \A w \in Writers : pc[w] \in BeforeStaging => place[w] = "absent"
    /\ \A g \in Generations :
          place[g] = "staged" => g \in Writers /\ pc[g] \in Staging
    /\ \A p \in Holders : pc[p] \in BeforeHiding => Free(p)

\* At first there is the entry or nothing.
LEMMA InitDirInv == Init => DirInv
<1> SUFFICES ASSUME Init PROVE DirInv
  OBVIOUS
<1>1. /\ \A g \in Generations : place[g] \in {"final", "absent"}
      /\ \A g \in Generations : place[g] = "final" => g = Old
  BY DEF Init
<1>2. \A w \in Writers : place[w] = "absent"
  BY <1>1, CacheAssumption DEF Generations
<1>3. \A p \in Holders : Free(p)
  BY <1>1, Names DEF Free, At
<1> QED
  BY <1>1, <1>2, <1>3 DEF DirInv

\* A process does not come back to the steps before staging and hiding.
LEMMA NoReturn ==
    ASSUME TypeInv, NEW p \in Holders, Process(p)
    PROVE  /\ pc'[p] \in BeforeStaging => pc[p] \in BeforeStaging
           /\ pc'[p] \in BeforeHiding => pc[p] \in BeforeHiding
<1>0. p \in Processes /\ p \notin Recoverers
  BY CacheAssumption DEF Processes, Holders
<1>1. CASE p \in Lookers /\ Lookup(p)
  BY <1>1, LookupGoal DEF BeforeStaging, BeforeHiding
<1>2. CASE Lease(p)
  <2>1. CASE LeaseRelease(p) \/ LeaseUnlink(p)
    <3>1. pc'[p] \in {"unlink", "done"}
      BY <1>0, <2>1 DEF LeaseRelease, LeaseUnlink, Goto, TypeInv
    <3> QED
      BY <3>1 DEF BeforeStaging, BeforeHiding
  <2>2. CASE pc[p] \in BeforeStaging
    BY <2>2 DEF BeforeHiding
  <2> QED
    BY <1>2, <2>1, <2>2 DEF Lease, LeaseCreate, LeaseInitialize, LeaseContended,
                            LeaseReap, BeforeStaging
<1>3. CASE p \in Writers /\ Publish(p)
  <2>1. CASE pc[p] \in {"stage", "write", "describe", "refresh", "hide"}
    <3>1. pc[p] \in BeforeHiding
      BY <2>1 DEF BeforeStaging, BeforeHiding
    <3>2. pc'[p] \notin BeforeStaging
      BY <1>0, <1>3, <2>1 DEF Publish, StagingCreate, StagingWrite, StagingRefresh,
         StagingFail, PublishHide, PublishInstall, PublishInstallFails,
         PublishRestore, PublishWithdraw, PublishCleanup, PublishReopen,
         Withdraw, Return, Goto, TypeInv, BeforeStaging
    <3> QED
      BY <3>1, <3>2
  <2>2. CASE pc[p] \in {"install", "restore", "withdraw", "cleanup", "reopen"}
    <3>1. pc'[p] \in {"cleanup", "restore", "withdraw", "reopen", "release"}
      BY <1>0, <1>3, <2>2 DEF Publish, StagingCreate, StagingWrite, StagingRefresh,
         StagingFail, PublishHide, PublishInstall, PublishInstallFails,
         PublishRestore, PublishWithdraw, PublishCleanup, PublishReopen,
         Withdraw, Return, Goto, TypeInv
    <3> QED
      BY <3>1 DEF BeforeStaging, BeforeHiding
  <2> QED
    BY <1>3, <2>1, <2>2 DEF Publish, StagingCreate, StagingWrite, StagingRefresh,
         StagingFail, PublishHide, PublishInstall, PublishInstallFails,
         PublishRestore, PublishWithdraw, PublishCleanup, PublishReopen
<1>4. CASE p \in Evictors /\ Evict(p)
  <2>1. \/ pc[p] = "start"
        \/ pc'[p] \in {"purge", "release"}
    BY <1>0, <1>4 DEF Evict, EvictStart, EvictHide, EvictPurge, Return, Goto, TypeInv
  <2> QED
    BY <2>1 DEF BeforeStaging, BeforeHiding
<1> QED
  BY <1>0, <1>1, <1>2, <1>3, <1>4 DEF Process

\* A writer ends its staging by installing or removing the directory.
LEMMA StagingEnds ==
    ASSUME TypeInv, NEW w \in Writers, Process(w), pc[w] \in Staging
    PROVE  pc'[w] \in Staging \/ place'[w] # "staged"
<1>0. w \in Processes /\ w \notin Recoverers /\ w \notin Evictors /\ w \in Generations
  BY CacheAssumption DEF Processes, Holders, Generations
<1>1. ~Lookup(w) /\ ~Lease(w)
  BY DEF Lookup, LookStart, LookEnvelope, LookPayload, LookScan, Lease, LeaseCreate,
     LeaseInitialize, LeaseContended, LeaseReap, LeaseRelease, LeaseUnlink, Staging
<1>2. Publish(w)
  BY <1>0, <1>1 DEF Process
<1>3. CASE StagingFail(w) \/ PublishWithdraw(w)
  BY <1>0, <1>3 DEF StagingFail, PublishWithdraw, Withdraw, TypeInv
<1>4. CASE PublishInstall(w)
  BY <1>0, <1>4 DEF PublishInstall, Move, TypeInv
<1>5. CASE StagingWrite(w)
  BY <1>0, <1>5 DEF StagingWrite, Goto, TypeInv, Staging
<1>6. CASE StagingRefresh(w) \/ PublishHide(w) \/ PublishInstallFails(w)
           \/ PublishRestore(w)
  BY <1>0, <1>6 DEF StagingRefresh, PublishHide, PublishInstallFails,
                    PublishRestore, Goto, TypeInv, Staging
<1> QED
  BY <1>2, <1>3, <1>4, <1>5, <1>6
     DEF Publish, StagingCreate, PublishCleanup, PublishReopen, Staging

\* Every step keeps the names apart.
LEMMA ProcessDirInv ==
    ASSUME TypeInv, DirInv, NEW p \in Processes, Process(p)
    PROVE  DirInv'
<1>0. Alone(p) /\ PlaceStep(p) /\ TypeInv'
  BY ProcessAlone, ProcessPlaces, NextTypeInv, LookupTyped, LeaseTyped,
     PublishTyped, EvictTyped, RecoverTyped DEF Process
<1>1. \A q \in Holders : /\ pc'[q] \in BeforeStaging => pc[q] \in BeforeStaging
                         /\ pc'[q] \in BeforeHiding => pc[q] \in BeforeHiding
  <2> SUFFICES ASSUME NEW q \in Holders
               PROVE  /\ pc'[q] \in BeforeStaging => pc[q] \in BeforeStaging
                      /\ pc'[q] \in BeforeHiding => pc[q] \in BeforeHiding
    OBVIOUS
  <2>1. CASE q = p
    BY <2>1, NoReturn
  <2>2. CASE q # p
    BY <1>0, <2>2, Names DEF Alone
  <2> QED
    BY <2>1, <2>2
<1>2. \A g, h \in Generations :
          place'[g] = place'[h] /\ place'[g] \notin {"absent", "staged"} => g = h
  <2> SUFFICES ASSUME NEW g \in Generations, NEW h \in Generations,
                      place'[g] = place'[h], place'[g] \notin {"absent", "staged"}
               PROVE  g = h
    OBVIOUS
  <2>1. CASE Drops
    BY <2>1 DEF Drops, DirInv
  <2>2. CASE Reinstates
    BY <2>2 DEF Reinstates, Free, At, DirInv, TypeInv
  <2>3. CASE Hides(p)
    <3>1. Free(p) /\ p # "final"
      BY <2>3, Names DEF Hides, DirInv, BeforeHiding
    <3> QED
      BY <2>3, <3>1 DEF Hides, Free, At, DirInv
  <2>4. CASE Stages(p)
    BY <2>4 DEF Stages, DirInv, TypeInv
  <2> QED
    BY <1>0, <2>1, <2>2, <2>3, <2>4 DEF PlaceStep
<1>3. ASSUME NEW w \in Writers, pc'[w] \in BeforeStaging PROVE place'[w] = "absent"
  <2>0. w \in Holders /\ w \in Generations /\ place[w] = "absent"
    BY <1>1, <1>3 DEF Holders, Generations, DirInv
  <2>1. CASE Drops
    BY <2>0, <2>1 DEF Drops
  <2>2. CASE Reinstates
    BY <2>0, <2>2, Names DEF Reinstates, TypeInv
  <2>3. CASE Hides(p)
    BY <2>0, <2>3 DEF Hides
  <2>4. CASE Stages(p)
    BY <1>3, <2>0, <2>4 DEF Stages, TypeInv, BeforeStaging
  <2> QED
    BY <1>0, <2>1, <2>2, <2>3, <2>4 DEF PlaceStep
<1>4. ASSUME NEW g \in Generations, place'[g] = "staged"
      PROVE  g \in Writers /\ pc'[g] \in Staging
  <2>1. CASE place[g] = "staged"
    <3>1. g \in Writers /\ pc[g] \in Staging
      BY <2>1 DEF DirInv
    <3>2. CASE g = p
      BY <1>4, <3>1, <3>2, StagingEnds
    <3>3. CASE g # p
      <4>1. g \in Processes
        BY <3>1 DEF Processes, Holders
      <4> QED
        BY <1>0, <3>1, <3>3, <4>1 DEF Alone
    <3> QED
      BY <3>1, <3>2, <3>3
  <2>2. CASE place[g] # "staged"
    <3>1. ~Drops /\ ~Hides(p)
      BY <1>4, <2>2, Names DEF Drops, Hides
    <3>2. ~Reinstates
      BY <1>4, <2>2 DEF Reinstates, TypeInv
    <3>3. Stages(p)
      BY <1>0, <3>1, <3>2 DEF PlaceStep
    <3> QED
      BY <1>4, <2>2, <3>3 DEF Stages, TypeInv, Staging
  <2> QED
    BY <2>1, <2>2
<1>5. ASSUME NEW q \in Holders, pc'[q] \in BeforeHiding PROVE Free(q)'
  <2>0. Free(q) /\ q \notin {"final", "staged", "absent"}
    BY <1>1, <1>5, Names DEF DirInv
  <2>1. CASE Drops
    BY <2>0, <2>1 DEF Drops, Free, At
  <2>2. CASE Reinstates
    BY <2>0, <2>2 DEF Reinstates, Free, At, TypeInv
  <2>3. CASE Hides(p)
    <3>1. q # p
      BY <1>5, <2>3 DEF Hides, BeforeHiding, BeforeStaging
    <3> QED
      BY <2>0, <2>3, <3>1 DEF Hides, Free, At
  <2>4. CASE Stages(p)
    BY <2>0, <2>4 DEF Stages, Free, At, TypeInv
  <2> QED
    BY <1>0, <2>1, <2>2, <2>3, <2>4 DEF PlaceStep
<1> QED
  BY <1>2, <1>3, <1>4, <1>5 DEF DirInv

\* Crashes, time and stuttering too.
LEMMA NextDirInv == TypeInv /\ DirInv /\ [Next]_vars => DirInv'
<1> SUFFICES ASSUME TypeInv, DirInv, [Next]_vars PROVE DirInv'
  OBVIOUS
<1>1. ASSUME NEW p \in Holders, Crash(p) PROVE DirInv'
  <2>1. \A q \in Processes : pc'[q] \in {pc[q], "crashed"}
    BY <1>1 DEF Crash, Goto, TypeInv
  <2>2. \A q \in Holders : q \in Processes
    BY Names
  <2>3. \A w \in Writers : w \in Processes
    BY DEF Processes, Holders
  <2>4. place' = place
    BY <1>1 DEF Crash
  <2> QED
    BY <2>1, <2>2, <2>3, <2>4
       DEF DirInv, Free, At, BeforeStaging, BeforeHiding, Staging
<1>2. ASSUME UNCHANGED <<place, pc>> PROVE DirInv'
  BY <1>2 DEF DirInv, Free, At
<1>3. Age => UNCHANGED <<place, pc>>
  BY DEF Age
<1>4. Finished \/ UNCHANGED vars => UNCHANGED <<place, pc>>
  BY DEF Finished, vars
<1> QED
  BY <1>1, <1>2, <1>3, <1>4, ProcessDirInv DEF Next

\* No two directories of a key ever have one name.
LEMMA Directories == Spec => []DirInv
BY Typed, InitDirInv, NextDirInv, PTL DEF Spec

-----------------------------------------------------------------------------
(* What a publisher returns *)

\* From its second rename on, a publisher's own generation is the entry.
PublishInv ==
    /\ \A w \in Writers : pc[w] \in {"cleanup", "reopen"} => place[w] = "final"
    /\ PublishedIsOwn

\* Nobody has published yet.
LEMMA InitPublishInv == Init => PublishInv
<1> SUFFICES ASSUME Init PROVE PublishInv
  OBVIOUS
<1>1. \A w \in Writers : w \in Processes
  BY DEF Processes, Holders
<1> QED
  BY <1>1 DEF Init, PublishInv, PublishedIsOwn, Value

\* A lookup never reports a publication.
LEMMA LookupReports ==
    ASSUME TypeInv, NEW p \in Lookers, Lookup(p)
    PROVE  result'[p] = result[p] \/ result'[p].kind \in {"hit", "miss"}
<1>0. p \in Processes /\ look[p] \in LookState
  BY DEF Processes, TypeInv
<1>1. ASSUME NEW value, LookEnd(p, value), value.kind \in {"hit", "miss"}
      PROVE  result'[p] = result[p] \/ result'[p].kind \in {"hit", "miss"}
  <2>1. result' = result \/ result' = [result EXCEPT ![p] = value]
    BY <1>1 DEF LookEnd, Return
  <2> QED
    BY <1>0, <1>1, <2>1 DEF TypeInv
<1>2. LookOn(p) => UNCHANGED result \/ LookEnd(p, Miss)
  BY <1>0 DEF LookOn, LookAt, LookState
<1>3. LookPayload(p) => LookOn(p) \/ \E g, h : LookEnd(p, Value("hit", g, h))
  BY DEF LookPayload
<1>4. \A g, h : Value("hit", g, h).kind = "hit" /\ Miss.kind = "miss"
  BY DEF Value, Miss
<1>5. UNCHANGED result \/ LookOn(p) \/ \E g, h : LookEnd(p, Value("hit", g, h))
  BY <1>3 DEF Lookup, LookStart, LookEnvelope, LookScan, LookAt
<1> QED
  BY <1>1, <1>2, <1>4, <1>5

\* A publisher that cleans up has installed its generation before.
LEMMA CleanupEntered ==
    ASSUME TypeInv, NEW w \in Writers, Process(w),
           pc'[w] \in {"cleanup", "reopen"}
    PROVE  place'[w] = "final" \/ pc[w] = "cleanup"
<1>0. w \in Processes /\ w \notin Recoverers /\ w \notin Evictors
      /\ w \in Generations /\ w \in Holders
  BY CacheAssumption DEF Processes, Holders, Generations
<1>1. ~(w \in Lookers /\ Lookup(w))
  BY LookupGoal
<1>2. ~Lease(w)
  <2>1. Lease(w) => \E s \in Steps \ {"cleanup", "reopen"} : Goto(w, s)
    BY DEF Lease, LeaseCreate, LeaseInitialize, LeaseContended, LeaseReap,
           LeaseRelease, LeaseUnlink, Return, Steps
  <2> QED
    BY <1>0, <2>1 DEF Goto, TypeInv
<1>3. Publish(w)
  BY <1>0, <1>1, <1>2 DEF Process
<1>4. CASE PublishInstall(w)
  BY <1>0, <1>4 DEF PublishInstall, Move, TypeInv
<1>5. CASE PublishCleanup(w)
  BY <1>5 DEF PublishCleanup
<1> QED
  BY <1>0, <1>3, <1>4, <1>5
     DEF Publish, StagingCreate, StagingWrite, StagingRefresh, StagingFail,
         PublishHide, PublishInstallFails, PublishRestore, PublishWithdraw,
         PublishReopen, Withdraw, Return, Goto, TypeInv

\* While a publisher works nobody else takes the entry away, and its own
\* steps after the installation do not.
LEMMA ProcessPublishInv ==
    ASSUME TypeInv, DirInv, LeaseInv, PublishInv, NEW p \in Processes, Process(p)
    PROVE  PublishInv'
<1>0. Alone(p) /\ PlaceStep(p)
  BY ProcessAlone, ProcessPlaces
<1>1. ASSUME NEW w \in Writers, pc[w] \in {"cleanup", "reopen"}
      PROVE  place'[w] = "final"
  <2>0. w \in Generations /\ w \in Holders /\ place[w] = "final" /\ Working(w)
    BY <1>1 DEF Generations, Holders, PublishInv, Working, Owning
  <2>1. CASE Drops
    BY <2>0, <2>1 DEF Drops
  <2>2. CASE Reinstates
    BY <2>0, <2>2 DEF Reinstates, TypeInv
  <2>3. ~Hides(p)
    <3>1. SUFFICES ASSUME Hides(p) PROVE FALSE
      OBVIOUS
    <3>2. p \in Holders /\ Working(p) /\ pc[p] \in {"hide", "evict"}
      BY <3>1 DEF Hides, Working, Owning
    <3>3. p = w
      BY <2>0, <3>2 DEF LeaseInv
    <3> QED
      BY <1>1, <3>2, <3>3
  <2>4. CASE Stages(p)
    BY <1>1, <2>0, <2>4 DEF Stages, TypeInv
  <2> QED
    BY <1>0, <2>1, <2>2, <2>3, <2>4 DEF PlaceStep
<1>2. ASSUME NEW w \in Writers, pc'[w] \in {"cleanup", "reopen"}
      PROVE  place'[w] = "final"
  <2>1. w \in Processes
    BY DEF Processes, Holders
  <2>2. CASE w # p
    BY <1>0, <1>1, <1>2, <2>1, <2>2 DEF Alone
  <2>3. CASE w = p
    BY <1>1, <1>2, <2>3, CleanupEntered
  <2> QED
    BY <2>2, <2>3
<1>3. ASSUME NEW w \in Writers, result'[w].kind = "published"
      PROVE  result'[w].payload = w
  <2>0. w \in Processes /\ w \in Generations /\ w \notin Recoverers /\ w \notin Evictors
    BY CacheAssumption DEF Processes, Holders, Generations
  <2>1. CASE result'[w] = result[w]
    BY <1>3, <2>1 DEF PublishInv, PublishedIsOwn
  <2>2. CASE w = p /\ PublishReopen(p)
    <3> DEFINE found == {g \in At("final") : /\ "payload" \in files[g]
                                             /\ Length[g] = Length[w]}
    <3>1. place[w] = "final"
      BY <2>2 DEF PublishInv, PublishReopen
    <3>2. found \subseteq {w}
      BY <2>0, <3>1 DEF At, DirInv
    <3>3. result'[w] = IF found = {} THEN Error
                       ELSE Value("published", w, CHOOSE g \in found : TRUE)
      BY <2>0, <2>2 DEF PublishReopen, Return, TypeInv
    <3>4. found # {}
      BY <1>3, <3>3 DEF Error
    <3>5. (CHOOSE g \in found : TRUE) = w
      BY <3>2, <3>4
    <3> HIDE DEF found
    <3> QED
      BY <3>3, <3>4, <3>5 DEF Value
  <2>3. CASE w # p
    BY <1>0, <2>0, <2>1, <2>3 DEF Alone
  <2>4. CASE w = p /\ ~PublishReopen(p)
    <3>1. w \in Lookers /\ w \in Holders
      BY DEF Lookers, Holders
    <3>2. CASE Lookup(p)
      BY <1>3, <2>1, <2>4, <3>1, <3>2, LookupReports
    <3>3. CASE Lease(p)
      BY <1>3, <2>1, <2>4, <3>1, <3>3, LeaseAlone DEF Error
    <3>4. CASE Publish(p)
      <4>1. pc[p] = "reopen" => PublishReopen(p)
        BY <3>4 DEF Publish, StagingCreate, StagingWrite, StagingRefresh,
           StagingFail, PublishHide, PublishInstall, PublishInstallFails,
           PublishRestore, PublishWithdraw, PublishCleanup
      <4> QED
        BY <1>3, <2>1, <2>4, <3>4, <4>1, PublishAlone DEF Error
    <3> QED
      BY <2>0, <2>4, <3>2, <3>3, <3>4 DEF Process
  <2> QED
    BY <2>2, <2>3, <2>4
<1> QED
  BY <1>2, <1>3 DEF PublishInv, PublishedIsOwn

\* A publisher that did not fail returns the generation it wrote, although it
\* opens the entry by its name again and compares only the length: under the
\* lease nobody replaces or evicts the entry in between, and recovery only
\* moves hidden generations to a free name (cache.rs: publish_reader,
\* open_published_entry).
THEOREM PublicationOwn == ASSUME MaxCrashes = 0 PROVE Spec => []PublishedIsOwn
<1>1. TypeInv /\ DirInv /\ LeaseInv /\ PublishInv /\ [Next]_vars => PublishInv'
  <2> SUFFICES ASSUME TypeInv, DirInv, LeaseInv, PublishInv, [Next]_vars
               PROVE  PublishInv'
    OBVIOUS
  <2>1. ASSUME NEW p \in Holders PROVE ~Crash(p)
    <3>1. {q \in Holders : pc[q] = "crashed"} = {}
      BY DEF LeaseInv, Forsaken, Processes
    <3> QED
      BY <3>1, FS_EmptySet DEF Crash
  <2>2. ASSUME UNCHANGED <<place, pc, result>> PROVE PublishInv'
    BY <2>2 DEF PublishInv, PublishedIsOwn
  <2>3. Age => UNCHANGED <<place, pc, result>>
    BY DEF Age
  <2>4. Finished \/ UNCHANGED vars => UNCHANGED <<place, pc, result>>
    BY DEF Finished, vars
  <2> QED
    BY <2>1, <2>2, <2>3, <2>4, ProcessPublishInv DEF Next
<1>2. TypeInv /\ LeaseInv /\ [Next]_vars => LeaseInv'
  BY NextLeaseInv
<1>3. PublishInv => PublishedIsOwn
  BY DEF PublishInv
<1> QED
  BY <1>1, <1>2, <1>3, Typed, Directories, InitLeaseInv, InitPublishInv, PTL DEF Spec

-----------------------------------------------------------------------------
(* What recovery leaves *)

Active(r) == pc[r] \in {"sweep", "reap lease", "restore", "reinstate", "supersede"}

AllEnded == \A p \in Lookers \cup Holders : Ended(p)

Clean ==
    /\ \A g \in Generations : place[g] \in {"final", "absent"}
    /\ ~lease.held

\* Whatever is still there is on the recoverer's list or in its hands.
Covers(r) ==
    /\ \A e \in Evictors : ~Free(e) => <<1, e>> \in sweep[r].todo
    /\ lease.held => <<2, Nobody>> \in sweep[r].todo \/ pc[r] = "reap lease"
    /\ \A w \in Writers : ~Free(w) =>
          \/ <<3, w>> \in sweep[r].todo
          \/ sweep[r].at = w /\ pc[r] \in {"restore", "reinstate", "supersede"}
    /\ \A w \in Writers : place[w] = "staged" => <<4, w>> \in sweep[r].todo

\* A recovery of a quiet cache is alone, finds no live lease and loses sight
\* of nothing; once it is over the cache stays clean.
RecoverInv ==
    \A r \in Recoverers :
        /\ Active(r) => /\ AllEnded /\ (lease.held => lease.stale) /\ Covers(r)
                        /\ \A q \in Recoverers \ {r} : pc[q] \in {"start", "done"}
        /\ result[r].kind = "recovered" => AllEnded /\ Clean

\* Nobody recovers yet.
LEMMA InitRecoverInv == Init => RecoverInv
<1> SUFFICES ASSUME Init PROVE RecoverInv
  OBVIOUS
<1>1. \A r \in Recoverers : r \in Processes
  BY DEF Processes
<1> QED
  <2>1. \A r \in Recoverers : pc[r] = "start" /\ result[r].kind = "none"
    BY <1>1 DEF Init, Value
  <2> QED
    BY <2>1 DEF RecoverInv, Active

\* Who has ended does nothing more.
LEMMA EndedStops ==
    ASSUME TypeInv, NEW p \in Lookers \cup Holders, Ended(p)
    PROVE  ~Process(p) /\ ~Crash(p)
<1>1. p \notin Recoverers
  BY CacheAssumption DEF Lookers, Holders
<1>2. ~Lookup(p)
  BY DEF Ended, Lookup, LookStart, LookEnvelope, LookPayload, LookScan
<1>3. ~Lease(p)
  BY DEF Ended, Lease, LeaseCreate, LeaseInitialize, LeaseContended, LeaseReap,
         LeaseRelease, LeaseUnlink
<1>4. ~Publish(p)
  BY DEF Ended, Publish, StagingCreate, StagingWrite, StagingRefresh, StagingFail,
         PublishHide, PublishInstall, PublishInstallFails, PublishRestore,
         PublishWithdraw, PublishCleanup, PublishReopen
<1>5. ~Evict(p)
  BY DEF Ended, Evict, EvictStart, EvictHide, EvictPurge
<1>6. ~Crash(p)
  BY DEF Ended, Crash, Owning
<1> QED
  BY <1>1, <1>2, <1>3, <1>4, <1>5, <1>6 DEF Process

\* A listing names everything there is.
LEMMA StartCovers ==
    ASSUME TypeInv, NEW r \in Recoverers, RecoverStart(r)
    PROVE  Covers(r)'
<1>1. sweep'[r].todo = Listing
  BY DEF RecoverStart, TypeInv, SweepState
<1>2. UNCHANGED <<place, lease>>
  BY DEF RecoverStart
<1>3. /\ \A e \in Evictors : ~Free(e) => <<1, e>> \in Listing
      /\ lease.held => <<2, Nobody>> \in Listing
      /\ \A w \in Writers : ~Free(w) => <<3, w>> \in Listing
      /\ \A w \in Writers : place[w] = "staged" => <<4, w>> \in Listing
  BY DEF Listing
<1>4. \A q : Free(q)' <=> Free(q)
  BY <1>2 DEF Free, At
<1> QED
  BY <1>1, <1>2, <1>3, <1>4 DEF Covers

\* The next path is dealt with: an evicted generation and the staging of a
\* dead writer are deleted at once, the lease and a hidden generation are
\* taken in hand.
LEMMA PathCovers ==
    ASSUME TypeInv, DirInv, NEW r \in Recoverers, RecoverPath(r), Covers(r),
           AllEnded, lease.held => lease.stale
    PROVE  Covers(r)'
<1>0. r \in Processes /\ pc[r] = "sweep" /\ lease' = lease
  BY DEF Processes, RecoverPath
<1>1. PICK path \in sweep[r].todo :
        LET kind == Kinds[path[1]]
            p == path[2]
            gone == CASE kind = "evicted" -> At(p)
                      [] kind = "tmp" /\ place[p] = "staged"
                         /\ pc[p] = "crashed" /\ ~Guarded -> {p}
                      [] OTHER -> {}
        IN
        /\ sweep' = [sweep EXCEPT ![r] = [todo |-> @.todo \ {path}, at |-> p]]
        /\ Goto(r, CASE kind = "lease" /\ lease.held /\ lease.stale -> "reap lease"
                     [] kind = "previous" /\ ~Free(p) /\ ~Guarded -> "restore"
                     [] OTHER -> "sweep")
        /\ place' = [g \in Generations |-> IF g \in gone THEN "absent" ELSE place[g]]
  BY DEF RecoverPath
<1>2. sweep'[r].todo = sweep[r].todo \ {path} /\ sweep'[r].at = path[2]
  BY <1>1 DEF TypeInv
<1>3. \A g \in Generations : place'[g] = place[g] \/ place'[g] = "absent"
  BY <1>1
<1> DEFINE Listed(k, q) == <<k, q>> \in sweep'[r].todo
<1>12. \A k, q : <<k, q>> \in sweep[r].todo /\ <<k, q>> # path => Listed(k, q)
  BY <1>2
<1>4. /\ \A q \in Holders : ~Free(q)' => ~Free(q)
      /\ \A w \in Writers : place'[w] = "staged" => place[w] = "staged"
  BY <1>3, Names DEF Free, At, Generations
<1>5. ~Guarded
  BY DEF Guarded
<1>6. /\ \A e \in Evictors : ~Free(e)' => Listed(1, e) \/ <<1, e>> = path
      /\ lease'.held => Listed(2, Nobody) \/ <<2, Nobody>> = path
      /\ \A w \in Writers : ~Free(w)' => Listed(3, w) \/ <<3, w>> = path
      /\ \A w \in Writers : place'[w] = "staged" => Listed(4, w) \/ <<4, w>> = path
  <2> HIDE DEF Listed
  <2>1. /\ \A e \in Evictors : ~Free(e)' => <<1, e>> \in sweep[r].todo
        /\ lease'.held => <<2, Nobody>> \in sweep[r].todo
        /\ \A w \in Writers : ~Free(w)' => <<3, w>> \in sweep[r].todo
        /\ \A w \in Writers : place'[w] = "staged" => <<4, w>> \in sweep[r].todo
    BY <1>0, <1>4 DEF Covers, Holders
  <2> QED
    BY <1>12, <2>1
<1>7. path \in Paths
  BY DEF TypeInv, SweepState
<1>8. CASE path \in {1} \X Evictors
  <2>1. PICK e \in Evictors : path = <<1, e>>
    BY <1>8
  <2>2. Kinds[path[1]] = "evicted" /\ path[2] = e
    BY <2>1 DEF Kinds
  <2>3. \A g \in Generations : place'[g] # e
    BY <1>1, <2>1, <2>2, Names DEF At, Holders
  <2>4. Free(e)'
    BY <2>3 DEF Free, At
  <2>5. \A q : /\ <<2, q>> # path /\ <<3, q>> # path /\ <<4, q>> # path
               /\ <<1, q>> = path => q = e
    BY <2>1
  <2> QED
    BY <1>6, <2>4, <2>5 DEF Covers
<1>9. CASE path = <<2, Nobody>>
  <2>1. Kinds[path[1]] = "lease"
    BY <1>9 DEF Kinds
  <2>2. lease.held => pc'[r] = "reap lease"
    BY <1>0, <1>1, <2>1 DEF Goto, TypeInv
  <2>3. \A q : <<1, q>> # path /\ <<3, q>> # path /\ <<4, q>> # path
    BY <1>9
  <2> QED
    BY <1>0, <1>6, <2>2, <2>3 DEF Covers
<1>10. CASE path \in {3} \X Writers
  <2>1. PICK w \in Writers : path = <<3, w>>
    BY <1>10
  <2>2. Kinds[path[1]] = "previous" /\ path[2] = w
    BY <2>1 DEF Kinds
  <2>3. ~Free(w) => pc'[r] = "restore"
    BY <1>0, <1>1, <1>5, <2>2 DEF Goto, TypeInv
  <2>4. \A q : /\ <<1, q>> # path /\ <<2, q>> # path /\ <<4, q>> # path
               /\ <<3, q>> = path => q = w
    BY <2>1
  <2>5. ~Free(w)' => pc'[r] = "restore" /\ sweep'[r].at = w
    BY <1>2, <1>4, <2>2, <2>3 DEF Holders
  <2> QED
    BY <1>6, <2>4, <2>5 DEF Covers
<1>11. CASE path \in {4} \X Writers
  <2>1. PICK w \in Writers : path = <<4, w>>
    BY <1>11
  <2>2. Kinds[path[1]] = "tmp" /\ path[2] = w /\ w \in Generations
    BY <2>1 DEF Kinds, Generations
  <2>3. place[w] = "staged" => pc[w] = "crashed"
    BY <2>2 DEF DirInv, Staging, AllEnded, Ended, Holders
  <2>4. place'[w] # "staged"
    BY <1>1, <1>5, <2>2, <2>3
  <2>5. \A q : /\ <<1, q>> # path /\ <<2, q>> # path /\ <<3, q>> # path
               /\ <<4, q>> = path => q = w
    BY <2>1
  <2> QED
    BY <1>6, <2>4, <2>5 DEF Covers
<1> QED
  BY <1>7, <1>8, <1>9, <1>10, <1>11 DEF Paths

\* What the recoverer has in hand is reaped, reinstated or deleted before it
\* goes on to the next path.
LEMMA HandCovers ==
    ASSUME TypeInv, DirInv, NEW r \in Recoverers, Covers(r), Active(r)', Recover(r),
           ~RecoverStart(r), ~RecoverPath(r)
    PROVE  Covers(r)'
<1>0. r \in Processes /\ sweep[r].at \in Holders \cup {Nobody}
  BY DEF Processes, TypeInv, SweepState
<1>1. UNCHANGED sweep
  BY DEF Recover, RecoverReap, RecoverRestore, RecoverReinstate,
         RecoverSupersede, RecoverEnd
<1>2. ASSUME UNCHANGED <<place, lease>>, pc[r] # "reap lease",
             \/ pc'[r] \in {"restore", "reinstate", "supersede"}
             \/ Free(sweep[r].at)
      PROVE  Covers(r)'
  <2>1. \A q : Free(q)' <=> Free(q)
    BY <1>2 DEF Free, At
  <2> QED
    BY <1>1, <1>2, <2>1 DEF Covers
<1>3. CASE RecoverReap(r)
  <2>1. UNCHANGED place /\ ~lease'.held /\ pc[r] = "reap lease"
    BY <1>3 DEF RecoverReap, NoLease
  <2>2. \A q : Free(q)' <=> Free(q)
    BY <2>1 DEF Free, At
  <2> QED
    BY <1>1, <2>1, <2>2 DEF Covers
<1>4. CASE RecoverRestore(r)
  BY <1>0, <1>2, <1>4 DEF RecoverRestore, Goto, TypeInv
<1>5. ASSUME NEW g \in At(sweep[r].at), NEW name \in {"final", "absent"},
             Move(g, name), UNCHANGED lease, pc[r] # "reap lease"
      PROVE  Covers(r)'
  <2>1. g \in Generations /\ place[g] = sweep[r].at /\ place[g] \in Holders
    BY <1>0, Names DEF At, TypeInv, Nobody
  <2>2. place' = [place EXCEPT ![g] = name]
    BY <1>5 DEF Move
  <2>3. \A h \in Generations : h # g => place[h] # sweep[r].at
    BY <2>1, Names DEF DirInv
  <2>4. \A h \in Generations : place'[h] = place[h] \/ (h = g /\ place'[h] = name)
    BY <2>1, <2>2 DEF TypeInv
  <2>5. \A q \in Holders : ~Free(q)' => ~Free(q) /\ q # sweep[r].at
    <3>1. SUFFICES ASSUME NEW q \in Holders, NEW h \in Generations, place'[h] = q
                   PROVE  ~Free(q) /\ q # sweep[r].at
      BY DEF Free, At
    <3>2. q # "final" /\ q # "absent"
      BY Names
    <3>3. place'[g] = name
      BY <2>1, <2>2 DEF TypeInv
    <3>4. h # g /\ place[h] = q
      BY <2>4, <3>1, <3>2, <3>3
    <3> QED
      BY <2>3, <3>4 DEF Free, At
  <2>6. \A w \in Writers : place'[w] = "staged" => place[w] = "staged"
    BY <2>4 DEF Generations
  <2> QED
    BY <1>1, <1>5, <2>5, <2>6 DEF Covers, Holders
<1>6. CASE RecoverReinstate(r)
  <2>1. UNCHANGED lease /\ pc[r] = "reinstate"
    BY <1>6 DEF RecoverReinstate
  <2>2. \/ Free(sweep[r].at) /\ UNCHANGED place
        \/ \E g \in At(sweep[r].at) : Move(g, "final")
        \/ Goto(r, "supersede") /\ UNCHANGED place
    BY <1>6 DEF RecoverReinstate
  <2>3. Goto(r, "supersede") => pc'[r] = "supersede"
    BY <1>0 DEF Goto, TypeInv
  <2> QED
    BY <1>2, <1>5, <2>1, <2>2, <2>3
<1>7. CASE RecoverSupersede(r)
  <2>1. UNCHANGED lease /\ pc[r] = "supersede"
    BY <1>7 DEF RecoverSupersede
  <2>2. ~Free(sweep[r].at)
    BY <1>0, <1>7 DEF RecoverSupersede, Return, Goto, TypeInv, Active
  <2>3. PICK g \in At(sweep[r].at) :
          Remove(g) /\ Goto(r, IF files[g] = {} THEN "sweep" ELSE "supersede")
    BY <1>7, <2>2 DEF RecoverSupersede
  <2>4. CASE Move(g, "absent")
    BY <1>5, <2>1, <2>4
  <2>5. CASE UNCHANGED place /\ files[g] # {}
    <3>1. pc'[r] = "supersede"
      BY <1>0, <2>3, <2>5 DEF Goto, TypeInv
    <3> QED
      BY <1>2, <2>1, <2>5, <3>1
  <2> QED
    BY <2>3, <2>4, <2>5 DEF Remove
<1>8. ~RecoverEnd(r)
  BY <1>0 DEF RecoverEnd, Return, Goto, TypeInv, Active
<1> QED
  BY <1>3, <1>4, <1>6, <1>7, <1>8 DEF Recover

\* An empty list and nothing in hand: nothing is left.
LEMMA CoveredClean ==
    ASSUME TypeInv, DirInv, NEW r \in Recoverers, Covers(r), pc[r] = "sweep",
           sweep[r].todo = {}
    PROVE  Clean
<1>1. ~lease.held /\ (\A p \in Holders : Free(p)) /\ \A w \in Writers : place[w] # "staged"
  BY DEF Covers, Holders
<1>2. ASSUME NEW g \in Generations PROVE place[g] \in {"final", "absent"}
  <2>1. place[g] \in {"absent", "staged", "final"} \cup Holders
    BY DEF TypeInv
  <2>2. place[g] # "staged"
    BY <1>1 DEF DirInv
  <2>3. place[g] \notin Holders
    BY <1>1 DEF Free, At
  <2> QED
    BY <2>1, <2>2, <2>3
<1> QED
  BY <1>1, <1>2 DEF Clean

\* A further recovery of a clean cache leaves it clean.
LEMMA RecoverKeepsClean ==
    ASSUME TypeInv, NEW r \in Recoverers, Recover(r), Clean
    PROVE  Clean'
<1>1. lease' = lease \/ lease' = NoLease
  BY DEF Recover, RecoverStart, RecoverPath, RecoverReap, RecoverRestore,
         RecoverReinstate, RecoverSupersede, RecoverEnd
<1>2. \A g \in Generations : place'[g] \in {"final", "absent"}
  <2>1. CASE Drops
    BY <2>1 DEF Drops, Clean
  <2>2. CASE Reinstates
    BY <2>2, Names DEF Reinstates, Clean, TypeInv
  <2> QED
    BY <2>1, <2>2, RecoverPlaces
<1> QED
  BY <1>1, <1>2 DEF Clean, NoLease

\* A recoverer's step in a quiet cache.
LEMMA RecoverRecoverInv ==
    ASSUME Quiet, TypeInv, DirInv, RecoverInv, NEW p \in Recoverers, Recover(p)
    PROVE  RecoverInv'
<1>0. Alone(p) /\ p \in Processes
  BY RecoverAlone DEF Processes
<1>1. ASSUME AllEnded PROVE AllEnded'
  <2>1. \A q \in Lookers \cup Holders : q \in Processes \ {p}
    BY CacheAssumption DEF Processes, Lookers, Holders
  <2> QED
    BY <1>0, <1>1, <2>1 DEF AllEnded, Ended, Alone
<1>2. RecoverStart(p) \/ Active(p)
  BY DEF Recover, RecoverPath, RecoverReap, RecoverRestore, RecoverReinstate,
         RecoverSupersede, RecoverEnd, Active
<1>3. \A q \in Recoverers \ {p} : pc[q] \in {"start", "done"} /\ pc'[q] = pc[q]
  <2>1. \A q \in Recoverers \ {p} : pc'[q] = pc[q]
    BY <1>0 DEF Alone, Processes
  <2>2. CASE RecoverStart(p)
    BY <2>1, <2>2 DEF RecoverStart
  <2>3. CASE Active(p)
    BY <2>1, <2>3 DEF RecoverInv
  <2> QED
    BY <1>2, <2>2, <2>3
<1>4. AllEnded /\ (lease.held => lease.stale)
  <2>1. CASE RecoverStart(p)
    BY <2>1 DEF RecoverStart, AllEnded
  <2>2. CASE Active(p)
    BY <2>2 DEF RecoverInv
  <2> QED
    BY <1>2, <2>1, <2>2
<1>5. lease'.held => lease'.stale
  <2>1. lease' = lease \/ lease' = NoLease
    BY DEF Recover, RecoverStart, RecoverPath, RecoverReap, RecoverRestore,
           RecoverReinstate, RecoverSupersede, RecoverEnd
  <2> QED
    BY <1>4, <2>1 DEF NoLease
<1>6. ASSUME Active(p)' PROVE Covers(p)'
  <2>1. CASE RecoverStart(p)
    BY <2>1, StartCovers
  <2>2. CASE ~RecoverStart(p)
    <3>1. Covers(p)
      BY <1>2, <2>2 DEF RecoverInv
    <3> QED
      BY <1>4, <1>6, <2>2, <3>1, PathCovers, HandCovers
  <2> QED
    BY <2>1, <2>2
<1>7. ASSUME NEW r \in Recoverers, result'[r].kind = "recovered" PROVE Clean'
  <2>1. CASE result[r].kind = "recovered"
    BY <2>1, RecoverKeepsClean DEF RecoverInv
  <2>2. CASE result[r].kind # "recovered"
    <3>1. r = p
      BY <1>0, <1>7, <2>2 DEF Alone, Processes
    <3>2. RecoverEnd(p)
      <4>1. ~RecoverSupersede(p)
        BY <1>0, <1>7, <2>2, <3>1
           DEF RecoverSupersede, Return, Error, TypeInv
      <4> QED
        BY <1>7, <2>2, <3>1, <4>1 DEF Recover, RecoverStart, RecoverPath,
           RecoverReap, RecoverRestore, RecoverReinstate
    <3>3. Covers(p) /\ pc[p] = "sweep" /\ sweep[p].todo = {}
      BY <3>2 DEF RecoverEnd, RecoverInv, Active
    <3>4. Clean
      BY <3>3, CoveredClean
    <3> QED
      BY <3>2, <3>4 DEF RecoverEnd, Clean
  <2> QED
    BY <2>1, <2>2
<1>8. ASSUME NEW r \in Recoverers, Active(r)' PROVE r = p
  BY <1>3, <1>8 DEF Active
<1> QED
  BY <1>1, <1>3, <1>4, <1>5, <1>6, <1>7, <1>8 DEF RecoverInv

\* Every step of a cache that is recovered only when it is quiet.
LEMMA NextRecoverInv ==
    ASSUME Quiet, TypeInv, DirInv, RecoverInv, [Next]_vars
    PROVE  RecoverInv'
<1>1. ASSUME NEW p \in Lookers \cup Holders, Process(p) \/ Crash(p),
             \A r \in Recoverers : pc'[r] = pc[r] /\ result'[r] = result[r]
      PROVE  RecoverInv'
  <2>1. ~AllEnded
    BY <1>1, EndedStops DEF AllEnded
  <2> QED
    BY <1>1, <2>1 DEF RecoverInv, Active
<1>2. ASSUME NEW p \in Processes, Process(p) PROVE RecoverInv'
  <2>1. CASE p \in Recoverers
    <3>1. p \notin Lookers /\ p \notin Holders /\ p \notin Writers /\ p \notin Evictors
      BY <2>1, CacheAssumption DEF Lookers, Holders
    <3> QED
      BY <1>2, <2>1, <3>1, RecoverRecoverInv DEF Process
  <2>2. CASE p \notin Recoverers
    <3>1. p \in Lookers \cup Holders
      BY <2>2 DEF Processes
    <3>2. \A r \in Recoverers : pc'[r] = pc[r] /\ result'[r] = result[r]
      BY <1>2, <2>2, ProcessAlone DEF Alone, Processes
    <3> QED
      BY <1>1, <1>2, <3>1, <3>2
  <2> QED
    BY <2>1, <2>2
<1>3. ASSUME NEW p \in Holders, Crash(p) PROVE RecoverInv'
  <2>1. \A r \in Recoverers : r \in Processes /\ r # p
    BY CacheAssumption DEF Processes, Holders
  <2>2. \A r \in Recoverers : pc'[r] = pc[r] /\ result'[r] = result[r]
    BY <1>3, <2>1 DEF Crash, Goto, TypeInv
  <2> QED
    BY <1>1, <1>3, <2>2
<1>4. ASSUME UNCHANGED <<place, pc, result, sweep>>, lease'.held = lease.held,
             lease.stale => lease'.stale
      PROVE  RecoverInv'
  <2>1. \A q : Free(q)' <=> Free(q)
    BY <1>4 DEF Free, At
  <2>2. \A r \in Recoverers : (Active(r)' <=> Active(r)) /\ (Covers(r)' <=> Covers(r))
    BY <1>4, <2>1 DEF Active, Covers
  <2>3. (AllEnded' <=> AllEnded) /\ (Clean' <=> Clean)
    BY <1>4 DEF AllEnded, Ended, Clean
  <2> QED
    BY <1>4, <2>2, <2>3 DEF RecoverInv
<1>5. CASE Age
  <2>1. lease'.held = lease.held /\ lease'.stale
    BY <1>5 DEF Age, TypeInv
  <2> QED
    BY <1>4, <1>5, <2>1 DEF Age
<1>6. CASE UNCHANGED vars
  BY <1>4, <1>6 DEF vars
<1> QED
  BY <1>2, <1>3, <1>5, <1>6 DEF Next, Finished

\* A recovery that starts when every other process has returned or died, and
\* that reports success, leaves the entry alone: no lease, no staging, no
\* hidden and no evicted directory, whoever crashed where (cache.rs:
\* recover_stale, recover_shard, restore_replacement).
THEOREM RecoveryComplete == Spec => []RecoveryCleans
<1>1. CASE Quiet
  <2>1. TypeInv /\ DirInv /\ RecoverInv /\ [Next]_vars => RecoverInv'
    BY <1>1, NextRecoverInv
  <2>2. RecoverInv => RecoveryCleans
    BY DEF RecoverInv, RecoveryCleans, Clean
  <2> QED
    BY <2>1, <2>2, Typed, Directories, InitRecoverInv, PTL DEF Spec
<1>2. CASE ~Quiet
  <2>1. RecoveryCleans
    BY <1>2 DEF RecoveryCleans
  <2> QED
    BY <2>1, PTL
<1> QED
  BY <1>1, <1>2

-----------------------------------------------------------------------------
(* What publications keep *)

\* A whole generation that nobody deletes: the entry, or one that its hider
\* has not replaced.
Keeps(g) ==
    /\ files[g] = Whole
    /\ \/ place[g] = "final"
       \/ place[g] \in Writers /\ pc[place[g]] # "cleanup"

\* What a publisher installs has both files.
StagedInv ==
    \A w \in Writers : place[w] = "staged" =>
        /\ pc[w] = "describe" => "payload" \in files[w]
        /\ pc[w] \in {"refresh", "hide", "install"} => files[w] = Whole

\* A publisher that deletes what it hid leaves another whole generation.
KeepInv ==
    /\ (\E w \in Writers : pc[w] = "cleanup") => \E g \in Generations : Keeps(g)
    /\ StagedInv

\* At first nobody publishes.
LEMMA InitKeepInv == Init => KeepInv
<1> SUFFICES ASSUME Init PROVE KeepInv
  OBVIOUS
<1>1. \A w \in Writers : pc[w] = "start"
  BY DEF Init, Processes, Holders
<1> QED
  BY <1>1 DEF KeepInv, StagedInv

\* How the files change: a publisher completes and withdraws its staging and
\* deletes what it hid, an evictor deletes what it hid.
LEMMA ProcessFiles ==
    ASSUME TypeInv, NEW p \in Lookers \cup Holders, Process(p), NEW g \in Generations,
           files'[g] # files[g]
    PROVE  \/ /\ g = p /\ p \in Writers /\ place[p] = "staged"
              /\ pc[p] \in {"write", "describe", "refresh", "hide", "withdraw"}
           \/ p \in Writers /\ pc[p] = "cleanup" /\ place[g] = p
           \/ p \in Evictors /\ place[g] = p
<1>0. p \notin Recoverers
  BY CacheAssumption DEF Lookers, Holders
<1>1. ~Lookup(p) \/ p \notin Lookers
  BY LookupAlone
<1>2. ~Lease(p) \/ p \notin Holders
  BY LeaseAlone
<1>3. CASE p \in Writers /\ Publish(p)
  <2>0. p \in Generations
    BY <1>3 DEF Generations
  <2>1. CASE StagingWrite(p)
    <3>1. \E f : files' = [files EXCEPT ![p] = @ \cup {f}]
      BY <2>1 DEF StagingWrite
    <3>2. g = p
      BY <3>1 DEF TypeInv
    <3> QED
      BY <1>3, <2>1, <3>2 DEF StagingWrite
  <2>2. CASE Withdraw(p) /\ pc[p] \in {"write", "describe", "refresh", "hide", "withdraw"}
    BY <1>3, <2>0, <2>2 DEF Withdraw, TypeInv
  <2>3. CASE PublishCleanup(p)
    <3>1. PICK h \in At(p) : Remove(h)
      BY <2>3 DEF PublishCleanup
    <3>2. h = g
      BY <3>1 DEF Remove, TypeInv
    <3> QED
      BY <1>3, <2>3, <3>1, <3>2 DEF PublishCleanup, At
  <2> QED
    BY <1>3, <2>1, <2>2, <2>3
       DEF Publish, StagingCreate, StagingRefresh, StagingFail, PublishHide,
           PublishInstall, PublishInstallFails, PublishRestore, PublishWithdraw,
           PublishReopen
<1>4. CASE p \in Evictors /\ Evict(p)
  BY <1>4 DEF Evict, EvictStart, EvictHide, EvictPurge
<1> QED
  BY <1>0, <1>1, <1>2, <1>3, <1>4 DEF Process

\* A publisher's staging grows by one file after the other.
LEMMA StagingGrows ==
    ASSUME TypeInv, StagedInv, NEW w \in Writers, Process(w), place'[w] = "staged"
    PROVE  /\ pc'[w] = "describe" => "payload" \in files'[w]
           /\ pc'[w] \in {"refresh", "hide", "install"} => files'[w] = Whole
<1>0. w \in Processes /\ w \notin Recoverers /\ w \notin Evictors
      /\ w \in Generations /\ w \in Holders
  BY CacheAssumption DEF Processes, Holders, Generations
<1>1. CASE pc'[w] \notin {"describe", "refresh", "hide", "install"}
  BY <1>1
<1>2. CASE StagingWrite(w)
  <2>1. files[w] \subseteq Whole /\ place[w] = "staged"
    BY <1>0, <1>2 DEF TypeInv, StagingWrite
  <2>2. CASE pc[w] = "write"
    BY <1>0, <1>2, <2>2 DEF StagingWrite, Goto, TypeInv
  <2>3. CASE pc[w] = "describe"
    <3>1. "payload" \in files[w] /\ files'[w] = files[w] \cup {"metadata"}
          /\ pc'[w] = "refresh"
      BY <1>0, <1>2, <2>1, <2>3 DEF StagingWrite, Goto, TypeInv, StagedInv
    <3> QED
      BY <2>1, <3>1 DEF Whole
  <2> QED
    BY <1>2, <2>2, <2>3 DEF StagingWrite
<1>3. CASE StagingRefresh(w)
  BY <1>0, <1>3 DEF StagingRefresh, Goto, TypeInv, StagedInv
<1>4. CASE PublishHide(w)
  <2>1. place[w] = "staged"
    BY <1>0, <1>4, Names DEF PublishHide
  <2> QED
    BY <1>0, <1>4, <2>1 DEF PublishHide, Goto, TypeInv, StagedInv
<1>5. w \in Lookers /\ Lookup(w) => pc'[w] \notin {"describe", "refresh", "hide", "install"}
  BY LookupGoal
<1>6. Lease(w) => pc'[w] \notin {"describe", "refresh", "hide", "install"}
  BY <1>0 DEF Lease, LeaseCreate, LeaseInitialize, LeaseContended, LeaseReap,
     LeaseRelease, LeaseUnlink, Return, Goto, TypeInv
<1>7. Publish(w) => \/ pc'[w] \notin {"describe", "refresh", "hide", "install"}
                    \/ StagingWrite(w) \/ StagingRefresh(w) \/ PublishHide(w)
  BY <1>0 DEF Publish, StagingCreate, StagingFail, PublishInstall,
     PublishInstallFails, PublishRestore, PublishWithdraw, PublishCleanup,
     PublishReopen, Withdraw, Return, Goto, TypeInv
<1> QED
  BY <1>0, <1>1, <1>2, <1>3, <1>4, <1>5, <1>6, <1>7 DEF Process

\* An installation needs both files.
LEMMA Installs ==
    ASSUME TypeInv, StagedInv, NEW w \in Writers, Process(w), pc'[w] = "cleanup",
           pc[w] # "cleanup"
    PROVE  files'[w] = Whole /\ place'[w] = "final" /\ w \in Generations
<1>0. w \in Generations /\ place'[w] = "final"
  BY CleanupEntered DEF Generations
<1>1. w \in Processes /\ w \notin Recoverers /\ w \notin Evictors /\ w \in Holders
  BY CacheAssumption DEF Processes, Holders
<1>2. ~(w \in Lookers /\ Lookup(w)) /\ ~Lease(w)
  <2>1. ~(w \in Lookers /\ Lookup(w))
    BY LookupGoal
  <2>2. Lease(w) => pc'[w] # "cleanup"
    BY <1>1 DEF Lease, LeaseCreate, LeaseInitialize, LeaseContended, LeaseReap,
       LeaseRelease, LeaseUnlink, Return, Goto, TypeInv
  <2> QED
    BY <2>1, <2>2
<1>3. Publish(w)
  BY <1>1, <1>2 DEF Process
<1>4. PublishInstall(w)
  BY <1>1, <1>3 DEF Publish, StagingCreate, StagingWrite, StagingRefresh,
     StagingFail, PublishHide, PublishInstallFails, PublishRestore,
     PublishWithdraw, PublishCleanup, PublishReopen, Withdraw, Return, Goto, TypeInv
<1> QED
  BY <1>0, <1>4 DEF PublishInstall, StagedInv

\* Only empty, evicted and staged directories go.
LEMMA EmptyGoes ==
    ASSUME TypeInv, NEW p \in Processes, Process(p), NEW g \in Generations,
           place'[g] = "absent", place[g] # "absent"
    PROVE  files[g] = {} \/ place[g] \in Evictors \cup {"staged"}
<1>0. ~Hides(p) /\ ~Reinstates /\ ~Stages(p)
  BY Names DEF Hides, Reinstates, Stages, TypeInv
<1>1. ASSUME NEW h \in Generations, Remove(h) PROVE files[g] = {}
  BY <1>1 DEF Remove, Move, TypeInv
<1>2. CASE p \in Writers /\ Publish(p)
  <2>1. CASE Withdraw(p)
    BY <2>1 DEF Withdraw, TypeInv
  <2>2. CASE PublishCleanup(p)
    BY <1>1, <2>2 DEF PublishCleanup, At
  <2>3. CASE StagingCreate(p)
    BY <2>3 DEF StagingCreate, Move, TypeInv
  <2>4. CASE PublishHide(p)
    BY <1>2, <2>4, Names DEF PublishHide, Holders
  <2>5. CASE PublishInstall(p) \/ PublishRestore(p)
    BY <2>5 DEF PublishInstall, PublishRestore, Move, TypeInv
  <2> QED
    BY <1>2, <2>1, <2>2, <2>3, <2>4, <2>5
       DEF Publish, StagingWrite, StagingRefresh, StagingFail,
           PublishInstallFails, PublishWithdraw, PublishReopen
<1>3. CASE p \in Evictors /\ Evict(p)
  <2>1. CASE EvictHide(p)
    <3>1. UNCHANGED place \/ \E h : Move(h, p)
      BY <2>1 DEF EvictHide
    <3>2. p # "absent"
      BY <1>3, Names DEF Holders
    <3> QED
      BY <3>1, <3>2 DEF Move, TypeInv
  <2>2. CASE EvictPurge(p)
    BY <1>3, <2>2 DEF EvictPurge
  <2> QED
    BY <1>3, <2>1, <2>2 DEF Evict, EvictStart
<1>4. CASE p \in Recoverers /\ Recover(p)
  <2>1. CASE RecoverPath(p)
    BY <1>4, <2>1, PathDeletes
  <2>2. CASE RecoverReinstate(p)
    BY <2>2 DEF RecoverReinstate, Move, TypeInv
  <2>3. CASE RecoverSupersede(p)
    BY <1>1, <2>3 DEF RecoverSupersede, At
  <2> QED
    BY <1>4, <2>1, <2>2, <2>3
       DEF Recover, RecoverStart, RecoverReap, RecoverRestore, RecoverEnd
<1>5. CASE (p \in Lookers /\ Lookup(p)) \/ (p \in Holders /\ Lease(p))
  BY <1>5, LookupAlone, LeaseAlone
<1> QED
  BY <1>2, <1>3, <1>4, <1>5 DEF Process

\* A kept generation is kept, unless an evictor takes it: its hider installs
\* a whole one before it deletes it.
LEMMA KeepsOn ==
    ASSUME TypeInv, DirInv, KeepInv, NEW p \in Lookers \cup Holders, Process(p),
           NEW g \in Generations, Keeps(g)
    PROVE  \/ \E h \in Generations : Keeps(h)'
           \/ Hides(p) /\ p \in Evictors /\ place'[g] = p
<1>0. /\ p \in Processes /\ PlaceStep(p) /\ Alone(p)
      /\ \A w \in Writers : w \in Holders /\ w \notin Evictors /\ w \in Processes
  BY ProcessPlaces, ProcessAlone, CacheAssumption DEF Processes, Holders
<1>1. place[g] \notin Evictors \cup {"staged", "absent"}
  BY <1>0, Names DEF Keeps, Holders
<1>2. files'[g] = Whole
  <2>1. \A w \in Writers : w # "final"
    BY <1>0, Names
  <2> QED
    BY <1>1, <2>1, ProcessFiles DEF Keeps
<1>3. CASE place'[g] = "final"
  BY <1>2, <1>3 DEF Keeps
<1>4. CASE place'[g] = place[g] /\ place[g] \in Writers
  <2>1. CASE pc'[place[g]] # "cleanup"
    BY <1>2, <1>4, <2>1 DEF Keeps
  <2>2. CASE pc'[place[g]] = "cleanup"
    <3>1. place[g] # "final" /\ pc[place[g]] # "cleanup"
      BY <1>0, <1>4, Names DEF Keeps
    <3>2. place[g] = p
      BY <1>0, <1>4, <2>2, <3>1 DEF Alone
    <3>3. files'[p] = Whole /\ place'[p] = "final" /\ p \in Generations
      BY <1>4, <2>2, <3>1, <3>2, Installs DEF KeepInv
    <3> QED
      BY <3>3 DEF Keeps
  <2> QED
    BY <2>1, <2>2
<1>5. CASE Drops
  <2>1. Whole # {}
    BY DEF Whole
  <2>2. place'[g] # "absent"
    BY <1>0, <1>1, <2>1, EmptyGoes DEF Keeps
  <2> QED
    BY <1>3, <1>4, <1>5, <2>2 DEF Drops, Keeps
<1>6. CASE Reinstates
  <2>1. place'[g] = place[g] \/ place'[g] = "final"
    BY <1>6 DEF Reinstates, TypeInv
  <2> QED
    BY <1>3, <1>4, <2>1 DEF Keeps
<1>7. CASE Hides(p)
  <2>1. CASE place'[g] = place[g]
    BY <1>3, <1>4, <2>1 DEF Keeps
  <2>2. CASE place'[g] = p /\ p \in Writers
    <3>1. pc'[p] # "cleanup"
      BY <1>7 DEF Hides
    <3> QED
      BY <1>2, <2>2, <3>1 DEF Keeps
  <2> QED
    BY <1>7, <2>1, <2>2 DEF Hides, Holders
<1>8. CASE Stages(p)
  <2>1. place[p] = "absent"
    BY <1>8 DEF Stages, DirInv, BeforeStaging
  <2>2. place'[g] = place[g]
    BY <1>1, <1>8, <2>1 DEF Stages, TypeInv
  <2> QED
    BY <1>3, <1>4, <2>2 DEF Keeps
<1> QED
  BY <1>0, <1>5, <1>6, <1>7, <1>8 DEF PlaceStep

\* The steps of readers, publishers and evictors; an evictor must not work
\* while a publisher cleans up.
LEMMA ProcessKeepInv ==
    ASSUME TypeInv, DirInv, KeepInv, NEW p \in Lookers \cup Holders, Process(p),
           p \in Evictors => LeaseInv
    PROVE  KeepInv'
<1>0. /\ p \in Processes /\ PlaceStep(p) /\ Alone(p)
      /\ \A w \in Writers : w \in Holders /\ w \notin Evictors /\ w \in Processes
                            /\ w \in Generations
  BY ProcessPlaces, ProcessAlone, CacheAssumption DEF Processes, Holders, Generations
<1>1. ASSUME NEW w \in Writers, pc'[w] = "cleanup"
      PROVE  \E g \in Generations : Keeps(g)'
  <2>1. CASE pc[w] # "cleanup"
    <3>1. w = p
      BY <1>0, <1>1, <2>1 DEF Alone
    <3> QED
      BY <1>1, <2>1, <3>1, Installs DEF Keeps, KeepInv
  <2>2. CASE pc[w] = "cleanup"
    <3>1. ~(Hides(p) /\ p \in Evictors)
      <4>1. SUFFICES ASSUME Hides(p), p \in Evictors PROVE FALSE
        OBVIOUS
      <4>2. Working(p) /\ Working(w) /\ p \in Holders
        BY <2>2, <4>1 DEF Hides, Working, Owning
      <4> QED
        BY <1>0, <4>1, <4>2 DEF LeaseInv
    <3>2. PICK g \in Generations : Keeps(g)
      BY <2>2 DEF KeepInv
    <3> QED
      BY <3>1, <3>2, KeepsOn
  <2> QED
    BY <2>1, <2>2
<1>2. ASSUME NEW w \in Writers, place'[w] = "staged"
      PROVE  /\ pc'[w] = "describe" => "payload" \in files'[w]
             /\ pc'[w] \in {"refresh", "hide", "install"} => files'[w] = Whole
  <2>1. CASE w = p
    BY <1>2, <2>1, StagingGrows DEF KeepInv
  <2>2. CASE w # p
    <3>1. place[w] = "staged"
      <4>1. p # "staged" \/ ~Hides(p)
        BY Names DEF Hides
      <4> QED
        BY <1>0, <1>2, <2>2, <4>1
           DEF PlaceStep, Drops, Reinstates, Hides, Stages, TypeInv
    <3>2. pc'[w] = pc[w]
      BY <1>0, <2>2 DEF Alone
    <3>3. files'[w] = files[w]
      <4>1. p \in Holders => p # "staged"
        BY Names
      <4> QED
        BY <1>0, <2>2, <3>1, <4>1, ProcessFiles DEF Holders
    <3> QED
      BY <3>1, <3>2, <3>3 DEF KeepInv, StagedInv
  <2> QED
    BY <2>1, <2>2
<1> QED
  BY <1>1, <1>2 DEF KeepInv, StagedInv

\* What the processes of a cache without recovery do to the last whole
\* generation.
LEMMA ProcessKeepsWhole ==
    ASSUME TypeInv, DirInv, KeepInv, NEW p \in Lookers \cup Holders, Process(p),
           SomethingWhole
    PROVE  SomethingWhole' \/ \E g \in Generations : place'[g] \in Evictors
<1>1. \E g \in Generations : Keeps(g)
  BY DEF SomethingWhole, Keeps, KeepInv
<1>2. PICK g \in Generations : Keeps(g)
  BY <1>1
<1>3. CASE \E h \in Generations : Keeps(h)'
  BY <1>3 DEF Keeps, SomethingWhole
<1> QED
  BY <1>2, <1>3, KeepsOn

\* The other steps leave directories and files alone.
LEMMA OtherKeepInv ==
    ASSUME TypeInv, KeepInv,
           (\E p \in Holders : Crash(p)) \/ Age \/ Finished \/ UNCHANGED vars
    PROVE  KeepInv' /\ (SomethingWhole' <=> SomethingWhole)
<1>1. UNCHANGED <<place, files>>
  BY DEF Crash, Age, Finished, vars
<1>2. \A q \in Processes : pc'[q] \in {pc[q], "crashed"}
  BY DEF Crash, Goto, TypeInv, Age, Finished, vars
<1>3. \A w \in Writers : w \in Processes
  BY DEF Processes, Holders
<1>4. \A g \in Generations : Keeps(g) => Keeps(g)'
  BY <1>1, <1>2, <1>3 DEF Keeps
<1>5. SomethingWhole' <=> SomethingWhole
  BY <1>1 DEF SomethingWhole
<1> QED
  BY <1>1, <1>2, <1>3, <1>4, <1>5 DEF KeepInv, StagedInv

\* Publications lose nothing: where nobody recovers, only an eviction takes
\* the last whole generation away, however publications fail, overlap or die
\* (cache.rs: StagingEntry::publish).  With evictors nobody may die: a
\* publisher that has lost its lease would delete what it hid although an
\* evictor took what it installed.
THEOREM PublicationKeeps ==
    ASSUME Recoverers = {}, Evictors = {} \/ MaxCrashes = 0
    PROVE  Spec => NothingLost
<1> DEFINE Exclusion == MaxCrashes = 0 => LeaseInv
<1>1. Init => Exclusion /\ KeepInv
  BY InitLeaseInv, InitKeepInv
<1>2. TypeInv /\ Exclusion /\ [Next]_vars => Exclusion'
  BY NextLeaseInv
<1>3. ASSUME TypeInv, DirInv, KeepInv, Exclusion, [Next]_vars
      PROVE  /\ KeepInv'
             /\ SomethingWhole => SomethingWhole'
                                  \/ \E g \in Generations : place'[g] \in Evictors
  <2>1. CASE \E p \in Processes : Process(p)
    <3>1. PICK p \in Processes : Process(p)
      BY <2>1
    <3>2. p \in Lookers \cup Holders /\ (p \in Evictors => LeaseInv)
      BY <1>3 DEF Processes
    <3> QED
      BY <1>3, <3>1, <3>2, ProcessKeepInv, ProcessKeepsWhole
  <2>2. CASE (\E p \in Holders : Crash(p)) \/ Age \/ Finished \/ UNCHANGED vars
    BY <1>3, <2>2, OtherKeepInv
  <2> QED
    BY <1>3, <2>1, <2>2 DEF Next
<1>4. TypeInv /\ DirInv /\ KeepInv /\ Exclusion /\ [Next]_vars => KeepInv'
  BY <1>3
<1>5. TypeInv /\ DirInv /\ KeepInv /\ Exclusion /\ [Next]_vars =>
        [SomethingWhole /\ ~SomethingWhole' =>
            \E g \in Generations : place'[g] \in Evictors]_vars
  BY <1>3
<1> QED
  BY <1>1, <1>2, <1>4, <1>5, Typed, Directories, PTL DEF Spec, NothingLost

-----------------------------------------------------------------------------
(* One publisher and any number of recoveries *)

Solo(w) == Writers = {w} /\ Evictors = {}

\* Steps that the only holder of leases does not come to.
Foreign == {"reap", "abort", "sweep", "reap lease", "reinstate", "supersede"}

\* The lease is live as long as the publisher is at work, and what recovery
\* does to it or to a hidden generation it does after the publisher's end.
SoloLease(w) ==
    /\ Working(w) => lease.held
    /\ lease.held => Working(w) \/ Ended(w)
    /\ lease.stale => Ended(w)
    /\ pc[w] \notin Foreign
    /\ pc[w] = "start" => look[w].goal = "publish"
    /\ \A r \in Recoverers :
          pc[r] \in {"reap lease", "restore", "reinstate", "supersede"} => Ended(w)

\* The publisher's own generation, once it is the entry, stays the entry.  The
\* old one is whole until then: a recovery that found the name of the entry
\* taken found either the new generation or nothing hidden.
SoloPlaces(w) ==
    /\ place[w] \in {"absent", "staged", "final"}
    /\ place[w] = "final" => files[w] = Whole /\ pc[w] \notin BeforeHiding
    /\ pc[w] = "cleanup" => place[w] = "final"
    /\ place[Old] \in {"final", w} => files[Old] = Whole \/ place[w] = "final"
    /\ \A r \in Recoverers : pc[r] = "supersede" => place[w] = "final" \/ Free(w)

SoloInv(w) == SoloLease(w) /\ SoloPlaces(w) /\ StagedInv

\* Publisher and generations.
LEMMA SoloFacts ==
    ASSUME NEW w, Solo(w)
    PROVE  /\ Generations = {w, Old} /\ w # Old /\ Holders = {w}
           /\ w \in Writers /\ w \in Lookers /\ w \in Processes
           /\ w \notin {"final", "staged", "absent", Nobody} /\ w \notin Recoverers
           /\ w \notin Readers /\ Recoverers \subseteq Processes
BY CacheAssumption DEF Solo, Generations, Holders, Lookers, Processes

\* The publisher has not begun, nobody recovers, the entry is whole.
LEMMA InitSoloInv ==
    ASSUME NEW w, Solo(w), Init PROVE SoloInv(w)
<1> USE SoloFacts
<1>1. /\ lease = NoLease /\ (\A p \in Processes : pc[p] = "start")
      /\ look[w].goal = "publish"
  BY DEF Init
<1>2. place[w] = "absent" /\ (place[Old] # "absent" => files[Old] = Whole)
      /\ place[Old] \in {"absent", "final"}
  BY DEF Init
<1>3. ~Working(w)
  BY <1>1 DEF Working, Owning
<1>4. SoloLease(w)
  BY <1>1, <1>3 DEF SoloLease, NoLease, Foreign
<1>5. SoloPlaces(w)
  BY <1>1, <1>2 DEF SoloPlaces
<1>6. StagedInv
  BY <1>2 DEF StagedInv, Solo
<1> QED
  BY <1>4, <1>5, <1>6 DEF SoloInv

\* The lease through the steps of the publisher.
LEMMA WriterSoloLease ==
    ASSUME NEW w, Solo(w), TypeInv, SoloLease(w), Process(w)
    PROVE  SoloLease(w)'
<1> USE SoloFacts
<1>0. Alone(w) /\ \A r \in Recoverers : pc'[r] = pc[r]
  BY ProcessAlone DEF Alone
<1>1. ~Ended(w)
  BY EndedStops
<1>2. \A r \in Recoverers :
        pc'[r] \notin {"reap lease", "restore", "reinstate", "supersede"}
  BY <1>0, <1>1 DEF SoloLease
<1>3. CASE Lookup(w)
  <2>1. lease' = lease
    BY <1>3, LookupAlone
  <2>2. look'[w].goal = look[w].goal /\ look[w].goal \in {"publish", "recheck"}
    BY <1>3, LookupGoal DEF TypeInv, LookState
  <2>3. CASE look[w].goal = "publish"
    <3>1. ~Working(w)
      BY <1>3, <2>3, LookupGoal DEF Working, Owning
    <3>2. pc'[w] \notin Foreign /\ pc'[w] # "start" /\ ~Working(w)'
      BY <1>3, <2>2, <2>3, LookupGoal DEF Working, Owning, Foreign
    <3> QED
      BY <1>1, <1>2, <2>1, <3>1, <3>2 DEF SoloLease
  <2>4. CASE look[w].goal = "recheck"
    <3>1. pc[w] # "start"
      BY <2>4 DEF SoloLease
    <3>2. Working(w)
      BY <1>3, <2>4, <3>1, LookupGoal DEF Working, Owning
    <3>3. pc'[w] \notin Foreign /\ pc'[w] # "start" /\ Working(w)'
      BY <1>3, <2>2, <2>4, LookupGoal DEF Working, Owning, Foreign
    <3> QED
      BY <1>1, <1>2, <2>1, <3>2, <3>3 DEF SoloLease
  <2> QED
    BY <2>2, <2>3, <2>4
<1>4. CASE Lease(w)
  <2>1. CASE LeaseCreate(w)
    <3>1. pc'[w] = "owner" /\ lease'.held /\ ~lease'.stale
      BY <2>1 DEF LeaseCreate, Goto, TypeInv, NoLease
    <3>2. Working(w)'
      BY <3>1 DEF Working
    <3> QED
      BY <1>2, <3>1, <3>2 DEF SoloLease, Foreign
  <2>2. CASE LeaseInitialize(w)
    <3>1. Working(w) /\ lease.held /\ ~lease.stale
      BY <1>1, <2>2 DEF LeaseInitialize, Working, SoloLease
    <3>2. lease'.held /\ ~lease'.stale
      BY <2>2, <3>1 DEF LeaseInitialize, TypeInv
    <3>3. pc'[w] = "beat" \/ (pc'[w] = "envelope" /\ look'[w].goal = "recheck")
      <4>1. CASE pc[w] = "owner"
        BY <2>2, <3>1, <4>1 DEF LeaseInitialize, Goto, TypeInv
      <4>2. CASE pc[w] = "beat"
        <5>1. look[w] \in LookState
          BY DEF TypeInv
        <5>2. look'[w] = [look[w] EXCEPT !.goal = "recheck", !.stage = "first",
                                         !.at = "final", !.todo = {}]
          BY <2>2, <3>1, <4>2 DEF LeaseInitialize, TypeInv
        <5>3. look'[w].goal = "recheck"
          BY <5>1, <5>2 DEF LookState
        <5>4. pc'[w] = "envelope"
          BY <2>2, <3>1, <4>2 DEF LeaseInitialize, Goto, TypeInv
        <5> QED
          BY <5>3, <5>4
      <4> QED
        BY <2>2, <4>1, <4>2 DEF LeaseInitialize
    <3>4. Working(w)'
      BY <3>3 DEF Working, Owning
    <3> QED
      BY <1>2, <3>2, <3>3, <3>4 DEF SoloLease, Foreign
  <2>3. ~LeaseContended(w)
    BY <1>1 DEF LeaseContended, SoloLease, Working, Owning
  <2>4. ~LeaseReap(w)
    BY DEF LeaseReap, SoloLease, Foreign
  <2>5. CASE LeaseRelease(w)
    <3>1. Working(w) /\ lease' = lease /\ pc'[w] \in {"unlink", "done"}
      BY <2>5 DEF LeaseRelease, Goto, TypeInv, Working, Owning
    <3>2. Working(w)' \/ Ended(w)'
      BY <3>1 DEF Working, Owning, Ended
    <3> QED
      BY <1>1, <1>2, <3>1, <3>2 DEF SoloLease, Foreign
  <2>6. CASE LeaseUnlink(w)
    <3>1. pc'[w] = "done" /\ ~lease'.held /\ ~lease'.stale
      BY <2>6 DEF LeaseUnlink, Goto, TypeInv, NoLease
    <3>2. ~Working(w)'
      BY <3>1 DEF Working, Owning
    <3> QED
      BY <1>2, <3>1, <3>2 DEF SoloLease, Foreign
  <2> QED
    BY <1>4, <2>1, <2>2, <2>3, <2>4, <2>5, <2>6 DEF Lease
<1>5. CASE Publish(w)
  <2>1. pc[w] \in {"stage", "write", "describe", "refresh", "hide", "install",
                   "restore", "withdraw", "cleanup", "reopen"}
    BY <1>5 DEF Publish, StagingCreate, StagingWrite, StagingRefresh, StagingFail,
         PublishHide, PublishInstall, PublishInstallFails, PublishRestore,
         PublishWithdraw, PublishCleanup, PublishReopen
  <2>2. \/ \E s \in {"write", "describe", "refresh", "hide", "install", "restore",
                      "withdraw", "cleanup", "reopen", "release"} : Goto(w, s)
        \/ UNCHANGED pc
    BY <1>5 DEF Publish, StagingCreate, StagingWrite, StagingRefresh, StagingFail,
         PublishHide, PublishInstall, PublishInstallFails, PublishRestore,
         PublishWithdraw, PublishCleanup, PublishReopen, Withdraw, Return
  <2>3. pc'[w] \in {"stage", "write", "describe", "refresh", "hide", "install",
                    "restore", "withdraw", "cleanup", "reopen", "release"}
    BY <2>1, <2>2 DEF Goto, TypeInv
  <2>4. Working(w) /\ Working(w)'
    BY <2>1, <2>3 DEF Working, Owning
  <2>5. lease' = lease \/ lease' = [lease EXCEPT !.stale = FALSE]
    BY <1>5 DEF Publish, StagingCreate, StagingWrite, StagingRefresh, StagingFail,
         PublishHide, PublishInstall, PublishInstallFails, PublishRestore,
         PublishWithdraw, PublishCleanup, PublishReopen
  <2>6. lease'.held /\ ~lease'.stale
    BY <1>1, <2>4, <2>5 DEF SoloLease, TypeInv
  <2> QED
    BY <1>2, <2>3, <2>4, <2>6 DEF SoloLease, Foreign
<1> QED
  BY <1>3, <1>4, <1>5 DEF Process, Solo

\* The lease through the steps of a recoverer.
LEMMA RecoverSoloLease ==
    ASSUME NEW w, Solo(w), TypeInv, DirInv, SoloLease(w), NEW r \in Recoverers, Recover(r)
    PROVE  SoloLease(w)'
<1> USE SoloFacts
<1>0. /\ Alone(r) /\ pc'[w] = pc[w] /\ look' = look
      /\ \A q \in Recoverers \ {r} : pc'[q] = pc[q]
  BY RecoverAlone DEF Alone
<1>1. (Working(w)' <=> Working(w)) /\ (Ended(w)' <=> Ended(w))
  BY <1>0 DEF Working, Owning, Ended
<1>2. lease' = lease \/ (lease' = NoLease /\ Ended(w))
  BY DEF Recover, RecoverStart, RecoverPath, RecoverReap, RecoverRestore,
         RecoverReinstate, RecoverSupersede, RecoverEnd, SoloLease
<1>3. pc'[r] \in {"reap lease", "restore", "reinstate", "supersede"} => Ended(w)
  <2>1. CASE RecoverPath(r)
    <3>1. PICK path \in sweep[r].todo :
            Goto(r, CASE Kinds[path[1]] = "lease" /\ lease.held /\ lease.stale -> "reap lease"
                     [] Kinds[path[1]] = "previous" /\ ~Free(path[2]) /\ ~Guarded -> "restore"
                     [] OTHER -> "sweep")
      BY <2>1 DEF RecoverPath
    <3>2. path \in Paths
      BY DEF TypeInv, SweepState
    <3>3. CASE Kinds[path[1]] = "lease" /\ lease.held /\ lease.stale
      BY <3>3 DEF SoloLease
    <3>4. CASE Kinds[path[1]] = "previous" /\ ~Free(path[2]) /\ ~Guarded
      <4>1. path[2] = w
        BY <3>2, <3>4 DEF Paths, Kinds, Solo
      <4>2. pc[w] \notin BeforeHiding
        BY <3>4, <4>1 DEF DirInv
      <4>3. pc[w] \in {"install", "restore", "withdraw", "cleanup", "reopen",
                       "release", "unlink", "purge"} => Working(w)
        BY DEF Working, Owning
      <4>4. ~Working(w)
        <5>1. SUFFICES ASSUME Working(w) PROVE FALSE
          OBVIOUS
        <5>2. lease.held /\ lease.stale
          BY <3>4, <5>1 DEF SoloLease, Guarded
        <5>3. Ended(w)
          BY <5>2 DEF SoloLease
        <5> QED
          BY <5>1, <5>3 DEF Ended, Working, Owning
      <4>5. pc[w] \in Steps
        BY DEF TypeInv
      <4>6. pc[w] \notin Foreign
        BY DEF SoloLease
      <4> QED
        BY <4>2, <4>3, <4>4, <4>5, <4>6
           DEF Steps, BeforeHiding, BeforeStaging, Foreign, Ended
    <3>5. CASE Goto(r, "sweep")
      BY <3>5 DEF Goto, TypeInv
    <3> QED
      BY <3>1, <3>3, <3>4, <3>5
  <2>2. CASE RecoverStart(r) \/ RecoverEnd(r) \/ RecoverReap(r)
    BY <2>2 DEF RecoverStart, RecoverEnd, RecoverReap, Return, Goto, TypeInv
  <2>3. CASE RecoverRestore(r) \/ RecoverReinstate(r) \/ RecoverSupersede(r)
    BY <2>3 DEF RecoverRestore, RecoverReinstate, RecoverSupersede, SoloLease
  <2> QED
    BY <2>1, <2>2, <2>3 DEF Recover
<1>4. Ended(w) => ~Working(w)
  BY DEF Ended, Working, Owning
<1>5. \A q \in Recoverers :
        pc'[q] \in {"reap lease", "restore", "reinstate", "supersede"} => Ended(w)
  BY <1>0, <1>3 DEF SoloLease
<1> QED
  BY <1>0, <1>1, <1>2, <1>4, <1>5 DEF SoloLease, NoLease

\* A recovery deletes files of an evicted generation, of a staging directory
\* or of the hidden generation it supersedes.
LEMMA RecoverFiles ==
    ASSUME TypeInv, NEW r \in Recoverers, Recover(r), NEW g \in Generations,
           files'[g] # files[g]
    PROVE  \/ place[g] \in Evictors
           \/ place[g] = "staged" /\ pc[g] = "crashed"
           \/ pc[r] = "supersede" /\ place[g] = sweep[r].at /\ ~Free(sweep[r].at)
<1>1. CASE RecoverPath(r)
  BY <1>1, PathDeletes
<1>2. CASE RecoverSupersede(r)
  <2>1. PICK h \in At(sweep[r].at) : Remove(h)
    BY <1>2 DEF RecoverSupersede
  <2>2. h = g
    BY <2>1 DEF Remove, TypeInv
  <2> QED
    BY <1>2, <2>1, <2>2 DEF RecoverSupersede, At, Free
<1> QED
  BY <1>1, <1>2 DEF Recover, RecoverStart, RecoverReap, RecoverRestore,
                    RecoverReinstate, RecoverEnd

\* The publisher's steps.
LEMMA WriterSoloPlaces ==
    ASSUME NEW w, Solo(w), TypeInv, DirInv, SoloInv(w), Process(w)
    PROVE  SoloPlaces(w)'
<1> USE SoloFacts
<1>0. Alone(w) /\ PlaceStep(w) /\ \A r \in Recoverers : pc'[r] = pc[r]
  BY ProcessAlone, ProcessPlaces DEF Alone
<1>1. \A r \in Recoverers : pc'[r] # "supersede"
  BY <1>0, EndedStops DEF SoloInv, SoloLease
<1>2. pc'[w] \in BeforeHiding => pc[w] \in BeforeHiding
  BY NoReturn
<1>3. CASE place[w] = "final"
  <2>1. pc[w] \notin BeforeHiding /\ files[w] = Whole
    BY <1>3 DEF SoloInv, SoloPlaces
  <2>2. ~Hides(w) /\ ~Stages(w) /\ ~Reinstates
    BY <1>3, <2>1 DEF Hides, Stages, Reinstates, BeforeHiding, BeforeStaging, Free, At
  <2>3. place'[w] = "final"
    BY <1>0, <1>3, <2>2 DEF PlaceStep, Drops
  <2>4. files'[w] = files[w]
    BY <1>3, ProcessFiles DEF Solo
  <2> QED
    BY <1>1, <1>2, <2>1, <2>3, <2>4 DEF SoloPlaces
<1>4. CASE place[w] # "final"
  <2>1. place[w] \in {"absent", "staged"} /\ pc[w] # "cleanup"
        /\ (place[Old] \in {"final", w} => files[Old] = Whole)
    BY <1>4 DEF SoloInv, SoloPlaces
  <2>2. place'[w] \in {"absent", "staged", "final"}
    BY <1>0, <2>1 DEF PlaceStep, Drops, Hides, Stages, Reinstates, TypeInv
  <2>3. CASE place'[w] = "final"
    <3>1. Reinstates
      BY <1>0, <2>1, <2>3 DEF PlaceStep, Drops, Hides, Stages, TypeInv
    <3>2. place[w] = "staged"
      BY <2>1, <2>3, <3>1 DEF Reinstates, TypeInv
    <3>3. pc'[w] = "cleanup" /\ files'[w] = Whole
      <4>1. \A g \in At(w) : g = Old
        BY <2>1 DEF At
      <4>2. ~(w \in Lookers /\ Lookup(w)) /\ ~(w \in Holders /\ Lease(w))
        BY <2>3, <1>4, LookupAlone, LeaseAlone
      <4>3. Publish(w)
        BY <4>2 DEF Process, Solo
      <4>4. ~PublishRestore(w)
        BY <1>4, <2>3, <4>1 DEF PublishRestore, Move, TypeInv
      <4>5. ~PublishCleanup(w)
        BY <2>1 DEF PublishCleanup
      <4>6. PublishInstall(w)
        BY <1>4, <2>3, <4>3, <4>4, <4>5
           DEF Publish, StagingCreate, StagingWrite, StagingRefresh, StagingFail,
               PublishHide, PublishInstallFails, PublishWithdraw, PublishReopen,
               Withdraw, Move, TypeInv
      <4> QED
        BY <4>6 DEF PublishInstall, Goto, TypeInv, SoloInv, StagedInv
    <3> QED
      BY <1>1, <2>3, <3>3 DEF SoloPlaces, BeforeHiding, BeforeStaging
  <2>4. CASE place'[w] # "final"
    <3>1. pc'[w] # "cleanup"
      BY <2>1, <2>4, CleanupEntered
    <3>2. files'[Old] = files[Old]
      BY <2>1, ProcessFiles DEF Solo
    <3>3. place[Old] # "staged"
      BY DEF DirInv, Solo
    <3>4. place'[Old] \in {"final", w} => place[Old] \in {"final", w}
      <4>1. CASE Drops
        BY <4>1 DEF Drops
      <4>2. CASE Reinstates
        BY <3>3, <4>2 DEF Reinstates, TypeInv
      <4>3. CASE Hides(w)
        BY <4>3 DEF Hides
      <4>4. CASE Stages(w)
        BY <4>4 DEF Stages, TypeInv
      <4> QED
        BY <1>0, <4>1, <4>2, <4>3, <4>4 DEF PlaceStep
    <3> QED
      BY <1>1, <2>1, <2>2, <2>4, <3>1, <3>2, <3>4 DEF SoloPlaces
  <2> QED
    BY <2>3, <2>4
<1> QED
  BY <1>3, <1>4

\* The recoverers' steps.
LEMMA RecoverSoloPlaces ==
    ASSUME NEW w, Solo(w), TypeInv, DirInv, SoloInv(w), NEW r \in Recoverers, Recover(r)
    PROVE  SoloPlaces(w)'
<1> USE SoloFacts
<1>0. /\ Alone(r) /\ (Drops \/ Reinstates) /\ pc'[w] = pc[w]
      /\ \A q \in Recoverers \ {r} : pc'[q] = pc[q]
  BY RecoverAlone, RecoverPlaces DEF Alone
<1>1. place[w] \in {"absent", "staged", "final"}
  BY DEF SoloInv, SoloPlaces
<1>2. sweep[r].at \in {w, Nobody} /\ Free(Nobody)
  <2>1. sweep[r].at \in {w, Nobody}
    BY DEF TypeInv, SweepState
  <2> QED
    BY <2>1 DEF Free, At, TypeInv, Nobody
<1>3. Free(w) => Free(w)'
  BY <1>0 DEF Drops, Reinstates, Free, At, TypeInv
<1>4. place[w] = "final" => place'[w] = "final"
  BY <1>0 DEF Drops, Reinstates, TypeInv
<1>5. place[w] # "final" => place'[w] # "final"
  <2>1. SUFFICES ASSUME place[w] # "final", place'[w] = "final" PROVE FALSE
    OBVIOUS
  <2>2. RecoverReinstate(r)
    <3>1. ~RecoverPath(r)
      BY <2>1, PathDeletes
    <3>2. ~RecoverSupersede(r)
      BY <2>1 DEF RecoverSupersede, Remove, Move, TypeInv
    <3> QED
      BY <2>1, <3>1, <3>2 DEF Recover, RecoverStart, RecoverReap, RecoverRestore,
                              RecoverEnd
  <2>3. PICK g \in At(sweep[r].at) : Move(g, "final")
    BY <2>1, <2>2 DEF RecoverReinstate
  <2>4. g = w
    BY <2>1, <2>3 DEF Move, TypeInv, At
  <2> QED
    BY <1>1, <1>2, <2>3, <2>4 DEF At, Nobody
<1>6. files'[w] = files[w] \/ place[w] = "staged"
  BY <1>1, <1>2, RecoverFiles DEF Solo
<1>7. files'[Old] = files[Old] \/ place[w] = "final" \/ place[Old] \notin {"final", w}
  BY <1>2, RecoverFiles DEF Solo, SoloInv, SoloPlaces
<1>8. place'[w] \in {"absent", "staged", "final"}
  BY <1>0, <1>1 DEF Drops, Reinstates, TypeInv
<1>9. place'[Old] \in {"final", w} => place[Old] \in {"final", w}
  <2>1. CASE Drops
    BY <2>1 DEF Drops
  <2>2. CASE Reinstates
    <3>1. place[Old] # "staged"
      BY DEF DirInv, Solo
    <3> QED
      BY <2>2, <3>1 DEF Reinstates, TypeInv
  <2> QED
    BY <1>0, <2>1, <2>2
<1>10. pc'[r] = "supersede" => place'[w] = "final" \/ Free(w)'
  <2>1. CASE pc[r] = "supersede"
    BY <1>3, <1>4, <2>1 DEF SoloInv, SoloPlaces
  <2>2. CASE pc[r] # "supersede" /\ pc'[r] = "supersede"
    <3>1. ~Free("final")
      <4>1. RecoverPath(r) => \E s \in {"sweep", "restore", "reap lease"} : Goto(r, s)
        BY DEF RecoverPath
      <4> QED
        BY <2>2, <4>1
           DEF Recover, RecoverStart, RecoverReap, RecoverRestore,
               RecoverReinstate, RecoverSupersede, RecoverEnd, Return, Goto, TypeInv
    <3>2. place[w] = "final" \/ place[Old] = "final"
      BY <3>1 DEF Free, At
    <3>3. place[w] = "final" \/ Free(w)
      BY <1>1, <3>2 DEF Free, At
    <3> QED
      BY <1>3, <1>4, <3>3
  <2> QED
    BY <2>1, <2>2
<1>11. \A q \in Recoverers : pc'[q] = "supersede" => place'[w] = "final" \/ Free(w)'
  BY <1>0, <1>3, <1>4, <1>10 DEF SoloInv, SoloPlaces
<1> QED
  BY <1>0, <1>1, <1>4, <1>5, <1>6, <1>7, <1>8, <1>9, <1>11 DEF SoloInv, SoloPlaces

\* The publisher's staging, through its own steps and a recovery's: a recovery
\* deletes it only after the publisher's death.
LEMMA ProcessSoloStaged ==
    ASSUME NEW w, Solo(w), TypeInv, DirInv, SoloInv(w),
           NEW p \in Recoverers \cup {w}, Process(p)
    PROVE  StagedInv'
<1> USE SoloFacts
<1>1. SUFFICES ASSUME place'[w] = "staged"
               PROVE  /\ pc'[w] = "describe" => "payload" \in files'[w]
                      /\ pc'[w] \in {"refresh", "hide", "install"} => files'[w] = Whole
  BY DEF StagedInv, Solo
<1>2. CASE p = w
  BY <1>1, <1>2, StagingGrows DEF SoloInv
<1>3. CASE p \in Recoverers
  <2>1. Recover(p) /\ Alone(p) /\ pc'[w] = pc[w]
    BY <1>3, ProcessAlone, CacheAssumption
       DEF Process, Alone, Lookers, Holders
  <2>2. place[w] = "staged"
    BY <1>1, <1>3, <2>1, RecoverPlaces DEF Drops, Reinstates, TypeInv
  <2>3. files'[w] = files[w] \/ pc[w] = "crashed"
    <3>1. sweep[p].at # "staged"
      BY <1>3, Names DEF TypeInv, SweepState, Nobody
    <3> QED
      BY <1>3, <2>1, <2>2, <3>1, RecoverFiles DEF Solo
  <2> QED
    BY <2>1, <2>2, <2>3 DEF SoloInv, StagedInv
<1> QED
  BY <1>2, <1>3

\* The whole generation that the publisher and the recoveries leave.
LEMMA ProcessSoloWhole ==
    ASSUME NEW w, Solo(w), TypeInv, DirInv, SoloInv(w), SoloPlaces(w)',
           NEW p \in Recoverers \cup {w}, Process(p), SomethingWhole
    PROVE  SomethingWhole'
<1> USE SoloFacts
<1>0. p \in Processes /\ PlaceStep(p)
  BY ProcessPlaces
<1>1. CASE place'[w] = "final"
  BY <1>1 DEF SoloPlaces, SomethingWhole
<1>2. CASE place'[w] # "final"
  <2>1. place[w] # "final"
    <3>1. SUFFICES ASSUME place[w] = "final" PROVE FALSE
      OBVIOUS
    <3>2. pc[w] \notin BeforeHiding
      BY <3>1 DEF SoloInv, SoloPlaces
    <3>3. ~Hides(p) /\ ~Stages(p) /\ ~Reinstates
      BY <3>1, <3>2
         DEF Hides, Stages, Reinstates, BeforeHiding, BeforeStaging, Free, At, Solo
    <3> QED
      BY <1>0, <1>2, <3>1, <3>3 DEF PlaceStep, Drops
  <2>2. place[Old] \in {"final", w} /\ files[Old] = Whole
    BY <2>1 DEF SomethingWhole, SoloInv, SoloPlaces, Solo
  <2>3. files'[Old] = Whole
    <3>1. CASE p = w
      BY <2>1, <2>2, <3>1, ProcessFiles DEF SoloInv, SoloPlaces, Solo
    <3>2. CASE p \in Recoverers
      <4>1. Recover(p)
        BY <3>2, CacheAssumption DEF Process, Lookers, Holders
      <4>2. sweep[p].at \in {w, Nobody} /\ Free(Nobody)
        <5>1. sweep[p].at \in {w, Nobody}
          BY <3>2 DEF TypeInv, SweepState
        <5> QED
          BY <5>1 DEF Free, At, TypeInv, Nobody
      <4> QED
        BY <2>1, <2>2, <3>2, <4>1, <4>2, RecoverFiles DEF Solo, SoloInv, SoloPlaces
    <3> QED
      BY <3>1, <3>2
  <2>4. place'[Old] # "absent"
    <3>1. Whole # {}
      BY DEF Whole
    <3> QED
      BY <1>0, <2>2, <3>1, EmptyGoes DEF Solo
  <2>5. place'[Old] \in {"final", w}
    <3>1. CASE Drops
      BY <2>2, <2>4, <3>1 DEF Drops
    <3>2. CASE Reinstates
      BY <2>2, <3>2 DEF Reinstates, TypeInv
    <3>3. CASE Hides(p)
      BY <2>2, <3>3 DEF Hides
    <3>4. CASE Stages(p)
      BY <2>2, <3>4 DEF Stages, TypeInv, Solo
    <3> QED
      BY <1>0, <3>1, <3>2, <3>3, <3>4 DEF PlaceStep
  <2> QED
    BY <2>3, <2>5 DEF SomethingWhole, Solo
<1> QED
  BY <1>1, <1>2

\* Readers change nothing, a death ends the publisher's work, and a lease
\* grows old only after that.
LEMMA OtherSoloInv ==
    ASSUME NEW w, Solo(w), TypeInv, SoloInv(w),
           \/ \E p \in Readers : Process(p)
           \/ (\E p \in Holders : Crash(p)) \/ Age \/ Finished \/ UNCHANGED vars
    PROVE  SoloInv(w)' /\ (SomethingWhole => SomethingWhole')
<1> USE SoloFacts
<1>1. CASE \E p \in Readers : Process(p)
  <2>1. PICK p \in Readers : Process(p)
    BY <1>1
  <2>2. /\ Lookup(p) /\ p \in Lookers /\ p \in Processes /\ p # w
        /\ p \notin Recoverers
    BY <2>1, CacheAssumption DEF Process, Lookers, Holders, Processes
  <2>3. Alone(p)
    BY <2>2, <2>1, ProcessAlone
  <2>4. /\ UNCHANGED <<place, files, lease>> /\ pc'[w] = pc[w] /\ look'[w] = look[w]
        /\ \A r \in Recoverers : pc'[r] = pc[r]
    BY <2>2, <2>3, LookupAlone DEF Alone
  <2>5. (Working(w)' <=> Working(w)) /\ (Ended(w)' <=> Ended(w))
    BY <2>4 DEF Working, Owning, Ended
  <2> QED
    BY <2>4, <2>5 DEF SoloInv, SoloLease, SoloPlaces, StagedInv, Solo, SomethingWhole,
                      Free, At
<1>2. CASE \E p \in Holders : Crash(p)
  <2>1. Crash(w)
    BY <1>2
  <2>2. /\ UNCHANGED <<place, files, lease, look>> /\ pc'[w] = "crashed"
        /\ \A r \in Recoverers : pc'[r] = pc[r]
    BY <2>1 DEF Crash, Goto, TypeInv
  <2>3. ~Working(w)' /\ Ended(w)'
    BY <2>2 DEF Working, Owning, Ended
  <2>4. SoloLease(w)'
    BY <2>2, <2>3 DEF SoloInv, SoloLease, Foreign
  <2>5. pc'[w] \notin BeforeHiding
    BY <2>2 DEF BeforeHiding, BeforeStaging
  <2>6. SoloPlaces(w)'
    BY <2>2, <2>5 DEF SoloInv, SoloPlaces, Free, At
  <2>7. StagedInv' /\ (SomethingWhole => SomethingWhole')
    BY <2>2 DEF StagedInv, Solo, SomethingWhole
  <2> QED
    BY <2>4, <2>6, <2>7 DEF SoloInv
<1>3. CASE Age
  <2>1. UNCHANGED <<place, files, look, pc>> /\ lease.held /\ lease'.held /\ ~Working(w)
    BY <1>3 DEF Age, TypeInv, Working
  <2>2. Ended(w)
    BY <2>1 DEF SoloInv, SoloLease
  <2>3. ~Working(w)' /\ Ended(w)'
    BY <2>1, <2>2 DEF Working, Owning, Ended
  <2> QED
    BY <2>1, <2>2, <2>3 DEF SoloInv, SoloLease, SoloPlaces, StagedInv, Solo,
                            SomethingWhole, Free, At
<1>4. CASE Finished \/ UNCHANGED vars
  <2>1. UNCHANGED <<place, files, look, pc, lease>>
    BY <1>4 DEF Finished, vars
  <2>2. (Working(w)' <=> Working(w)) /\ (Ended(w)' <=> Ended(w))
    BY <2>1 DEF Working, Owning, Ended
  <2> QED
    BY <2>1, <2>2 DEF SoloInv, SoloLease, SoloPlaces, StagedInv, Solo,
                      SomethingWhole, Free, At
<1> QED
  BY <1>1, <1>2, <1>3, <1>4

\* Recovery loses nothing of a publication that dies: with one publisher and
\* no evictor, readers and recoverers in any number and order, and a death at
\* any step, a whole generation stays within readers' reach (cache.rs:
\* recover_shard and restore_replacement against StagingEntry::publish).
THEOREM RecoveryKeeps ==
    ASSUME NEW w, Writers = {w}, Evictors = {} PROVE Spec => NothingLost
<1> USE SoloFacts
<1>0. Solo(w)
  BY DEF Solo
<1>1. Init => SoloInv(w)
  BY <1>0, InitSoloInv
<1>2. ASSUME TypeInv, DirInv, SoloInv(w), [Next]_vars
      PROVE  SoloInv(w)' /\ (SomethingWhole => SomethingWhole')
  <2>1. CASE \E p \in Recoverers \cup {w} : Process(p)
    <3>1. PICK p \in Recoverers \cup {w} : Process(p)
      BY <2>1
    <3>2. p \in Recoverers => Recover(p)
      BY <3>1, CacheAssumption DEF Process, Lookers, Holders
    <3>3. SoloLease(w)'
      BY <1>0, <1>2, <3>1, <3>2, WriterSoloLease, RecoverSoloLease DEF SoloInv
    <3>4. SoloPlaces(w)'
      BY <1>0, <1>2, <3>1, <3>2, WriterSoloPlaces, RecoverSoloPlaces
    <3>5. StagedInv'
      BY <1>0, <1>2, <3>1, ProcessSoloStaged
    <3>6. SomethingWhole => SomethingWhole'
      BY <1>0, <1>2, <3>1, <3>4, ProcessSoloWhole
    <3> QED
      BY <3>3, <3>4, <3>5, <3>6 DEF SoloInv
  <2>2. CASE \/ \E p \in Readers : Process(p)
             \/ (\E p \in Holders : Crash(p)) \/ Age \/ Finished \/ UNCHANGED vars
    BY <1>0, <1>2, <2>2, OtherSoloInv
  <2>3. Processes = Recoverers \cup {w} \cup Readers
    BY <1>0 DEF Processes, Lookers, Holders, Solo
  <2> QED
    BY <1>2, <2>1, <2>2, <2>3 DEF Next
<1>3. TypeInv /\ DirInv /\ SoloInv(w) /\ [Next]_vars => SoloInv(w)'
  BY <1>2
<1>4. TypeInv /\ DirInv /\ SoloInv(w) /\ [Next]_vars =>
        [SomethingWhole /\ ~SomethingWhole' =>
            \E g \in Generations : place'[g] \in Evictors]_vars
  BY <1>2
<1> QED
  BY <1>1, <1>3, <1>4, Typed, Directories, PTL DEF Spec, NothingLost
=============================================================================
