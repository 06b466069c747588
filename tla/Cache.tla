-------------------------------- MODULE Cache --------------------------------
(***************************************************************************)
(* The directories of one cache key and the processes that work on them    *)
(* (cache.rs): publishers replace the entry under a writer lease, readers  *)
(* look it up without one, evictors remove it and recoverers clean up what *)
(* crashed processes left.  Nothing but the file system is shared: every   *)
(* system call that another process can notice is a step of its own.       *)
(*                                                                         *)
(* A generation is one payload with the envelope that describes it.  Its   *)
(* directory moves by renames: staged -> final -> hidden under the name    *)
(* `previous-' of the process that replaces it, or the name `evicted-' of  *)
(* the process that evicts it -> gone.  Clocks are left out: a wait may    *)
(* time out whenever it has to go on, and a lease grows stale in a step.   *)
(***************************************************************************)
EXTENDS Naturals, FiniteSets

CONSTANTS
    Writers, Readers, Evictors, Recoverers, \* processes, each doing one call
    Old,           \* the generation that may be there from the start
    Contract,      \* the CacheCompatibility of each writer, reader and Old
    Length,        \* the payload length of each generation
    Trusting,      \* the readers that use CacheValidation::TrustedMetadata
    InitialEntry,  \* the entries the key may start with
    MaxCrashes,    \* how many processes may die
    Quiet          \* whether recovery waits until everybody else has ended

Generations == Writers \cup {Old}
Lookers == Writers \cup Readers
Holders == Writers \cup Evictors
Processes == Lookers \cup Holders \cup Recoverers
Nobody == "nobody"
Whole == {"payload", "metadata"}

ASSUME CacheAssumption ==
    /\ Old \notin Writers
    /\ Writers \cap (Readers \cup Evictors \cup Recoverers) = {}
    /\ Readers \cap (Evictors \cup Recoverers) = {}
    /\ Evictors \cap Recoverers = {}
    /\ Processes \cap {"absent", "staged", "final", Nobody} = {}
    /\ DOMAIN Contract = Lookers \cup {Old}
    /\ Length \in [Generations -> Nat]
    /\ Trusting \subseteq Readers
    /\ InitialEntry \subseteq {"none", "intact", "corrupt"}
    /\ MaxCrashes \in Nat /\ Quiet \in BOOLEAN

VARIABLES
    place,     \* where each generation's directory is
    files,     \* the complete files in it
    corrupt,   \* the generations whose payload does not match its digest
    lease,     \* the lease directory: there, its owner file, heartbeat, age
    pc,        \* each process's next step
    look,      \* each lookup's state
    sweep,     \* each recoverer's remaining paths and current path
    result,    \* what each call returned
    unseen,    \* history: a reader's lookup met a moment with nothing to find
    crossed    \* history: the writers that were replacing during a lookup

vars == <<place, files, corrupt, lease, pc, look, sweep, result, unseen, crossed>>

NoLease == [held |-> FALSE, owner |-> Nobody, beat |-> FALSE, stale |-> FALSE]

-----------------------------------------------------------------------------
(* The file system *)

\* The generation whose directory has the given name, as a set.
At(name) == {g \in Generations : place[g] = name}

\* A rename onto a directory that is there and not empty fails.
Free(name) == At(name) = {}

Move(g, name) == place' = [place EXCEPT ![g] = name]

\* remove_dir_all, one file after the other; a reader may look in between.
Remove(g) ==
    \/ \E f \in files[g] :
          files' = [files EXCEPT ![g] = @ \ {f}] /\ UNCHANGED place
    \/ files[g] = {} /\ Move(g, "absent") /\ UNCHANGED files

Goto(p, step) == pc' = [pc EXCEPT ![p] = step]

Return(p, value, step) ==
    /\ result' = [result EXCEPT ![p] = value]
    /\ Goto(p, step)

Error == [kind |-> "error", envelope |-> Nobody, payload |-> Nobody]
Value(kind, envelope, payload) ==
    [kind |-> kind, envelope |-> envelope, payload |-> payload]

-----------------------------------------------------------------------------
(* lookup_with_validation_and_cancellation, and lookup_entry_path *)

LookAt(p, stage, name, todo) ==
    /\ look' = [look EXCEPT ![p] = [@ EXCEPT !.stage = stage, !.at = name,
                                             !.todo = todo]]
    /\ Goto(p, "envelope")
    /\ UNCHANGED result

\* What a lookup's end means: the call's result for a reader, the end of the
\* call or the way to the lease for a writer, and under the lease the release
\* or the publication.
LookEnd(p, value) ==
    /\ CASE p \in Readers -> Return(p, value, "done")
         [] p \in Writers /\ look[p].goal = "publish" ->
              IF value.kind = "hit" THEN Return(p, value, "done")
              ELSE Goto(p, "create") /\ UNCHANGED result
         [] OTHER ->
              IF value.kind = "hit" THEN Return(p, value, "release")
              ELSE Goto(p, "stage") /\ UNCHANGED result
    /\ UNCHANGED look

Miss == Value("miss", Nobody, Nobody)

\* Mutant of LookOn: the entry is not looked at again at the end.
LookOnOnce(p) ==
    LET l == look[p] IN
    CASE l.stage = "first" -> Goto(p, "scan") /\ UNCHANGED <<look, result>>
      [] l.stage \in {"retry", "previous"} /\ l.todo # {} ->
            \E w \in l.todo : LookAt(p, "previous", w, l.todo \ {w})
      [] OTHER -> LookEnd(p, Miss)

\* The path has nothing to offer: the final path first, then the hidden
\* generations that were listed after that, the final path before them and
\* once more at the end.
LookOn(p) ==
    LET l == look[p] IN
    CASE l.stage = "first" -> Goto(p, "scan") /\ UNCHANGED <<look, result>>
      [] l.stage \in {"retry", "previous"} /\ l.todo # {} ->
            \E w \in l.todo : LookAt(p, "previous", w, l.todo \ {w})
      [] l.stage \in {"retry", "previous"} /\ l.todo = {} ->
            LookAt(p, "last", "final", {})
      [] OTHER -> LookEnd(p, Miss)

\* The directory, its envelope and the comparisons with what is expected.
LookEnvelope(p) ==
    LET found == {g \in At(look[p].at) : /\ "metadata" \in files[g]
                                         /\ Contract[g] = Contract[p]}
    IN
    /\ pc[p] = "envelope"
    /\ IF found = {} THEN LookOn(p)
       ELSE /\ look' = [look EXCEPT ![p].seen = CHOOSE g \in found : TRUE]
            /\ Goto(p, "payload") /\ UNCHANGED result
    /\ UNCHANGED <<place, files, corrupt, lease, sweep>>

\* Mutant of Validates: every reader trusts the envelope.
ValidatesLength(p, envelope, payload) == Length[payload] = Length[envelope]

\* The length and, unless the envelope is trusted, the digest.
Validates(p, envelope, payload) ==
    /\ Length[payload] = Length[envelope]
    /\ p \notin Trusting => payload = envelope /\ payload \notin corrupt

\* The payload is opened by path, in whatever directory is there by now; the
\* bytes behind the open handle cannot change any more.
LookPayload(p) ==
    LET seen == look[p].seen
        found == {g \in At(look[p].at) : /\ "payload" \in files[g]
                                         /\ Validates(p, seen, g)}
    IN
    /\ pc[p] = "payload"
    /\ IF found = {} THEN LookOn(p)
       ELSE LookEnd(p, Value("hit", seen, CHOOSE g \in found : TRUE))
    /\ UNCHANGED <<place, files, corrupt, lease, sweep>>

\* Mutant of LookScan: no hidden generation is looked for.
LookScanNothing(p) ==
    /\ pc[p] = "scan"
    /\ LookAt(p, "retry", "final", {})
    /\ UNCHANGED <<place, files, corrupt, lease, sweep>>

\* Mutant of LookScan: evicted generations are listed as well.
LookScanEvicted(p) ==
    /\ pc[p] = "scan"
    /\ LookAt(p, "retry", "final", {q \in Holders : ~Free(q)})
    /\ UNCHANGED <<place, files, corrupt, lease, sweep>>

\* replacement_paths lists the hidden generations.
LookScan(p) ==
    /\ pc[p] = "scan"
    /\ LookAt(p, "retry", "final", {w \in Writers : ~Free(w)})
    /\ UNCHANGED <<place, files, corrupt, lease, sweep>>

LookStart(p) ==
    /\ pc[p] = "start" /\ p \in Lookers
    /\ Goto(p, "envelope")
    /\ UNCHANGED <<place, files, corrupt, lease, look, sweep, result>>

Lookup(p) == LookStart(p) \/ LookEnvelope(p) \/ LookPayload(p) \/ LookScan(p)

-----------------------------------------------------------------------------
(* WriterLease *)

\* Mutant of LeaseCreate: the directory may be there already.
LeaseCreateAnyway(p) ==
    /\ pc[p] = "create"
    /\ lease' = [NoLease EXCEPT !.held = TRUE]
    /\ Goto(p, "owner")
    /\ UNCHANGED <<place, files, corrupt, look, sweep, result>>

\* create_dir succeeds for one process only.
LeaseCreate(p) ==
    /\ pc[p] = "create" /\ ~lease.held
    /\ lease' = [NoLease EXCEPT !.held = TRUE]
    /\ Goto(p, "owner")
    /\ UNCHANGED <<place, files, corrupt, look, sweep, result>>

\* The owner file, then the heartbeat, go into whatever lease directory is
\* there; without one the new lease is given up.
LeaseInitialize(p) ==
    /\ pc[p] \in {"owner", "beat"}
    /\ IF ~lease.held THEN Goto(p, "abort") /\ UNCHANGED lease
       ELSE IF pc[p] = "owner"
       THEN lease' = [lease EXCEPT !.owner = p] /\ Goto(p, "beat")
       ELSE /\ lease' = [lease EXCEPT !.beat = TRUE, !.stale = FALSE]
            /\ Goto(p, IF p \in Writers THEN "envelope" ELSE "evict")
    /\ look' = IF pc[p] = "beat" /\ lease.held /\ p \in Writers
               THEN [look EXCEPT ![p] = [@ EXCEPT !.goal = "recheck",
                        !.stage = "first", !.at = "final", !.todo = {}]]
               ELSE look
    /\ UNCHANGED <<place, files, corrupt, sweep, result>>

\* A waiter looks at the age of the lease.  A fresh one makes it wait, until
\* lease_wait has passed.
LeaseContended(p) ==
    /\ pc[p] = "create" /\ lease.held
    /\ IF lease.stale THEN Goto(p, "reap") /\ UNCHANGED result
       ELSE Return(p, Error, "done")
    /\ UNCHANGED <<place, files, corrupt, lease, look, sweep>>

\* Mutant of LeaseReap: the directory stays.
LeaseReapNothing(p) ==
    /\ pc[p] \in {"reap", "abort"}
    /\ IF pc[p] = "reap" THEN Goto(p, "create") /\ UNCHANGED result
       ELSE Return(p, Error, "done")
    /\ UNCHANGED <<place, files, corrupt, lease, look, sweep>>

\* reap_directory renames what is now at the lease path, then deletes it.
LeaseReap(p) ==
    /\ pc[p] \in {"reap", "abort"}
    /\ lease' = NoLease
    /\ IF pc[p] = "reap" THEN Goto(p, "create") /\ UNCHANGED result
       ELSE Return(p, Error, "done")
    /\ UNCHANGED <<place, files, corrupt, look, sweep>>

\* refresh: the lease still names this process.
StillOwner(p) == lease.held /\ lease.owner = p

\* WriterLease::drop compares the owner, then renames the lease away.
LeaseRelease(p) ==
    /\ pc[p] = "release"
    /\ Goto(p, IF StillOwner(p) THEN "unlink" ELSE "done")
    /\ UNCHANGED <<place, files, corrupt, lease, look, sweep, result>>

LeaseUnlink(p) ==
    /\ pc[p] = "unlink"
    /\ lease' = NoLease
    /\ Goto(p, "done")
    /\ UNCHANGED <<place, files, corrupt, look, sweep, result>>

Lease(p) ==
    \/ LeaseCreate(p) \/ LeaseInitialize(p) \/ LeaseContended(p)
    \/ LeaseReap(p) \/ LeaseRelease(p) \/ LeaseUnlink(p)

-----------------------------------------------------------------------------
(* publish_reader after its second lookup, and StagingEntry *)

\* An error before the publication: the staging directory is removed and the
\* lease released.  StagingEntry::drop does the first, WriterLease::drop the
\* second.
Withdraw(p) ==
    /\ place' = [place EXCEPT ![p] = IF @ = "staged" THEN "absent" ELSE @]
    /\ files' = [files EXCEPT ![p] = IF place[p] = "staged" THEN {} ELSE @]
    /\ Return(p, Error, "release")

StagingCreate(p) ==
    /\ pc[p] = "stage"
    /\ Move(p, "staged")
    /\ Goto(p, "write")
    /\ UNCHANGED <<files, corrupt, lease, look, sweep, result>>

\* write_payload and write_envelope: the lease is refreshed before the bytes
\* are written, and again between the envelope and the publication.
StagingWrite(p) ==
    /\ pc[p] \in {"write", "describe"} /\ place[p] = "staged"
    /\ IF pc[p] = "write"
       THEN /\ StillOwner(p)
            /\ lease' = [lease EXCEPT !.stale = FALSE]
            /\ files' = [files EXCEPT ![p] = @ \cup {"payload"}]
            /\ Goto(p, "describe")
       ELSE /\ files' = [files EXCEPT ![p] = @ \cup {"metadata"}]
            /\ Goto(p, "refresh")
            /\ UNCHANGED lease
    /\ UNCHANGED <<place, corrupt, look, sweep, result>>

StagingRefresh(p) ==
    /\ pc[p] = "refresh" /\ StillOwner(p)
    /\ lease' = [lease EXCEPT !.stale = FALSE]
    /\ Goto(p, "hide")
    /\ UNCHANGED <<place, files, corrupt, look, sweep, result>>

\* The lease was lost, the caller's reader or the disk failed, or the caller
\* cancelled.
StagingFail(p) ==
    /\ pc[p] \in {"write", "describe", "refresh", "hide"}
    /\ Withdraw(p)
    /\ UNCHANGED <<corrupt, lease, look, sweep>>

\* Mutant of PublishHide: the old generation is deleted, not hidden.
PublishDelete(p) ==
    /\ pc[p] = "hide"
    /\ place' = [g \in Generations |->
                    IF place[g] = "final" THEN "absent" ELSE place[g]]
    /\ Goto(p, "install")
    /\ UNCHANGED <<files, corrupt, lease, look, sweep, result>>

\* StagingEntry::publish: the first rename.
PublishHide(p) ==
    /\ pc[p] = "hide"
    /\ place' = [g \in Generations |->
                    IF place[g] = "final" THEN p ELSE place[g]]
    /\ Goto(p, "install")
    /\ UNCHANGED <<files, corrupt, lease, look, sweep, result>>

\* The second rename.
PublishInstall(p) ==
    /\ pc[p] = "install" /\ place[p] = "staged" /\ Free("final")
    /\ Move(p, "final")
    /\ Goto(p, "cleanup")
    /\ UNCHANGED <<files, corrupt, lease, look, sweep, result>>

PublishInstallFails(p) ==
    /\ pc[p] = "install"
    /\ Goto(p, "restore")
    /\ UNCHANGED <<place, files, corrupt, lease, look, sweep, result>>

\* The hidden generation is put back; whether that worked is ignored.
PublishRestore(p) ==
    /\ pc[p] = "restore"
    /\ \/ \E g \in At(p) : Free("final") /\ Move(g, "final")
       \/ UNCHANGED place
    /\ Goto(p, "withdraw")
    /\ UNCHANGED <<files, corrupt, lease, look, sweep, result>>

PublishWithdraw(p) ==
    /\ pc[p] = "withdraw"
    /\ Withdraw(p)
    /\ UNCHANGED <<corrupt, lease, look, sweep>>

\* The hidden generation is deleted.
PublishCleanup(p) ==
    /\ pc[p] = "cleanup"
    /\ IF Free(p) THEN Goto(p, "reopen") /\ UNCHANGED <<place, files>>
       ELSE (\E g \in At(p) : Remove(g)) /\ UNCHANGED pc
    /\ UNCHANGED <<corrupt, lease, look, sweep, result>>

\* open_published_entry opens the final payload and compares its length.
PublishReopen(p) ==
    LET found == {g \in At("final") : /\ "payload" \in files[g]
                                      /\ Length[g] = Length[p]}
    IN
    /\ pc[p] = "reopen"
    /\ Return(p, IF found = {} THEN Error
                 ELSE Value("published", p, CHOOSE g \in found : TRUE),
              "release")
    /\ UNCHANGED <<place, files, corrupt, lease, look, sweep>>

Publish(p) ==
    \/ StagingCreate(p) \/ StagingWrite(p) \/ StagingRefresh(p)
    \/ StagingFail(p) \/ PublishHide(p) \/ PublishInstall(p)
    \/ PublishInstallFails(p) \/ PublishRestore(p) \/ PublishWithdraw(p)
    \/ PublishCleanup(p) \/ PublishReopen(p)

-----------------------------------------------------------------------------
(* evict *)

EvictStart(p) ==
    /\ p \in Evictors /\ pc[p] = "start"
    /\ Goto(p, "create")
    /\ UNCHANGED <<place, files, corrupt, lease, look, sweep, result>>

\* The entry is hidden by one rename, or there is none.
EvictHide(p) ==
    /\ pc[p] = "evict"
    /\ IF Free("final")
       THEN Return(p, Value("none", Nobody, Nobody), "release") /\ UNCHANGED place
       ELSE /\ \E g \in At("final") : Move(g, p)
            /\ Goto(p, "purge") /\ UNCHANGED result
    /\ UNCHANGED <<files, corrupt, lease, look, sweep>>

\* The hidden directory is deleted; a recoverer may have been faster.
EvictPurge(p) ==
    /\ pc[p] = "purge"
    /\ Return(p, IF Free(p) THEN Error ELSE Value("evicted", Nobody, Nobody),
              "release")
    /\ place' = [g \in Generations |->
                    IF place[g] = p THEN "absent" ELSE place[g]]
    /\ files' = [g \in Generations |-> IF place[g] = p THEN {} ELSE files[g]]
    /\ UNCHANGED <<corrupt, lease, look, sweep>>

Evict(p) == EvictStart(p) \/ EvictHide(p) \/ EvictPurge(p)

-----------------------------------------------------------------------------
(* recover_stale: recover_shard and restore_replacement *)

\* The paths of a listing that recovery looks at, in name order by kind.
Kinds == <<"evicted", "lease", "previous", "tmp">>

\* Mutant of Listing: interrupted staging is not looked for.
ListingUnstaged ==
         {<<1, e>> : e \in {q \in Evictors : ~Free(q)}}
    \cup (IF lease.held THEN {<<2, Nobody>>} ELSE {})
    \cup {<<3, w>> : w \in {q \in Writers : ~Free(q)}}

Listing ==
         {<<1, e>> : e \in {q \in Evictors : ~Free(q)}}
    \cup (IF lease.held THEN {<<2, Nobody>>} ELSE {})
    \cup {<<3, w>> : w \in {q \in Writers : ~Free(q)}}
    \cup {<<4, w>> : w \in {q \in Writers : place[q] = "staged"}}

Ended(p) == pc[p] \in {"done", "crashed"}

RecoverStart(r) ==
    /\ r \in Recoverers /\ pc[r] = "start"
    /\ Quiet => /\ \A p \in Lookers \cup Holders : Ended(p)
                /\ lease.held => lease.stale
                /\ \A q \in Recoverers : pc[q] \in {"start", "done"}
    /\ sweep' = [sweep EXCEPT ![r].todo = Listing]
    /\ Goto(r, "sweep")
    /\ UNCHANGED <<place, files, corrupt, lease, look, result>>

\* A live lease protects what its key has hidden and staged.
Guarded == lease.held /\ ~lease.stale

\* The next path of the listing, if it is still there and stale: a writer's
\* staging directory is once the writer is dead, and a hidden generation,
\* which keeps the age it had when it was published, may always be.
RecoverPath(r) ==
    /\ pc[r] = "sweep"
    /\ \E path \in sweep[r].todo :
         LET kind == Kinds[path[1]]
             p == path[2]
         IN
         /\ \A other \in sweep[r].todo : path[1] <= other[1]
         /\ sweep' = [sweep EXCEPT ![r] = [todo |-> @.todo \ {path}, at |-> p]]
         /\ Goto(r, CASE kind = "lease" /\ lease.held /\ lease.stale -> "reap lease"
                      [] kind = "previous" /\ ~Free(p) /\ ~Guarded -> "restore"
                      [] OTHER -> "sweep")
         /\ LET gone == CASE kind = "evicted" -> At(p)
                          [] kind = "tmp" /\ place[p] = "staged"
                             /\ pc[p] = "crashed" /\ ~Guarded -> {p}
                          [] OTHER -> {}
            IN  /\ place' = [g \in Generations |->
                                IF g \in gone THEN "absent" ELSE place[g]]
                /\ files' = [g \in Generations |->
                                IF g \in gone THEN {} ELSE files[g]]
    /\ UNCHANGED <<corrupt, lease, look, result>>

RecoverReap(r) ==
    /\ pc[r] = "reap lease"
    /\ lease' = NoLease
    /\ Goto(r, "sweep")
    /\ UNCHANGED <<place, files, corrupt, look, sweep, result>>

\* restore_replacement: a final entry supersedes the hidden one, otherwise the
\* hidden one becomes the entry again.
RecoverRestore(r) ==
    /\ pc[r] = "restore"
    /\ Goto(r, IF Free("final") THEN "reinstate" ELSE "supersede")
    /\ UNCHANGED <<place, files, corrupt, lease, look, sweep, result>>

RecoverReinstate(r) ==
    /\ pc[r] = "reinstate"
    /\ \/ Free(sweep[r].at) /\ Goto(r, "sweep") /\ UNCHANGED place
       \/ /\ Free("final") /\ Goto(r, "sweep")
          /\ \E g \in At(sweep[r].at) : Move(g, "final")
       \/ /\ ~Free("final") /\ ~Free(sweep[r].at)
          /\ Goto(r, "supersede") /\ UNCHANGED place
    /\ UNCHANGED <<files, corrupt, lease, look, sweep, result>>

\* Removing a hidden generation; it is an error if somebody else did it.
RecoverSupersede(r) ==
    /\ pc[r] = "supersede"
    /\ IF Free(sweep[r].at)
       THEN Return(r, Error, "done") /\ UNCHANGED <<place, files>>
       ELSE /\ \E g \in At(sweep[r].at) :
                  /\ Remove(g)
                  /\ Goto(r, IF files[g] = {} THEN "sweep" ELSE "supersede")
            /\ UNCHANGED result
    /\ UNCHANGED <<corrupt, lease, look, sweep>>

RecoverEnd(r) ==
    /\ pc[r] = "sweep" /\ sweep[r].todo = {}
    /\ Return(r, Value("recovered", Nobody, Nobody), "done")
    /\ UNCHANGED <<place, files, corrupt, lease, look, sweep>>

Recover(r) ==
    \/ RecoverStart(r) \/ RecoverPath(r) \/ RecoverReap(r) \/ RecoverRestore(r)
    \/ RecoverReinstate(r) \/ RecoverSupersede(r) \/ RecoverEnd(r)

-----------------------------------------------------------------------------
(* Crashes, time and the whole system *)

\* The steps of a process between a successful acquire and the end of drop,
\* and the two writes before acquire returns.
Owning(p) ==
    \/ pc[p] \in {"evict", "purge", "stage", "write", "describe", "refresh",
                  "hide", "install", "restore", "withdraw", "cleanup",
                  "reopen", "release", "unlink"}
    \/ p \in Writers /\ look[p].goal = "recheck"
       /\ pc[p] \in {"envelope", "payload", "scan"}

\* A process dies while it owns the lease or is about to.
Crash(p) ==
    /\ (Owning(p) \/ pc[p] \in {"owner", "beat"})
    /\ Cardinality({q \in Holders : pc[q] = "crashed"}) < MaxCrashes
    /\ Goto(p, "crashed")
    /\ UNCHANGED <<place, files, corrupt, lease, look, sweep, result>>

\* stale_after passes without a heartbeat.  Processes that live are taken to
\* be faster than that.
Age ==
    /\ lease.held /\ ~lease.stale
    /\ \A p \in Holders : ~Owning(p) /\ pc[p] \notin {"owner", "beat"}
    /\ lease' = [lease EXCEPT !.stale = TRUE]
    /\ UNCHANGED <<place, files, corrupt, pc, look, sweep, result>>

\* A complete, uncorrupted generation that a reader of this contract accepts
\* is reachable.
Available(p) ==
    \E g \in Generations :
        /\ place[g] \in {"final"} \cup Writers /\ files[g] = Whole
        /\ g \notin corrupt /\ Contract[g] = Contract[p]

Process(p) ==
    \/ p \in Lookers /\ Lookup(p)
    \/ p \in Holders /\ Lease(p)
    \/ p \in Writers /\ Publish(p)
    \/ p \in Evictors /\ Evict(p)
    \/ p \in Recoverers /\ Recover(p)

\* A publication that has begun to rename and has not removed what it hid.
Replacing == {w \in Writers : pc[w] \in {"install", "restore", "cleanup"}}

\* The history of the readers' lookups that are under way.
Looking(r) == pc'[r] # "start" /\ pc[r] # "done"
Observe ==
    /\ unseen' = [r \in Readers |->
                     unseen[r] \/ (Looking(r) /\ ~Available(r)')]
    /\ crossed' = [r \in Readers |->
                      crossed[r] \cup (IF Looking(r) THEN Replacing' ELSE {})]

\* Every process has ended and the lease, if one is left, is old.
Finished ==
    /\ \A p \in Processes : Ended(p)
    /\ lease.held => lease.stale
    /\ UNCHANGED vars

Next ==
    \/ \E p \in Processes : Process(p) /\ Observe
    \/ \E p \in Holders : Crash(p) /\ Observe
    \/ Age /\ Observe
    \/ Finished

Init ==
    \E entry \in InitialEntry :
        /\ place = [g \in Generations |->
                       IF g = Old /\ entry # "none" THEN "final" ELSE "absent"]
        /\ files = [g \in Generations |->
                       IF g = Old /\ entry # "none" THEN Whole ELSE {}]
        /\ corrupt = IF entry = "corrupt" THEN {Old} ELSE {}
        /\ lease = NoLease
        /\ pc = [p \in Processes |-> "start"]
        /\ look = [p \in Lookers |->
                      [goal |-> "publish", stage |-> "first", at |-> "final",
                       todo |-> {}, seen |-> Old]]
        /\ sweep = [r \in Recoverers |-> [todo |-> {}, at |-> Nobody]]
        /\ result = [p \in Processes |-> Value("none", Nobody, Nobody)]
        /\ unseen = [r \in Readers |-> FALSE]
        /\ crossed = [r \in Readers |-> {}]

Spec == Init /\ [][Next]_vars

\* Live processes keep running, and time passes.
FairSpec ==
    /\ Spec
    /\ \A p \in Processes : WF_vars(Process(p) /\ Observe)
    /\ WF_vars(Age /\ Observe)

-----------------------------------------------------------------------------
(* Properties *)

\* Directories, the lease and the lookups have their types; in particular a
\* lookup only ever visits the entry and the generations hidden behind it.
TypeOK ==
    /\ place \in [Generations -> {"absent", "staged", "final"} \cup Holders]
    /\ files \in [Generations -> SUBSET Whole]
    /\ corrupt \subseteq {Old}
    /\ lease \in [held : BOOLEAN, owner : Holders \cup {Nobody},
                  beat : BOOLEAN, stale : BOOLEAN]
    /\ \A p \in Lookers :
          /\ look[p].goal \in {"publish", "recheck"}
          /\ look[p].stage \in {"first", "retry", "previous", "last"}
          /\ look[p].at \in {"final"} \cup Writers
          /\ look[p].todo \subseteq Writers /\ look[p].seen \in Generations

\* A lookup that validates returns the payload its envelope describes, whole,
\* and of the contract it was asked for, whatever is renamed or deleted
\* between its reads.
HitWhole(p) ==
    result[p].kind = "hit" =>
        /\ result[p].envelope = result[p].payload
        /\ result[p].payload \notin corrupt
        /\ Contract[result[p].envelope] = Contract[p]

\* So every hit is whole if no reader trusts the envelope; every writer
\* validates.
HitsAreWhole == \A p \in Lookers : HitWhole(p)

\* CachePublication::Published: "this caller atomically published the
\* returned entry", although only the length is compared on reopening.
PublishedIsOwn ==
    \A w \in Writers : result[w].kind = "published" => result[w].payload = w

\* At most one process works under the lease of the key at a time.
LeaseExclusive == Cardinality({p \in Holders : Owning(p)}) <= 1

\* Only an eviction takes the last complete generation out of readers' reach:
\* no publication, failure, crash or recovery does.
SomethingWhole ==
    \E g \in Generations :
        place[g] \in {"final"} \cup Writers /\ files[g] = Whole

NothingLost ==
    [][SomethingWhole /\ ~SomethingWhole' =>
          \E g \in Generations : place'[g] \in Evictors]_vars

\* "Publication has no logical visibility gap" (lookup_with_validation_and_
\* cancellation) as far as one publication goes: if at most one renames while
\* a lookup runs, then wherever it, its failure or its death moves the entry
\* between the steps of the lookup, the lookup misses only if at some moment
\* there was nothing it could have found.  Two may hide an entry from it, the
\* first by renames that it undoes, the second by those that follow.
OneReplacementVisible ==
    \A r \in Readers :
        result[r].kind = "miss" /\ Cardinality(crossed[r]) <= 1 => unseen[r]

\* Recovery after everybody has ended leaves nothing but the entry itself.
RecoveryCleans ==
    Quiet => \A r \in Recoverers : result[r].kind = "recovered" =>
        /\ \A g \in Generations : place[g] \in {"final", "absent"}
        /\ ~lease.held

\* Every call returns, also behind a lease whose owner died.
CallsReturn == \A p \in Processes : <>Ended(p)
=============================================================================
