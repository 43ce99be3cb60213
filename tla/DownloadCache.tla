---------------------------- MODULE DownloadCache ----------------------------
(***************************************************************************)
(* The download cache and its policy (cache/downloads.rs): install sessions*)
(* that use cached artifacts under a shared lease, an index entry per      *)
(* artifact, and the collection that needs the lease exclusively and       *)
(* deletes what the size and age policy selects.  Sessions and collectors  *)
(* are separate processes; any of them may be killed between two steps.    *)
(***************************************************************************)
EXTENDS Integers, FiniteSets, SequencesExt

CONSTANTS
  Artifact,     \* cached paths
  Session,      \* processes that install
  Collector,    \* processes running `osdk cache trim` or `osdk cache clean`
  Uses,         \* Uses[s]: the artifacts session s may work on
  Size,         \* Size[a]: bytes of a complete artifact
  Limit,        \* download_cache.max_size_bytes
  MaxAge,       \* download_cache.max_age_secs; 0 never expires
  Recent,       \* RECENT_SECS
  Rank,         \* Rank[a]: the place of a's path in path order
  MaxTime, MaxOps, MaxKilled,
  Nil

Process == Session \cup Collector

ASSUME CacheAssumption ==
  /\ Uses \in [Session -> SUBSET Artifact]
  /\ IsFiniteSet(Artifact) /\ Size \in [Artifact -> Nat \ {0}]
  /\ Rank \in [Artifact -> Nat] /\ \A a, b \in Artifact : Rank[a] = Rank[b] => a = b
  /\ Limit \in Nat /\ MaxAge \in Nat /\ Recent \in Nat
  /\ MaxTime \in Nat /\ MaxOps \in Nat /\ MaxKilled \in Nat
  /\ Nil \notin Process \cup Artifact \cup [used : Nat, committed : BOOLEAN]

VARIABLES
  file,       \* file[a]: "none", "partial" or "whole"
  written,    \* written[a]: when file[a] was last written
  entry,      \* entry[a]: the index entry, or Nil
  shared,     \* the processes that hold the lease shared
  exclusive,  \* the process that holds it exclusively, or Nil
  place, op,
  failed,     \* artifacts whose last writer of the index entry failed (history)
  user,       \* user[a]: the session that last wrote a's index entry (history)
  now, ops, killed

cache == <<file, written, entry>>
history == <<failed, user>>
cacheVars == <<cache, shared, exclusive, place, op, history, now, ops, killed>>

\* The artifact of a session, whether it is offline, what a collection has still
\* to delete, the artifact it is deleting, and what it goes on with.
Idle == [art |-> Nil, offline |-> FALSE, victims |-> {}, hand |-> Nil, then |-> "idle"]

CacheTypeOK ==
  /\ file \in [Artifact -> {"none", "partial", "whole"}]
  /\ written \in [Artifact -> 0..MaxTime]
  /\ entry \in [Artifact -> [used : 0..MaxTime, committed : BOOLEAN] \cup {Nil}]
  /\ shared \in SUBSET Session /\ exclusive \in Process \cup {Nil}
  /\ place \in [Process -> {"idle", "collect", "lease", "record", "work", "finish",
                         "release", "sweep", "unindex", "clean"}]
  /\ op \in [Process -> [art : Artifact \cup {Nil}, offline : BOOLEAN,
                         victims : SUBSET Artifact, hand : Artifact \cup {Nil},
                         then : {"idle", "lease"}]]
  /\ failed \in SUBSET Artifact /\ user \in [Artifact -> Session \cup {Nil}]
  /\ now \in 0..MaxTime /\ ops \in 0..MaxOps /\ killed \in 0..MaxKilled

CacheInit ==
  /\ file = [a \in Artifact |-> "none"]
  /\ written = [a \in Artifact |-> 0]
  /\ entry = [a \in Artifact |-> Nil]
  /\ shared = {} /\ exclusive = Nil
  /\ place = [p \in Process |-> "idle"] /\ op = [p \in Process |-> Idle]
  /\ failed = {} /\ user = [a \in Artifact |-> Nil]
  /\ now = 0 /\ ops = 0 /\ killed = 0

-----------------------------------------------------------------------------
(* The policy: which entries a collection selects *)

Bytes(a) == CASE file[a] = "none" -> 0 [] file[a] = "partial" -> 1 [] OTHER -> Size[a]

Managed == {a \in Artifact : entry[a] # Nil}

\* An unfinished transfer is as recent as its last write.
LastUsed(a) ==
  IF ~entry[a].committed /\ file[a] # "none" /\ written[a] > entry[a].used
    THEN written[a] ELSE entry[a].used

Age(a) == now - LastUsed(a)
\* Mutant: an unfinished transfer is like any other.
NeverProtected(a) == FALSE
Protected(a) == ~entry[a].committed /\ Age(a) < Recent
Oversized(a) == entry[a].committed /\ (Bytes(a) > Limit \/ Limit = 0)
Expired(a, maxAge) == maxAge > 0 /\ Age(a) >= maxAge

Total(S) == FoldFunctionOnSet(LAMBDA x, y : x + y, 0, [a \in Artifact |-> Bytes(a)], S)

\* Oversized completed copies first, then the least recently used, then by path.
Before(a, b) ==
  LET oa == Oversized(a)  ob == Oversized(b) IN
  \/ oa /\ ~ob
  \/ oa = ob /\ LastUsed(a) < LastUsed(b)
  \/ oa = ob /\ LastUsed(a) = LastUsed(b) /\ Rank[a] < Rank[b]

\* Mutant: one byte over the limit is let pass.
SelectOneOver(acc, a, maxAge) ==
  IF Oversized(a) \/ (~Protected(a) /\ (Expired(a, maxAge) \/ acc.bytes > Limit + 1))
    THEN [victims |-> acc.victims \cup {a},
          bytes |-> IF Bytes(a) > acc.bytes THEN 0 ELSE acc.bytes - Bytes(a)]
    ELSE acc

\* One candidate is selected, or not, with the bytes still over the budget.
Select(acc, a, maxAge) ==
  IF Oversized(a) \/ (~Protected(a) /\ (Expired(a, maxAge) \/ acc.bytes > Limit))
    THEN [victims |-> acc.victims \cup {a},
          bytes |-> IF Bytes(a) > acc.bytes THEN 0 ELSE acc.bytes - Bytes(a)]
    ELSE acc

\* The candidates are taken in order: after[S] is what they come to once those in S are.
Selected(maxAge) ==
  LET last(S) == CHOOSE a \in S : \A b \in S \ {a} : Before(b, a)
      after[S \in SUBSET Managed] ==
        IF S = {} THEN [victims |-> {}, bytes |-> Total({a \in Managed : ~Protected(a)})]
        ELSE Select(after[S \ {last(S)}], last(S), maxAge)
  IN  after[Managed].victims

-----------------------------------------------------------------------------
(* Helpers *)

GoOn(p, from, to) == place[p] = from /\ place' = [place EXCEPT ![p] = to]

Drop(p) == shared' = shared \ {p} /\ exclusive' = IF exclusive = p THEN Nil ELSE exclusive

Resume(p) ==
  /\ place' = [place EXCEPT ![p] = op[p].then]
  /\ op' = [op EXCEPT ![p] = IF op[p].then = "idle" THEN Idle ELSE [@ EXCEPT !.then = "idle"]]

-----------------------------------------------------------------------------
(* An install session: Session::begin, run_with_attestation_inner_at, finish *)

\* Online, begin collects before it takes the lease; offline it does not.
Begin(s, a) ==
  /\ place[s] = "idle" /\ ops < MaxOps /\ ops' = ops + 1
  /\ \E off \in BOOLEAN :
       /\ place' = [place EXCEPT ![s] = IF off THEN "lease" ELSE "collect"]
       /\ op' = [op EXCEPT ![s] = [art |-> a, offline |-> off, victims |-> {},
                                   hand |-> Nil, then |-> IF off THEN "idle" ELSE "lease"]]
  /\ UNCHANGED <<cache, shared, exclusive, history, now, killed>>

\* Mutant: the lease is looked at and not taken.
AcquireNothing(s) ==
  /\ GoOn(s, "lease", "record") /\ exclusive = Nil
  /\ UNCHANGED <<cache, shared, exclusive, op, history, now, ops, killed>>

AcquireLease(s) ==
  /\ GoOn(s, "lease", "record") /\ exclusive = Nil
  /\ shared' = shared \cup {s}
  /\ UNCHANGED <<cache, exclusive, op, history, now, ops, killed>>

\* Mutant: an entry is refreshed and never added.
RecordKnown(a, committed) ==
  entry' = IF entry[a] = Nil THEN entry
           ELSE [entry EXCEPT ![a] = [used |-> now, committed |-> committed]]

Record(a, committed) == entry' = [entry EXCEPT ![a] = [used |-> now, committed |-> committed]]

\* The entry is recorded before the artifact is read or written.
RecordAccess(s) ==
  LET a == op[s].art IN
  /\ GoOn(s, "record", "work") /\ Record(a, FALSE)
  /\ user' = [user EXCEPT ![a] = s] /\ failed' = failed \ {a}
  /\ UNCHANGED <<file, written, shared, exclusive, op, now, ops, killed>>

\* The artifact is downloaded, in part or whole, or a rejected one discarded.
Work(s) ==
  LET a == op[s].art IN
  /\ place[s] = "work"
  /\ \/ file' = [file EXCEPT ![a] = "none"] /\ UNCHANGED written
     \/ /\ ~op[s].offline
        /\ \E f \in {"partial", "whole"} : file' = [file EXCEPT ![a] = f]
        /\ written' = [written EXCEPT ![a] = now]
  /\ file' # file
  /\ UNCHANGED <<entry, shared, exclusive, place, op, history, now, ops, killed>>

\* The version is installed, or another process had completed it.
Succeed(s) ==
  /\ GoOn(s, "work", "finish")
  /\ UNCHANGED <<cache, shared, exclusive, op, history, now, ops, killed>>

\* The session is dropped: the lease goes, the entry stays uncommitted.
Fail(s) ==
  LET a == op[s].art IN
  /\ place[s] = "work" /\ Drop(s)
  /\ place' = [place EXCEPT ![s] = "idle"] /\ op' = [op EXCEPT ![s] = Idle]
  /\ failed' = IF user[a] = s THEN failed \cup {a} ELSE failed
  /\ UNCHANGED <<cache, user, now, ops, killed>>

\* Session::finish: commit the entry, drop the lease, then collect.
CommitEntry(s) ==
  LET a == op[s].art IN
  /\ GoOn(s, "finish", "release") /\ Record(a, TRUE)
  /\ user' = [user EXCEPT ![a] = s] /\ failed' = failed \ {a}
  /\ UNCHANGED <<file, written, shared, exclusive, op, now, ops, killed>>

Release(s) ==
  /\ GoOn(s, "release", "collect") /\ Drop(s)
  /\ UNCHANGED <<cache, op, history, now, ops, killed>>

-----------------------------------------------------------------------------
(* collect and clean *)

BeginCollect(c) ==
  /\ place[c] = "idle" /\ ops < MaxOps /\ ops' = ops + 1
  /\ \E step \in {"collect", "clean"} : place' = [place EXCEPT ![c] = step]
  /\ UNCHANGED <<cache, shared, exclusive, op, history, now, killed>>

\* The lease is not waited for: while it is in use nothing is deleted.
Busy(p) ==
  /\ place[p] \in {"collect", "clean"} /\ (shared # {} \/ exclusive # Nil)
  /\ Resume(p)
  /\ UNCHANGED <<cache, shared, exclusive, history, now, ops, killed>>

\* An offline finish collects without an age limit.
Scan(p) ==
  /\ GoOn(p, "collect", "sweep") /\ shared = {} /\ exclusive = Nil
  /\ exclusive' = p
  /\ op' = [op EXCEPT ![p].victims = Selected(IF op[p].offline THEN 0 ELSE MaxAge)]
  /\ UNCHANGED <<cache, shared, history, now, ops, killed>>

\* The files of an entry go before its index entry.
RemoveFiles(p, a) ==
  /\ GoOn(p, "sweep", "unindex") /\ a \in op[p].victims
  /\ file' = [file EXCEPT ![a] = "none"]
  /\ op' = [op EXCEPT ![p].hand = a]
  /\ UNCHANGED <<written, entry, shared, exclusive, history, now, ops, killed>>

RemoveEntry(p) ==
  LET a == op[p].hand IN
  /\ GoOn(p, "unindex", "sweep")
  /\ entry' = [entry EXCEPT ![a] = Nil]
  /\ op' = [op EXCEPT ![p].victims = @ \ {a}, ![p].hand = Nil]
  /\ UNCHANGED <<file, written, shared, exclusive, history, now, ops, killed>>

EndCollect(p) ==
  /\ place[p] = "sweep" /\ op[p].victims = {}
  /\ Drop(p) /\ Resume(p)
  /\ UNCHANGED <<cache, history, now, ops, killed>>

\* `cache clean` deletes the files, all of them unless the walk fails on one, and
\* leaves the index.
Clean(c) ==
  /\ place[c] = "clean" /\ shared = {} /\ exclusive = Nil
  /\ \E gone \in SUBSET Artifact :
       file' = [a \in Artifact |-> IF a \in gone THEN "none" ELSE file[a]]
  /\ Resume(c)
  /\ UNCHANGED <<written, entry, shared, exclusive, history, now, ops, killed>>

-----------------------------------------------------------------------------
(* The environment *)

\* A process is killed; the operating system drops its hold on the lease.
KillProcess(p) ==
  /\ place[p] # "idle" /\ killed < MaxKilled /\ killed' = killed + 1
  /\ Drop(p) /\ place' = [place EXCEPT ![p] = "idle"] /\ op' = [op EXCEPT ![p] = Idle]
  /\ failed' = failed \cup {a \in Artifact : place[p] = "work" /\ user[a] = p /\ op[p].art = a}
  /\ UNCHANGED <<cache, user, now, ops>>

Tick ==
  /\ now < MaxTime /\ now' = now + 1
  /\ UNCHANGED <<cache, shared, exclusive, place, op, history, ops, killed>>

-----------------------------------------------------------------------------
CollectStep(p) ==
  \/ Busy(p) \/ Scan(p) \/ RemoveEntry(p) \/ EndCollect(p) \/ Clean(p)
  \/ \E a \in Artifact : RemoveFiles(p, a)

\* Succeed and Fail end the work; Work itself need not be done.
SessionStep(s) ==
  \/ AcquireLease(s) \/ RecordAccess(s) \/ Succeed(s) \/ Fail(s)
  \/ CommitEntry(s) \/ Release(s) \/ CollectStep(s)

CacheNext ==
  \/ \E s \in Session : (\E a \in Uses[s] : Begin(s, a)) \/ Work(s) \/ SessionStep(s)
  \/ \E c \in Collector : BeginCollect(c) \/ CollectStep(c)
  \/ \E p \in Process : KillProcess(p)
  \/ Tick

CacheSpec == CacheInit /\ [][CacheNext]_cacheVars

\* Every process that can move is run.
FairCacheSpec == CacheSpec /\ \A s \in Session : WF_cacheVars(SessionStep(s))
                 /\ \A c \in Collector : WF_cacheVars(CollectStep(c))

-----------------------------------------------------------------------------
(* Properties *)

\* "Locks ... protect": while a session has recorded an artifact and is still working
\* with it, no collection or clean deletes its file; only a session at work on it may.
InUseIsKept ==
  [][\A a \in Artifact, s \in Session :
       /\ file[a] # "none" /\ file'[a] = "none"
       /\ place[s] \in {"work", "finish", "release"} /\ op[s].art = a
       => \E t \in Session : Work(t) /\ op[t].art = a]_cacheVars

\* The cache can account for every file that a session left, whatever was killed:
\* a file is registered before it is written and unregistered after it is gone.
FilesAreManaged == \A a \in Artifact : file[a] # "none" => entry[a] # Nil

\* "preserving failed retries": what a session leaves when it fails is not collected
\* while it is recent, whatever the size limit says, unless another session working with
\* the same artifact has written its index entry since.
FailedRetryKept ==
  [][\A p \in Process, a \in Artifact :
       RemoveFiles(p, a) /\ a \in failed /\ file[a] # "none" => now - written[a] >= Recent]_cacheVars

\* A collection selects what brings the unprotected bytes under the limit, the least
\* recently used first, and nothing that need not go.
MeetsBudget(gone) == Total({a \in Managed \ gone : ~Protected(a)}) <= Limit
OnlyWhatMustGo(gone, maxAge) ==
  LET open == {a \in Managed : ~Protected(a)}
  IN \A a \in {b \in gone : ~Oversized(b) /\ ~Expired(b, maxAge)} :
       /\ \A b \in open \ gone : LastUsed(a) <= LastUsed(b)
       /\ Total(open \ {b \in gone : Before(b, a)}) > Limit
CollectsWhatItMust ==
  [][\A p \in Process : Scan(p) =>
       /\ MeetsBudget(op'[p].victims)
       /\ OnlyWhatMustGo(op'[p].victims, IF op[p].offline THEN 0 ELSE MaxAge)]_cacheVars

\* Every command ends, however the lease is fought for.
CommandsEnd == \A p \in Process : place[p] # "idle" ~> place[p] = "idle"

=============================================================================
