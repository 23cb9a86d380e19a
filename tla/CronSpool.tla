------------------------------ MODULE CronSpool ------------------------------
(* The Cron page cannot change a job: it puts an op into a spool, which an   *)
(* executor on the host applies, and it sees the jobs through a snapshot the *)
(* host writes.  One profile.                                                *)
EXTENDS Integers, Sequences, FiniteSets

CONSTANTS
  Jobs,                  \* cron jobs
  OpIds,                 \* uuid4 names of op files, in the order of the names
  DoneLimit,             \* how many executed ops cron_ops_view lists
  MaxHostEdits

ASSUME CronAssumption == OpIds \subseteq Int /\ DoneLimit \in Nat

VARIABLES
  hostJobs, snapshot,    \* the jobs there are, and those the snapshot names
  spool, done,           \* the directories ops and done; done in order of execution
  opsPage,    \* the ops page being made, or the last one
  hostEditsLeft

cronVars == <<hostJobs, snapshot, spool, done, opsPage, hostEditsLeft>>

CronInit ==
  /\ hostJobs \in SUBSET Jobs /\ snapshot \in {hostJobs, {}}
  /\ spool = {} /\ done = <<>> /\ opsPage = [at |-> "idle"]
  /\ hostEditsLeft = MaxHostEdits

-----------------------------------------------------------------------------
(* submit_cron_op, and the host *)

Used == {o.id : o \in spool} \cup {done[i].id : i \in DOMAIN done}

\* Mutant: the job is not looked up.
ValidBlind(a, j) == TRUE

(* An empty snapshot, or none, lets every job through. *)
Valid(a, j) == a = "create" \/ snapshot = {} \/ j \in snapshot

\* Mutant: the op takes a name that may have been used before.
SubmitAnyName(id, a, j) ==
  /\ id \notin {o.id : o \in spool} /\ Valid(a, j)
  /\ spool' = spool \cup {[id |-> id, action |-> a, job |-> j, blind |-> snapshot = {},
                           raced |-> (j \in snapshot) # (j \in hostJobs)]}
  /\ UNCHANGED <<hostJobs, snapshot, done, opsPage, hostEditsLeft>>

(* blind and raced remember what the check could not know: that there was no *)
(* snapshot, or that the job had changed, or has changed since.              *)
Submit(id, a, j) ==
  /\ id \notin Used /\ Valid(a, j)
  /\ spool' = spool \cup {[id |-> id, action |-> a, job |-> j, blind |-> snapshot = {},
                           raced |-> (j \in snapshot) # (j \in hostJobs)]}
  /\ UNCHANGED <<hostJobs, snapshot, done, opsPage, hostEditsLeft>>

Raced(ops, j) == {IF o.job = j THEN [o EXCEPT !.raced = TRUE] ELSE o : o \in ops}

(* External: the executor applies an op and refreshes the snapshot. *)
Execute(o) ==
  /\ o \in spool /\ spool' = IF o.action = "run" THEN spool \ {o} ELSE Raced(spool \ {o}, o.job)
  /\ hostJobs' = CASE o.action = "create" -> hostJobs \cup {o.job}
                   [] o.action = "remove" -> hostJobs \ {o.job}
                   [] OTHER -> hostJobs
  /\ done' = Append(done, [id |-> o.id, fell |-> o.action # "create" /\ o.job \notin hostJobs,
                           blind |-> o.blind, raced |-> o.raced])
  /\ snapshot' = hostJobs'
  /\ UNCHANGED <<opsPage, hostEditsLeft>>

(* External: jobs change on the host, and the collector's timer fires. *)
HostEdit(j) ==
  /\ hostEditsLeft > 0 /\ hostEditsLeft' = hostEditsLeft - 1
  /\ hostJobs' = (hostJobs \cup {j}) \ (hostJobs \cap {j}) /\ spool' = Raced(spool, j)
  /\ UNCHANGED <<snapshot, done, opsPage>>

Collect == snapshot # hostJobs /\ snapshot' = hostJobs
           /\ UNCHANGED <<hostJobs, spool, done, opsPage, hostEditsLeft>>

-----------------------------------------------------------------------------
(* cron_ops_view: one directory, then the other *)

Ids(ops) == {o.id : o \in ops}
Newest(n) == {done[i].id : i \in {k \in DOMAIN done : k > Len(done) - n}}

\* Mutant: one executed op too few is listed.
ShownDoneShort == {id \in Used \ Ids(spool) : Cardinality({x \in Used \ Ids(spool) : x > id}) < DoneLimit - 1}

(* "sorted, reverse" sorts the names; the first DoneLimit are shown. *)
ShownDone == {id \in Used \ Ids(spool) : Cardinality({x \in Used \ Ids(spool) : x > id}) < DoneLimit}

ListOps ==
  /\ opsPage.at # "half"
  /\ opsPage' = [at |-> "half", before |-> Used, pending |-> Ids(spool)]
  /\ UNCHANGED <<hostJobs, snapshot, spool, done, hostEditsLeft>>

ListDone ==
  /\ opsPage.at = "half"
  /\ opsPage' = [at |-> "shown", before |-> opsPage.before, rows |-> opsPage.pending \cup ShownDone,
                 newest |-> Newest(DoneLimit), full |-> Len(done) > DoneLimit]
  /\ UNCHANGED <<hostJobs, snapshot, spool, done, hostEditsLeft>>

CronNext ==
  \/ \E id \in OpIds, a \in {"create", "run", "remove"}, j \in Jobs : Submit(id, a, j)
  \/ \E o \in spool : Execute(o)
  \/ \E j \in Jobs : HostEdit(j)
  \/ Collect \/ ListOps \/ ListDone

CronSpec == CronInit /\ [][CronNext]_cronVars

-----------------------------------------------------------------------------
(* Well-formed directories: an op lies in one of them. *)
CronTypeOK ==
  /\ hostJobs \cup snapshot \subseteq Jobs
  /\ \A i \in DOMAIN done : done[i].id \in OpIds /\ done[i].id \notin Ids(spool)

(* An op that found no job on the host was checked against a snapshot that   *)
(* held none, or the job changed on the host after the check (_validate_op). *)
FailuresHaveACause ==
  \A i \in DOMAIN done : done[i].fell => done[i].blind \/ done[i].raced

(* An op never disappears from the page while it goes from one directory to  *)
(* the other: every op submitted before the page was asked for is on it,     *)
(* while the executed ones are no more than it lists (cron_ops_view).        *)
OpsAreShown ==
  opsPage.at = "shown" /\ ~opsPage.full => opsPage.before \subseteq opsPage.rows

(* "Pending + recent executed ops" (cron_ops_view): the ops executed last    *)
(* are on the page.                                                          *)
RecentOpsAreShown == opsPage.at = "shown" => opsPage.newest \subseteq opsPage.rows
=============================================================================
