-------------------------- MODULE AccountDeletion --------------------------
(***************************************************************************)
(* One user's account deletions and data exports: privacy.service.ts, the  *)
(* hourly worker of cleanup-schedular.ts, and the retention job's purges.  *)
(*                                                                         *)
(* The worker anonymises the account table by table, each an await of its  *)
(* own; its batches may overlap, fail or die anywhere and start again.     *)
(***************************************************************************)
EXTENDS Naturals, FiniteSets

CONSTANTS
  Deletions,     \* ids of deletion requests
  Exports,       \* ids of data exports
  Transient,     \* the tables the worker empties; nothing retains their rows
  Workers,       \* how many batches may overlap
  Clients,       \* how many requests of the user's may overlap
  MaxFailures    \* how many calls may fail, or runs die

ASSUME TransientAssumption == Transient \cap {"users", "profiles"} = {}
ASSUME BoundsAssumption == MaxFailures \in Nat

VARIABLES
  deletion,   \* the account_deletions rows
  export,     \* the data_exports rows, and where the generation of each is
  held,       \* tables with personal data of the time before the account closed
  open,       \* the user has a booking that is Pending, Confirmed or Disputed
  worker,     \* where each batch is
  client,     \* where each request of the user's is
  failures

vars == <<deletion, export, held, open, worker, client, failures>>

Tables == {"users", "profiles"} \cup Transient

\* due: its cancel_expires_at has passed.
NoDeletion == [status |-> "absent", due |-> FALSE]
NoExport == [status |-> "absent", job |-> "none", copied |-> FALSE, payload |-> FALSE]

Resting == [pc |-> "idle", on |-> {}, done |-> {}]
Idle == [pc |-> "idle", on |-> {}]

Runs(w, to) == worker' = [worker EXCEPT ![w] = to]
Goes(c, to) == client' = [client EXCEPT ![c] = to]

Fault == failures < MaxFailures /\ failures' = failures + 1
NoFault == UNCHANGED failures

Pending == {d \in Deletions : deletion[d].status = "pending"}
Due == {d \in Pending : deletion[d].due}

Becomes(d, status) == deletion' = [deletion EXCEPT ![d].status = status]

-----------------------------------------------------------------------------
\* requestAccountDeletion: the obligations, then an open request, then the insert.

requestAccountDeletion(c) ==
  /\ client[c] = Idle
  /\ ~open
  /\ Goes(c, [pc |-> "lookup", on |-> {}])
  /\ UNCHANGED <<deletion, export, held, open, worker, failures>>

\* An error of this read is ignored.
LookUp(c) ==
  /\ client[c].pc = "lookup"
  /\ \/ Pending # {} /\ Goes(c, Idle) /\ NoFault
     \/ Pending = {} /\ Goes(c, [pc |-> "insert", on |-> {}]) /\ NoFault
     \/ Goes(c, [pc |-> "insert", on |-> {}]) /\ Fault
  /\ UNCHANGED <<deletion, export, held, open, worker>>

\* Mutant of Insertable: no index keeps a second request out.
Insertable_any(d) == deletion[d] = NoDeletion

\* idx_account_deletions_one_pending_per_user.
Insertable(d) == deletion[d] = NoDeletion /\ Pending = {}

InsertDeletion(c) ==
  /\ client[c].pc = "insert"
  /\ \/ /\ \E d \in Deletions : Insertable(d) /\ Becomes(d, "pending")
        /\ NoFault \/ Fault
     \/ Pending # {} /\ UNCHANGED deletion /\ NoFault
     \/ UNCHANGED deletion /\ Fault
  /\ Goes(c, Idle)
  /\ UNCHANGED <<export, held, open, worker>>

cancelAccountDeletion(c, d) ==
  /\ client[c] = Idle
  /\ d \in Pending \ Due
  /\ Goes(c, [pc |-> "cancel", on |-> {d}])
  /\ UNCHANGED <<deletion, export, held, open, worker, failures>>

CancelPending(d) == IF d \in Pending THEN Becomes(d, "cancelled") ELSE UNCHANGED deletion

\* An update that finds no pending row is no error: the user is told it worked.
MarkCancelled(c) ==
  /\ client[c].pc = "cancel"
  /\ \E d \in client[c].on :
       \/ CancelPending(d) /\ (NoFault \/ Fault)
       \/ UNCHANGED deletion /\ Fault
  /\ Goes(c, Idle)
  /\ UNCHANGED <<export, held, open, worker>>

-----------------------------------------------------------------------------
\* processDueAccountDeletions: the list of due rows has this user's, if any.

\* Mutant of processDueAccountDeletions: the list is not limited to due rows.
processDueAccountDeletions_early(w, d) ==
  /\ worker[w] = Resting
  /\ d \in Pending
  /\ Runs(w, [pc |-> "check", on |-> {d}, done |-> {}])
  /\ UNCHANGED <<deletion, export, held, open, client, failures>>

processDueAccountDeletions(w, d) ==
  /\ worker[w] = Resting
  /\ d \in Due
  /\ Runs(w, [pc |-> "check", on |-> {d}, done |-> {}])
  /\ UNCHANGED <<deletion, export, held, open, client, failures>>

\* Mutant of AfterFailure: a failed deletion gets the status of that name.
AfterFailure_closed(d) == [deletion EXCEPT ![d].status = "failed"]

\* executeAccountDeletion throws and the batch goes on with another user's row:
\* only error_message is written.
AfterFailure(d) == deletion

Throws(w) ==
  /\ Fault
  /\ \E d \in worker[w].on : deletion' = AfterFailure(d)
  /\ Runs(w, Resting)

\* A blocked deletion stays pending; only the reason is written.
CheckObligations(w) ==
  /\ worker[w].pc = "check"
  /\ \/ open /\ Runs(w, Resting) /\ NoFault /\ UNCHANGED deletion
     \/ ~open /\ Runs(w, [worker[w] EXCEPT !.pc = "wipe"]) /\ NoFault /\ UNCHANGED deletion
     \/ Throws(w)
  /\ UNCHANGED <<export, held, open, client>>

\* The tables that are wiped before that one; the transient ones have an order of
\* their own that nothing depends on.
Before(table) ==
  CASE table = "users"    -> {}
    [] table = "profiles" -> {"users"}
    [] OTHER              -> {"users", "profiles"}

\* Mutant of Wipes: an error of one table does not stop the run.
Wipes_on(w, table) ==
  /\ Runs(w, [worker[w] EXCEPT !.done = @ \cup {table}])
  /\ UNCHANGED deletion
  /\ \/ held' = held \ {table} /\ NoFault
     \/ UNCHANGED held /\ Fault

Wipes(w, table) ==
  \/ /\ held' = held \ {table} /\ NoFault
     /\ Runs(w, [worker[w] EXCEPT !.done = @ \cup {table}])
     /\ UNCHANGED deletion
  \/ held' \in {held, held \ {table}} /\ Throws(w)

WipeTable(w) ==
  /\ worker[w].pc = "wipe"
  /\ \E table \in Tables \ worker[w].done :
       Before(table) \subseteq worker[w].done /\ Wipes(w, table)
  /\ UNCHANGED <<export, open, client>>

Cleared == [x \in Exports |-> [export[x] EXCEPT !.payload = FALSE]]

ClearExports(w) ==
  /\ worker[w].pc = "wipe" /\ worker[w].done = Tables
  /\ \/ /\ export' = Cleared /\ NoFault
        /\ Runs(w, [worker[w] EXCEPT !.pc = "complete"]) /\ UNCHANGED deletion
     \/ export' \in {export, Cleared} /\ Throws(w)
  /\ UNCHANGED <<held, open, client>>

\* By id alone: whatever has become of the row meanwhile.
Complete(w) ==
  /\ worker[w].pc = "complete"
  /\ \/ /\ \E d \in worker[w].on : Becomes(d, "completed")
        /\ Runs(w, Resting) /\ (NoFault \/ Fault)
     \/ Throws(w)
  /\ UNCHANGED <<export, held, open, client>>

\* The process dies: every run of it, at the worst moment of one.
Crash(w) ==
  /\ worker[w] # Resting
  /\ Runs(w, Resting) /\ Fault
  /\ UNCHANGED <<deletion, export, held, open, client>>

-----------------------------------------------------------------------------
\* Exports: the request answers at once, the payload is generated behind it.

requestDataExport(x) ==
  /\ export[x] = NoExport
  /\ export' = [export EXCEPT ![x].status = "pending", ![x].job = "generate"]
  /\ UNCHANGED <<deletion, held, open, worker, client, failures>>

\* The catch block's update may fail as well, or the process die: the row stays
\* as it is, and nobody takes it up again.
ExportFails(x, rows) ==
  /\ Fault
  /\ \E row \in rows : \E status \in {"failed", row.status} :
       export' = [export EXCEPT ![x] = [row EXCEPT !.job = "none", !.copied = FALSE,
                                                   !.status = status]]

generateDataExport(x) ==
  /\ export[x].job = "generate"
  /\ \/ /\ export' = [export EXCEPT ![x].job = "store", ![x].copied = "profiles" \in held]
        /\ NoFault
     \/ ExportFails(x, {export[x]})
  /\ UNCHANGED <<deletion, held, open, worker, client>>

processDataExport(x) ==
  LET stored == [status |-> "completed", job |-> "none", copied |-> FALSE,
                 payload |-> export[x].copied]
  IN /\ export[x].job = "store"
     /\ \/ export' = [export EXCEPT ![x] = stored] /\ NoFault
        \/ ExportFails(x, {export[x], stored})
     /\ UNCHANGED <<deletion, held, open, worker, client>>

\* Seven days later.  Pending exports are never purged.
purgeExpiredDataExports(x) ==
  /\ export[x].status \in {"completed", "failed"}
  /\ export' = [export EXCEPT ![x] = NoExport]
  /\ UNCHANGED <<deletion, held, open, worker, client, failures>>

\* Thirty days later: no run and no request is still about that row.
purgeClosedAccountDeletions(d) ==
  /\ deletion[d].status \in {"completed", "cancelled"}
  /\ \A w \in Workers : d \notin worker[w].on
  /\ \A c \in Clients : d \notin client[c].on
  /\ deletion' = [deletion EXCEPT ![d] = NoDeletion]
  /\ UNCHANGED <<export, held, open, worker, client, failures>>

-----------------------------------------------------------------------------
\* Seven days go by.

WindowCloses(d) ==
  /\ d \in Pending \ Due
  /\ deletion' = [deletion EXCEPT ![d].due = TRUE]
  /\ UNCHANGED <<export, held, open, worker, client, failures>>

\* The user's bookings, as tenant or host, open and end.
Opens == ~open /\ open' = TRUE /\ UNCHANGED <<deletion, export, held, worker, client, failures>>
Closes == open /\ open' = FALSE /\ UNCHANGED <<deletion, export, held, worker, client, failures>>

\* The user goes on using the account.  What a session that outlives it writes is
\* not counted.
Writes(table) ==
  /\ "users" \in held
  /\ held' = held \cup {table}
  /\ UNCHANGED <<deletion, export, open, worker, client, failures>>

-----------------------------------------------------------------------------
Init ==
  /\ deletion = [d \in Deletions |-> NoDeletion]
  /\ export = [x \in Exports |-> NoExport]
  /\ held = {"users", "profiles"}
  /\ open = FALSE
  /\ worker = [w \in Workers |-> Resting]
  /\ client = [c \in Clients |-> Idle]
  /\ failures = 0

Run(w) == CheckObligations(w) \/ WipeTable(w) \/ ClearExports(w) \/ Complete(w)

Batch(w) == \E d \in Deletions : processDueAccountDeletions(w, d)

Request(c) ==
  \/ requestAccountDeletion(c) \/ LookUp(c) \/ InsertDeletion(c) \/ MarkCancelled(c)
  \/ \E d \in Deletions : cancelAccountDeletion(c, d)

Exporting(x) == requestDataExport(x) \/ generateDataExport(x) \/ processDataExport(x)

Next ==
  \/ \E w \in Workers : Batch(w) \/ Run(w) \/ Crash(w)
  \/ \E c \in Clients : Request(c)
  \/ \E x \in Exports : Exporting(x) \/ purgeExpiredDataExports(x)
  \/ \E d \in Deletions : purgeClosedAccountDeletions(d) \/ WindowCloses(d)
  \/ \E table \in Tables : Writes(table)
  \/ Opens \/ Closes

Spec == Init /\ [][Next]_vars

\* The worker is started every hour, and a run goes on.
FairSpec == Spec /\ \A w \in Workers : WF_vars(Batch(w)) /\ WF_vars(Run(w))

-----------------------------------------------------------------------------
\* Rows, runs and requests are well formed, and however many requests for a deletion
\* overlap, one at most is pending.
TypeOK ==
  /\ deletion \in [Deletions -> [status : {"absent", "pending", "completed", "cancelled", "failed"},
                                 due : BOOLEAN]]
  /\ \A d, e \in Pending : d = e
  /\ export \in [Exports -> [status : {"absent", "pending", "completed", "failed"},
                             job : {"none", "generate", "store"}, copied : BOOLEAN,
                             payload : BOOLEAN]]
  /\ held \subseteq Tables
  /\ open \in BOOLEAN
  /\ worker \in [Workers -> [pc : {"idle", "check", "wipe", "complete"},
                             on : SUBSET Deletions, done : SUBSET Tables]]
  /\ client \in [Clients -> [pc : {"idle", "lookup", "insert", "cancel"},
                             on : SUBSET Deletions]]
  /\ failures \in 0 .. MaxFailures

\* A deletion that says completed left no table with personal data behind, however
\* often its runs failed half way, died and overlapped.
CompletedIsWiped ==
  (\E d \in Deletions : deletion[d].status = "completed") => held = {}

Erasure == INSTANCE AccountErasure WITH
  Account <- "users",
  due <- \E d \in Deletions : deletion[d].due

\* Overlapping, failing and dying runs erase what the user agreed to and no more:
\* no table is emptied unless a cancellation window has closed and its deletion is
\* still on record, and the account closes before another table goes.
ErasurePromise == Erasure!Spec

\* A deletion whose window has closed is carried out in the end, once the user's
\* bookings are over, unless a cancellation got in at the last moment.
DeletionsEnd ==
  \A d \in Deletions :
    <>[](~open) => (d \in Due ~> deletion[d].status \in {"completed", "cancelled", "absent"})
=============================================================================
