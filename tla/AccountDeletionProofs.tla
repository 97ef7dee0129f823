----------------------- MODULE AccountDeletionProofs -----------------------
(***************************************************************************)
(* The safety of account deletion, for any number of requests, exports,    *)
(* tables, overlapping batches and failures.                               *)
(***************************************************************************)
EXTENDS AccountDeletion, TLAPS

\* What a run has wiped stays wiped, because the account closes first.
RunSound(w) ==
  /\ worker[w].done \cap held = {}
  /\ worker[w].done # {} => "users" \in worker[w].done
  /\ worker[w].pc = "complete" => worker[w].done = Tables

RunsSound == \A w \in Workers : RunSound(w)

Inv == TypeOK /\ RunsSound /\ CompletedIsWiped

Job == [pc : {"idle", "check", "wipe", "complete"}, on : SUBSET Deletions, done : SUBSET Tables]
Row == [status : {"absent", "pending", "completed", "cancelled", "failed"}, due : BOOLEAN]

-----------------------------------------------------------------------------
LEMMA Counting ==
  ASSUME TypeOK, Fault \/ NoFault
  PROVE  failures' \in 0 .. MaxFailures
BY BoundsAssumption DEF TypeOK, Fault, NoFault

LEMMA RowBecomes ==
  ASSUME TypeOK, NEW d \in Deletions, NEW s \in {"completed", "cancelled"}, Becomes(d, s)
  PROVE  /\ deletion' \in [Deletions -> Row]
         /\ \A e \in Deletions : deletion'[e].status = "pending" => e \in Pending
         /\ \A e \in Deletions : e # d => deletion'[e] = deletion[e]
         /\ deletion'[d].status = s
<1>1. deletion \in [Deletions -> Row]
  BY DEF TypeOK, Row
<1>2. deletion[d] \in Row
  BY <1>1
<1>3. [deletion[d] EXCEPT !.status = s] \in Row /\ [deletion[d] EXCEPT !.status = s].status = s
  BY <1>2 DEF Row
<1>4. deletion' = [deletion EXCEPT ![d] = [deletion[d] EXCEPT !.status = s]]
  BY DEF Becomes
<1> QED BY <1>1, <1>3, <1>4 DEF Pending

\* One run goes on, and nothing is written that it or another run has wiped.
LEMMA RunGoesOn ==
  ASSUME TypeOK, RunsSound, NEW w \in Workers, NEW job \in Job, Runs(w, job),
         held' \subseteq held,
         job.done \cap held' = {},
         job.done # {} => "users" \in job.done,
         job.pc = "complete" => job.done = Tables
  PROVE  worker' \in [Workers -> Job] /\ RunsSound'
<1>1. worker \in [Workers -> Job]
  BY DEF TypeOK, Job
<1>2. worker' = [worker EXCEPT ![w] = job]
  BY DEF Runs
<1>3. worker' \in [Workers -> Job]
  BY <1>1, <1>2
<1>4. ASSUME NEW v \in Workers
      PROVE  RunSound(v)'
  <2>1. CASE v = w
    <3>1. worker'[v] = job
      BY <1>1, <1>2, <2>1
    <3> QED BY <3>1 DEF RunSound
  <2>2. CASE v # w
    <3>1. worker'[v] = worker[v]
      BY <1>1, <1>2, <2>2
    <3> QED BY <3>1 DEF RunSound, RunsSound
  <2> QED BY <2>1, <2>2
<1> QED BY <1>3, <1>4 DEF RunsSound

LEMMA RestingIsSound == Resting \in Job /\ Resting.done = {} /\ Resting.pc = "idle"
BY DEF Resting, Job

\* A run that throws leaves the row alone and wipes no less than before.
LEMMA Throwing ==
  ASSUME Inv, NEW w \in Workers, Throws(w), held' \subseteq held
  PROVE  /\ deletion' = deletion /\ failures' \in 0 .. MaxFailures
         /\ worker' \in [Workers -> Job] /\ RunsSound' /\ CompletedIsWiped'
<1>1. deletion' = deletion /\ Runs(w, Resting) /\ Fault
  BY DEF Throws, AfterFailure
<1>2. worker' \in [Workers -> Job] /\ RunsSound'
  BY <1>1, RestingIsSound, RunGoesOn DEF Inv
<1> QED BY <1>1, <1>2, Counting DEF Inv, CompletedIsWiped

-----------------------------------------------------------------------------
LEMMA BatchKeeps ==
  ASSUME Inv, NEW w \in Workers, NEW d \in Deletions, processDueAccountDeletions(w, d)
  PROVE  Inv'
<1> DEFINE job == [pc |-> "check", on |-> {d}, done |-> {}]
<1>1. job \in Job /\ job.done = {} /\ job.pc = "check"
  BY DEF Job
<1>2. Runs(w, job) /\ UNCHANGED <<deletion, export, held, open, client, failures>>
  BY DEF processDueAccountDeletions
<1> HIDE DEF job
<1>3. worker' \in [Workers -> Job] /\ RunsSound'
  BY <1>1, <1>2, RunGoesOn DEF Inv
<1> QED BY <1>2, <1>3 DEF Inv, TypeOK, Pending, CompletedIsWiped, Job

LEMMA CheckKeeps ==
  ASSUME Inv, NEW w \in Workers, CheckObligations(w)
  PROVE  Inv'
<1>1. UNCHANGED <<export, held, open, client>>
  BY DEF CheckObligations
<1>2. worker[w] \in Job /\ RunSound(w)
  BY DEF Inv, TypeOK, Job, RunsSound
<1>3. deletion' = deletion /\ failures' \in 0 .. MaxFailures /\ worker' \in [Workers -> Job] /\ RunsSound'
  <2>1. CASE Runs(w, Resting) /\ NoFault /\ UNCHANGED deletion
    BY <1>1, <2>1, RestingIsSound, RunGoesOn, Counting DEF Inv
  <2>2. CASE Runs(w, [worker[w] EXCEPT !.pc = "wipe"]) /\ NoFault /\ UNCHANGED deletion
    <3> DEFINE job == [worker[w] EXCEPT !.pc = "wipe"]
    <3>1. job \in Job /\ job.done = worker[w].done /\ job.pc = "wipe"
      BY <1>2 DEF Job
    <3>2. Runs(w, job)
      BY <2>2
    <3> HIDE DEF job
    <3> QED BY <1>1, <1>2, <2>2, <3>1, <3>2, RunGoesOn, Counting DEF Inv, RunSound
  <2>3. CASE Throws(w)
    BY <1>1, <2>3, Throwing
  <2> QED BY <2>1, <2>2, <2>3 DEF CheckObligations
<1> QED BY <1>1, <1>3 DEF Inv, TypeOK, Pending, CompletedIsWiped, Job

LEMMA WipeKeeps ==
  ASSUME Inv, NEW w \in Workers, WipeTable(w)
  PROVE  Inv'
<1>1. UNCHANGED <<export, open, client>> /\ worker[w].pc = "wipe"
  BY DEF WipeTable
<1>2. PICK table \in Tables \ worker[w].done :
        Before(table) \subseteq worker[w].done /\ Wipes(w, table)
  BY DEF WipeTable
<1>3. worker[w] \in Job /\ RunSound(w)
  BY DEF Inv, TypeOK, Job, RunsSound
<1>4. held' \subseteq held
  BY <1>2 DEF Wipes
<1>5. deletion' = deletion /\ failures' \in 0 .. MaxFailures /\ worker' \in [Workers -> Job] /\ RunsSound'
  <2>1. CASE /\ held' = held \ {table} /\ NoFault /\ UNCHANGED deletion
             /\ Runs(w, [worker[w] EXCEPT !.done = @ \cup {table}])
    <3> DEFINE job == [worker[w] EXCEPT !.done = worker[w].done \cup {table}]
    <3>1. job \in Job /\ job.done = worker[w].done \cup {table} /\ job.pc = "wipe"
      BY <1>1, <1>3 DEF Job
    <3>2. Runs(w, job)
      BY <2>1
    <3>3. "users" \in job.done
      BY <1>2, <3>1 DEF Before
    <3>4. job.done \cap held' = {}
      BY <1>3, <2>1, <3>1 DEF RunSound
    <3> HIDE DEF job
    <3> QED BY <1>4, <2>1, <3>1, <3>2, <3>3, <3>4, RunGoesOn, Counting DEF Inv
  <2>2. CASE Throws(w)
    BY <1>4, <2>2, Throwing
  <2> QED BY <1>2, <2>1, <2>2 DEF Wipes
<1>6. held' \subseteq Tables /\ CompletedIsWiped'
  BY <1>4, <1>5 DEF Inv, TypeOK, CompletedIsWiped
<1> QED BY <1>1, <1>5, <1>6 DEF Inv, TypeOK, Pending, Job

Export == [status : {"absent", "pending", "completed", "failed"},
           job : {"none", "generate", "store"}, copied : BOOLEAN, payload : BOOLEAN]

LEMMA ClearKeeps ==
  ASSUME Inv, NEW w \in Workers, ClearExports(w)
  PROVE  Inv'
<1>1. UNCHANGED <<held, open, client>> /\ worker[w].pc = "wipe" /\ worker[w].done = Tables
  BY DEF ClearExports
<1>2. worker[w] \in Job /\ RunSound(w)
  BY DEF Inv, TypeOK, Job, RunsSound
<1>3. export' \in [Exports -> Export]
  <2>1. export \in [Exports -> Export]
    BY DEF Inv, TypeOK, Export
  <2>2. \A x \in Exports : [export[x] EXCEPT !.payload = FALSE] \in Export
    BY <2>1 DEF Export
  <2>3. export' \in {export, Cleared}
    BY DEF ClearExports
  <2> QED BY <2>1, <2>2, <2>3 DEF Cleared
<1>4. deletion' = deletion /\ failures' \in 0 .. MaxFailures /\ worker' \in [Workers -> Job] /\ RunsSound'
  <2>1. CASE Runs(w, [worker[w] EXCEPT !.pc = "complete"]) /\ NoFault /\ UNCHANGED deletion
    <3> DEFINE job == [worker[w] EXCEPT !.pc = "complete"]
    <3>1. job \in Job /\ job.done = worker[w].done
      BY <1>2 DEF Job
    <3>2. Runs(w, job)
      BY <2>1
    <3> HIDE DEF job
    <3> QED BY <1>1, <1>2, <2>1, <3>1, <3>2, RunGoesOn, Counting DEF Inv, RunSound
  <2>2. CASE Throws(w)
    BY <1>1, <2>2, Throwing
  <2> QED BY <2>1, <2>2 DEF ClearExports
<1> QED BY <1>1, <1>3, <1>4 DEF Inv, TypeOK, Pending, CompletedIsWiped, Job, Export

LEMMA CompleteKeeps ==
  ASSUME Inv, NEW w \in Workers, Complete(w)
  PROVE  Inv'
<1>1. UNCHANGED <<export, held, open, client>> /\ worker[w].pc = "complete"
  BY DEF Complete
<1>2. CASE /\ \E d \in worker[w].on : Becomes(d, "completed")
           /\ Runs(w, Resting) /\ (NoFault \/ Fault)
  <2>1. worker[w] \in Job /\ RunSound(w)
    BY DEF Inv, TypeOK, Job, RunsSound
  <2>2. PICK d \in Deletions : Becomes(d, "completed")
    BY <1>2, <2>1 DEF Job
  <2>3. held = {}
    BY <1>1, <2>1 DEF RunSound, Inv, TypeOK
  <2>4. /\ deletion' \in [Deletions -> Row]
        /\ \A e \in Deletions : deletion'[e].status = "pending" => e \in Pending
    BY <2>2, RowBecomes DEF Inv
  <2>5. failures' \in 0 .. MaxFailures
    BY <1>2, Counting DEF Inv
  <2>6. worker' \in [Workers -> Job] /\ RunsSound'
    BY <1>1, <1>2, RestingIsSound, RunGoesOn DEF Inv
  <2>7. \A d1, d2 \in Pending' : d1 = d2
    BY <2>4 DEF Pending, Inv, TypeOK
  <2>8. CompletedIsWiped'
    BY <1>1, <2>3 DEF CompletedIsWiped
  <2> QED BY <1>1, <2>4, <2>5, <2>6, <2>7, <2>8 DEF Inv, TypeOK, Job, Row
<1>3. CASE Throws(w)
  BY <1>1, <1>3, Throwing DEF Inv, TypeOK, Pending, Job
<1> QED BY <1>2, <1>3 DEF Complete

LEMMA CrashKeeps ==
  ASSUME Inv, NEW w \in Workers, Crash(w)
  PROVE  Inv'
<1>1. /\ Runs(w, Resting) /\ Fault
      /\ UNCHANGED <<deletion, export, held, open, client>>
  BY DEF Crash
<1>2. worker' \in [Workers -> Job] /\ RunsSound'
  BY <1>1, RestingIsSound, RunGoesOn DEF Inv
<1> QED BY <1>1, <1>2, Counting DEF Inv, TypeOK, Pending, CompletedIsWiped, Job

-----------------------------------------------------------------------------
\* The user's requests: no run and no table changes.
Requesting == [pc : {"idle", "lookup", "insert", "cancel"}, on : SUBSET Deletions]

LEMMA RequestKeeps ==
  ASSUME Inv, NEW c \in Clients, Request(c)
  PROVE  Inv'
<1>0. client \in [Clients -> Requesting] /\ Idle \in Requesting
  BY DEF Inv, TypeOK, Requesting, Idle
<1>1. CASE requestAccountDeletion(c)
  <2>1. [pc |-> "lookup", on |-> {}] \in Requesting
    BY DEF Requesting
  <2>2. client' \in [Clients -> Requesting]
    BY <1>0, <1>1, <2>1 DEF requestAccountDeletion, Goes
  <2> QED BY <1>1, <2>2 DEF requestAccountDeletion, Inv, TypeOK, Pending, CompletedIsWiped,
                            RunsSound, RunSound, Requesting
<1>2. CASE LookUp(c)
  <2>1. [pc |-> "insert", on |-> {}] \in Requesting
    BY DEF Requesting
  <2>2. client' \in [Clients -> Requesting] /\ (Fault \/ NoFault)
    BY <1>0, <1>2, <2>1 DEF LookUp, Goes
  <2>3. failures' \in 0 .. MaxFailures
    BY <2>2, Counting DEF Inv
  <2>4. UNCHANGED <<deletion, export, held, open, worker>>
    BY <1>2 DEF LookUp
  <2> QED BY <2>2, <2>3, <2>4 DEF Inv, TypeOK, Pending, CompletedIsWiped, RunsSound, RunSound,
                                  Requesting
<1>3. CASE InsertDeletion(c)
  <2>1. UNCHANGED <<export, held, open, worker>> /\ Goes(c, Idle) /\ (Fault \/ NoFault)
    BY <1>3 DEF InsertDeletion
  <2>2. client' \in [Clients -> Requesting] /\ failures' \in 0 .. MaxFailures
    BY <1>0, <2>1, Counting DEF Goes, Inv
  <2>3. deletion' \in [Deletions -> Row] /\ (\A d1, d2 \in Pending' : d1 = d2)
        /\ \A d \in Deletions : deletion'[d].status = "completed" => deletion[d].status = "completed"
    <3>0. deletion \in [Deletions -> Row]
      BY DEF Inv, TypeOK, Row
    <3>1. CASE deletion' = deletion
      BY <3>0, <3>1 DEF Inv, TypeOK, Pending
    <3>2. CASE \E d \in Deletions : Insertable(d) /\ Becomes(d, "pending")
      <4>1. PICK d \in Deletions : Insertable(d) /\ Becomes(d, "pending")
        BY <3>2
      <4> DEFINE row == [deletion[d] EXCEPT !.status = "pending"]
      <4>2. row \in Row /\ row.status = "pending"
        BY <3>0 DEF Row
      <4>3. deletion' = [deletion EXCEPT ![d] = row]
        BY <4>1 DEF Becomes
      <4>4. \A e \in Deletions : deletion[e].status # "pending"
        BY <4>1 DEF Insertable, Pending
      <4> HIDE DEF row
      <4> QED BY <3>0, <4>2, <4>3, <4>4 DEF Pending
    <3> QED BY <1>3, <3>1, <3>2 DEF InsertDeletion
  <2>4. CompletedIsWiped'
    BY <2>1, <2>3 DEF CompletedIsWiped, Inv
  <2> QED BY <2>1, <2>2, <2>3, <2>4 DEF Inv, TypeOK, RunsSound, RunSound, Requesting, Row
<1>4. CASE MarkCancelled(c)
  <2>1. UNCHANGED <<export, held, open, worker>> /\ Goes(c, Idle) /\ (Fault \/ NoFault)
    BY <1>4 DEF MarkCancelled
  <2>2. client' \in [Clients -> Requesting] /\ failures' \in 0 .. MaxFailures
    BY <1>0, <2>1, Counting DEF Goes, Inv
  <2>3. client[c] \in Requesting
    BY <1>0
  <2>4. PICK d \in Deletions : CancelPending(d) \/ UNCHANGED deletion
    BY <1>4, <2>3 DEF MarkCancelled, Requesting
  <2>5. deletion' \in [Deletions -> Row] /\ (\A d1, d2 \in Pending' : d1 = d2)
        /\ \A e \in Deletions : deletion'[e].status = "completed" => deletion[e].status = "completed"
    <3>1. CASE deletion' = deletion
      BY <3>1 DEF Inv, TypeOK, Pending, Row
    <3>2. CASE Becomes(d, "cancelled")
      <4>1. /\ deletion' \in [Deletions -> Row]
            /\ \A e \in Deletions : deletion'[e].status = "pending" => e \in Pending
            /\ \A e \in Deletions : e # d => deletion'[e] = deletion[e]
            /\ deletion'[d].status = "cancelled"
        BY <3>2, RowBecomes DEF Inv
      <4>2. \A d1, d2 \in Pending' : d1 = d2
        BY <4>1 DEF Pending, Inv, TypeOK
      <4> QED BY <4>1, <4>2
    <3> QED BY <2>4, <3>1, <3>2 DEF CancelPending
  <2>6. CompletedIsWiped'
    BY <2>1, <2>4, <2>5 DEF CompletedIsWiped, Inv, TypeOK
  <2> QED BY <2>1, <2>2, <2>5, <2>6 DEF Inv, TypeOK, RunsSound, RunSound, Requesting, Row
<1>5. ASSUME NEW d \in Deletions, cancelAccountDeletion(c, d)
      PROVE  Inv'
  <2>1. [pc |-> "cancel", on |-> {d}] \in Requesting
    BY DEF Requesting
  <2>2. client' \in [Clients -> Requesting]
    BY <1>0, <1>5, <2>1 DEF cancelAccountDeletion, Goes
  <2>3. UNCHANGED <<deletion, export, held, open, worker, failures>>
    BY <1>5 DEF cancelAccountDeletion
  <2> QED BY <2>2, <2>3 DEF Inv, TypeOK, Pending, CompletedIsWiped, RunsSound, RunSound, Requesting
<1> QED BY <1>1, <1>2, <1>3, <1>4, <1>5 DEF Request

-----------------------------------------------------------------------------
\* An export's steps change its row only.
LEMMA ExportStepKeeps ==
  ASSUME Inv, NEW x \in Exports, Exporting(x) \/ purgeExpiredDataExports(x)
  PROVE  Inv'
<1>1. export \in [Exports -> Export] /\ export[x] \in Export /\ NoExport \in Export
  BY DEF Inv, TypeOK, Export, NoExport
<1>2. UNCHANGED <<deletion, held, open, worker, client>>
  BY DEF Exporting, requestDataExport, generateDataExport, processDataExport,
         purgeExpiredDataExports
<1>3. failures' \in 0 .. MaxFailures
  <2>1. Fault \/ NoFault
    BY DEF Exporting, requestDataExport, generateDataExport, processDataExport, ExportFails,
           purgeExpiredDataExports, NoFault
  <2> QED BY <2>1, Counting DEF Inv
<1>4. export' \in [Exports -> Export]
  <2>1. ASSUME NEW rows \in SUBSET Export, ExportFails(x, rows)
        PROVE  export' \in [Exports -> Export]
    <3>1. PICK row \in rows, status \in {"absent", "pending", "completed", "failed"} :
            export' = [export EXCEPT ![x] = [row EXCEPT !.job = "none", !.copied = FALSE,
                                                        !.status = status]]
      BY <2>1 DEF ExportFails, Export
    <3>2. row \in Export
      BY <2>1
    <3>3. [row EXCEPT !.job = "none", !.copied = FALSE, !.status = status] \in Export
      BY <3>2 DEF Export
    <3> QED BY <1>1, <3>1, <3>3
  <2>2. CASE requestDataExport(x)
    BY <1>1, <2>2 DEF requestDataExport, Export
  <2>3. CASE generateDataExport(x)
    <3>1. CASE export' = [export EXCEPT ![x].job = "store", ![x].copied = "profiles" \in held]
      <4> DEFINE copy == "profiles" \in held
      <4>0. copy \in BOOLEAN
        OBVIOUS
      <4> DEFINE row == [export[x] EXCEPT !.job = "store", !.copied = copy]
      <4> HIDE DEF copy
      <4>1. row \in Export
        BY <1>1, <4>0 DEF Export
      <4>2. export' = [export EXCEPT ![x] = row]
        BY <1>1, <3>1 DEF copy
      <4> HIDE DEF row
      <4> QED BY <1>1, <4>1, <4>2
    <3> QED BY <1>1, <2>1, <2>3, <3>1 DEF generateDataExport
  <2>4. CASE processDataExport(x)
    <3> DEFINE stored == [status |-> "completed", job |-> "none", copied |-> FALSE,
                          payload |-> export[x].copied]
    <3>1. stored \in Export
      BY <1>1 DEF Export
    <3>2. export' = [export EXCEPT ![x] = stored] \/ ExportFails(x, {export[x], stored})
      BY <2>4 DEF processDataExport
    <3> HIDE DEF stored
    <3> QED BY <1>1, <2>1, <3>1, <3>2
  <2>5. CASE purgeExpiredDataExports(x)
    BY <1>1, <2>5 DEF purgeExpiredDataExports
  <2> QED BY <2>2, <2>3, <2>4, <2>5 DEF Exporting
<1> QED BY <1>2, <1>3, <1>4 DEF Inv, TypeOK, Pending, CompletedIsWiped, RunsSound, RunSound, Export

LEMMA PurgeKeeps ==
  ASSUME Inv, NEW d \in Deletions, purgeClosedAccountDeletions(d)
  PROVE  Inv'
<1>1. NoDeletion \in Row /\ NoDeletion.status = "absent"
  BY DEF Row, NoDeletion
<1>2. /\ deletion' = [deletion EXCEPT ![d] = NoDeletion]
      /\ UNCHANGED <<export, held, open, worker, client, failures>>
  BY DEF purgeClosedAccountDeletions
<1>3. deletion' \in [Deletions -> Row] /\ Pending' \subseteq Pending
  BY <1>1, <1>2 DEF Inv, TypeOK, Row, Pending
<1>4. CompletedIsWiped'
  BY <1>1, <1>2 DEF Inv, TypeOK, CompletedIsWiped
<1> QED BY <1>2, <1>3, <1>4 DEF Inv, TypeOK, RunsSound, RunSound, Row

LEMMA WindowKeeps ==
  ASSUME Inv, NEW d \in Deletions, WindowCloses(d)
  PROVE  Inv'
<1> DEFINE row == [deletion[d] EXCEPT !.due = TRUE]
<1>0. deletion[d] \in Row
  BY DEF Inv, TypeOK, Row
<1>1. row \in Row /\ row.status = deletion[d].status
  BY <1>0 DEF Row
<1>2. /\ deletion' = [deletion EXCEPT ![d] = row]
      /\ UNCHANGED <<export, held, open, worker, client, failures>>
  BY DEF WindowCloses
<1> HIDE DEF row
<1>3. deletion' \in [Deletions -> Row] /\ \A e \in Deletions : deletion'[e].status = deletion[e].status
  BY <1>1, <1>2 DEF Inv, TypeOK, Row
<1>4. Pending' = Pending /\ CompletedIsWiped'
  BY <1>2, <1>3 DEF Pending, CompletedIsWiped, Inv
<1> QED BY <1>2, <1>3, <1>4 DEF Inv, TypeOK, RunsSound, RunSound, Row

\* The user writes only while the account is open: no run has begun to wipe then.
LEMMA WritesKeeps ==
  ASSUME Inv, NEW table \in Tables, Writes(table)
  PROVE  Inv'
<1>1. /\ "users" \in held /\ held' = held \cup {table}
      /\ UNCHANGED <<deletion, export, open, worker, client, failures>>
  BY DEF Writes
<1>2. \A w \in Workers : worker[w].done = {}
  BY <1>1 DEF Inv, RunsSound, RunSound
<1>3. RunsSound' /\ CompletedIsWiped'
  BY <1>1, <1>2 DEF Inv, RunsSound, RunSound, CompletedIsWiped
<1> QED BY <1>1, <1>3 DEF Inv, TypeOK, Pending

LEMMA Initially == Init => Inv
<1> SUFFICES ASSUME Init PROVE Inv
  OBVIOUS
<1>1. Pending = {} /\ \A d \in Deletions : deletion[d].status = "absent"
  BY DEF Init, Pending, NoDeletion
<1>2. deletion \in [Deletions -> Row] /\ export \in [Exports -> Export]
  BY DEF Init, NoDeletion, NoExport, Row, Export
<1>3. worker \in [Workers -> Job] /\ client \in [Clients -> Requesting]
  BY DEF Init, Resting, Idle, Job, Requesting
<1>4. \A w \in Workers : worker[w].done = {} /\ worker[w].pc = "idle"
  BY DEF Init, Resting
<1>5. /\ held \subseteq Tables /\ open \in BOOLEAN
      /\ failures \in 0 .. MaxFailures
  <2>1. held \subseteq Tables
    BY DEF Init, Tables
  <2>2. failures = 0 /\ 0 \in 0 .. MaxFailures
    BY BoundsAssumption DEF Init
  <2>3. open = FALSE
    BY DEF Init
  <2> QED BY <2>1, <2>2, <2>3
<1>6. TypeOK
  BY <1>1, <1>2, <1>3, <1>5 DEF TypeOK, Row, Export, Job, Requesting
<1> QED BY <1>1, <1>4, <1>6 DEF Inv, RunsSound, RunSound, CompletedIsWiped

LEMMA Inductive == Inv /\ [Next]_vars => Inv'
<1> SUFFICES ASSUME Inv, [Next]_vars PROVE Inv'
  OBVIOUS
<1>1. ASSUME NEW w \in Workers, Batch(w) \/ Run(w) \/ Crash(w) PROVE Inv'
  BY <1>1, BatchKeeps, CheckKeeps, WipeKeeps, ClearKeeps, CompleteKeeps, CrashKeeps DEF Batch, Run
<1>2. ASSUME Opens \/ Closes PROVE Inv'
  BY <1>2 DEF Opens, Closes, Inv, TypeOK, Pending, RunsSound, RunSound, CompletedIsWiped
<1>3. CASE UNCHANGED vars
  BY <1>3 DEF vars, Inv, TypeOK, Pending, RunsSound, RunSound, CompletedIsWiped
<1> QED BY <1>1, <1>2, <1>3, RequestKeeps, ExportStepKeeps, PurgeKeeps, WindowKeeps, WritesKeeps DEF Next

THEOREM Always == Spec => []Inv
BY Initially, Inductive, PTL DEF Spec

-----------------------------------------------------------------------------
\* Rows, runs and requests keep their types, and at most one deletion is pending.
THEOREM TypesCorrect == Spec => []TypeOK
<1>1. Inv => TypeOK
  BY DEF Inv
<1> QED BY <1>1, Always, PTL

\* A completed deletion has left no table with personal data, whatever fails, dies
\* and overlaps.
THEOREM CompletedWiped == Spec => []CompletedIsWiped
<1>1. Inv => CompletedIsWiped
  BY DEF Inv
<1> QED BY <1>1, Always, PTL

-----------------------------------------------------------------------------
\* The abstract erasure.  A run is about a deletion whose window has closed: its row
\* stays due whatever becomes of its status, and is not purged under the run.
WindowOver(w) ==
  /\ worker[w].pc # "idle" => worker[w].on # {}
  /\ \A d \in worker[w].on : deletion[d].due

WindowsOver == \A w \in Workers : WindowOver(w)

AnyDue == \E d \in Deletions : deletion[d].due

\* What an erasing step does to the tables: one is emptied or nothing happens.
Erases == held' = held \/ \E table \in Tables : Erasure!Erase(table)

\* A step that takes back no closed window, starts no run and leaves the others be.
LEMMA WindowsStay ==
  ASSUME Inv, WindowsOver, NEW w \in Workers, NEW job \in Job, Runs(w, job),
         job.on = {} \/ job.on = worker[w].on,
         job.on = {} <=> job.pc = "idle",
         \A d \in Deletions : deletion[d].due => deletion'[d].due
  PROVE  WindowsOver'
<1>1. worker \in [Workers -> Job] /\ worker' = [worker EXCEPT ![w] = job]
  BY DEF Inv, TypeOK, Job, Runs
<1>2. ASSUME NEW v \in Workers
      PROVE  WindowOver(v)'
  <2>1. worker'[v] = IF v = w THEN job ELSE worker[v]
    BY <1>1
  <2>2. worker[v].on \subseteq Deletions
    BY <1>1 DEF Job
  <2> QED BY <2>1, <2>2 DEF WindowsOver, WindowOver
<1> QED BY <1>2 DEF WindowsOver

LEMMA SameWindows ==
  ASSUME Inv, WindowsOver, UNCHANGED worker,
         \A d \in Deletions : deletion[d].due => deletion'[d].due
  PROVE  WindowsOver'
<1>1. \A w \in Workers : worker[w].on \subseteq Deletions
  BY DEF Inv, TypeOK
<1> QED BY <1>1 DEF WindowsOver, WindowOver

\* An update of a row's status takes back no closed window.
LEMMA StatusIsNotWindow ==
  ASSUME Inv, NEW d \in Deletions, NEW status, Becomes(d, status)
  PROVE  \A e \in Deletions : deletion'[e].due = deletion[e].due
BY DEF Inv, TypeOK, Becomes

LEMMA RestingJob == Resting \in Job /\ Resting.on = {} /\ Resting.pc = "idle"
BY DEF Resting, Job

LEMMA ThrowingWindows ==
  ASSUME Inv, WindowsOver, NEW w \in Workers, Throws(w)
  PROVE  deletion' = deletion /\ WindowsOver'
<1>1. deletion' = deletion /\ Runs(w, Resting)
  BY DEF Throws, AfterFailure
<1> QED BY <1>1, RestingJob, WindowsStay

LEMMA BatchWindows ==
  ASSUME Inv, WindowsOver, NEW w \in Workers, NEW d \in Deletions,
         processDueAccountDeletions(w, d)
  PROVE  deletion' = deletion /\ held' = held /\ WindowsOver'
<1> DEFINE job == [pc |-> "check", on |-> {d}, done |-> {}]
<1>1. job \in Job /\ job.on = {d} /\ job.pc = "check"
  BY DEF Job
<1>2. Runs(w, job) /\ deletion' = deletion /\ held' = held /\ deletion[d].due
  BY DEF processDueAccountDeletions, Due
<1> HIDE DEF job
<1>3. worker \in [Workers -> Job] /\ worker' = [worker EXCEPT ![w] = job]
  BY <1>2 DEF Inv, TypeOK, Job, Runs
<1>4. ASSUME NEW v \in Workers
      PROVE  WindowOver(v)'
  <2>1. worker'[v] = IF v = w THEN job ELSE worker[v]
    BY <1>3
  <2> QED BY <1>1, <1>2, <2>1 DEF WindowsOver, WindowOver
<1> QED BY <1>2, <1>4 DEF WindowsOver

\* One step of a run: the tables, if they change, change as the promise allows.
LEMMA RunWindows ==
  ASSUME Inv, WindowsOver, NEW w \in Workers, Run(w)
  PROVE  WindowsOver' /\ Erases /\ AnyDue' = AnyDue
<1>1. worker[w] \in Job /\ RunSound(w) /\ WindowOver(w)
  BY DEF Inv, TypeOK, Job, RunsSound, WindowsOver
<1>2. ASSUME NEW pc \in {"wipe", "complete"}, NEW done \in SUBSET Tables,
             worker[w].pc # "idle",
             Runs(w, [worker[w] EXCEPT !.pc = pc, !.done = done]), deletion' = deletion
      PROVE  WindowsOver'
  <2> DEFINE job == [worker[w] EXCEPT !.pc = pc, !.done = done]
  <2>1. job \in Job /\ job.on = worker[w].on /\ job.pc = pc
    BY <1>1 DEF Job
  <2>2. Runs(w, job) /\ worker[w].on # {} /\ pc # "idle"
    BY <1>1, <1>2 DEF WindowOver
  <2> HIDE DEF job
  <2> QED BY <1>2, <2>1, <2>2, WindowsStay
<1>3. CASE CheckObligations(w)
  <2>1. held' = held /\ worker[w].pc = "check"
    BY <1>3 DEF CheckObligations
  <2>2. CASE Throws(w)
    BY <2>1, <2>2, ThrowingWindows DEF AnyDue, Erases
  <2>3. CASE Runs(w, Resting) /\ UNCHANGED deletion
    BY <2>1, <2>3, RestingJob, WindowsStay DEF AnyDue, Erases
  <2>4. CASE Runs(w, [worker[w] EXCEPT !.pc = "wipe"]) /\ UNCHANGED deletion
    <3>1. [worker[w] EXCEPT !.pc = "wipe"]
            = [worker[w] EXCEPT !.pc = "wipe", !.done = worker[w].done]
      BY <1>1 DEF Job
    <3>2. worker[w].done \in SUBSET Tables
      BY <1>1 DEF Job
    <3> QED BY <1>2, <2>1, <2>4, <3>1, <3>2 DEF AnyDue, Erases
  <2> QED BY <1>3, <2>2, <2>3, <2>4 DEF CheckObligations
<1>4. CASE WipeTable(w)
  <2>1. worker[w].pc = "wipe"
    BY <1>4 DEF WipeTable
  <2>2. PICK table \in Tables \ worker[w].done :
          Before(table) \subseteq worker[w].done /\ Wipes(w, table)
    BY <1>4 DEF WipeTable
  <2>3. AnyDue
    <3>1. worker[w].on # {} /\ \A d \in worker[w].on : d \in Deletions /\ deletion[d].due
      BY <1>1, <2>1 DEF WindowOver, Job
    <3> QED BY <3>1 DEF AnyDue
  <2>4. table # "users" => "users" \notin held
    BY <1>1, <2>2 DEF Before, RunSound
  <2>5. WindowsOver' /\ deletion' = deletion
    <3>1. CASE /\ Runs(w, [worker[w] EXCEPT !.done = @ \cup {table}])
               /\ UNCHANGED deletion
      <4> DEFINE done == worker[w].done \cup {table}
      <4>1. [worker[w] EXCEPT !.done = done] = [worker[w] EXCEPT !.pc = "wipe", !.done = done]
        BY <1>1, <2>1 DEF Job
      <4>2. done \in SUBSET Tables
        BY <1>1, <2>2 DEF Job
      <4>3. Runs(w, [worker[w] EXCEPT !.done = done])
        BY <3>1
      <4> HIDE DEF done
      <4> QED BY <1>2, <2>1, <3>1, <4>1, <4>2, <4>3
    <3>2. CASE Throws(w)
      BY <3>2, ThrowingWindows
    <3> QED BY <2>2, <3>1, <3>2 DEF Wipes
  <2>6. held' = held \/ held' = held \ {table}
    BY <2>2 DEF Wipes
  <2>7. Erases
    BY <2>2, <2>3, <2>4, <2>5, <2>6 DEF Erases, Erasure!Erase, AnyDue
  <2> QED BY <2>5, <2>7 DEF AnyDue
<1>5. CASE ClearExports(w)
  <2>1. held' = held /\ worker[w].pc = "wipe"
    BY <1>5 DEF ClearExports
  <2>2. CASE Throws(w)
    BY <2>1, <2>2, ThrowingWindows DEF AnyDue, Erases
  <2>3. CASE Runs(w, [worker[w] EXCEPT !.pc = "complete"]) /\ UNCHANGED deletion
    <3>1. [worker[w] EXCEPT !.pc = "complete"]
            = [worker[w] EXCEPT !.pc = "complete", !.done = worker[w].done]
      BY <1>1 DEF Job
    <3>2. worker[w].done \in SUBSET Tables
      BY <1>1 DEF Job
    <3> QED BY <1>2, <2>1, <2>3, <3>1, <3>2 DEF AnyDue, Erases
  <2> QED BY <1>5, <2>2, <2>3 DEF ClearExports
<1>6. CASE Complete(w)
  <2>1. held' = held
    BY <1>6 DEF Complete
  <2>2. CASE Throws(w)
    BY <2>1, <2>2, ThrowingWindows DEF AnyDue, Erases
  <2>3. CASE (\E d \in worker[w].on : Becomes(d, "completed")) /\ Runs(w, Resting)
    <3>1. PICK d \in Deletions : Becomes(d, "completed")
      BY <1>1, <2>3 DEF Job
    <3>2. \A e \in Deletions : deletion'[e].due = deletion[e].due
      BY <3>1, StatusIsNotWindow
    <3> QED BY <2>1, <2>3, <3>2, RestingJob, WindowsStay DEF AnyDue, Erases
  <2> QED BY <1>6, <2>2, <2>3 DEF Complete
<1> QED BY <1>3, <1>4, <1>5, <1>6 DEF Run

\* Requests write rows of a deletion, and none of them takes back a closed window.
LEMMA RequestWindows ==
  ASSUME Inv, WindowsOver, NEW c \in Clients, Request(c)
  PROVE  WindowsOver' /\ held' = held /\ AnyDue' = AnyDue
<1>1. UNCHANGED <<held, worker>>
  BY DEF Request, requestAccountDeletion, LookUp, InsertDeletion, MarkCancelled,
         cancelAccountDeletion
<1>2. \A e \in Deletions : deletion'[e].due = deletion[e].due
  <2>1. CASE deletion' = deletion
    BY <2>1
  <2>2. ASSUME NEW d \in Deletions, NEW status, Becomes(d, status)
        PROVE  \A e \in Deletions : deletion'[e].due = deletion[e].due
    BY <2>2, StatusIsNotWindow
  <2>3. client[c].on \subseteq Deletions
    BY DEF Inv, TypeOK
  <2> QED BY <2>1, <2>2, <2>3 DEF Request, requestAccountDeletion, LookUp, InsertDeletion,
             MarkCancelled, CancelPending, cancelAccountDeletion
<1> QED BY <1>1, <1>2, SameWindows DEF AnyDue

LEMMA WindowStep ==
  ASSUME Inv, WindowsOver, NEW d \in Deletions,
         purgeClosedAccountDeletions(d) \/ WindowCloses(d)
  PROVE  WindowsOver' /\ held' = held
<1>1. CASE purgeClosedAccountDeletions(d)
  <2>1. /\ UNCHANGED <<held, worker>> /\ deletion' = [deletion EXCEPT ![d] = NoDeletion]
        /\ \A w \in Workers : d \notin worker[w].on
    BY <1>1 DEF purgeClosedAccountDeletions
  <2>2. \A w \in Workers : worker[w].on \subseteq Deletions
    BY DEF Inv, TypeOK
  <2>3. \A e \in Deletions : e # d => deletion'[e] = deletion[e]
    BY <2>1 DEF Inv, TypeOK
  <2> QED BY <2>1, <2>2, <2>3 DEF WindowsOver, WindowOver
<1>2. CASE WindowCloses(d)
  <2>1. UNCHANGED <<held, worker>> /\ deletion' = [deletion EXCEPT ![d].due = TRUE]
    BY <1>2 DEF WindowCloses
  <2>2. \A e \in Deletions : deletion[e].due => deletion'[e].due
    BY <2>1 DEF Inv, TypeOK
  <2> QED BY <2>1, <2>2, SameWindows
<1> QED BY <1>1, <1>2

LEMMA ErasureStep ==
  Inv /\ WindowsOver /\ [Next]_vars => WindowsOver' /\ [Erasure!Next]_(Erasure!vars)
<1> SUFFICES ASSUME Inv, WindowsOver, [Next]_vars
             PROVE  WindowsOver' /\ (Erasure!Next \/ UNCHANGED Erasure!vars)
  OBVIOUS
<1>0. /\ Erasure!vars = <<AnyDue, held>> /\ Erasure!vars' = <<AnyDue', held'>>
      /\ AnyDue \in BOOLEAN /\ AnyDue' \in BOOLEAN
  BY DEF Erasure!vars, AnyDue
<1>1. ASSUME WindowsOver', Erases, AnyDue' = AnyDue
      PROVE  WindowsOver' /\ (Erasure!Next \/ UNCHANGED Erasure!vars)
  BY <1>0, <1>1 DEF Erases, Erasure!Next
<1>2. ASSUME WindowsOver', held' = held
      PROVE  WindowsOver' /\ (Erasure!Next \/ UNCHANGED Erasure!vars)
  BY <1>0, <1>2 DEF Erasure!Next, Erasure!Record, AnyDue
<1>3. ASSUME NEW w \in Workers, Batch(w) \/ Run(w) \/ Crash(w)
      PROVE  WindowsOver' /\ (Erasure!Next \/ UNCHANGED Erasure!vars)
  <2>1. CASE Batch(w)
    BY <1>2, <2>1, BatchWindows DEF Batch
  <2>2. CASE Run(w)
    BY <1>1, <2>2, RunWindows
  <2>3. CASE Crash(w)
    BY <1>2, <2>3, RestingJob, WindowsStay DEF Crash
  <2> QED BY <1>3, <2>1, <2>2, <2>3
<1>4. ASSUME NEW c \in Clients, Request(c)
      PROVE  WindowsOver' /\ (Erasure!Next \/ UNCHANGED Erasure!vars)
  BY <1>2, <1>4, RequestWindows
<1>5. ASSUME UNCHANGED <<deletion, held, worker>>
      PROVE  WindowsOver' /\ (Erasure!Next \/ UNCHANGED Erasure!vars)
  BY <1>2, <1>5, SameWindows
<1>6. ASSUME NEW table \in Tables, Writes(table)
      PROVE  WindowsOver' /\ (Erasure!Next \/ UNCHANGED Erasure!vars)
  <2>1. UNCHANGED <<deletion, worker>> /\ Erasure!Use(table)
    BY <1>6 DEF Writes, Erasure!Use
  <2> QED BY <2>1, SameWindows DEF Erasure!Next
<1>7. ASSUME NEW x \in Exports, Exporting(x) \/ purgeExpiredDataExports(x)
      PROVE  UNCHANGED <<deletion, held, worker>>
  BY <1>7 DEF Exporting, requestDataExport, generateDataExport, processDataExport,
              purgeExpiredDataExports
<1>8. CASE Opens \/ Closes \/ UNCHANGED vars
  BY <1>5, <1>8 DEF Opens, Closes, vars
<1> QED BY <1>2, <1>3, <1>4, <1>5, <1>6, <1>7, <1>8, WindowStep DEF Next

LEMMA ErasureInit == Init => WindowsOver /\ Erasure!Init
BY DEF Init, NoDeletion, Resting, WindowsOver, WindowOver, Erasure!Init

\* The runs implement the abstract erasure: nothing is emptied before a cancellation
\* window has closed, and the account closes before any other table is emptied.
THEOREM ErasureImplemented == Spec => ErasurePromise
<1>1. Spec => [](Inv /\ WindowsOver)
  <2>1. Init => Inv /\ WindowsOver
    BY Initially, ErasureInit
  <2>2. Inv /\ WindowsOver /\ [Next]_vars => (Inv /\ WindowsOver)'
    BY Inductive, ErasureStep
  <2> QED BY <2>1, <2>2, PTL DEF Spec
<1>2. Spec => Erasure!Init /\ [][Erasure!Next]_(Erasure!vars)
  BY <1>1, ErasureInit, ErasureStep, PTL DEF Spec
<1> QED BY <1>2 DEF ErasurePromise, Erasure!Spec
=============================================================================
