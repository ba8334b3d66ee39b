--------------------------- MODULE IntervalMining ---------------------------
(***************************************************************************)
(* Requests and the interval miner around the mutex of ProviderData        *)
(* (crates/edr_provider/src/provider.rs, interval.rs, requests/eth/mine.rs). *)
(* Threads handle requests with the data locked.  evm_setIntervalMining    *)
(* spawns a task that locks the data for every block it mines, and, still  *)
(* holding the lock, cancels the task before it and waits for its end.     *)
(*                                                                         *)
(* The mutex is tokio's: it is handed over in the order of arrival.        *)
(***************************************************************************)
EXTENDS Vecs

CONSTANTS
  Threads,    \* of the callers of handle_request
  Tasks,      \* the interval mining tasks that exist at a time
  Nobody,     \* no thread and no task: Rust's None
  MiningFails \* whether mining a block may fail

ASSUME IntervalMiningAssumption ==
  /\ Threads \cap Tasks = {} /\ Nobody \notin Threads \cup Tasks
  /\ MiningFails \in BOOLEAN

VARIABLES
  holder,          \* of the lock on the data, or Nobody
  queue,           \* who waits for it
  thread,          \* Threads -> "idle", "queued", "running" or "joining"
  joined,          \* Threads -> the task it joins, or Nobody
  task,            \* Tasks -> "none", "sleeping", "waiting", "mining" or "done"
  cancelled,       \* the tasks that were sent the cancellation signal
  interval_miner,  \* the task of Provider::interval_miner, or Nobody
  provider         \* "open", "dropping" or "closed"

mutex == <<holder, queue>>
intervalVars == <<mutex, thread, joined, task, cancelled, interval_miner, provider>>

-----------------------------------------------------------------------------
(* The mutex (external: tokio::sync::Mutex). *)

Lock(actor) ==
  IF holder = Nobody THEN holder' = actor /\ UNCHANGED queue
  ELSE queue' = Append(queue, actor) /\ UNCHANGED holder

Unlock ==
  IF queue = <<>> THEN holder' = Nobody /\ UNCHANGED queue
  ELSE holder' = Head(queue) /\ queue' = Tail(queue)

(* The future of a lock is dropped, whether it has been given the lock or not. *)
GiveUp(actor) ==
  IF holder = actor THEN Unlock
  ELSE queue' = Retain(queue, LAMBDA a : a # actor) /\ UNCHANGED holder

-----------------------------------------------------------------------------
(* Requests. *)

HandleRequest(r) ==
  /\ provider = "open" /\ thread[r] = "idle"
  /\ Lock(r)
  /\ thread' = [thread EXCEPT ![r] = "queued"]
  /\ UNCHANGED <<joined, task, cancelled, interval_miner, provider>>

Locked(r) ==
  /\ thread[r] = "queued" /\ holder = r
  /\ thread' = [thread EXCEPT ![r] = "running"]
  /\ UNCHANGED <<mutex, joined, task, cancelled, interval_miner, provider>>

(* The response is returned, after the only or the last request of a batch. *)
Return(r) ==
  /\ thread[r] = "running"
  /\ Unlock
  /\ thread' = [thread EXCEPT ![r] = "idle"]
  /\ UNCHANGED <<joined, task, cancelled, interval_miner, provider>>

(* IntervalMiner::new: the task starts with its first sleep. *)
Spawned(t) == [task EXCEPT ![t] = "sleeping"]

(* Drop for IntervalMiner: the signal is sent, unless the task has ended. *)
Forgotten(tasks, old) ==
  IF old # Nobody /\ tasks[old] = "done" THEN [tasks EXCEPT ![old] = "none"] ELSE tasks

(* Mutant: the task is told to end, and not waited for. *)
Bug_NotJoined(r, new) ==
  /\ thread[r] = "running"
  /\ interval_miner' = new
  /\ task' = Forgotten(IF new = Nobody THEN task ELSE Spawned(new), interval_miner)
  /\ cancelled' = cancelled \cup ({interval_miner} \ {Nobody})
  /\ UNCHANGED <<mutex, thread, joined, provider>>

(* Mutant: the lock is given back before the task is waited for. *)
Bug_UnlocksFirst(r, new) ==
  LET old == interval_miner IN
  /\ thread[r] = "running" /\ old # Nobody /\ task[old] # "done"
  /\ interval_miner' = new
  /\ task' = IF new = Nobody THEN task ELSE Spawned(new)
  /\ cancelled' = cancelled \cup {old}
  /\ Unlock
  /\ thread' = [thread EXCEPT ![r] = "joining"]
  /\ joined' = [joined EXCEPT ![r] = old]
  /\ UNCHANGED provider

(* handle_set_interval_mining: the new miner, if there is one, is spawned
   before the old one is dropped. *)
SetIntervalMining(r, new) ==
  LET old == interval_miner
      alive == old # Nobody /\ task[old] # "done"
  IN
  /\ thread[r] = "running"
  /\ new # Nobody => task[new] = "none"
  /\ interval_miner' = new
  /\ task' = Forgotten(IF new = Nobody THEN task ELSE Spawned(new), old)
  /\ cancelled' = IF alive THEN cancelled \cup {old} ELSE cancelled
  /\ thread' = IF alive THEN [thread EXCEPT ![r] = "joining"] ELSE thread
  /\ joined' = IF alive THEN [joined EXCEPT ![r] = old] ELSE joined
  /\ UNCHANGED <<mutex, provider>>

(* block_on(task) returns. *)
Join(r) ==
  /\ thread[r] = "joining" /\ task[joined[r]] = "done"
  /\ thread' = [thread EXCEPT ![r] = "running"]
  /\ task' = [task EXCEPT ![joined[r]] = "none"]
  /\ cancelled' = cancelled \ {joined[r]}
  /\ joined' = [joined EXCEPT ![r] = Nobody]
  /\ UNCHANGED <<mutex, interval_miner, provider>>

-----------------------------------------------------------------------------
(* interval_mining_loop *)

(* Mutant: a lock that is taken is only tried for, and asked for again after
   another sleep. *)
Bug_TriesLock(t) ==
  /\ task[t] = "sleeping"
  /\ IF holder = Nobody THEN Lock(t) /\ task' = [task EXCEPT ![t] = "waiting"]
     ELSE UNCHANGED <<mutex, task>>
  /\ UNCHANGED <<thread, joined, cancelled, interval_miner, provider>>

(* The sleep ends; the lock is asked for. *)
WakeUp(t) ==
  /\ task[t] = "sleeping"
  /\ Lock(t)
  /\ task' = [task EXCEPT ![t] = "waiting"]
  /\ UNCHANGED <<thread, joined, cancelled, interval_miner, provider>>

CancelSleeping(t) ==
  /\ task[t] = "sleeping" /\ t \in cancelled
  /\ task' = [task EXCEPT ![t] = "done"]
  /\ UNCHANGED <<mutex, thread, joined, cancelled, interval_miner, provider>>

CancelWaiting(t) ==
  /\ task[t] = "waiting" /\ t \in cancelled
  /\ GiveUp(t)
  /\ task' = [task EXCEPT ![t] = "done"]
  /\ UNCHANGED <<thread, joined, cancelled, interval_miner, provider>>

StartMining(t) ==
  /\ task[t] = "waiting" /\ holder = t
  /\ task' = [task EXCEPT ![t] = "mining"]
  /\ UNCHANGED <<mutex, thread, joined, cancelled, interval_miner, provider>>

(* Mutant: the lock is kept for the next block. *)
Bug_KeepsLock(t) == task[t] = "mining" /\ UNCHANGED intervalVars

(* interval_mine; an error ends the task. *)
IntervalMine(t) ==
  /\ task[t] = "mining"
  /\ Unlock
  /\ \/ task' = [task EXCEPT ![t] = "sleeping"]
     \/ MiningFails /\ task' = [task EXCEPT ![t] = "done"]
  /\ UNCHANGED <<thread, joined, cancelled, interval_miner, provider>>

-----------------------------------------------------------------------------
(* Mutant: the task is waited for, and not told to end. *)
Bug_JoinedUntold ==
  /\ provider = "open" /\ \A r \in Threads : thread[r] = "idle"
  /\ provider' = IF interval_miner # Nobody /\ task[interval_miner] # "done"
                  THEN "dropping" ELSE "closed"
  /\ UNCHANGED <<mutex, thread, joined, task, cancelled, interval_miner>>

(* The provider is dropped when nobody uses it any more; the data is not
   locked then. *)
DropProvider ==
  /\ provider = "open" /\ \A r \in Threads : thread[r] = "idle"
  /\ IF interval_miner # Nobody /\ task[interval_miner] # "done"
     THEN provider' = "dropping" /\ cancelled' = cancelled \cup {interval_miner}
     ELSE provider' = "closed" /\ UNCHANGED cancelled
  /\ UNCHANGED <<mutex, thread, joined, task, interval_miner>>

JoinLast ==
  /\ provider = "dropping" /\ task[interval_miner] = "done"
  /\ provider' = "closed"
  /\ UNCHANGED <<mutex, thread, joined, task, cancelled, interval_miner>>

Closed == provider = "closed" /\ UNCHANGED intervalVars

(* Interval mining may be configured from the start. *)
IntervalInit ==
  /\ interval_miner \in {Nobody} \cup Tasks
  /\ task = [t \in Tasks |-> IF t = interval_miner THEN "sleeping" ELSE "none"]
  /\ holder = Nobody /\ queue = <<>>
  /\ thread = [r \in Threads |-> "idle"] /\ joined = [r \in Threads |-> Nobody]
  /\ cancelled = {} /\ provider = "open"

RequestStep(r) ==
  HandleRequest(r) \/ Locked(r) \/ Return(r) \/ Join(r)
  \/ \E new \in {Nobody} \cup Tasks : SetIntervalMining(r, new)

TaskStep(t) ==
  WakeUp(t) \/ CancelSleeping(t) \/ CancelWaiting(t) \/ StartMining(t) \/ IntervalMine(t)

IntervalNext ==
  \/ \E r \in Threads : RequestStep(r)
  \/ \E t \in Tasks : TaskStep(t)
  \/ DropProvider \/ JoinLast \/ Closed

(* Threads and tasks that can go on do so; a batch of requests is finite; and
   select! picks at random among the branches that are ready. *)
Fairness ==
  /\ \A r \in Threads : /\ WF_intervalVars(Locked(r)) /\ WF_intervalVars(Join(r))
                        /\ SF_intervalVars(Return(r))
  /\ \A t \in Tasks : /\ WF_intervalVars(WakeUp(t)) /\ WF_intervalVars(StartMining(t))
                      /\ WF_intervalVars(IntervalMine(t))
                      /\ SF_intervalVars(CancelSleeping(t)) /\ SF_intervalVars(CancelWaiting(t))
  /\ WF_intervalVars(JoinLast)

IntervalSpec == IntervalInit /\ [][IntervalNext]_intervalVars /\ Fairness

-----------------------------------------------------------------------------
(* Who has or wants the lock of ProviderData is in the state that says so.   *)
IntervalTypeOK ==
  /\ holder \in {Nobody} \cup Threads \cup Tasks
  /\ queue \in Seq(Threads \cup Tasks)
  /\ thread \in [Threads -> {"idle", "queued", "running", "joining"}]
  /\ joined \in [Threads -> {Nobody} \cup Tasks]
  /\ task \in [Tasks -> {"none", "sleeping", "waiting", "mining", "done"}]
  /\ cancelled \subseteq Tasks
  /\ interval_miner \in {Nobody} \cup Tasks
  /\ provider \in {"open", "dropping", "closed"}

(* The data is used by the one who has locked it, and by nobody else: not by *)
(* a thread that waits for a task while another one handles a request.       *)
LockExclusive ==
  /\ \A r \in Threads : thread[r] \in {"running", "joining"} => holder = r
  /\ \A t \in Tasks : task[t] = "mining" => holder = t

(* A task that is not the provider's interval miner is on its way out, and a *)
(* request waits for it: no two miners are left when evm_setIntervalMining   *)
(* returns, however the cancellation races with the sleep and the lock.      *)
OneMiner ==
  \A t \in Tasks : task[t] \in {"sleeping", "waiting", "mining"} =>
    t = interval_miner \/ \E r \in Threads : joined[r] = t

(* "check for cancellation/self-destruction while async-awaiting the lock to *)
(* avoid a deadlock" (Provider::interval_miner): every request returns, the  *)
(* ones that replace the miner while it waits for the lock too.              *)
RequestsReturn == \A r \in Threads : thread[r] = "queued" ~> thread[r] = "idle"

(* Requests do not starve the interval miner: it mines its next block, or is *)
(* told to end.                                                              *)
MinerProceeds ==
  \A t \in Tasks : task[t] = "sleeping" ~> task[t] \in {"mining", "done"}

(* Dropping the provider ends, whatever the miner is doing.                  *)
DropEnds == provider = "dropping" ~> provider = "closed"

(* "Failed to send cancellation signal to interval mining task. The runtime  *)
(* must have already terminated." (IntervalMiner::drop): as long as the      *)
(* runtime is there, the task of the interval miner is.                      *)
MinerIsAlive ==
  provider = "open" /\ interval_miner # Nobody => task[interval_miner] # "done"
=============================================================================
