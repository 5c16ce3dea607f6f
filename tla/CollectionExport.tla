-------------------------- MODULE CollectionExport --------------------------
(***************************************************************************)
(* RDSCollection.to_parquet: one job for each file, which reads it, aligns  *)
(* it and puts one Parquet file in place.  The jobs run in this process one  *)
(* after the other, or in a pool of worker processes that takes them in      *)
(* their order and finishes them in any.                                     *)
(*                                                                         *)
(* The pool is concurrent.futures' (external): a few jobs wait in a queue    *)
(* that cannot be recalled; the results are taken in the order of the jobs;   *)
(* the first that failed recalls the jobs not yet queued; when a worker dies, *)
(* the pool gives up its other workers and every job without a result fails.   *)
(***************************************************************************)
EXTENDS Integers, FiniteSets, Sequences

CONSTANTS
  Stems,    \* the file names in their order, as _safe_name leaves them: the
            \* parts of a name, a number for each word and each number in it
  Workers,  \* how many processes a pool has, if there is one
  Existing, \* Parquet files that the directory has already
  MaxFaults \* bound: refused writes, interrupts and dying workers

Jobs == DOMAIN Stems

ASSUME ExportAssumption ==
  /\ Stems \in Seq(Seq(Nat))
  /\ Workers \in Nat \ {0} /\ MaxFaults \in Nat

VARIABLES
  job,       \* where each job is
  litter,    \* jobs whose temporary file exists
  directory, \* the Parquet files: whose table each holds (0: of an earlier call)
  collected, \* how many results the caller has taken
  call,      \* "running", "raising" (waits for the pool), or its end
  pool,      \* "none" (workers=None), "up", or "broken" by a worker that died
  faults

vars == <<job, litter, directory, collected, call, pool, faults>>

-----------------------------------------------------------------------------
\* Mutant of _unique_name: the number is always 2.
_unique_name_twice(name, used) == IF name \notin used THEN name ELSE Append(name, 2)

\* The first of name, name_2, name_3, ... that is not in use.
_unique_name(name, used) ==
  IF name \notin used THEN name
  ELSE Append(name, CHOOSE k \in 2 .. Cardinality(used) + 2 :
                      /\ Append(name, k) \notin used
                      /\ \A i \in 2 .. k - 1 : Append(name, i) \in used)

\* The destinations are fixed before any job starts.
Destinations[j \in Jobs] ==
  _unique_name(Stems[j], {Destinations[i] : i \in 1 .. j - 1})

In(states) == { j \in Jobs : job[j] \in states }

Working == {"reading", "aligned", "temporary", "written"}
Ended   == {"done", "failed", "cancelled", "lost"}

Move(j, from, to) == job[j] = from /\ job' = [job EXCEPT ![j] = to]

-----------------------------------------------------------------------------
Init ==
  /\ job = [j \in Jobs |-> "waiting"] /\ litter = {}
  /\ directory = [name \in Existing |-> 0]
  /\ collected = 0 /\ call = "running" /\ faults = 0
  /\ pool \in {"none", "up"} /\ (pool = "up" => Workers > 1 /\ Len(Stems) > 1)

\* The pool moves jobs into its queue, one more than it has workers.
Queue(j) ==
  /\ pool = "up" /\ Move(j, "waiting", "queued")
  /\ \A i \in 1 .. j - 1 : job[i] # "waiting"
  /\ Cardinality(In({"queued"})) <= Workers
  /\ UNCHANGED <<litter, directory, collected, call, pool, faults>>

\* Mutant of StartQueued: whether a worker is free or not.
StartQueued_at_once(j) ==
  /\ pool = "up" /\ Move(j, "queued", "reading")
  /\ \A i \in 1 .. j - 1 : job[i] # "queued"
  /\ UNCHANGED <<litter, directory, collected, call, pool, faults>>

\* A free worker takes the job at the head of the queue.
StartQueued(j) ==
  /\ pool = "up" /\ Move(j, "queued", "reading")
  /\ \A i \in 1 .. j - 1 : job[i] # "queued"
  /\ Cardinality(In(Working)) < Workers
  /\ UNCHANGED <<litter, directory, collected, call, pool, faults>>

\* Without a pool the caller runs the next job itself.
StartNext(j) ==
  /\ pool = "none" /\ call = "running" /\ j = collected + 1 /\ Move(j, "waiting", "reading")
  /\ UNCHANGED <<litter, directory, collected, call, pool, faults>>

\* read_rds_arrow and _align_arrow, which fail if the file is not what it was.
ReadAndAlign(j) ==
  /\ \E result \in {"aligned", "failed"} : Move(j, "reading", result)
  /\ UNCHANGED <<litter, directory, collected, call, pool, faults>>

MakeTemporary(j) ==
  /\ Move(j, "aligned", "temporary")
  /\ litter' = litter \cup {j}
  /\ UNCHANGED <<directory, collected, call, pool, faults>>

WriteTable(j) ==
  /\ Move(j, "temporary", "written")
  /\ UNCHANGED <<litter, directory, collected, call, pool, faults>>

\* os.replace: the temporary file becomes the Parquet file.
Publish(j) ==
  /\ Move(j, "written", "done")
  /\ litter' = litter \ {j}
  /\ directory' = [name \in DOMAIN directory \cup {Destinations[j]} |->
                     IF name = Destinations[j] THEN j ELSE directory[name]]
  /\ UNCHANGED <<collected, call, pool, faults>>

Fault(j) == job[j] \in Working /\ faults < MaxFaults /\ faults' = faults + 1

\* Mutant of Refuse: the destination is removed with the temporary file.
Refuse_destination(j) ==
  /\ Fault(j) /\ job[j] \in {"temporary", "written"} /\ job' = [job EXCEPT ![j] = "failed"]
  /\ directory' = [name \in DOMAIN directory \ {Destinations[j]} |-> directory[name]]
  /\ litter' = litter \ {j}
  /\ UNCHANGED <<collected, call, pool>>

\* Mutant of Refuse: without the except clause.
Refuse_uncaught(j) ==
  /\ Fault(j) /\ job[j] \in {"temporary", "written"} /\ job' = [job EXCEPT ![j] = "failed"]
  /\ UNCHANGED <<litter, directory, collected, call, pool>>

\* The disk is full, or the replacement is refused: except Exception.
Refuse(j) ==
  /\ Fault(j) /\ job[j] \in {"temporary", "written"} /\ job' = [job EXCEPT ![j] = "failed"]
  /\ litter' = litter \ {j}
  /\ UNCHANGED <<directory, collected, call, pool>>

\* KeyboardInterrupt, which no clause catches, ends the job where it is.
Interrupt(j) ==
  /\ Fault(j) /\ job' = [job EXCEPT ![j] = "lost"]
  /\ UNCHANGED <<litter, directory, collected, call, pool>>

\* A worker is killed.
Die(j) ==
  /\ Fault(j) /\ pool = "up" /\ job' = [job EXCEPT ![j] = "lost"]
  /\ pool' = "broken"
  /\ UNCHANGED <<litter, directory, collected, call>>

\* A broken pool terminates a worker, or drops a job, that has no result yet.
Terminate(j) ==
  /\ pool = "broken" /\ job[j] \in Working \cup {"waiting", "queued"}
  /\ job' = [job EXCEPT ![j] = "lost"]
  /\ UNCHANGED <<litter, directory, collected, call, pool, faults>>

\* Mutant of TakeResult: what has failed is passed over.
TakeResult_any ==
  /\ call = "running" /\ collected < Len(Stems) /\ job[collected + 1] \in Ended
  /\ collected' = collected + 1
  /\ UNCHANGED <<job, litter, directory, call, pool, faults>>

\* The caller takes the results in the order of the jobs.
TakeResult ==
  /\ call = "running" /\ collected < Len(Stems) /\ job[collected + 1] = "done"
  /\ collected' = collected + 1
  /\ UNCHANGED <<job, litter, directory, call, pool, faults>>

\* The first that failed is raised; the jobs not yet queued are recalled.
TakeFailure ==
  /\ call = "running" /\ collected < Len(Stems) /\ job[collected + 1] \in {"failed", "lost"}
  /\ call' = "raising"
  /\ job' = [j \in Jobs |-> IF job[j] = "waiting" THEN "cancelled" ELSE job[j]]
  /\ UNCHANGED <<litter, directory, collected, pool, faults>>

\* The pool's with-statement waits for its workers, then the call ends.
Finish ==
  /\ In(Working \cup {"waiting", "queued"}) = {}
  /\ \/ call = "running" /\ collected = Len(Stems) /\ call' = "returned"
     \/ call = "raising" /\ call' = "raised"
  /\ UNCHANGED <<job, litter, directory, collected, pool, faults>>

Work(j) ==
  \/ Queue(j) \/ StartQueued(j) \/ StartNext(j)
  \/ ReadAndAlign(j) \/ MakeTemporary(j) \/ WriteTable(j) \/ Publish(j) \/ Terminate(j)

Go == TakeResult \/ TakeFailure \/ Finish

Next ==
  \/ Go
  \/ \E j \in Jobs : Work(j) \/ Refuse(j) \/ Interrupt(j) \/ Die(j)

Spec == Init /\ [][Next]_vars

-----------------------------------------------------------------------------
(* Properties. *)

\* Never more jobs at work than there are workers.
TypeOK ==
  /\ Cardinality(In(Working)) <= Workers
  /\ job \in [Jobs -> {"waiting", "queued"} \cup Working \cup Ended]
  /\ litter \subseteq Jobs
  /\ \A name \in DOMAIN directory : directory[name] \in Jobs \cup {0}
  /\ collected \in 0 .. Len(Stems)
  /\ call \in {"running", "raising", "returned", "raised"}
  /\ pool \in {"none", "up", "broken"} /\ faults \in 0 .. MaxFaults

\* Each job that has ended well has its table in a file of its own, whatever
\* the names of the files and the order in which the jobs end
\* (_dataset.py:674, "uniquified on collision").
OwnFile == \A j \in In({"done"}) : Destinations[j] \in DOMAIN directory /\ directory[Destinations[j]] = j

\* A call that returns has written a file for every file of the collection.
ReturnedComplete == call = "returned" => \A j \in Jobs : job[j] = "done"

\* No temporary file outlives its job, unless the job was interrupted or its
\* worker died (_dataset.py:211-221).
NoLitter == litter \subseteq In({"temporary", "written", "lost"})

\* A Parquet file never disappears, and a table in place is never taken back.
NeverMissing ==
  [][\A name \in DOMAIN directory :
       /\ name \in DOMAIN directory'
       /\ directory[name] # 0 => directory'[name] = directory[name]]_vars
=============================================================================
