--------------------------- MODULE EvaluationRunner ---------------------------
(***************************************************************************)
(* Batch evaluation: run_batch sends the samples of a dataset through the  *)
(* target, at most max_concurrency at a time over all runs of one runner,  *)
(* scores every prediction and reports; reports are saved as files, listed *)
(* and compared.                                                           *)
(*                                                                         *)
(* A prediction that raises an Exception becomes a result with an error; a *)
(* cancelled one ends the run, but gather leaves the other samples of the  *)
(* run running.  A metric that raises scores 0; one that is cancelled is   *)
(* missing from the result.  Scores are whole numbers of a small unit.     *)
(***************************************************************************)
EXTENDS Integers, FiniteSets, FiniteSetsExt

CONSTANTS
  Runs,             \* the calls of run_batch on one runner
  Clients,          \* who fetches and deletes reports
  Samples,          \* the dataset
  Metrics,
  Scores,           \* the scores a metric gives
  MaxConcurrency,   \* max_concurrency
  Tolerance,        \* metric_tolerance
  Threshold         \* sample_regression_threshold

ASSUME EvaluationConstants ==
  /\ IsFiniteSet(Runs) /\ IsFiniteSet(Samples) /\ IsFiniteSet(Metrics)
  /\ Scores \subseteq Nat /\ 0 \in Scores
  /\ MaxConcurrency \in Nat \ {0} /\ Tolerance \in Nat /\ Threshold \in Nat \ {0}

VARIABLES
  run,      \* run[r]: "idle", "running", "reported" or "aborted"
  task,     \* task[r][s]: where evaluate_sample is
  free,     \* the slots of the semaphore that nobody holds
  result,   \* result[r][s]: whether the prediction failed, and the scores so far
  report,   \* report[r]: what run_batch returned, NoReport before
  file,     \* file[r]: the file of run r: "absent", "temp" (not named *.json), "whole",
            \* "broken", or "deleted"
  listing,  \* list_runs: the files globbed and those read so far
  access,   \* access[u]: the run that client u fetches or deletes, between exists()
            \* and the access, or the error it got
  tally     \* history: failures and scores of each run, counted as they come in

evars == <<run, task, free, result, report, file, listing, access, tally>>

NoReport == [count |-> 0, failures |-> 0, results |-> <<>>, stats |-> <<>>]
NoResult == [failed |-> FALSE, scores |-> <<>>]
NoTally == [failures |-> 0, sum |-> [m \in Metrics |-> 0], count |-> [m \in Metrics |-> 0]]

\* The samples inside the semaphore's block.
Active == {p \in Runs \X Samples : task[p[1]][p[2]] \in {"predicting", "scoring"}}

Advance(r, s, from, to) ==
  task[r][s] = from /\ task' = [task EXCEPT ![r][s] = to]

-----------------------------------------------------------------------------
(* evaluate_sample.                                                        *)

StartRun(r) ==
  /\ run[r] = "idle"
  /\ run' = [run EXCEPT ![r] = "running"]
  /\ task' = [task EXCEPT ![r] = [s \in Samples |-> "waiting"]]
  /\ UNCHANGED <<free, result, report, file, listing, access, tally>>

Acquire(r, s) ==
  /\ free > 0 /\ free' = free - 1
  /\ Advance(r, s, "waiting", "predicting")
  /\ UNCHANGED <<run, result, report, file, listing, access, tally>>

\* predict answers, with an error if the orchestrator raised.
Predict(r, s) ==
  /\ Advance(r, s, "predicting", "scoring")
  /\ \E failed \in BOOLEAN :
       /\ result' = [result EXCEPT ![r][s].failed = failed]
       /\ tally' = [tally EXCEPT ![r].failures = IF failed THEN @ + 1 ELSE @]
  /\ UNCHANGED <<run, free, report, file, listing, access>>

\* Mutant: the slot is released after the scoring only, not when the block is
\* left by an exception.
PredictCancelledLeaks(r, s) ==
  /\ Advance(r, s, "predicting", "cancelled")
  /\ run' = [run EXCEPT ![r] = IF @ = "running" THEN "aborted" ELSE @]
  /\ UNCHANGED <<free, result, report, file, listing, access, tally>>

\* predict is cancelled: no Exception, so nothing catches it.  The block of the
\* semaphore is left; gather hands the cancellation to run_batch, and the other
\* samples are not told.
PredictCancelled(r, s) ==
  /\ Advance(r, s, "predicting", "cancelled")
  /\ free' = free + 1
  /\ run' = [run EXCEPT ![r] = IF @ = "running" THEN "aborted" ELSE @]
  /\ UNCHANGED <<result, report, file, listing, access, tally>>

\* The tally of a run after one more sample with the scores f.
Counted(t, f) ==
  [t EXCEPT !.sum = [m \in Metrics |-> IF m \in DOMAIN f THEN @[m] + f[m] ELSE @[m]],
            !.count = [m \in Metrics |-> IF m \in DOMAIN f THEN @[m] + 1 ELSE @[m]]]

\* The metrics answer together: a score each, 0 after an exception, none after
\* a cancellation.  The block of the semaphore is left.
Score(r, s) ==
  /\ Advance(r, s, "scoring", "done")
  /\ free' = free + 1
  /\ \E scored \in SUBSET Metrics : \E f \in [scored -> Scores] :
       /\ result' = [result EXCEPT ![r][s].scores = f]
       /\ tally' = [tally EXCEPT ![r] = Counted(@, f)]
  /\ UNCHANGED <<run, report, file, listing, access>>

-----------------------------------------------------------------------------
(* run_batch: the report, when the last sample is done.                    *)

\* Mutant: a metric that is missing counts as a score of 0.
StatsZero(results) ==
  LET score(s, m) == IF m \in DOMAIN results[s].scores THEN results[s].scores[m] ELSE 0 IN
  [m \in Metrics |->
     [sum |-> FoldSet(LAMBDA s, acc : acc + score(s, m), 0, Samples),
      count |-> Cardinality(Samples)]]

\* _calculate_aggregate_metrics: sum and number of the scores there are; a
\* metric without any score has no entry.
Stats(results) ==
  LET having(m) == {s \in Samples : m \in DOMAIN results[s].scores} IN
  [m \in {m \in Metrics : having(m) # {}} |->
     [sum |-> FoldSet(LAMBDA s, acc : acc + results[s].scores[m], 0, having(m)),
      count |-> Cardinality(having(m))]]

Report(r) ==
  /\ run[r] = "running" /\ \A s \in Samples : task[r][s] = "done"
  /\ run' = [run EXCEPT ![r] = "reported"]
  /\ report' = [report EXCEPT ![r] =
       [count |-> Cardinality(Samples),
        failures |-> Cardinality({s \in Samples : result[r][s].failed}),
        results |-> result[r], stats |-> Stats(result[r])]]
  /\ UNCHANGED <<task, free, result, file, listing, access, tally>>

-----------------------------------------------------------------------------
(* FileEvaluationStore: every call runs on a worker thread.                *)

NoListing == [on |-> FALSE, left |-> {}, shown |-> {}, owed |-> {}]

\* Mutant: the report is written under its own name from the beginning.
WriteInPlace(r) ==
  /\ run[r] = "reported" /\ file[r] = "absent"
  /\ file' = [file EXCEPT ![r] = "broken"]
  /\ UNCHANGED <<run, task, free, result, report, listing, access, tally>>

\* save_run writes a temporary file in the directory of the runs.
WriteTemp(r) ==
  /\ run[r] = "reported" /\ file[r] = "absent"
  /\ file' = [file EXCEPT ![r] = "temp"]
  /\ UNCHANGED <<run, task, free, result, report, listing, access, tally>>

\* It is renamed; a crash before that leaves the temporary file for ever.
Rename(r) ==
  /\ file[r] \in {"temp", "broken"}
  /\ file' = [file EXCEPT ![r] = "whole"]
  /\ UNCHANGED <<run, task, free, result, report, listing, access, tally>>

Named == {r \in Runs : file[r] \in {"whole", "broken"}}

\* list_runs: the names first, then one file after the other; a file that
\* cannot be read is passed over.
ListBegin ==
  /\ ~listing.on
  /\ listing' = [on |-> TRUE, left |-> Named, shown |-> {}, owed |-> Named]
  /\ UNCHANGED <<run, task, free, result, report, file, access, tally>>

ListRead(r) ==
  /\ listing.on /\ r \in listing.left
  /\ listing' = [listing EXCEPT !.left = @ \ {r},
                                !.shown = IF file[r] = "whole" THEN @ \cup {r} ELSE @]
  /\ UNCHANGED <<run, task, free, result, report, file, access, tally>>

ListEnd ==
  /\ listing.on /\ listing.left = {}
  /\ listing' = NoListing
  /\ UNCHANGED <<run, task, free, result, report, file, access, tally>>

NoAccess == [op |-> "idle"]

\* get_run and delete_run begin with exists(); a file that is not there is
\* answered with None or False.  Any number of threads are here at a time.
LookUp(u, r, op) ==
  /\ access[u].op \notin {"get", "delete"}
  /\ access' = [access EXCEPT ![u] = IF r \in Named THEN [op |-> op, run |-> r] ELSE NoAccess]
  /\ UNCHANGED <<run, task, free, result, report, file, listing, tally>>

\* Whether the file is still there: FileNotFoundError if it is not.
GetRead(u) ==
  /\ access[u].op = "get"
  /\ LET r == access[u].run IN
     access' = [access EXCEPT ![u] = CASE file[r] = "whole"  -> NoAccess
                                       [] file[r] = "broken" -> [op |-> "unreadable", run |-> r]
                                       [] OTHER              -> [op |-> "vanished", run |-> r]]
  /\ UNCHANGED <<run, task, free, result, report, file, listing, tally>>

Unlink(u) ==
  /\ access[u].op = "delete"
  /\ LET r == access[u].run IN
     /\ file' = [file EXCEPT ![r] = "deleted"]
     /\ access' = [access EXCEPT ![u] = IF r \in Named THEN NoAccess ELSE [op |-> "vanished", run |-> r]]
     /\ listing' = [listing EXCEPT !.owed = @ \ {r}]
  /\ UNCHANGED <<run, task, free, result, report, tally>>

-----------------------------------------------------------------------------
(* RunComparator.                                                          *)

\* Mutant: a gain counts from one unit above the threshold.
ImprovementsStrict(base, cand) ==
  {p \in Samples \X Metrics :
     /\ p[2] \in DOMAIN base[p[1]].scores \cap DOMAIN cand[p[1]].scores
     /\ cand[p[1]].scores[p[2]] - base[p[1]].scores[p[2]] > Threshold}

\* The samples, with the metric, that lost or gained at least the threshold.
Regressions(base, cand) ==
  {p \in Samples \X Metrics :
     /\ p[2] \in DOMAIN base[p[1]].scores \cap DOMAIN cand[p[1]].scores
     /\ cand[p[1]].scores[p[2]] - base[p[1]].scores[p[2]] <= -Threshold}

Improvements(base, cand) ==
  {p \in Samples \X Metrics :
     /\ p[2] \in DOMAIN base[p[1]].scores \cap DOMAIN cand[p[1]].scores
     /\ cand[p[1]].scores[p[2]] - base[p[1]].scores[p[2]] >= Threshold}

\* Sum and count of a metric; a run without the metric has the mean 0.
Stat(stats, m) == IF m \in DOMAIN stats THEN stats[m] ELSE [sum |-> 0, count |-> 1]

\* The difference of two means, over their common denominator.
Status(base, cand, m) ==
  LET b == Stat(base, m)  c == Stat(cand, m)
      delta == c.sum * b.count - b.sum * c.count
      bound == Tolerance * b.count * c.count
  IN  IF delta > bound THEN "IMPROVED" ELSE IF delta < -bound THEN "REGRESSED"
      ELSE "UNCHANGED"

-----------------------------------------------------------------------------
EInit ==
  /\ run = [r \in Runs |-> "idle"]
  /\ task = [r \in Runs |-> [s \in Samples |-> "none"]]
  /\ free = MaxConcurrency
  /\ result = [r \in Runs |-> [s \in Samples |-> NoResult]]
  /\ report = [r \in Runs |-> NoReport]
  /\ file = [r \in Runs |-> "absent"]
  /\ listing = NoListing
  /\ access = [u \in Clients |-> NoAccess]
  /\ tally = [r \in Runs |-> NoTally]

Sample(r, s) == Acquire(r, s) \/ Predict(r, s) \/ PredictCancelled(r, s) \/ Score(r, s)

Storing(r) == WriteTemp(r) \/ Rename(r) \/ ListRead(r)

Accessing(u) ==
  GetRead(u) \/ Unlink(u) \/ \E r \in Runs : LookUp(u, r, "get") \/ LookUp(u, r, "delete")

ENext ==
  \/ \E r \in Runs : StartRun(r) \/ Report(r) \/ Storing(r)
  \/ \E u \in Clients : Accessing(u)
  \/ \E r \in Runs, s \in Samples : Sample(r, s)
  \/ ListBegin \/ ListEnd

\* The event loop runs what can run.
ESpec ==
  /\ EInit /\ [][ENext]_evars
  /\ \A r \in Runs : WF_evars(Report(r))
  /\ \A r \in Runs, s \in Samples : WF_evars(Sample(r, s))

-----------------------------------------------------------------------------
(* Properties.                                                             *)

\* No slot is leaked and none is released twice: the free slots and the samples
\* under way make up max_concurrency, counting the samples that an aborted run
\* has left behind, those that were cancelled, and a second run beside them.
SlotsKept == free + Cardinality(Active) = MaxConcurrency

\* A report agrees with what happened during its run, counted one prediction and
\* one score at a time: so many samples failed, and the average of a metric is
\* the sum of the scores it gave over their number, and missing only if it gave
\* none.  Nothing is counted after the report.
ReportComplete ==
  \A r \in Runs : run[r] = "reported" =>
    /\ report[r].count = Cardinality(Samples)
    /\ report[r].failures = tally[r].failures
    /\ \A m \in Metrics :
         IF tally[r].count[m] = 0 THEN m \notin DOMAIN report[r].stats
         ELSE report[r].stats[m] = [sum |-> tally[r].sum[m], count |-> tally[r].count[m]]

\* Nobody reads half a report: a listing that has ended its reading shows every
\* run that was saved when it began and has not been deleted meanwhile; get_run
\* never finds a file it cannot parse; and a call whose file is gone between its
\* exists() and its access was overtaken by a deletion, never by a save.
StoreWhole ==
  /\ listing.on /\ listing.left = {} => listing.owed \subseteq listing.shown
  /\ \A u \in Clients : access[u].op # "unreadable"
  /\ \A u \in Clients : access[u].op = "vanished" => file[access[u].run] = "deleted"

\* A comparison read from the other side tells the same story: what one calls a
\* regression the other calls an improvement, for every sample and every mean.
ComparisonMirrors ==
  \A a, b \in Runs : run[a] = "reported" /\ run[b] = "reported" =>
    LET x == report[a]  y == report[b] IN
    /\ Regressions(x.results, y.results) = Improvements(y.results, x.results)
    /\ \A m \in Metrics :
         (Status(x.stats, y.stats, m) = "REGRESSED") <=> (Status(y.stats, x.stats, m) = "IMPROVED")

\* A run that is started ends with a report or is aborted, although others
\* compete with it for the slots.
RunEnds == \A r \in Runs : run[r] = "running" ~> run[r] \in {"reported", "aborted"}

=============================================================================
