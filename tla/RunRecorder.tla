---- MODULE RunRecorder ----
(***************************************************************************)
(* The local run recorder: processes that record diagnostic runs in one    *)
(* directory under a file lock, each run first as a record in progress and *)
(* then as a terminal one.  A process may die at any step; whoever takes   *)
(* the lock next turns the records it left in progress into crashes.  A    *)
(* run is known to be live by its marker file, which its process keeps     *)
(* locked, or by the process identity in the record.                       *)
(*                                                                         *)
(* Every record has the size 1.  The contents of a record are its outcome, *)
(* its date by the system clock, which may stand still or go back, and     *)
(* what the administration and the recovery write into it.                 *)
(***************************************************************************)
EXTENDS Naturals, FiniteSets

CONSTANTS
  Recording,        \* processes that publish to this root
  Run,              \* run identifiers
  Owned,            \* the runs that carry their process identity (in_progress_run)
  SuccessLimit, NonSuccessLimit,   \* records kept of each outcome
  ByteMax,          \* max_bytes
  Date,             \* times that the system clock shows
  AdminMax          \* administration commands of a behaviour

ASSUME OwnedAssumption == Owned \subseteq Run
ASSUME ByteAssumption == ByteMax \in Nat
ASSUME DateAssumption == Date \subseteq Nat

\* No process is called what marks a free lock or a run that nobody runs.
ASSUME RecordingAssumption == {"nobody", "gone"} \cap Recording = {}

VARIABLES
  store,    \* <run>.json of each run
  temp,     \* whether a temporary file lies in the directory
  marker,   \* the .live-<run> files
  held,     \* the process that holds the lock of a marker
  lockedBy, \* the process that holds store.lock
  proc,     \* what each process is doing
  runner,   \* the process a run belongs to
  reported,     \* the runs whose terminal record has been published
  begun,    \* the date that the process of a run keeps for it
  admins    \* administration commands so far

recorderVars == <<store, temp, marker, held, lockedBy, proc, runner, reported, begun, admins>>

NoProcess == "nobody"
Gone == "gone"
Absent == [is |-> "absent", success |-> FALSE, crash |-> FALSE, retained |-> FALSE,
           created |-> 0]
Partial(date) == [Absent EXCEPT !.is = "partial", !.created = date]
Outcome(success, date) ==
  [Absent EXCEPT !.is = "terminal", !.success = success, !.created = date]

NoJob == [at |-> "idle", kind |-> "none", run |-> NoProcess, record |-> Absent,
          target |-> NoProcess, write |-> Absent, then |-> "idle"]

RecorderInit ==
  /\ store = [r \in Run |-> Absent] /\ temp = FALSE
  /\ marker = {} /\ held = [r \in Run |-> NoProcess]
  /\ lockedBy = NoProcess /\ proc = [p \in Recording |-> NoJob]
  /\ runner = [r \in Run |-> NoProcess] /\ reported = {}
  /\ begun = [r \in Run |-> 0] /\ admins = 0

Present == {r \in Run : store[r].is # "absent"}
Oldest(S) == {r \in S : \A s \in S : store[r].created <= store[s].created}

To(p, at) == proc' = [proc EXCEPT ![p].at = at]
Live(r) == runner[r] \in Recording

-----------------------------------------------------------------------------
(* Starting and finishing a run *)

\* begin_live_run creates and locks the marker; its failure is not reported
\* and the run is published all the same.
begin_live_run(p, r) ==
  /\ proc[p].at = "idle" /\ runner[r] = NoProcess
  /\ runner' = [runner EXCEPT ![r] = p]
  /\ \E marked \in {r \notin Owned, FALSE} :
       /\ marker' = IF marked THEN marker \cup {r} ELSE marker
       /\ held' = IF marked THEN [held EXCEPT ![r] = p] ELSE held
  /\ \E date \in Date :
       /\ begun' = [begun EXCEPT ![r] = date]
       /\ proc' = [proc EXCEPT ![p] = [NoJob EXCEPT !.at = "publish", !.kind = "start",
                                                    !.run = r, !.record = Partial(date)]]
  /\ UNCHANGED <<store, temp, lockedBy, reported, admins>>

\* The terminal record; a run that carries its process is dated anew.
FinishRun(p, r) ==
  /\ proc[p].at = "idle" /\ runner[r] = p /\ r \notin reported
  /\ \E success \in BOOLEAN, date \in IF r \in Owned THEN Date ELSE {begun[r]} :
       proc' = [proc EXCEPT ![p] = [NoJob EXCEPT !.at = "publish", !.kind = "finish",
                                                 !.run = r, !.record = Outcome(success, date)]]
  /\ UNCHANGED <<store, temp, marker, held, lockedBy, runner, reported, begun, admins>>

\* run_diagnostics_command on an exact run.
Administer(p, r) ==
  /\ proc[p].at = "idle" /\ admins < AdminMax
  /\ admins' = admins + 1
  /\ \E kind \in {"retain", "unretain", "delete"} :
       proc' = [proc EXCEPT ![p] = [NoJob EXCEPT !.at = "publish", !.kind = kind, !.run = r]]
  /\ UNCHANGED <<store, temp, marker, held, lockedBy, runner, reported, begun>>

-----------------------------------------------------------------------------
(* Under store.lock *)

\* The lock is taken and stale temporary files are removed.
cleanup_stale_temps(p) ==
  /\ proc[p].at = "publish" /\ lockedBy = NoProcess
  /\ lockedBy' = p /\ temp' = FALSE /\ To(p, "recover")
  /\ UNCHANGED <<store, marker, held, runner, reported, begun, admins>>

\* Mutant of OwnerIsLive: a run without a recorded process is not live.
OwnerIsLiveByProcess(r) == r \in Owned /\ Live(r)

\* The recorded process decides; without one, a marker whose lock is held
\* belongs to a live run.
OwnerIsLive(r) ==
  IF r \in Owned THEN Live(r) ELSE r \in marker /\ held[r] # NoProcess

Unsettled == {r \in Present : store[r].is = "partial" /\ ~OwnerIsLive(r)}

\* atomic_write: a synced temporary file, renamed over the record.
WritesTemp(p, r, record, then) ==
  /\ temp' = TRUE
  /\ proc' = [proc EXCEPT ![p].at = "rename", ![p].target = r, ![p].write = record,
                          ![p].then = then]

\* recover_in_progress_locked, one record at a time; a stale marker is kept
\* locked until its record is written.
recover_in_progress(p) ==
  /\ proc[p].at = "recover"
  /\ IF Unsettled = {}
     THEN To(p, "job") /\ UNCHANGED <<temp, held>>
     ELSE \E r \in Unsettled :
            /\ WritesTemp(p, r, [store[r] EXCEPT !.is = "terminal", !.crash = TRUE,
                                                 !.success = FALSE], "unmark")
            /\ held' = IF r \in marker THEN [held EXCEPT ![r] = p] ELSE held
  /\ UNCHANGED <<store, marker, lockedBy, runner, reported, begun, admins>>

RenamesRecord(p) ==
  /\ proc[p].at = "rename"
  /\ store' = [store EXCEPT ![proc[p].target] = proc[p].write]
  /\ temp' = FALSE
  /\ reported' = IF proc[p].then = "enforce" /\ proc[p].kind = "finish"
             THEN reported \cup {proc[p].run} ELSE reported
  /\ proc' = [proc EXCEPT ![p].at = proc[p].then, ![p].write = Absent, ![p].then = "idle"]
  /\ UNCHANGED <<marker, held, lockedBy, runner, begun, admins>>

\* The marker of a settled run is let go and removed.
RemovesMarker(p) ==
  LET r == proc[p].target IN
  /\ proc[p].at = "unmark"
  /\ marker' = marker \ {r}
  /\ held' = IF held[r] = p /\ r \in marker THEN [held EXCEPT ![r] = NoProcess] ELSE held
  /\ proc' = [proc EXCEPT ![p].at = "recover", ![p].target = NoProcess]
  /\ UNCHANGED <<store, temp, lockedBy, runner, reported, begun, admins>>

\* Mutant of Removable: a retained record is given up before a failed one.
RemovableBySuccess(S) ==
  LET successes == {r \in S : store[r].success}
  IN  IF successes # {} THEN successes ELSE {r \in S : ~store[r].retained}

\* What may be removed for room: successes before the others, a retained
\* record never.
Removable(S) ==
  LET free == {r \in S : ~store[r].retained}
      successes == {r \in free : store[r].success}
  IN  IF successes # {} THEN successes ELSE free

Removes(r) == store' = [store EXCEPT ![r] = Absent]

Fits == Cardinality(Present) + 1 <= ByteMax

\* ensure_capacity_locked removes one record at a time until the new one fits;
\* with nothing left to remove the publication is dropped.
ensure_capacity(p) ==
  /\ proc[p].at = "job" /\ proc[p].kind \in {"start", "finish"}
  /\ IF Fits THEN WritesTemp(p, proc[p].run, proc[p].record, "enforce") /\ UNCHANGED store
     ELSE IF Removable(Present) # {}
     THEN (\E r \in Oldest(Removable(Present)) : Removes(r)) /\ UNCHANGED <<proc, temp>>
     ELSE To(p, "unlock") /\ UNCHANGED <<store, temp>>
  /\ UNCHANGED <<marker, held, lockedBy, runner, reported, begun, admins>>

\* set_retained and delete_run; an absent record is an error.
AdminJob(p) ==
  LET job == proc[p] IN
  /\ job.at = "job" /\ job.kind \in {"retain", "unretain", "delete"}
  /\ IF store[job.run].is = "absent"
     THEN To(p, "unlock") /\ UNCHANGED <<store, temp>>
     ELSE IF job.kind = "delete"
     THEN Removes(job.run) /\ To(p, "unlock") /\ UNCHANGED temp
     ELSE /\ WritesTemp(p, job.run, [store[job.run] EXCEPT !.retained = (job.kind = "retain")],
                        IF job.kind = "retain" THEN "unlock" ELSE "enforce")
          /\ UNCHANGED store
  /\ UNCHANGED <<marker, held, lockedBy, runner, reported, begun, admins>>

\* remove_oldest: the oldest records of one outcome, when they exceed its limit.
Excess(success) ==
  LET free == {r \in Present : ~store[r].retained /\ store[r].success = success}
  IN  IF Cardinality(free) > IF success THEN SuccessLimit ELSE NonSuccessLimit
      THEN Oldest(free) ELSE {}

\* enforce_retention_locked, one record at a time, successes first.
enforce_retention(p) ==
  /\ proc[p].at = "enforce"
  /\ \/ /\ \E r \in IF Excess(TRUE) # {} THEN Excess(TRUE) ELSE Excess(FALSE) : Removes(r)
        /\ UNCHANGED proc
     \/ Excess(TRUE) \cup Excess(FALSE) = {} /\ To(p, "unlock") /\ UNCHANGED store
  /\ UNCHANGED <<temp, marker, held, lockedBy, runner, reported, begun, admins>>

\* The lock is given up whatever happened; a finished run's marker follows.
Unlocks(p) ==
  /\ proc[p].at = "unlock"
  /\ lockedBy' = NoProcess
  /\ proc' = [proc EXCEPT ![p] = IF proc[p].kind = "finish"
                                 THEN [NoJob EXCEPT !.at = "end", !.run = proc[p].run] ELSE NoJob]
  /\ UNCHANGED <<store, temp, marker, held, runner, reported, begun, admins>>

\* end_live_run lets go of the marker and then removes it.
end_live_run(p) ==
  LET r == proc[p].run IN
  /\ \/ /\ proc[p].at = "end"
        /\ held' = IF held[r] = p THEN [held EXCEPT ![r] = NoProcess] ELSE held
        /\ To(p, "ended") /\ UNCHANGED <<marker, runner>>
     \/ /\ proc[p].at = "ended"
        /\ marker' = marker \ {r}
        /\ runner' = [runner EXCEPT ![r] = Gone]
        /\ proc' = [proc EXCEPT ![p] = NoJob] /\ UNCHANGED held
  /\ UNCHANGED <<store, temp, lockedBy, reported, begun, admins>>

\* A storage error leaves the section; a temporary file is removed again.
StorageFails(p) ==
  /\ proc[p].at \in {"recover", "rename", "unmark", "job", "enforce"}
  /\ temp' = IF proc[p].at = "rename" THEN FALSE ELSE temp
  /\ held' = [r \in Run |-> IF held[r] = p /\ runner[r] # p THEN NoProcess ELSE held[r]]
  /\ To(p, "unlock")
  /\ UNCHANGED <<store, marker, lockedBy, runner, reported, begun, admins>>

\* A process dies: its file locks go with it, its files stay.  Another one
\* takes its place.
RecorderDies(p) ==
  /\ proc[p] # NoJob \/ \E r \in Run : runner[r] = p
  /\ proc' = [proc EXCEPT ![p] = NoJob]
  /\ lockedBy' = IF lockedBy = p THEN NoProcess ELSE lockedBy
  /\ held' = [r \in Run |-> IF held[r] = p THEN NoProcess ELSE held[r]]
  /\ runner' = [r \in Run |-> IF runner[r] = p THEN Gone ELSE runner[r]]
  /\ UNCHANGED <<store, temp, marker, reported, begun, admins>>

-----------------------------------------------------------------------------
RecorderStep(p) ==
  \/ cleanup_stale_temps(p) \/ recover_in_progress(p) \/ RenamesRecord(p) \/ RemovesMarker(p)
  \/ ensure_capacity(p) \/ AdminJob(p) \/ enforce_retention(p) \/ Unlocks(p) \/ end_live_run(p)

RecorderNext ==
  \E p \in Recording :
    \/ \E r \in Run : begin_live_run(p, r) \/ FinishRun(p, r) \/ Administer(p, r)
    \/ RecorderStep(p) \/ StorageFails(p) \/ RecorderDies(p)

RecorderSpec == RecorderInit /\ [][RecorderNext]_recorderVars

-----------------------------------------------------------------------------
\* A run is recorded as a crash only when nothing keeps it live: not while its
\* process holds its marker or is the process on record, and not after its own
\* terminal record was written (recover_in_progress_locked against begin_live_run,
\* publish and end_live_run of another process).
CrashIsReal ==
  \A r \in Run : store[r].crash =>
    /\ r \notin reported
    /\ runner[r] \in Recording => r \notin Owned /\ held[r] # runner[r]

\* A retained record leaves the directory only by a delete command, whatever
\* room or retention limit another process enforces.
RetainedStays ==
  [][\A r \in Run : store[r].retained /\ store'[r].is = "absent" =>
       \E p \in Recording : proc[p].kind = "delete" /\ proc[p].run = r]_recorderVars

\* The records never exceed the capacity, through crashes and failed writes.
StoreIsBounded == Cardinality(Present) <= ByteMax

\* What the directory holds is true and fits: no live run is called a crash, and
\* the records keep within the limit.
RecordsAreSound == CrashIsReal /\ StoreIsBounded

====
