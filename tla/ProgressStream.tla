--------------------------- MODULE ProgressStream ---------------------------
(***************************************************************************)
(* Live progress over Server-Sent Events: the stream_progress endpoint     *)
(* (app/api/routes/bulk_actions.py) of one client, and the frames workers  *)
(* publish to Redis at the end of process_batch (app/workers/tasks.py,     *)
(* app/services/progress.py).  Planning is over and no batch has reported  *)
(* when the behaviour starts.  Redis pub/sub keeps nothing: a frame reaches*)
(* the clients subscribed at that moment.                                  *)
(***************************************************************************)
EXTENDS Progress, FiniteSets, Sequences

CONSTANTS Batches,   \* the batches of the action, one entity each
          Faults     \* what may go wrong

ASSUME BatchesAssumption == IsFiniteSet(Batches) /\ Batches # {}
ASSUME StreamFaultAssumption ==
    Faults \subseteq {"fail", "cancel", "publish", "commit", "disconnect"}

VARIABLES
    action,      \* the bulk_actions row, as committed
    job,         \* where the job of each batch is
    holder,      \* the batches whose open transaction has finalised the row
    payload,     \* the payload each job has read and not yet published
    client,      \* where the endpoint is
    inbox,       \* frames received by the subscription and not yet relayed
    frame,       \* the last frame the client was sent
    mishaps      \* history: what went wrong, or the cancellation, so far

vars == <<action, job, holder, payload, client, inbox, frame, mishaps>>

\* What the client can tell from a frame.
progress_payload(a) == [status |-> a.status, completed_batches |-> a.completed_batches]

Init ==
    /\ action = [new_action("processing", 1) EXCEPT
                    !.total_batches = Cardinality(Batches),
                    !.total_entities = Cardinality(Batches)]
    /\ job = [b \in Batches |-> "todo"]
    /\ holder = {}
    /\ payload = [b \in Batches |-> progress_payload(action)]
    /\ client = "connect"
    /\ inbox = <<>>
    /\ frame = progress_payload(action)
    /\ mishaps = {}

-----------------------------------------------------------------------------
(* Workers.                                                                *)

\* The job starts; a cancelled action stops it here and nowhere later.
Load(b) ==
    /\ job[b] = "todo"
    /\ job' = [job EXCEPT ![b] = IF action.status = "cancelled" THEN "done" ELSE "run"]
    /\ UNCHANGED <<action, holder, payload, client, inbox, frame, mishaps>>

\* run_batch commits.
Report(b) ==
    /\ job[b] = "run"
    /\ job' = [job EXCEPT ![b] = "finalize"]
    /\ action' = record_batch_completion(action, 1, 0, 0)
    /\ UNCHANGED <<holder, payload, client, inbox, frame, mishaps>>

\* _mark_batch_failed: this path finalises and never publishes.
ReportFailed(b) ==
    /\ "fail" \in Faults
    /\ job[b] = "run"
    /\ job' = [job EXCEPT ![b] = "finalize_only"]
    /\ action' = record_batch_completion(action, 0, 1, 0)
    /\ mishaps' = mishaps \union {"fail"}
    /\ UNCHANGED <<holder, payload, client, inbox, frame>>

\* Mutant: the action is read again before it is finalised.
FinalizeAfterRead(b) ==
    /\ job[b] = "finalize"
    /\ is_complete(action) => holder = {}
    /\ holder' = IF is_complete(action) THEN {b} ELSE holder
    /\ payload' = [payload EXCEPT ![b] = progress_payload(action)]
    /\ job' = [job EXCEPT ![b] = "publish"]
    /\ UNCHANGED <<action, client, inbox, frame, mishaps>>

\* finalize_if_complete and the second read, in the transaction that stays open
\* while the frame is published.  A second finaliser waits for the row lock.
Finalize(b) ==
    /\ job[b] = "finalize"
    /\ is_complete(action) => holder = {}
    /\ holder' = IF is_complete(action) THEN {b} ELSE holder
    /\ payload' = [payload EXCEPT ![b] =
                     progress_payload(finalize(action, final_status(action)))]
    /\ job' = [job EXCEPT ![b] = "publish"]
    /\ UNCHANGED <<action, client, inbox, frame, mishaps>>

\* publish_progress: an error is logged and swallowed.
publish_progress(b) ==
    /\ job[b] = "publish"
    /\ job' = [job EXCEPT ![b] = "commit"]
    /\ \/ /\ inbox' = IF client = "listen" THEN Append(inbox, payload[b]) ELSE inbox
          /\ UNCHANGED mishaps
       \/ /\ "publish" \in Faults
          /\ mishaps' = mishaps \union {"publish"}
          /\ UNCHANGED inbox
    /\ UNCHANGED <<action, holder, payload, client, frame>>

Commit(b) ==
    /\ job[b] = "commit"
    /\ job' = [job EXCEPT ![b] = "done"]
    /\ action' = IF b \in holder THEN finalize(action, final_status(action)) ELSE action
    /\ holder' = holder \ {b}
    /\ UNCHANGED <<payload, client, inbox, frame, mishaps>>

\* The commit fails: the job ends with the exception, its batch completed.
Rollback(b) ==
    /\ "commit" \in Faults
    /\ job[b] = "commit"
    /\ job' = [job EXCEPT ![b] = "done"]
    /\ mishaps' = IF b \in holder THEN mishaps \union {"commit"} ELSE mishaps
    /\ holder' = holder \ {b}
    /\ UNCHANGED <<action, payload, client, inbox, frame>>

FinalizeOnly(b) ==
    /\ job[b] = "finalize_only"
    /\ is_complete(action) => holder = {}
    /\ action' = finalize(action, final_status(action))
    /\ job' = [job EXCEPT ![b] = "done"]
    /\ UNCHANGED <<holder, payload, client, inbox, frame, mishaps>>

-----------------------------------------------------------------------------
(* The other endpoint: cancel_bulk_action, which publishes nothing.        *)

\* Mutant: the UPDATE has no condition on the status.
cancel_unguarded ==
    /\ "cancel" \in Faults
    /\ holder = {}
    /\ action.status # "cancelled"
    /\ action' = [action EXCEPT !.status = "cancelled"]
    /\ mishaps' = mishaps \union {"cancel"}
    /\ UNCHANGED <<job, holder, payload, client, inbox, frame>>

cancel_bulk_action ==
    /\ "cancel" \in Faults
    /\ holder = {}
    /\ ~ is_terminal(action.status)
    /\ action' = [action EXCEPT !.status = "cancelled"]
    /\ mishaps' = mishaps \union {"cancel"}
    /\ UNCHANGED <<job, holder, payload, client, inbox, frame>>

-----------------------------------------------------------------------------
(* stream_progress.                                                        *)

\* The row is read and sent as the first frame.
Connect ==
    /\ client = "connect"
    /\ frame' = progress_payload(action)
    /\ client' = IF is_terminal(action.status) THEN "closed" ELSE "subscribe"
    /\ UNCHANGED <<action, job, holder, payload, inbox, mishaps>>

Subscribe ==
    /\ client = "subscribe"
    /\ client' = "listen"
    /\ UNCHANGED <<action, job, holder, payload, inbox, frame, mishaps>>

\* One message is relayed; a terminal one ends the stream.
Relay ==
    /\ client = "listen"
    /\ inbox # <<>>
    /\ frame' = Head(inbox)
    /\ inbox' = Tail(inbox)
    /\ client' = IF is_terminal(Head(inbox).status) THEN "closed" ELSE "listen"
    /\ UNCHANGED <<action, job, holder, payload, mishaps>>

\* No message within the timeout: a heartbeat, and nothing else changes.
Heartbeat == client = "listen" /\ inbox = <<>> /\ UNCHANGED vars

Disconnect ==
    /\ "disconnect" \in Faults
    /\ client = "listen"
    /\ client' = "gone"
    /\ inbox' = <<>>
    /\ UNCHANGED <<action, job, holder, payload, frame, mishaps>>

-----------------------------------------------------------------------------
JobsDone == \A b \in Batches : job[b] = "done"

\* Everything has happened: the stream is closed and no job is left.
Finished == JobsDone /\ client \in {"closed", "gone"} /\ UNCHANGED vars

JobStep(b) ==
    Load(b) \/ Report(b) \/ Finalize(b) \/ publish_progress(b) \/ Commit(b) \/ FinalizeOnly(b)

Next ==
    \/ \E b \in Batches : JobStep(b) \/ ReportFailed(b) \/ Rollback(b)
    \/ cancel_bulk_action
    \/ Connect \/ Subscribe \/ Relay \/ Heartbeat \/ Disconnect
    \/ Finished

Spec == Init /\ [][Next]_vars

\* Jobs and the request coroutine keep running.
FairSpec ==
    /\ Spec
    /\ WF_vars(Connect \/ Subscribe \/ Relay)
    /\ \A b \in Batches : WF_vars(JobStep(b))

-----------------------------------------------------------------------------
\* The frame that ends a stream says what the database says: it may run ahead
\* of the finalising transaction, which publishes before it commits, and is
\* false only if that commit fails.
DoneIsTrue ==
    client = "closed" =>
        frame.status = action.status \/ holder # {} \/ "commit" \in mishaps

\* A client that is listening before the last batch reports is sent a final
\* frame, unless that frame is lost, the action is cancelled (which publishes
\* nothing), or some batch failed (if it is the last one, nobody publishes).
ListenerIsTold ==
    (client = "listen" /\ action.completed_batches < action.total_batches)
        ~> client \in {"closed", "gone"} \/ mishaps \intersect {"fail", "publish", "cancel"} # {}
=============================================================================
