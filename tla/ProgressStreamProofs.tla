------------------------ MODULE ProgressStreamProofs ------------------------
(***************************************************************************)
(* The frame that ends a progress stream is true (DoneIsTrue), for every   *)
(* number of batches and every set of faults.                              *)
(***************************************************************************)
EXTENDS ProgressStream, FiniteSetTheorems, TLAPS

Frame == [status : ActionStatus, completed_batches : Nat]

JobPc == {"todo", "run", "finalize", "finalize_only", "publish", "commit", "done"}

\* The jobs that are past their report.
Past == {b \in Batches : job[b] \notin {"todo", "run"}}

StreamTypeOK ==
    /\ action \in BulkAction
    /\ action.total_batches = Cardinality(Batches)
    /\ job \in [Batches -> JobPc]
    /\ holder \subseteq Batches
    /\ payload \in [Batches -> Frame]
    /\ client \in {"connect", "subscribe", "listen", "closed", "gone"}
    /\ inbox \in Seq(Frame)
    /\ frame \in Frame

\* A terminal status a frame shows is in the row, or in the transaction that
\* is about to commit, or was in one whose commit failed.
HonestFor(s, a, finaliser, gone_wrong) ==
    is_terminal(s) =>
        \/ s = a.status
        \/ finaliser # {} /\ s = final_status(a)
        \/ "commit" \in gone_wrong

Honest(s) == HonestFor(s, action, holder, mishaps)

\* holder is the row lock of the finaliser.  While it is taken every job has
\* reported, so the counters final_status is computed from do not change.
StreamInv ==
    /\ StreamTypeOK
    /\ action.completed_batches <= Cardinality(Past)
    /\ \A b \in holder : job[b] \in {"publish", "commit"}
    /\ \A a, b \in holder : a = b
    /\ holder # {} => is_complete(action)
    /\ \A b \in Batches : Honest(payload[b].status)
    /\ \A k \in DOMAIN inbox : Honest(inbox[k].status)
    /\ Honest(frame.status)
    /\ client = "closed" => is_terminal(frame.status)

LEMMA PastFinite ==
    /\ IsFiniteSet(Past) /\ Cardinality(Past) \in Nat
    /\ Cardinality(Past) <= Cardinality(Batches) /\ Cardinality(Batches) \in Nat
    /\ Cardinality(Past) = Cardinality(Batches) => Past = Batches
<1>1. Past \in SUBSET Batches
  BY DEF Past
<1> QED BY <1>1, BatchesAssumption, FS_Subset, FS_CardinalityType

\* When the counters say that the action is complete, no job has yet to report.
LEMMA CompleteMeansPast ==
    ASSUME StreamInv, is_complete(action)
    PROVE  \A b \in Batches : job[b] \notin {"todo", "run"}
<1>1. action.completed_batches \in Nat /\ action.total_batches = Cardinality(Batches)
  BY DEF StreamInv, StreamTypeOK, BulkAction
<1>2. Past = Batches
  BY <1>1, PastFinite DEF StreamInv, is_complete
<1> QED BY <1>2 DEF Past

\* A job that moves on, and whose report is counted only when it passes "run".
LEMMA PastGrows ==
    ASSUME StreamInv, NEW b \in Batches, NEW pc \in JobPc \ {"todo", "run"},
           job' = [job EXCEPT ![b] = pc]
    PROVE  /\ IsFiniteSet(Past')
           /\ Cardinality(Past') \in Nat
           /\ Cardinality(Past) <= Cardinality(Past')
           /\ b \notin Past => Cardinality(Past') = Cardinality(Past) + 1
<1>1. Past' = Past \union {b}
  BY DEF Past, StreamInv, StreamTypeOK
<1>2. /\ IsFiniteSet(Past \union {b})
      /\ Cardinality(Past \union {b}) =
            IF b \in Past THEN Cardinality(Past) ELSE Cardinality(Past) + 1
  BY PastFinite, FS_AddElement
<1> QED BY <1>1, <1>2, PastFinite

\* What one report changes of the row.
LEMMA StreamReportWrites ==
    ASSUME NEW a \in BulkAction, NEW s \in Nat, NEW f \in Nat
    PROVE  /\ record_batch_completion(a, s, f, 0) \in BulkAction
           /\ record_batch_completion(a, s, f, 0).status = a.status
           /\ record_batch_completion(a, s, f, 0).total_batches = a.total_batches
           /\ record_batch_completion(a, s, f, 0).completed_batches = a.completed_batches + 1
<1>1. /\ a.processed_count + s + f + 0 \in Nat /\ a.success_count + s \in Nat
      /\ a.failure_count + f \in Nat /\ a.skipped_count + 0 \in Nat
      /\ a.completed_batches + 1 \in Nat
  BY DEF BulkAction
<1> QED BY <1>1 DEF record_batch_completion, BulkAction

\* What finalisation changes of the row, and what a frame shows of it.
LEMMA StreamActionWrites ==
    ASSUME NEW a \in BulkAction
    PROVE  /\ \A st \in ActionStatus :
                 /\ finalize(a, st) \in BulkAction
                 /\ finalize(a, st).total_batches = a.total_batches
                 /\ finalize(a, st).completed_batches = a.completed_batches
                 /\ finalize(a, st).status = IF is_complete(a) THEN st ELSE a.status
           /\ final_status(a) \in ActionStatus
           /\ progress_payload(a) \in Frame /\ progress_payload(a).status = a.status
<1>1. ASSUME NEW st \in ActionStatus
      PROVE  /\ finalize(a, st) \in BulkAction
             /\ finalize(a, st).total_batches = a.total_batches
             /\ finalize(a, st).completed_batches = a.completed_batches
             /\ finalize(a, st).status = IF is_complete(a) THEN st ELSE a.status
  BY DEF finalize, BulkAction
<1>2. final_status(a) \in ActionStatus
  BY DEF final_status, ActionStatus
<1>3. progress_payload(a) \in Frame /\ progress_payload(a).status = a.status
  BY DEF progress_payload, Frame, BulkAction
<1> QED BY <1>1, <1>2, <1>3

\* What a step has to show: the row, the lock and the counters stay consistent,
\* what was honest stays honest, and so are a new payload, frame and inbox.
LEMMA StreamLift ==
    ASSUME StreamInv, StreamTypeOK',
           (action.completed_batches <= Cardinality(Past))',
           \A b \in holder' : job'[b] \in {"publish", "commit"},
           \A a, b \in holder' : a = b,
           holder' # {} => is_complete(action'),
           \A s : HonestFor(s, action, holder, mishaps)
                     => HonestFor(s, action', holder', mishaps'),
           \A b \in Batches : payload'[b] = payload[b]
                     \/ HonestFor(payload'[b].status, action', holder', mishaps'),
           \A k \in DOMAIN inbox' : HonestFor(inbox'[k].status, action', holder', mishaps'),
           frame' = frame \/ HonestFor(frame'.status, action', holder', mishaps'),
           client' = "closed" => is_terminal(frame'.status)
    PROVE  StreamInv'
<1>1. \A b \in Batches : HonestFor(payload'[b].status, action', holder', mishaps')
  BY DEF StreamInv, Honest
<1>2. HonestFor(frame'.status, action', holder', mishaps')
  BY DEF StreamInv, Honest
<1> QED BY <1>1, <1>2 DEF StreamInv, Honest

LEMMA StreamStep == StreamInv /\ [Next]_vars => StreamInv'
<1> SUFFICES ASSUME StreamInv, [Next]_vars PROVE StreamInv'
  OBVIOUS
<1> DEFINE Keep == \A s : HonestFor(s, action, holder, mishaps)
                             => HonestFor(s, action', holder', mishaps')
           Box == \A k \in DOMAIN inbox' : HonestFor(inbox'[k].status, action', holder', mishaps')
<1>t. StreamTypeOK /\ action \in BulkAction /\ action.completed_batches \in Nat
  BY DEF StreamInv, StreamTypeOK, BulkAction
<1>p. /\ IsFiniteSet(Past) /\ Cardinality(Past) \in Nat
  BY PastFinite
<1>b. ASSUME Keep, inbox' = inbox PROVE Box
  BY <1>b DEF StreamInv, Honest
<1>k. ASSUME UNCHANGED <<action, holder, mishaps>> PROVE Keep
  BY <1>k
<1>j. {"finalize", "finalize_only", "publish", "commit", "done"} = JobPc \ {"todo", "run"}
  BY DEF JobPc
<1>g. ASSUME NEW b \in Batches, NEW pc \in {"publish", "commit", "done"},
             job' = [job EXCEPT ![b] = pc],
             action'.completed_batches = action.completed_batches
      PROVE  (action.completed_batches <= Cardinality(Past))'
  <2>1. pc \in JobPc \ {"todo", "run"}
    BY <1>j
  <2>2. Cardinality(Past') \in Nat /\ Cardinality(Past) <= Cardinality(Past')
    BY <1>g, <2>1, PastGrows
  <2>3. action.completed_batches <= Cardinality(Past)
    BY DEF StreamInv
  <2> QED BY <1>g, <1>p, <1>t, <2>2, <2>3
<1>0. CASE UNCHANGED vars
  <2>1. UNCHANGED <<action, job, holder, payload, client, inbox, frame, mishaps>>
    BY <1>0 DEF vars
  <2> QED BY <2>1 DEF StreamInv, StreamTypeOK, Past, Honest
<1>1. ASSUME NEW b \in Batches, Load(b) PROVE StreamInv'
  <2>1. Keep /\ Box
    BY <1>1, <1>k, <1>b DEF Load
  <2>2. b \notin holder
    BY <1>1 DEF Load, StreamInv
  <2>3. StreamTypeOK'
    BY <1>1, <1>t DEF Load, StreamTypeOK, JobPc
  <2>4. (action.completed_batches <= Cardinality(Past))'
    <3>1. CASE action.status = "cancelled"
      <4>1. job' = [job EXCEPT ![b] = "done"]
        BY <1>1, <3>1 DEF Load
      <4> QED BY <1>1, <1>g, <4>1 DEF Load
    <3>2. CASE action.status # "cancelled"
      <4>1. Past' = Past
        BY <1>1, <1>t, <3>2 DEF Load, Past, StreamTypeOK
      <4> QED BY <1>1, <4>1 DEF Load, StreamInv
    <3> QED BY <3>1, <3>2
  <2>5. \A c \in holder' : job'[c] \in {"publish", "commit"}
    BY <1>1, <1>t, <2>2 DEF Load, StreamInv, StreamTypeOK
  <2> QED BY <1>1, <2>1, <2>3, <2>4, <2>5, StreamLift DEF Load, StreamInv
<1>2. ASSUME NEW b \in Batches, Report(b) \/ ReportFailed(b) PROVE StreamInv'
  <2>1. job[b] = "run" /\ b \notin Past /\ b \notin holder
    BY <1>2 DEF Report, ReportFailed, Past, StreamInv
  <2>2. ~ is_complete(action) /\ holder = {}
    BY <2>1, CompleteMeansPast DEF StreamInv
  <2>3. PICK pc \in {"finalize", "finalize_only"}, s \in Nat, f \in Nat :
          /\ job' = [job EXCEPT ![b] = pc]
          /\ action' = record_batch_completion(action, s, f, 0)
    BY <1>2 DEF Report, ReportFailed
  <2>4. /\ action' \in BulkAction /\ action'.status = action.status
        /\ action'.total_batches = action.total_batches
        /\ action'.completed_batches = action.completed_batches + 1
    BY <1>t, <2>3, StreamReportWrites
  <2>5. UNCHANGED <<holder, payload, client, inbox, frame>> /\ mishaps \subseteq mishaps'
    BY <1>2 DEF Report, ReportFailed
  <2>6. Keep
    BY <2>2, <2>4, <2>5 DEF HonestFor
  <2>7. Box
    BY <1>b, <2>5, <2>6
  <2>8. StreamTypeOK'
    BY <1>t, <2>3, <2>4, <2>5 DEF StreamTypeOK, JobPc
  <2>9. (action.completed_batches <= Cardinality(Past))'
    <3>1. Cardinality(Past') = Cardinality(Past) + 1
      BY <2>1, <2>3, PastGrows DEF JobPc
    <3> QED BY <1>p, <1>t, <2>4, <3>1 DEF StreamInv
  <2> QED BY <2>2, <2>5, <2>6, <2>7, <2>8, <2>9, StreamLift DEF StreamInv
<1>3. ASSUME NEW b \in Batches, Finalize(b) PROVE StreamInv'
  <2> DEFINE p == progress_payload(finalize(action, final_status(action)))
  <2>1. /\ p \in Frame
        /\ p.status = IF is_complete(action) THEN final_status(action) ELSE action.status
    <3> DEFINE a == finalize(action, final_status(action))
    <3>1. a \in BulkAction
          /\ a.status = IF is_complete(action) THEN final_status(action) ELSE action.status
      BY <1>t, StreamActionWrites
    <3> HIDE DEF a
    <3>2. progress_payload(a) \in Frame /\ progress_payload(a).status = a.status
      BY <3>1, StreamActionWrites
    <3> QED BY <3>1, <3>2 DEF a
  <2>2. /\ payload' = [payload EXCEPT ![b] = p]
        /\ job' = [job EXCEPT ![b] = "publish"]
        /\ UNCHANGED <<action, client, inbox, frame, mishaps>>
        /\ holder' = IF is_complete(action) THEN {b} ELSE holder
        /\ job[b] = "finalize"
        /\ is_complete(action) => holder = {}
    BY <1>3 DEF Finalize
  <2> HIDE DEF p
  <2>3. Keep
    BY <2>2 DEF HonestFor
  <2>4. Box
    BY <1>b, <2>2, <2>3
  <2>5. HonestFor(p.status, action', holder', mishaps')
    BY <2>1, <2>2 DEF HonestFor
  <2>6. StreamTypeOK'
    BY <1>t, <2>1, <2>2 DEF StreamTypeOK, JobPc
  <2>7. (action.completed_batches <= Cardinality(Past))'
    BY <1>g, <2>2
  <2>8. \A c \in holder' : job'[c] \in {"publish", "commit"}
    BY <1>t, <2>2 DEF StreamInv, StreamTypeOK
  <2>9. holder' # {} => is_complete(action')
    BY <2>2 DEF StreamInv
  <2>10. \A c \in Batches : payload'[c] = payload[c]
            \/ HonestFor(payload'[c].status, action', holder', mishaps')
    BY <1>t, <2>2, <2>5 DEF StreamTypeOK
  <2>11. \A a, c \in holder' : a = c
    BY <2>2 DEF StreamInv
  <2>12. client' = "closed" => is_terminal(frame'.status)
    BY <2>2 DEF StreamInv
  <2> QED BY <2>2, <2>3, <2>4, <2>6, <2>7, <2>8, <2>9, <2>10, <2>11, <2>12, StreamLift
<1>4. ASSUME NEW b \in Batches, publish_progress(b) PROVE StreamInv'
  <2>1. /\ job' = [job EXCEPT ![b] = "commit"]
        /\ UNCHANGED <<action, holder, payload, client, frame>>
        /\ mishaps \subseteq mishaps'
        /\ inbox' = inbox \/ inbox' = Append(inbox, payload[b])
    BY <1>4 DEF publish_progress
  <2>2. Keep
    BY <2>1 DEF HonestFor
  <2>3. Box
    <3>1. \A k \in DOMAIN inbox : HonestFor(inbox[k].status, action', holder', mishaps')
      BY <2>2 DEF StreamInv, Honest
    <3>2. HonestFor(payload[b].status, action', holder', mishaps')
      BY <2>2 DEF StreamInv, Honest
    <3>3. CASE inbox' = Append(inbox, payload[b])
      <4>1. \A k \in DOMAIN inbox' : (k \in DOMAIN inbox /\ inbox'[k] = inbox[k])
                                     \/ inbox'[k] = payload[b]
        BY <1>t, <3>3 DEF StreamTypeOK
      <4> QED BY <3>1, <3>2, <4>1
    <3> QED BY <2>1, <3>1, <3>3
  <2>4. StreamTypeOK'
    BY <1>t, <2>1 DEF StreamTypeOK, JobPc
  <2>5. (action.completed_batches <= Cardinality(Past))'
    BY <1>g, <2>1
  <2>6. \A c \in holder' : job'[c] \in {"publish", "commit"}
    BY <1>t, <2>1 DEF StreamInv, StreamTypeOK
  <2> QED BY <2>1, <2>2, <2>3, <2>4, <2>5, <2>6, StreamLift DEF StreamInv
<1>5. ASSUME NEW b \in Batches, Commit(b) PROVE StreamInv'
  <2>1. /\ job' = [job EXCEPT ![b] = "done"]
        /\ holder' = holder \ {b}
        /\ action' = IF b \in holder THEN finalize(action, final_status(action)) ELSE action
        /\ UNCHANGED <<payload, client, inbox, frame, mishaps>>
    BY <1>5 DEF Commit
  <2>2. /\ action' \in BulkAction
        /\ action'.total_batches = action.total_batches
        /\ action'.completed_batches = action.completed_batches
    BY <1>t, <2>1, StreamActionWrites
  <2>3. b \in holder => action'.status = final_status(action) /\ holder' = {}
    BY <1>t, <2>1, StreamActionWrites DEF StreamInv
  <2>4. b \notin holder => holder' = holder /\ action' = action
    BY <2>1
  <2>5. Keep
    <3>1. CASE b \in holder
      <4>1. is_complete(action)
        BY <3>1 DEF StreamInv
      <4>2. ~ is_terminal(action.status)
        BY <4>1 DEF is_complete, is_terminal
      <4> QED BY <2>1, <2>3, <3>1, <4>2 DEF HonestFor
    <3> QED BY <2>1, <2>4, <3>1
  <2>6. Box
    BY <1>b, <2>1, <2>5
  <2>7. StreamTypeOK'
    BY <1>t, <2>1, <2>2 DEF StreamTypeOK, JobPc
  <2>8. (action.completed_batches <= Cardinality(Past))'
    BY <1>g, <2>1, <2>2
  <2>9. \A c \in holder' : job'[c] \in {"publish", "commit"}
    BY <1>t, <2>1 DEF StreamInv, StreamTypeOK
  <2>10. holder' # {} => is_complete(action')
    BY <2>3, <2>4 DEF StreamInv
  <2>11. \A a, c \in holder' : a = c
    BY <2>1 DEF StreamInv
  <2>12. client' = "closed" => is_terminal(frame'.status)
    BY <2>1 DEF StreamInv
  <2> QED BY <2>1, <2>5, <2>6, <2>7, <2>8, <2>9, <2>10, <2>11, <2>12, StreamLift
<1>6. ASSUME NEW b \in Batches, Rollback(b) PROVE StreamInv'
  <2>1. /\ job' = [job EXCEPT ![b] = "done"]
        /\ holder' = holder \ {b}
        /\ mishaps' = IF b \in holder THEN mishaps \union {"commit"} ELSE mishaps
        /\ UNCHANGED <<action, payload, client, inbox, frame>>
    BY <1>6 DEF Rollback
  <2>2. Keep
    <3>1. b \notin holder => holder' = holder
      BY <2>1
    <3> QED BY <2>1, <3>1 DEF HonestFor
  <2>3. Box
    BY <1>b, <2>1, <2>2
  <2>4. StreamTypeOK'
    BY <1>t, <2>1 DEF StreamTypeOK, JobPc
  <2>5. (action.completed_batches <= Cardinality(Past))'
    BY <1>g, <2>1
  <2>6. \A c \in holder' : job'[c] \in {"publish", "commit"}
    BY <1>t, <2>1 DEF StreamInv, StreamTypeOK
  <2>7. /\ \A a, c \in holder' : a = c
        /\ holder' # {} => is_complete(action')
        /\ client' = "closed" => is_terminal(frame'.status)
    BY <2>1 DEF StreamInv
  <2> QED BY <2>1, <2>2, <2>3, <2>4, <2>5, <2>6, <2>7, StreamLift
<1>7. ASSUME NEW b \in Batches, FinalizeOnly(b) PROVE StreamInv'
  <2>1. /\ job[b] = "finalize_only"
        /\ job' = [job EXCEPT ![b] = "done"]
        /\ is_complete(action) => holder = {}
        /\ action' = finalize(action, final_status(action))
        /\ UNCHANGED <<holder, payload, client, inbox, frame, mishaps>>
    BY <1>7 DEF FinalizeOnly
  <2>2. /\ action' \in BulkAction
        /\ action'.total_batches = action.total_batches
        /\ action'.completed_batches = action.completed_batches
    BY <1>t, <2>1, StreamActionWrites
  <2>3. ~ is_complete(action) => action' = action
    BY <2>1 DEF finalize
  <2>4. holder # {} => action' = action
    BY <2>1, <2>3
  <2>5. Keep
    <3>1. CASE is_complete(action)
      <4>1. ~ is_terminal(action.status)
        BY <3>1 DEF is_complete, is_terminal
      <4> QED BY <2>1, <3>1, <4>1 DEF HonestFor
    <3> QED BY <2>1, <2>3, <3>1
  <2>6. Box
    BY <1>b, <2>1, <2>5
  <2>7. StreamTypeOK'
    BY <1>t, <2>1, <2>2 DEF StreamTypeOK, JobPc
  <2>8. (action.completed_batches <= Cardinality(Past))'
    BY <1>g, <2>1, <2>2
  <2>9. \A c \in holder' : job'[c] \in {"publish", "commit"}
    BY <1>t, <2>1 DEF StreamInv, StreamTypeOK
  <2>10. /\ \A a, c \in holder' : a = c
         /\ holder' # {} => is_complete(action')
         /\ client' = "closed" => is_terminal(frame'.status)
    BY <2>1, <2>4 DEF StreamInv
  <2> QED BY <2>1, <2>5, <2>6, <2>7, <2>8, <2>9, <2>10, StreamLift
<1>8. CASE cancel_bulk_action
  <2>1. /\ holder = {} /\ ~ is_terminal(action.status)
        /\ action' = [action EXCEPT !.status = "cancelled"]
        /\ UNCHANGED <<job, holder, payload, client, inbox, frame>>
        /\ mishaps \subseteq mishaps'
    BY <1>8 DEF cancel_bulk_action
  <2>2. /\ action' \in BulkAction
        /\ action'.total_batches = action.total_batches
        /\ action'.completed_batches = action.completed_batches
    BY <1>t, <2>1 DEF BulkAction, ActionStatus
  <2>3. Keep
    BY <2>1 DEF HonestFor
  <2>4. Box
    BY <1>b, <2>1, <2>3
  <2>5. StreamTypeOK'
    BY <1>t, <2>1, <2>2 DEF StreamTypeOK
  <2>6. Past' = Past
    BY <2>1 DEF Past
  <2> QED BY <2>1, <2>2, <2>3, <2>4, <2>5, <2>6, StreamLift DEF StreamInv
<1>9. CASE Connect
  <2>1. /\ frame' = progress_payload(action)
        /\ client' = IF is_terminal(action.status) THEN "closed" ELSE "subscribe"
        /\ UNCHANGED <<action, job, holder, payload, inbox, mishaps>>
    BY <1>9 DEF Connect
  <2>2. frame' \in Frame /\ frame'.status = action.status
    BY <1>t, <2>1, StreamActionWrites
  <2>3. Keep /\ Box
    BY <1>b, <1>k, <2>1
  <2>4. StreamTypeOK'
    BY <1>t, <2>1, <2>2 DEF StreamTypeOK
  <2>5. Past' = Past
    BY <2>1 DEF Past
  <2>6. HonestFor(frame'.status, action', holder', mishaps')
    BY <2>1, <2>2 DEF HonestFor
  <2> QED BY <2>1, <2>2, <2>3, <2>4, <2>5, <2>6, StreamLift DEF StreamInv
<1>10. CASE Subscribe \/ Disconnect
  <2>1. /\ client' \in {"listen", "gone"} /\ (inbox' = inbox \/ inbox' = <<>>)
        /\ UNCHANGED <<action, job, holder, payload, frame, mishaps>>
    BY <1>10 DEF Subscribe, Disconnect
  <2>2. Keep
    BY <1>k, <2>1
  <2>3. Box
    <3>1. inbox' = <<>> => DOMAIN inbox' = {}
      OBVIOUS
    <3> QED BY <1>b, <2>1, <2>2, <3>1
  <2>4. StreamTypeOK'
    <3>1. inbox' \in Seq(Frame)
      <4>1. <<>> \in Seq(Frame) /\ inbox \in Seq(Frame)
        BY <1>t DEF StreamTypeOK
      <4> QED BY <2>1, <4>1
    <3> QED BY <1>t, <2>1, <3>1 DEF StreamTypeOK
  <2>5. Past' = Past
    BY <2>1 DEF Past
  <2> QED BY <2>1, <2>2, <2>3, <2>4, <2>5, StreamLift DEF StreamInv
<1>11. CASE Relay
  <2>1. /\ inbox # <<>> /\ frame' = Head(inbox) /\ inbox' = Tail(inbox)
        /\ client' = IF is_terminal(Head(inbox).status) THEN "closed" ELSE "listen"
        /\ UNCHANGED <<action, job, holder, payload, mishaps>>
    BY <1>11 DEF Relay
  <2>2. inbox \in Seq(Frame)
    BY <1>t DEF StreamTypeOK
  <2>3. /\ 1 \in DOMAIN inbox /\ Head(inbox) = inbox[1] /\ Head(inbox) \in Frame
        /\ Tail(inbox) \in Seq(Frame)
        /\ \A k \in DOMAIN Tail(inbox) : k + 1 \in DOMAIN inbox /\ Tail(inbox)[k] = inbox[k + 1]
    BY <2>1, <2>2
  <2>4. Keep
    BY <1>k, <2>1
  <2>5. \A k \in DOMAIN inbox : HonestFor(inbox[k].status, action', holder', mishaps')
    BY <2>4 DEF StreamInv, Honest
  <2>6. Box
    BY <2>1, <2>3, <2>5
  <2>7. HonestFor(frame'.status, action', holder', mishaps')
    BY <2>1, <2>3, <2>5
  <2>8. StreamTypeOK'
    BY <1>t, <2>1, <2>3 DEF StreamTypeOK
  <2>9. Past' = Past
    BY <2>1 DEF Past
  <2> QED BY <2>1, <2>4, <2>6, <2>7, <2>8, <2>9, StreamLift DEF StreamInv
<1>12. CASE Heartbeat \/ Finished
  BY <1>0, <1>12 DEF Heartbeat, Finished
<1> QED
  BY <1>0, <1>1, <1>2, <1>3, <1>4, <1>5, <1>6, <1>7, <1>8, <1>9, <1>10, <1>11, <1>12
     DEF Next, JobStep

\* The status of the frame that closes a stream is the status of the row, or
\* will be when the finalising transaction commits; only a failed commit makes
\* it a lie.  stream_progress and process_batch, any number of batches.
THEOREM LastFrameIsTrue == Spec => []DoneIsTrue
<1>1. Init => StreamInv
  <2> SUFFICES ASSUME Init PROVE StreamInv
    OBVIOUS
  <2>1. Cardinality(Batches) \in Nat
    BY BatchesAssumption, FS_CardinalityType
  <2>2. /\ action \in BulkAction /\ action.total_batches = Cardinality(Batches)
        /\ action.completed_batches = 0 /\ action.status = "processing"
    <3>1. new_action("processing", 1) \in BulkAction
      BY DEF new_action, BulkAction, ActionStatus
    <3> DEFINE n == Cardinality(Batches)
               a == new_action("processing", 1)
    <3> HIDE DEF n
    <3>2. /\ [a EXCEPT !.total_batches = n, !.total_entities = n] \in BulkAction
          /\ [a EXCEPT !.total_batches = n, !.total_entities = n].total_batches = n
          /\ [a EXCEPT !.total_batches = n, !.total_entities = n].completed_batches = 0
          /\ [a EXCEPT !.total_batches = n, !.total_entities = n].status = "processing"
      BY <2>1, <3>1 DEF n, new_action, BulkAction
    <3> QED BY <3>2 DEF Init, n
  <2>3. progress_payload(action) \in Frame /\ progress_payload(action).status = "processing"
    BY <2>2, StreamActionWrites
  <2>4. StreamTypeOK
    BY <2>2, <2>3 DEF Init, StreamTypeOK, JobPc
  <2>5. 0 <= Cardinality(Past)
    BY PastFinite
  <2> QED BY <2>2, <2>3, <2>4, <2>5 DEF Init, StreamInv, Honest, HonestFor, is_terminal
<1>2. StreamInv => DoneIsTrue
  BY DEF StreamInv, DoneIsTrue, Honest, HonestFor
<1> QED BY <1>1, <1>2, StreamStep, PTL DEF Spec
=============================================================================
