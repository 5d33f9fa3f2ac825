------------------------------ MODULE SplunkHEC ------------------------------
(***************************************************************************)
(* SplunkHECClient of tengen/forwarder/splunk_client.py: events are        *)
(* buffered, sent in batches, and a batch is posted up to MaxAttempts      *)
(* times.  One thread owns a client; a call of send() or close() that      *)
(* posts a batch returns, or raises, when the batch is settled, so no call *)
(* starts while batch is not empty.                                        *)
(***************************************************************************)
EXTENDS Integers, Sequences, FiniteSets, Functions

CONSTANTS
  Events,        \* what the callers send
  Serialisable,  \* the events json.dumps accepts
  BatchSize,     \* SPLUNK_BATCH_SIZE
  MaxAttempts,   \* _MAX_RETRY_ATTEMPTS
  MaxCrashes     \* bound: crashes in a behaviour

ASSUME SplunkAssumption ==
  /\ Serialisable \subseteq Events
  /\ BatchSize \in Nat \ {0}
  /\ MaxAttempts \in Nat \ {0}
  /\ MaxCrashes \in Nat

VARIABLES
  sent,     \* the events given to send(), in order
  buffer,   \* _buffer
  batch,    \* the batch that flush() is posting, <<>> when there is none
  attempt,  \* how often that batch has been posted
  indexed,  \* what Splunk has indexed, in order
  failed,   \* the events whose flush() raised
  unsure,   \* posts that Splunk indexed and did not confirm
  crashes,  \* crashes so far
  closed    \* close() was called

clientVars == <<buffer, batch, attempt, closed>>
hecVars == <<sent, buffer, batch, attempt, indexed, failed, unsure, crashes, closed>>

Quiet == batch = <<>>

-------------------------------------------------------------------------------
(* Mistake: the buffer is cleared only once the batch is delivered. *)
FlushKeepsBuffer(b) ==
  /\ buffer' = b
  /\ IF Range(b) \subseteq Serialisable
     THEN batch' = b /\ attempt' = 0 /\ UNCHANGED failed
     ELSE failed' = failed \cup Range(b) /\ UNCHANGED <<batch, attempt>>

(* flush() with b in the buffer.  The buffer is emptied first; then one    *)
(* event that json.dumps rejects fails the whole batch.                    *)
Flush(b) ==
  /\ buffer' = <<>>
  /\ IF Range(b) \subseteq Serialisable
     THEN batch' = b /\ attempt' = 0 /\ UNCHANGED failed
     ELSE failed' = failed \cup Range(b) /\ UNCHANGED <<batch, attempt>>

(* Mistake: the length is compared before the event is appended. *)
SendFlushesLate(e) ==
  /\ Quiet /\ ~ closed
  /\ sent' = Append(sent, e)
  /\ IF Len(buffer) >= BatchSize
     THEN Flush(Append(buffer, e))
     ELSE buffer' = Append(buffer, e) /\ UNCHANGED <<batch, attempt, failed>>
  /\ UNCHANGED <<indexed, unsure, crashes, closed>>

(* Mistake: the event is put in front of those that wait. *)
SendInFront(e) ==
  /\ Quiet /\ ~ closed
  /\ sent' = Append(sent, e)
  /\ LET b == <<e>> \o buffer
     IN IF Len(b) >= BatchSize
        THEN Flush(b)
        ELSE buffer' = b /\ UNCHANGED <<batch, attempt, failed>>
  /\ UNCHANGED <<indexed, unsure, crashes, closed>>

Send(e) ==
  /\ Quiet /\ ~ closed
  /\ sent' = Append(sent, e)
  /\ LET b == Append(buffer, e)
     IN IF Len(b) >= BatchSize
        THEN Flush(b)
        ELSE buffer' = b /\ UNCHANGED <<batch, attempt, failed>>
  /\ UNCHANGED <<indexed, unsure, crashes, closed>>

(* close(), and __exit__. *)
Close ==
  /\ Quiet /\ ~ closed
  /\ closed' = TRUE
  /\ IF buffer = <<>>
     THEN UNCHANGED <<buffer, batch, attempt, failed>>
     ELSE Flush(buffer)
  /\ UNCHANGED <<sent, indexed, unsure, crashes>>

(* _post_with_retry is done with the batch, and returned or raised. *)
Settle == batch' = <<>> /\ attempt' = 0

(* Mistake: running out of attempts is logged and not raised. *)
RetryGivesUpQuietly ==
  /\ IF attempt + 1 < MaxAttempts
     THEN attempt' = attempt + 1 /\ UNCHANGED batch
     ELSE Settle
  /\ UNCHANGED failed

(* Another attempt, or the RuntimeError that ends them. *)
Retry ==
  IF attempt + 1 < MaxAttempts
  THEN attempt' = attempt + 1 /\ UNCHANGED <<batch, failed>>
  ELSE Settle /\ failed' = failed \cup Range(batch)

Accepted == indexed' = indexed \o batch

(* Status 200. *)
PostOK ==
  /\ batch # <<>>
  /\ Accepted
  /\ Settle
  /\ UNCHANGED <<sent, buffer, failed, unsure, crashes, closed>>

(* Any status but 200, 429 and 5xx: RuntimeError at once. *)
PostRefused ==
  /\ batch # <<>>
  /\ Settle
  /\ failed' = failed \cup Range(batch)
  /\ UNCHANGED <<sent, buffer, indexed, unsure, crashes, closed>>

(* Status 429 or 5xx, or no answer at all (RequestException); a server     *)
(* that failed or did not answer in time may have indexed the batch.       *)
PostUnanswered ==
  /\ batch # <<>>
  /\ \/ Accepted /\ unsure' = unsure + 1
     \/ UNCHANGED <<indexed, unsure>>
  /\ Retry
  /\ UNCHANGED <<sent, buffer, crashes, closed>>

Post == PostOK \/ PostRefused \/ PostUnanswered

(* The process dies, and the next one opens a client of its own. *)
Crash ==
  /\ crashes < MaxCrashes
  /\ crashes' = crashes + 1
  /\ buffer' = <<>> /\ Settle
  /\ closed' = FALSE
  /\ UNCHANGED <<sent, indexed, failed, unsure>>

-------------------------------------------------------------------------------

Init ==
  /\ sent = <<>> /\ buffer = <<>> /\ batch = <<>> /\ indexed = <<>>
  /\ attempt = 0 /\ unsure = 0 /\ crashes = 0
  /\ failed = {}
  /\ closed = FALSE

(* The caller sends each event once. *)
Next ==
  \/ \E e \in Events \ Range(sent) : Send(e)
  \/ Close
  \/ Post
  \/ Crash

Spec == Init /\ [][Next]_hecVars

-------------------------------------------------------------------------------
(* Properties. *)

(* The buffer stays below the batch size between calls, and is empty while *)
(* a batch of at most BatchSize events is being posted.                    *)
TypeOK ==
  /\ sent \in Seq(Events) /\ indexed \in Seq(Events)
  /\ buffer \in Seq(Events) /\ Len(buffer) < BatchSize
  /\ batch \in Seq(Serialisable) /\ Len(batch) <= BatchSize
  /\ attempt \in 0 .. (MaxAttempts - 1)
  /\ failed \subseteq Events
  /\ unsure \in Nat /\ crashes \in 0 .. MaxCrashes
  /\ closed \in BOOLEAN

Held == Range(buffer) \cup Range(batch)

(* Sent, no longer in memory, not indexed, and no caller was told. *)
Vanished == Range(sent) \ (Held \cup Range(indexed) \cup failed)

(* Only a crash makes an event vanish without an exception, and each crash *)
(* takes at most one batch: buffer and batch are never both in use.        *)
CrashesLoseOneBatch == Cardinality(Vanished) <= crashes * BatchSize

Copies(e) == Cardinality({i \in DOMAIN indexed : indexed[i] = e})

(* An event is indexed more than once only for posts that were accepted    *)
(* and not confirmed, and never more often than a batch is posted.         *)
DuplicatesNeedLostAnswers ==
  \A e \in Events : Copies(e) <= 1 + unsure /\ Copies(e) <= MaxAttempts

FirstAt(s, e) == CHOOSE i \in DOMAIN s : s[i] = e /\ \A j \in 1 .. (i - 1) : s[j] # e

(* Splunk first sees the events in the order they were sent, across        *)
(* failed batches, retries and crashes.                                    *)
FirstSeenInOrder ==
  \A d, e \in Range(indexed) :
    FirstAt(sent, d) < FirstAt(sent, e) => FirstAt(indexed, d) < FirstAt(indexed, e)

===============================================================================
