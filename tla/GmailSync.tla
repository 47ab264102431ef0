------------------------------ MODULE GmailSync ------------------------------
(***************************************************************************)
(* The incremental synchronisation of a mailbox (gmail/sync.py and history  *)
(* of gmail/client.py): a poll reads the changes since the stored history   *)
(* id page by page, fetches the messages concerned, and one transaction     *)
(* stores the events, the remembered flags and the new history id.  Without *)
(* a history id, or when Gmail rejects it, a bounded scan takes its place.  *)
(*                                                                          *)
(* The mailbox is external: a history of records that only grows, of which  *)
(* Gmail forgets the oldest part.  A history id is a position in it.  A     *)
(* message has one flag (unread); importance is handled in the same way.    *)
(* The scheduler runs one poll of the source at a time.  The fetches of the *)
(* messages of a batch are one step.                                        *)
(***************************************************************************)
EXTENDS Naturals, Sequences, FiniteSets, FiniteSetsExt

CONSTANTS Message,
          RecordLimit,     \* records of one poll, and of one page (50)
          ScanLimit,       \* messages of a scan (INITIAL_LIMIT, 50)
          StateLimit,      \* remembered flags (MESSAGE_STATE_LIMIT, 500)
          ShortPages,      \* Gmail may end a page before it is full
          MaxHistory,      \* bound: records of the mailbox
          MaxMailFaults,   \* bound: failed polls, rejections and disconnects
          NoCheckpoint

ASSUME GmailAssumption ==
    /\ RecordLimit \in Nat \ {0}
    /\ ScanLimit \in Nat
    /\ StateLimit \in Nat
    /\ ShortPages \in BOOLEAN
    /\ MaxHistory \in Nat
    /\ MaxMailFaults \in Nat
    /\ NoCheckpoint \notin Nat

Flags == {"read", "unread"}
HistoryIds == 0 .. MaxHistory

VARIABLES hist,        \* the records of the mailbox: what happened to which message
          box,         \* the messages: their flag, or absent, or deleted
          floor,       \* history ids below this are rejected
          checkpoint,  \* the checkpoint "history_id"
          flags,       \* the checkpoints "message-state:..."
          received,    \* messages with a mail.message.received event
          removed,     \* messages with a removal event
          poll,        \* the poll under way
          excused,     \* messages that a bounded scan passed over
          mailFaults

mailVars == <<hist, box, floor, checkpoint, flags, received, removed, poll, excused, mailFaults>>

\* What the batch says of a message: a kind of change, and the flag that was fetched.
NoChange == <<"none", "none">>
NoPoll == [pc |-> "idle", start |-> 0, pos |-> 0, recs |-> <<>>, next |-> 0,
           full |-> FALSE, ids |-> {}, change |-> [m \in Message |-> NoChange]]

GmailTypeOK ==
    /\ Len(hist) <= MaxHistory
    /\ \A i \in 1 .. Len(hist) : hist[i].what \in {"added", "deleted", "labels"}
                                   /\ hist[i].msg \in Message
    /\ box \in [Message -> Flags \cup {"absent", "deleted"}]
    /\ floor \in HistoryIds
    /\ checkpoint \in HistoryIds \cup {NoCheckpoint}
    /\ flags \in [Message -> Flags \cup {"none"}]
    /\ received \in SUBSET Message
    /\ removed \in SUBSET Message
    /\ poll.pc \in {"idle", "page", "scan", "list", "fetch", "fetchAll", "hand"}
    /\ excused \in SUBSET Message
    /\ mailFaults \in 0 .. MaxMailFaults

GmailInit ==
    /\ hist = <<>>
    /\ box = [m \in Message |-> "absent"]
    /\ floor = 0
    /\ checkpoint = NoCheckpoint
    /\ flags = [m \in Message |-> "none"]
    /\ received = {}
    /\ removed = {}
    /\ poll = NoPoll
    /\ excused = {}
    /\ mailFaults = 0

-----------------------------------------------------------------------------
(* The mailbox.                                                             *)

Exists(m) == box[m] \in Flags

MailboxChanges ==
    /\ Len(hist) < MaxHistory
    /\ \E m \in Message :
          \/ /\ box[m] = "absent"
             /\ box' = [box EXCEPT ![m] = "unread"]
             /\ hist' = Append(hist, [what |-> "added", msg |-> m])
          \/ /\ Exists(m)
             /\ box' = [box EXCEPT ![m] = IF box[m] = "read" THEN "unread" ELSE "read"]
             /\ hist' = Append(hist, [what |-> "labels", msg |-> m])
          \/ /\ Exists(m)
             /\ box' = [box EXCEPT ![m] = "deleted"]
             /\ hist' = Append(hist, [what |-> "deleted", msg |-> m])
    /\ UNCHANGED <<floor, checkpoint, flags, received, removed, poll, excused, mailFaults>>

\* Gmail forgets old history.
HistoryExpires ==
    /\ floor < Len(hist)
    /\ mailFaults < MaxMailFaults
    /\ floor' = Len(hist)
    /\ mailFaults' = mailFaults + 1
    /\ UNCHANGED <<hist, box, checkpoint, flags, received, removed, poll, excused>>

-----------------------------------------------------------------------------
(* GmailSyncSource.observe                                                  *)

PollBegins ==
    /\ poll.pc = "idle"
    /\ checkpoint # Len(hist)      \* a poll that finds nothing new changes nothing
    /\ poll' = IF checkpoint = NoCheckpoint
               THEN [NoPoll EXCEPT !.pc = "scan"]
               ELSE [NoPoll EXCEPT !.pc = "page", !.start = checkpoint, !.pos = checkpoint]
    /\ UNCHANGED <<hist, box, floor, checkpoint, flags, received, removed, excused, mailFaults>>

\* history.list rejects the checkpoint: one bounded scan.
CheckpointRejected ==
    /\ poll.pc = "page"
    /\ poll.start < floor
    /\ poll' = [NoPoll EXCEPT !.pc = "scan"]
    /\ UNCHANGED <<hist, box, floor, checkpoint, flags, received, removed, excused, mailFaults>>

\* Mutant of AfterPage: a poll that stops at the bound keeps the id it started from.
AfterPageMutant(n) ==
    LET page == SubSeq(hist, poll.pos + 1, poll.pos + n)
        taken == Min({n, RecordLimit - Len(poll.recs)})
        recs == poll.recs \o SubSeq(page, 1, taken)
        last == poll.pos + n = Len(hist)
    IN [poll EXCEPT !.recs = recs, !.pos = poll.pos + n,
                    !.next = IF last THEN Len(hist) ELSE poll.start,
                    !.pc = IF last \/ Len(recs) >= RecordLimit THEN "fetch" ELSE "page"]
\* GmailApiClient.history after a page of n records: the page is cut to what is left of
\* the bound; without a next page the poll ends with the mailbox's current id, at the
\* bound with the id of the last record.
AfterPage(n) ==
    LET page == SubSeq(hist, poll.pos + 1, poll.pos + n)
        taken == Min({n, RecordLimit - Len(poll.recs)})
        recs == poll.recs \o SubSeq(page, 1, taken)
        last == poll.pos + n = Len(hist)
    IN [poll EXCEPT !.recs = recs, !.pos = poll.pos + n,
                    !.next = IF last THEN Len(hist) ELSE poll.start + Len(recs),
                    !.pc = IF last \/ Len(recs) >= RecordLimit THEN "fetch" ELSE "page"]

ReadPage ==
    /\ poll.pc = "page"
    /\ poll.start >= floor
    /\ LET full == Min({RecordLimit, Len(hist) - poll.pos})
       IN \E n \in (IF ShortPages /\ full > 0 THEN 1 .. full ELSE {full}) : poll' = AfterPage(n)
    /\ UNCHANGED <<hist, box, floor, checkpoint, flags, received, removed, excused, mailFaults>>

\* _bounded_full_sync: first the current id ...
ReadBaseline ==
    /\ poll.pc = "scan"
    /\ poll' = [poll EXCEPT !.pc = "list", !.next = Len(hist), !.full = TRUE]
    /\ UNCHANGED <<hist, box, floor, checkpoint, flags, received, removed, excused, mailFaults>>

\* ... then a bounded list of messages.
ListMessages ==
    /\ poll.pc = "list"
    /\ LET there == {m \in Message : Exists(m)}
       IN \E ids \in SUBSET there :
             /\ Cardinality(ids) = Min({ScanLimit, Cardinality(there)})
             /\ poll' = [poll EXCEPT !.pc = "fetchAll", !.ids = ids]
    /\ UNCHANGED <<hist, box, floor, checkpoint, flags, received, removed, excused, mailFaults>>

Named(what) == {poll.recs[i].msg : i \in {j \in 1 .. Len(poll.recs) : poll.recs[j].what = what}}

\* _fetch_metadata_batch of a scan; a message that is gone is skipped.
FetchScan ==
    /\ poll.pc = "fetchAll"
    /\ poll' = [poll EXCEPT !.pc = "hand",
                            !.change = [m \in Message |->
                                IF m \in poll.ids /\ Exists(m) THEN <<"initial", box[m]>>
                                ELSE NoChange]]
    /\ UNCHANGED <<hist, box, floor, checkpoint, flags, received, removed, excused, mailFaults>>

\* Mutant of FetchChanges: a message that is named as new is not looked up as deleted.
FetchChangesMutant ==
    /\ poll.pc = "fetch"
    /\ poll' = [poll EXCEPT !.pc = "hand",
                            !.change = [m \in Message |->
                    CASE m \in Named("added") /\ Exists(m) -> <<"added", box[m]>>
                      [] m \notin Named("deleted") /\ m \in Named("labels")
                            /\ m \notin Named("added") /\ Exists(m) -> <<"labels", box[m]>>
                      [] OTHER -> NoChange]]
    /\ UNCHANGED <<hist, box, floor, checkpoint, flags, received, removed, excused, mailFaults>>
\* _incremental_sync after history: deletions are left out of the fetch; they are
\* reported only for messages that were received.
FetchChanges ==
    /\ poll.pc = "fetch"
    /\ poll' = [poll EXCEPT !.pc = "hand",
                            !.change = [m \in Message |->
                    CASE m \in Named("deleted") ->
                           IF m \in received THEN <<"removed", "none">> ELSE NoChange
                      [] m \notin Named("deleted") /\ m \in Named("added") /\ Exists(m) ->
                           <<"added", box[m]>>
                      [] m \notin Named("deleted") \cup Named("added")
                            /\ m \in Named("labels") /\ Exists(m) -> <<"labels", box[m]>>
                      [] OTHER -> NoChange]]
    /\ UNCHANGED <<hist, box, floor, checkpoint, flags, received, removed, excused, mailFaults>>

-----------------------------------------------------------------------------
(* ingest_gmail_batch, one transaction                                      *)

Changed(what) == {m \in Message : poll.change[m][1] = what}

\* Mutant of NewFlags: flags are written for messages with an event only.
NewFlagsMutant ==
    [m \in Message |->
        CASE m \in Changed("removed") -> "none"
          [] m \in Changed("initial") \cup Changed("added") -> poll.change[m][2]
          [] OTHER -> flags[m]]
\* The flags after the batch, before they are trimmed.
NewFlags ==
    [m \in Message |->
        CASE m \in Changed("removed") -> "none"
          [] m \in Changed("initial") \cup Changed("added") \cup Changed("labels") ->
               poll.change[m][2]
          [] OTHER -> flags[m]]

\* _trim_message_states keeps the flags written last.
Trimmed(kept) ==
    LET rows == {m \in Message : NewFlags[m] # "none"}
        written == {m \in rows : poll.change[m] # NoChange}
    IN /\ kept \subseteq rows
       /\ Cardinality(kept) = Min({StateLimit, Cardinality(rows)})
       /\ written \subseteq kept \/ kept \subseteq written

IngestMail ==
    /\ poll.pc = "hand"
    /\ received' = received \cup Changed("initial") \cup Changed("added")
    /\ removed' = removed \cup Changed("removed")
    /\ \E kept \in SUBSET Message :
          /\ Trimmed(kept)
          /\ flags' = [m \in Message |-> IF m \in kept THEN NewFlags[m] ELSE "none"]
    /\ checkpoint' = poll.next
    /\ excused' = IF poll.full
                  THEN excused \cup ({hist[i].msg : i \in 1 .. poll.next} \ poll.ids)
                  ELSE excused
    /\ poll' = NoPoll
    /\ UNCHANGED <<hist, box, floor, mailFaults>>

\* An error of the API, the timeout, or the rollback of the transaction.
PollFails ==
    /\ poll.pc # "idle"
    /\ mailFaults < MaxMailFaults
    /\ mailFaults' = mailFaults + 1
    /\ poll' = NoPoll
    /\ UNCHANGED <<hist, box, floor, checkpoint, flags, received, removed, excused>>

\* DELETE /connection forgets every checkpoint of the provider.
ForgetCheckpoints ==
    /\ checkpoint # NoCheckpoint
    /\ mailFaults < MaxMailFaults
    /\ mailFaults' = mailFaults + 1
    /\ checkpoint' = NoCheckpoint
    /\ flags' = [m \in Message |-> "none"]
    /\ UNCHANGED <<hist, box, floor, received, removed, poll, excused>>

SyncStep ==
    \/ PollBegins \/ CheckpointRejected \/ ReadPage \/ ReadBaseline \/ ListMessages
    \/ FetchScan \/ FetchChanges \/ IngestMail

GmailNext ==
    \/ SyncStep \/ MailboxChanges \/ HistoryExpires \/ PollFails \/ ForgetCheckpoints

GmailSpec == GmailInit /\ [][GmailNext]_mailVars

-----------------------------------------------------------------------------
Covered(what, m) ==
    /\ checkpoint # NoCheckpoint
    /\ \E i \in 1 .. checkpoint : hist[i].msg = m /\ hist[i].what = what

\* The checkpoint never passes a change that was not ingested: every message that was
\* added up to it is received, unless it is gone again or a bounded scan left it out,
\* and every received message that was deleted up to it was reported as removed
\* (history, _incremental_sync, ingest_gmail_batch).
MailIsAccountedFor ==
    \A m \in Message \ excused :
        /\ Covered("added", m) => m \in received \/ box[m] = "deleted"
        /\ Covered("deleted", m) /\ m \in received => m \in removed

\* A remembered flag is the message's flag, or its change is still ahead of the
\* checkpoint: an update is never taken for seen.
FlagsAreCurrent ==
    \A m \in Message \ excused :
        flags[m] # "none" /\ Exists(m) /\ flags[m] # box[m] /\ checkpoint # NoCheckpoint
            => \E i \in checkpoint + 1 .. Len(hist) : hist[i].msg = m

\* Once the mailbox is quiet and the faults are over, the checkpoint reaches the end of
\* its history, however far behind it is.
MailCatchesUp == <>[](hist # <<>> => checkpoint = Len(hist))
=============================================================================
