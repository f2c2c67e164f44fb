----------------------------- MODULE Quarantine -----------------------------
(***************************************************************************)
(* The file repository of rejected and greylisted messages: a message file *)
(* (.eml) and a metadata file (.json) per record                           *)
(* (core/admin/mailu/quarantine_repository.py), and the requests that use  *)
(* it: Rspamd's callbacks, the quarantine pages and the daily clean-up.    *)
(*                                                                         *)
(* There is no lock: threads interleave between file operations, and a     *)
(* request can end after any of them, by an error or with its process.     *)
(* Time is abstracted to the one thing the code asks of it, whether a      *)
(* record is past its retention (at least one day for either kind).        *)
(***************************************************************************)
CONSTANTS
  Requests,   \* threads that serve requests
  Sweepers,   \* the quarantine-cleanup process, when it runs
  Uuids,      \* ids of quarantine records
  Keys,       \* ids of greylist records: hashes of the Message-ID
  Messages,
  KeyOf,      \* the greylist id of a message
  None

Ids == Uuids \cup Keys
Threads == Requests \cup Sweepers

\* Why a thread works on a record.
Ops == {"reject", "greylist", "clear", "view", "delete", "release", "expire"}

ASSUME QuarantineConstants ==
  /\ Uuids \cap Keys = {} /\ Sweepers \cap Requests = {}
  /\ KeyOf \in [Messages -> Keys]
  /\ None \notin Ids \cup Messages \cup Ops

VARIABLES
  eml,      \* per id the content of its .eml, or None
  json,     \* ids with a .json
  aged,     \* ids whose last .json got past its retention
  thread,   \* per thread what it does
  stored,   \* history: per uuid the message whose store was acknowledged
  fate,     \* history: per uuid, what removed its message
  injected, \* history: messages given back to Postfix, with the id released
  overlap   \* history: uuids between whose two renames a sweep listed messages

files == <<eml, json, aged>>
history == <<stored, fate, injected, overlap>>
vars == <<files, thread, history>>

\* op: why the record id is being worked on; loop: the handler that goes through todo.
Idle == [pc |-> "idle", op |-> None, loop |-> None, id |-> None, msg |-> None, todo |-> {}]

Thread == [pc : {"idle", "eml", "json", "get", "learn", "read", "inject", "find", "unlink", "unlink2",
                 "records", "messages", "orphan", "flush"},
           op : Ops \cup {None},
           loop : {None, "clean", "flush"},
           id : Ids \cup {None}, msg : Messages \cup {None}, todo : SUBSET Ids]

Becomes(t, task) == thread' = [thread EXCEPT ![t] = task]
Goes(t, pc) == Becomes(t, [thread[t] EXCEPT !.pc = pc])
Ends(t) == Becomes(t, Idle)

\* _expired
Expired(i) == i \in aged

-----------------------------------------------------------------------------
Init ==
  /\ eml = [i \in Ids |-> None]
  /\ json = {}
  /\ aged = {}
  /\ thread = [t \in Threads |-> Idle]
  /\ stored = [u \in Uuids |-> None]
  /\ fate = [u \in Uuids |-> {}]
  /\ injected = {}
  /\ overlap = {}

\* Time passes: a record gets past its retention.
Age(i) ==
  /\ i \in json \ aged
  /\ aged' = aged \cup {i}
  /\ UNCHANGED <<eml, json, thread, history>>

Starts(t, task) ==
  /\ thread[t].pc = "idle"
  /\ Becomes(t, task)
  /\ UNCHANGED <<files, history>>

\* Nobody has drawn this uuid yet.
Fresh(u) ==
  /\ stored[u] = None /\ eml[u] = None /\ u \notin json \cup overlap
  /\ \A q \in Threads : thread[q].id # u /\ u \notin thread[q].todo

-----------------------------------------------------------------------------
(* store(): both files are written aside and renamed, the message first.   *)

\* rspamd_quarantine
Reject(t, m) ==
  \E u \in Uuids : Fresh(u)
    /\ Starts(t, [Idle EXCEPT !.pc = "eml", !.op = "reject", !.id = u, !.msg = m])

\* rspamd_greylist with a message: soft reject
Greylist(t, m) ==
  Starts(t, [Idle EXCEPT !.pc = "eml", !.op = "greylist", !.id = KeyOf[m], !.msg = m])

RenameMessage(t) ==
  /\ thread[t].pc = "eml"
  /\ eml' = [eml EXCEPT ![thread[t].id] = thread[t].msg]
  /\ Goes(t, "json")
  /\ UNCHANGED <<json, aged, history>>

\* greylist.clear: the next task is to delete the greylist record of the message.
Clear(m) == [Idle EXCEPT !.pc = "find", !.op = "clear", !.id = KeyOf[m]]

\* The store is done; a quarantined message then leaves the greylist.
RenameMetadata(t) ==
  LET id == thread[t].id
  IN  /\ thread[t].pc = "json"
      /\ json' = json \cup {id}
      /\ aged' = aged \ {id}
      /\ \/ /\ thread[t].op = "reject"
            /\ stored' = [stored EXCEPT ![id] = thread[t].msg]
            /\ Becomes(t, Clear(thread[t].msg))
         \/ thread[t].op = "greylist" /\ Ends(t) /\ UNCHANGED stored
      /\ UNCHANGED <<eml, fate, injected, overlap>>

-----------------------------------------------------------------------------
(* get() and delete(), and the pages that use them.                        *)

\* rspamd_greylist without a message, once a retry was accepted: delete the greylist record.
Accepted(t, k) == Starts(t, [Idle EXCEPT !.pc = "find", !.op = "clear", !.id = k])

\* get_any: the pages look a record up by its public id, a uuid or a hash.
OpenRecord(t, op, id) == Starts(t, [Idle EXCEPT !.pc = "get", !.op = op, !.id = id])

\* The detail page; the three forms below do the same before they are submitted.
quarantine_detail(t) == \E id \in Ids : OpenRecord(t, "view", id)

quarantine_release(t) == \E id \in Uuids : OpenRecord(t, "release", id)

greylist_release(t) == \E id \in Keys : OpenRecord(t, "release", id)

quarantine_delete(t) == \E id \in Ids : OpenRecord(t, "delete", id)

\* get(): an expired or incomplete record is deleted instead.
Get(t) ==
  LET id == thread[t].id
  IN  /\ thread[t].pc = "get"
      /\ \/ id \notin json /\ Ends(t)
         \/ /\ id \in json
            /\ \/ /\ Expired(id) \/ eml[id] = None
                  /\ Becomes(t, [thread[t] EXCEPT !.pc = "find", !.op = "expire"])
               \/ /\ ~Expired(id) /\ eml[id] # None
                  /\ \/ thread[t].op = "view" /\ Ends(t)
                     \/ thread[t].op = "release" /\ Goes(t, "learn")
                     \/ thread[t].op = "delete" /\ Goes(t, "find")
      /\ UNCHANGED <<files, history>>

\* learn_ham(path.read_bytes()): reading fails when the file has gone; what Rspamd answers
\* to the three commands does not matter.  greylist_release gives Postfix what it read here.
LearnHam(t) ==
  LET content == eml[thread[t].id]
  IN  /\ thread[t].pc = "learn"
      /\ \/ content = None /\ Ends(t)
         \/ /\ content # None
            /\ \/ thread[t].id \in Uuids /\ Goes(t, "read")
               \/ /\ thread[t].id \in Keys
                  /\ Becomes(t, [thread[t] EXCEPT !.pc = "inject", !.msg = content])
      /\ UNCHANGED <<files, history>>

\* quarantine_release reads the file again after the learning.
ReadMessage(t) ==
  LET content == eml[thread[t].id]
  IN  /\ thread[t].pc = "read"
      /\ \/ content = None /\ Ends(t)
         \/ content # None /\ Becomes(t, [thread[t] EXCEPT !.pc = "inject", !.msg = content])
      /\ UNCHANGED <<files, history>>

\* Mutant: an error of the SMTP client is logged, and the release goes on.
Reinject_FailOpen(t) ==
  /\ thread[t].pc = "inject"
  /\ injected' \in {injected, injected \cup {<<thread[t].id, thread[t].msg>>}}
  /\ Goes(t, "find")
  /\ UNCHANGED <<files, stored, fate, overlap>>

\* _reinject: Postfix takes the message for all recipients.
Reinject(t) ==
  /\ thread[t].pc = "inject"
  /\ injected' = injected \cup {<<thread[t].id, thread[t].msg>>}
  /\ Goes(t, "find")
  /\ UNCHANGED <<files, stored, fate, overlap>>

\* After a record: the next one of the handler's loop, or the end.
NextRecord(t, pc) ==
  Becomes(t, IF thread[t].loop = None THEN Idle
             ELSE [Idle EXCEPT !.pc = pc, !.loop = thread[t].loop, !.todo = thread[t].todo])

\* delete(): nothing to do without readable metadata.
Find(t) ==
  /\ thread[t].pc = "find"
  /\ \/ thread[t].id \notin json /\ NextRecord(t, "flush")
     \/ thread[t].id \in json /\ Goes(t, "unlink")
  /\ UNCHANGED <<files, history>>

\* The message goes first, in delete() and in the sweep.
UnlinkMessage(t) ==
  LET id == thread[t].id
  IN  /\ thread[t].pc = "unlink"
      /\ eml' = [eml EXCEPT ![id] = None]
      /\ fate' = IF id \in Uuids /\ eml[id] # None
                 THEN [fate EXCEPT ![id] = @ \cup {thread[t].op}] ELSE fate
      /\ Goes(t, "unlink2")
      /\ UNCHANGED <<json, aged, stored, injected, overlap>>

UnlinkMetadata(t) ==
  /\ thread[t].pc = "unlink2"
  /\ json' = json \ {thread[t].id}
  /\ NextRecord(t, IF thread[t].op = "expire" THEN "records" ELSE "flush")
  /\ UNCHANGED <<eml, aged, history>>

-----------------------------------------------------------------------------
(* cleanup_expired(): by the clean-up process, and before every listing.   *)

\* loop: what the records are listed for.
ListRecords(t, loop) ==
  Starts(t, [Idle EXCEPT !.pc = "records", !.loop = loop, !.todo = json])

quarantine_list(t) == ListRecords(t, "clean")

quarantine_flush(t) == ListRecords(t, "flush")

\* A record whose metadata cannot be read any more is removed as invalid.
CheckRecord(t) ==
  /\ thread[t].pc = "records"
  /\ \E i \in thread[t].todo :
       LET rest == [thread[t] EXCEPT !.todo = @ \ {i}]
       IN  \/ /\ i \notin json \/ Expired(i)
              /\ Becomes(t, [rest EXCEPT !.pc = "unlink", !.op = "expire", !.id = i])
           \/ i \in json /\ ~Expired(i) /\ Becomes(t, rest)
  /\ UNCHANGED <<files, history>>

Overlapped == {u \in Uuids : \E q \in Threads : thread[q].id = u /\ thread[q].pc = "json"}

\* Mutant: the second loop lists the metadata files again.
ListMessages_Records(t) ==
  /\ thread[t].pc = "records" /\ thread[t].todo = {}
  /\ Becomes(t, [thread[t] EXCEPT !.pc = "messages", !.todo = json])
  /\ UNCHANGED <<files, history>>

ListMessages(t) ==
  /\ thread[t].pc = "records" /\ thread[t].todo = {}
  /\ Becomes(t, [thread[t] EXCEPT !.pc = "messages", !.todo = {i \in Ids : eml[i] # None}])
  /\ overlap' = overlap \cup Overlapped
  /\ UNCHANGED <<files, stored, fate, injected>>

\* Mutant: every listed message is an orphan.
IsOrphan_Listed(i) == TRUE

IsOrphan(i) == i \notin json

\* entries(): a quarantine record without its message is not listed.
Listed == {i \in json : i \in Keys \/ eml[i] # None}

\* visible_entries: those with a recipient that the user is, or manages.
MayBeVisible == SUBSET Listed

\* When all messages are seen, a listing ends, and a flush goes on to delete() the records
\* it lists that its user may see.
CheckMessage(t) ==
  /\ thread[t].pc = "messages"
  /\ \/ thread[t].todo = {} /\ thread[t].loop = "clean" /\ Ends(t)
     \/ /\ thread[t].todo = {} /\ thread[t].loop = "flush"
        /\ \E visible \in MayBeVisible :
             Becomes(t, [thread[t] EXCEPT !.pc = "flush", !.todo = visible])
     \/ \E i \in thread[t].todo :
          LET rest == [thread[t] EXCEPT !.todo = @ \ {i}]
          IN  \/ IsOrphan(i) /\ Becomes(t, [rest EXCEPT !.pc = "orphan", !.id = i])
              \/ ~IsOrphan(i) /\ Becomes(t, rest)
  /\ UNCHANGED <<files, history>>

UnlinkOrphan(t) ==
  /\ thread[t].pc = "orphan"
  /\ eml' = [eml EXCEPT ![thread[t].id] = None]
  /\ Becomes(t, [thread[t] EXCEPT !.pc = "messages", !.id = None])
  /\ UNCHANGED <<json, aged, history>>

\* flush()
FlushRecord(t) ==
  /\ thread[t].pc = "flush"
  /\ \/ thread[t].todo = {} /\ Ends(t)
     \/ \E i \in thread[t].todo :
          Becomes(t, [thread[t] EXCEPT !.pc = "find", !.op = "delete", !.id = i, !.todo = @ \ {i}])
  /\ UNCHANGED <<files, history>>

-----------------------------------------------------------------------------
\* A request ends early: an OSError or an SMTP error, answered 503, or a kill.
Abort(t) ==
  /\ thread[t].pc # "idle"
  /\ Ends(t)
  /\ UNCHANGED <<files, history>>

Step(t) ==
  \/ RenameMessage(t) \/ RenameMetadata(t)
  \/ Get(t) \/ LearnHam(t) \/ ReadMessage(t) \/ Reinject(t)
  \/ Find(t) \/ UnlinkMessage(t) \/ UnlinkMetadata(t)
  \/ CheckRecord(t) \/ ListMessages(t) \/ CheckMessage(t) \/ UnlinkOrphan(t)
  \/ FlushRecord(t)

Request(t) ==
  \/ \E m \in Messages : Reject(t, m) \/ Greylist(t, m)
  \/ \E k \in Keys : Accepted(t, k)
  \/ quarantine_detail(t) \/ quarantine_release(t) \/ greylist_release(t) \/ quarantine_delete(t)
  \/ quarantine_list(t) \/ quarantine_flush(t)

\* quarantine_cleanup.py
Sweep(t) == ListRecords(t, "clean") \/ Step(t)

Next ==
  \/ \E i \in Ids : Age(i)
  \/ \E t \in Requests : Request(t) \/ Step(t) \/ Abort(t)
  \/ \E t \in Sweepers : Sweep(t)

Spec == Init /\ [][Next]_vars

\* The clean-up process comes back every day.
FairSpec == Spec /\ \A t \in Sweepers : WF_vars(Sweep(t))

-----------------------------------------------------------------------------
(* Properties.                                                             *)

\* Every variable keeps its type.
TypeOK ==
  /\ eml \in [Ids -> Messages \cup {None}]
  /\ json \subseteq Ids /\ aged \subseteq Ids
  /\ thread \in [Threads -> Thread]
  /\ stored \in [Uuids -> Messages \cup {None}]
  /\ fate \in [Uuids -> SUBSET {"delete", "release", "expire"}]
  /\ injected \subseteq Ids \X Messages
  /\ overlap \subseteq Uuids

\* Why the message of an acknowledged quarantine record may be missing: a user deleted
\* or released it, or it is past its retention.
Explained(u) == fate[u] \cap {"delete", "release"} # {} \/ u \in aged

\* Whatever requests, sweeps and crashes interleave, an acknowledged message is retained
\* unless a sweep listed the messages between its two renames.
RetainedOrSwept ==
  \A u \in Uuids : stored[u] # None /\ eml[u] = None => Explained(u) \/ u \in overlap

\* A release never loses a message: one that quarantine_release removed was given back to
\* Postfix, unchanged, although any step of a release may fail.
ReleaseDelivers ==
  \A u \in Uuids : stored[u] # None /\ "release" \in fate[u] => <<u, stored[u]>> \in injected

\* Leftovers of failed requests and of crashes do not stay: a message without metadata,
\* and a record past its retention, is eventually gone, by the daily cleanup_expired.
Tidy ==
  \A i \in Ids :
    LET Leftover == (eml[i] # None /\ i \notin json) \/ (i \in json /\ Expired(i))
    IN  Leftover ~> ~Leftover
=============================================================================
