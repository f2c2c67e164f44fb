-------------------------- MODULE QuarantineProofs --------------------------
(***************************************************************************)
(* For any number of requests, clean-up processes, records and messages:   *)
(* the types, that an acknowledged message is retained (RetainedOrSwept)   *)
(* and that a release never loses one (ReleaseDelivers).                   *)
(*                                                                         *)
(* A step of a thread acts on what the thread found out some steps ago, so *)
(* the invariant says what each place in the code may still rely on: about *)
(* the record in hand (TaskOK), about a record being written and the       *)
(* sweeps that have its message on their list (Writers), and about the     *)
(* files of an acknowledged record (Records).                              *)
(***************************************************************************)
EXTENDS Quarantine, TLAPS

\* Records whose message may be missing: the right-hand side of RetainedOrSwept.
Excused == {u \in Uuids : Explained(u) \/ u \in overlap}

\* What a thread in state T may rely on, when st was acknowledged, the records X are
\* excused and inj was given to Postfix.
TaskOK(T, st, X, inj) ==
  \* the arguments of the function it is in
  /\ T.pc \in {"eml", "json"} =>
       /\ T.msg \in Messages
       /\ (T.op = "reject" /\ T.id \in Uuids) \/ (T.op = "greylist" /\ T.id \in Keys)
  /\ T.op = "reject" => T.pc \in {"eml", "json"}
  /\ T.pc \in {"get", "learn", "read", "inject", "find", "unlink", "unlink2", "orphan"} => T.id \in Ids
  /\ T.pc = "inject" => T.msg \in Messages
  /\ T.pc \in {"learn", "read", "inject"} => T.op = "release"
  /\ T.pc = "get" => T.op \in {"view", "release", "delete"}
  /\ T.pc \in {"records", "messages", "orphan", "flush"} => T.op = None
  /\ T.pc \in {"find", "unlink", "unlink2"} =>
       T.op \in {"delete", "release", "expire"} \/ (T.op = "clear" /\ T.id \in Keys)
  \* a record that was found, or listed, had been acknowledged
  /\ T.pc \in {"learn", "read", "inject", "find", "unlink", "unlink2"} =>
       \A u \in Uuids : T.id = u => st[u] # None
  /\ T.pc \notin {"messages", "orphan"} => \A u \in T.todo \cap Uuids : st[u] # None
  \* a record is expired, or has lost its message, for a good reason
  /\ T.op = "expire" \/ T.pc = "unlink2" => \A u \in Uuids : T.id = u => u \in X
  /\ T.pc = "orphan" => \A u \in Uuids : T.id = u /\ st[u] # None => u \in X
  \* the message in hand is the one acknowledged, and is released before it is removed
  /\ T.pc = "inject" => \A u \in Uuids : T.id = u => T.msg = st[u]
  /\ T.pc \in {"find", "unlink", "unlink2"} /\ T.op = "release" =>
       \A u \in Uuids : T.id = u => <<u, st[u]>> \in inj

Tasks == \A t \in Threads : TaskOK(thread[t], stored, Excused, injected)

\* A sweep in state T may still remove the message of u.
Sees(T, u) == \/ T.pc \in {"messages", "orphan"} /\ u \in T.todo
              \/ T.pc = "orphan" /\ T.id = u

\* A record being written has one writer, is not acknowledged, and has its message as
\* soon as that is renamed, but for a sweep that listed the messages since.
Writers ==
  \A t \in Threads : thread[t].op = "reject" =>
    LET u == thread[t].id
    IN  /\ stored[u] = None
        /\ eml[u] \in {None, thread[t].msg}
        /\ thread[t].pc = "eml" => eml[u] = None
        /\ thread[t].pc = "json" /\ eml[u] = None => u \in overlap
        /\ \A q \in Threads \ {t} : thread[q].op = "reject" => thread[q].id # u
        /\ \A q \in Threads : Sees(thread[q], u) => thread[t].pc = "json" /\ u \in overlap

\* The files of a record, and what became of it.
Records ==
  \A u \in Uuids :
    /\ u \in json \cup aged \/ fate[u] # {} => stored[u] # None
    /\ stored[u] # None => /\ u \notin json \/ eml[u] = None => u \in Excused
                           /\ eml[u] \in {None, stored[u]}
                           /\ "release" \in fate[u] => <<u, stored[u]>> \in injected

IInv == TypeOK /\ Tasks /\ Writers /\ Records

USE QuarantineConstants

-----------------------------------------------------------------------------
(* Helpers                                                                 *)

LEMMA Assigned ==
  ASSUME TypeOK, NEW t \in Threads, NEW T \in Thread, Becomes(t, T)
  PROVE  /\ thread' \in [Threads -> Thread] /\ thread'[t] = T
         /\ \A q \in Threads \ {t} : thread'[q] = thread[q]
BY DEF TypeOK, Becomes

\* What a thread may rely on stays true while records are acknowledged, excused and released.
LEMMA Persist ==
  ASSUME NEW T \in Thread, NEW st, NEW st2, NEW X, NEW X2, NEW inj, NEW inj2,
         TaskOK(T, st, X, inj),
         \A u \in Uuids : st[u] # None => st2[u] = st[u],
         \A u \in Uuids : T.pc = "orphan" /\ T.id = u /\ st2[u] # None => st[u] # None \/ u \in X2,
         X \subseteq X2, inj \subseteq inj2
  PROVE  TaskOK(T, st2, X2, inj2)
BY DEF TaskOK

\* The other threads, and the one that steps, may rely on what TaskOK says after the step.
LEMMA TasksStep ==
  ASSUME IInv, NEW t \in Threads, NEW T \in Thread, Becomes(t, T),
         TaskOK(T, stored', Excused', injected'),
         \A u \in Uuids : stored[u] # None => stored'[u] = stored[u],
         \A q \in Threads \ {t} : \A u \in Uuids :
           thread[q].pc = "orphan" /\ thread[q].id = u /\ stored'[u] # None =>
             stored[u] # None \/ u \in Excused',
         Excused \subseteq Excused', injected \subseteq injected'
  PROVE  Tasks'
<1>1. thread'[t] = T /\ \A q \in Threads \ {t} : thread'[q] = thread[q]
  BY Assigned DEF IInv
<1>2. ASSUME NEW q \in Threads \ {t}
      PROVE  TaskOK(thread[q], stored', Excused', injected')
  <2>1. thread[q] \in Thread /\ TaskOK(thread[q], stored, Excused, injected)
    BY DEF IInv, TypeOK, Tasks
  <2>2. QED
    BY <2>1, Persist
<1>3. QED
  BY <1>1, <1>2 DEF Tasks

\* A step that writes no record leaves every writer its message, unless it is a sweep that
\* has the message on its list.
LEMMA WritersStep ==
  ASSUME IInv, NEW t \in Threads, NEW T \in Thread, Becomes(t, T), T.op # "reject",
         \A u \in Uuids : Sees(T, u) => Sees(thread[t], u),
         \A u \in Uuids : stored'[u] = stored[u] \/ (thread[t].op = "reject" /\ thread[t].id = u),
         \A u \in Uuids : eml'[u] = eml[u] \/ (eml'[u] = None /\ (stored[u] # None \/ Sees(thread[t], u))),
         overlap \subseteq overlap'
  PROVE  Writers'
<1> SUFFICES ASSUME NEW q \in Threads, thread'[q].op = "reject"
             PROVE  LET u == thread'[q].id
                    IN  /\ stored'[u] = None
                        /\ eml'[u] \in {None, thread'[q].msg}
                        /\ thread'[q].pc = "eml" => eml'[u] = None
                        /\ thread'[q].pc = "json" /\ eml'[u] = None => u \in overlap'
                        /\ \A p \in Threads \ {q} : thread'[p].op = "reject" => thread'[p].id # u
                        /\ \A p \in Threads :
                             Sees(thread'[p], u) => thread'[q].pc = "json" /\ u \in overlap'
  BY DEF Writers
<1> USE DEF IInv
<1> DEFINE u == thread[q].id
<1>1. thread'[t] = T /\ \A p \in Threads \ {t} : thread'[p] = thread[p]
  BY Assigned
<1>2. q # t /\ thread'[q] = thread[q]
  BY <1>1
<1>3. thread[q].op = "reject" /\ thread[q].pc \in {"eml", "json"} /\ u \in Uuids
  BY <1>2 DEF Tasks, TaskOK
<1>4. /\ stored[u] = None
      /\ eml[u] \in {None, thread[q].msg}
      /\ thread[q].pc = "eml" => eml[u] = None
      /\ thread[q].pc = "json" /\ eml[u] = None => u \in overlap
      /\ \A p \in Threads \ {q} : thread[p].op = "reject" => thread[p].id # u
      /\ \A p \in Threads : Sees(thread[p], u) => thread[q].pc = "json" /\ u \in overlap
  BY <1>3 DEF Writers
<1> HIDE DEF u
<1>5. stored'[u] = None
  BY <1>2, <1>3, <1>4
<1>6. /\ eml'[u] \in {None, thread[q].msg}
      /\ thread[q].pc = "eml" => eml'[u] = None
      /\ thread[q].pc = "json" /\ eml'[u] = None => u \in overlap'
  BY <1>3, <1>4
<1>7. \A p \in Threads \ {q} : thread'[p].op = "reject" => thread'[p].id # u
  BY <1>1, <1>4
<1>8. \A p \in Threads : Sees(thread'[p], u) => Sees(thread[p], u)
  BY <1>1, <1>3
<1>9. QED
  BY <1>2, <1>4, <1>5, <1>6, <1>7, <1>8 DEF u

\* A step that is the thread's own business: it neither starts to write a record nor
\* lists one more message.
LEMMA Quiet ==
  ASSUME IInv, NEW t \in Threads, NEW T \in Thread, Becomes(t, T), UNCHANGED <<files, history>>,
         TaskOK(T, stored, Excused, injected), T.op # "reject",
         \A u \in Uuids : Sees(T, u) => Sees(thread[t], u)
  PROVE  IInv'
<1>1. /\ thread' \in [Threads -> Thread] /\ thread'[t] = T
      /\ \A q \in Threads \ {t} : thread'[q] = thread[q]
  BY Assigned DEF IInv
<1>2. /\ UNCHANGED <<eml, json, aged, stored, fate, injected, overlap>>
      /\ Excused' = Excused
  BY DEF files, history, Excused, Explained
<1>3. TypeOK'
  BY <1>1, <1>2 DEF IInv, TypeOK
<1>4. Tasks'
  BY <1>2, TasksStep
<1>5. Writers'
  BY <1>2, WritersStep
<1>6. Records'
  BY <1>2 DEF IInv, Records
<1>7. QED
  BY <1>3, <1>4, <1>5, <1>6 DEF IInv

\* A task in hand, and what its thread relies on.
LEMMA InHand ==
  ASSUME IInv, NEW t \in Threads
  PROVE  /\ thread[t] \in Thread /\ TaskOK(thread[t], stored, Excused, injected)
         /\ \A i \in json \cap Uuids : stored[i] # None
BY DEF IInv, TypeOK, Tasks, Records

\* An acknowledged record that is past its retention, or has lost a file, is excused.
LEMMA Excuses ==
  ASSUME IInv, NEW u \in Uuids, stored[u] # None, u \notin json \/ eml[u] = None \/ Expired(u)
  PROVE  u \in Excused
<1>1. CASE u \notin json \/ eml[u] = None
  BY <1>1 DEF IInv, Records
<1>2. CASE Expired(u)
  BY <1>2 DEF Excused, Explained, Expired
<1>3. QED
  BY <1>1, <1>2

-----------------------------------------------------------------------------
(* Steps that change neither the files nor the history.                    *)

\* A thread may always end.
LEMMA EndsInv ==
  ASSUME IInv, NEW t \in Threads, Ends(t), UNCHANGED <<files, history>>
  PROVE  IInv'
<1>1. Idle \in Thread /\ Idle.op # "reject"
  BY DEF Idle, Thread, Ops
<1>2. TaskOK(Idle, stored, Excused, injected) /\ \A u \in Uuids : ~Sees(Idle, u)
  BY DEF Idle, TaskOK, Sees, Ops
<1>3. QED
  BY <1>1, <1>2, Quiet DEF Ends

\* A request or a sweep begins, with a task that relies on nothing.
LEMMA StartsInv ==
  ASSUME IInv, NEW t \in Threads, NEW T \in Thread, Starts(t, T),
         TaskOK(T, stored, Excused, injected), T.op # "reject", \A u \in Uuids : ~Sees(T, u)
  PROVE  IInv'
BY Quiet DEF Starts

LEMMA GreylistInv ==
  ASSUME IInv, NEW t \in Threads, NEW m \in Messages, Greylist(t, m)
  PROVE  IInv'
<1> DEFINE T == [Idle EXCEPT !.pc = "eml", !.op = "greylist", !.id = KeyOf[m], !.msg = m]
<1>1. T \in Thread /\ T.op # "reject"
  BY DEF Idle, Thread, Ids, Ops
<1>2. TaskOK(T, stored, Excused, injected) /\ \A u \in Uuids : ~Sees(T, u)
  BY DEF Idle, TaskOK, Sees, Ids
<1>3. QED
  BY <1>1, <1>2, StartsInv DEF Greylist

\* greylist.clear, after an accepted retry
LEMMA AcceptedInv ==
  ASSUME IInv, NEW t \in Threads, NEW k \in Keys, Accepted(t, k)
  PROVE  IInv'
<1> DEFINE T == [Idle EXCEPT !.pc = "find", !.op = "clear", !.id = k]
<1>1. T \in Thread /\ T.op # "reject"
  BY DEF Idle, Thread, Ids, Ops
<1>2. TaskOK(T, stored, Excused, injected) /\ \A u \in Uuids : ~Sees(T, u)
  BY DEF Idle, TaskOK, Sees, Ids
<1>3. QED
  BY <1>1, <1>2, StartsInv DEF Accepted

LEMMA OpenRecordInv ==
  ASSUME IInv, NEW t \in Threads, NEW op \in {"view", "release", "delete"}, NEW id \in Ids,
         OpenRecord(t, op, id)
  PROVE  IInv'
<1> DEFINE T == [Idle EXCEPT !.pc = "get", !.op = op, !.id = id]
<1>1. T \in Thread /\ T.op # "reject"
  BY DEF Idle, Thread, Ids, Ops
<1>2. TaskOK(T, stored, Excused, injected) /\ \A u \in Uuids : ~Sees(T, u)
  BY DEF Idle, TaskOK, Sees, Ids
<1>3. QED
  BY <1>1, <1>2, StartsInv DEF OpenRecord

\* Every record that is listed was acknowledged.
LEMMA ListRecordsInv ==
  ASSUME IInv, NEW t \in Threads, NEW loop \in {"clean", "flush"}, ListRecords(t, loop)
  PROVE  IInv'
<1> DEFINE T == [Idle EXCEPT !.pc = "records", !.loop = loop, !.todo = json]
<1>1. json \subseteq Ids
  BY DEF IInv, TypeOK
<1>2. T \in Thread /\ T.op # "reject"
  BY <1>1 DEF Idle, Thread, Ids, Ops
<1>3. TaskOK(T, stored, Excused, injected) /\ \A u \in Uuids : ~Sees(T, u)
  BY <1>1, InHand DEF Idle, TaskOK, Sees, Ids, Ops
<1>4. QED
  BY <1>2, <1>3, StartsInv DEF ListRecords

\* A record that get() finds was acknowledged; one it finds expired or incomplete is excused.
LEMMA GetInv ==
  ASSUME IInv, NEW t \in Threads, Get(t)
  PROVE  IInv'
<1> DEFINE id == thread[t].id
           Expire == [thread[t] EXCEPT !.pc = "find", !.op = "expire"]
           Learn == [thread[t] EXCEPT !.pc = "learn"]
           Delete == [thread[t] EXCEPT !.pc = "find"]
<1>1. /\ thread[t] \in Thread /\ TaskOK(thread[t], stored, Excused, injected)
      /\ \A i \in json \cap Uuids : stored[i] # None
  BY InHand
<1>2. thread[t].pc = "get" /\ UNCHANGED <<files, history>>
  BY DEF Get
<1>3. id \in Ids /\ thread[t].op \in {"view", "release", "delete"}
  BY <1>1, <1>2 DEF TaskOK
<1>4. Expire \in Thread /\ Learn \in Thread /\ Delete \in Thread
  BY <1>1 DEF Thread, Ops
<1>5. CASE Ends(t)
  BY <1>2, <1>5, EndsInv
<1>6. CASE id \in json /\ (Expired(id) \/ eml[id] = None) /\ Becomes(t, Expire)
  <2>1. \A u \in Uuids : id = u => u \in Excused
    BY <1>1, <1>6, Excuses
  <2>2. TaskOK(Expire, stored, Excused, injected)
    BY <1>1, <1>2, <1>3, <1>6, <2>1 DEF TaskOK, Thread
  <2>3. Expire.op # "reject" /\ \A u \in Uuids : ~Sees(Expire, u)
    BY <1>1 DEF Sees, Thread
  <2>4. QED
    BY <1>2, <1>4, <1>6, <2>2, <2>3, Quiet
<1>7. CASE id \in json /\ thread[t].op = "release" /\ Becomes(t, Learn)
  <2>1. TaskOK(Learn, stored, Excused, injected)
    BY <1>1, <1>2, <1>3, <1>7 DEF TaskOK, Thread
  <2>2. Learn.op # "reject" /\ \A u \in Uuids : ~Sees(Learn, u)
    BY <1>1, <1>7 DEF Sees, Thread
  <2>3. QED
    BY <1>2, <1>4, <1>7, <2>1, <2>2, Quiet
<1>8. CASE id \in json /\ thread[t].op = "delete" /\ Becomes(t, Delete)
  <2>1. TaskOK(Delete, stored, Excused, injected)
    BY <1>1, <1>2, <1>3, <1>8 DEF TaskOK, Thread
  <2>2. Delete.op # "reject" /\ \A u \in Uuids : ~Sees(Delete, u)
    BY <1>1, <1>8 DEF Sees, Thread
  <2>3. QED
    BY <1>2, <1>4, <1>8, <2>1, <2>2, Quiet
<1>9. QED
  BY <1>5, <1>6, <1>7, <1>8 DEF Get, Goes

\* The message read is the one acknowledged: nobody else writes under a uuid.
LEMMA ReadInv ==
  ASSUME IInv, NEW t \in Threads, LearnHam(t) \/ ReadMessage(t)
  PROVE  IInv'
<1> DEFINE content == eml[thread[t].id]
           Read == [thread[t] EXCEPT !.pc = "read"]
           Inject == [thread[t] EXCEPT !.pc = "inject", !.msg = content]
<1>1. /\ thread[t] \in Thread /\ TaskOK(thread[t], stored, Excused, injected)
      /\ \A i \in json \cap Uuids : stored[i] # None
  BY InHand
<1>2. thread[t].pc \in {"learn", "read"} /\ UNCHANGED <<files, history>>
  BY DEF LearnHam, ReadMessage
<1>3. thread[t].id \in Ids /\ thread[t].op = "release"
  BY <1>1, <1>2 DEF TaskOK
<1>4. CASE Ends(t)
  BY <1>2, <1>4, EndsInv
<1>5. CASE Becomes(t, Read)
  <2>1. Read \in Thread
    BY <1>1 DEF Thread
  <2>2. TaskOK(Read, stored, Excused, injected)
    BY <1>1, <1>2, <1>3 DEF TaskOK, Thread
  <2>3. Read.op # "reject" /\ \A u \in Uuids : ~Sees(Read, u)
    BY <1>1, <1>3 DEF Sees, Thread
  <2>4. QED
    BY <1>2, <1>5, <2>1, <2>2, <2>3, Quiet
<1>6. CASE content # None /\ Becomes(t, Inject)
  <2>1. content \in Messages
    BY <1>3, <1>6 DEF IInv, TypeOK
  <2>2. Inject \in Thread
    BY <1>1, <2>1 DEF Thread
  <2>3. \A u \in Uuids : thread[t].id = u => stored[u] # None /\ content = stored[u]
    BY <1>1, <1>2, <1>6 DEF IInv, Records, TaskOK
  <2>4. TaskOK(Inject, stored, Excused, injected)
    BY <1>1, <1>2, <1>3, <2>1, <2>3 DEF TaskOK, Thread
  <2>5. Inject.op # "reject" /\ \A u \in Uuids : ~Sees(Inject, u)
    BY <1>1, <1>3 DEF Sees, Thread
  <2>6. QED
    BY <1>2, <1>6, <2>2, <2>4, <2>5, Quiet
<1>7. QED
  BY <1>4, <1>5, <1>6 DEF LearnHam, ReadMessage, Goes

\* The records left in the loop of a handler were acknowledged when they were listed.
LEMMA NextRecordTask ==
  ASSUME IInv, NEW t \in Threads, NEW pc \in {"records", "flush"},
         thread[t].pc \notin {"messages", "orphan"}
  PROVE  \E T \in Thread : /\ NextRecord(t, pc) => Becomes(t, T)
                           /\ TaskOK(T, stored, Excused, injected) /\ T.op # "reject"
                           /\ \A u \in Uuids : ~Sees(T, u)
<1> DEFINE More == [Idle EXCEPT !.pc = pc, !.loop = thread[t].loop, !.todo = thread[t].todo]
           T == IF thread[t].loop = None THEN Idle ELSE More
<1>1. thread[t] \in Thread /\ TaskOK(thread[t], stored, Excused, injected)
  BY InHand
<1>2. /\ Idle \in Thread /\ TaskOK(Idle, stored, Excused, injected) /\ Idle.op # "reject"
      /\ \A u \in Uuids : ~Sees(Idle, u)
  BY DEF Idle, Thread, TaskOK, Sees, Ops
<1>3. More \in Thread /\ More.op # "reject" /\ \A u \in Uuids : ~Sees(More, u)
  BY <1>1 DEF Idle, Thread, Sees, Ops
<1>4. TaskOK(More, stored, Excused, injected)
  BY <1>1 DEF Idle, TaskOK, Thread, Ops
<1>5. T \in Thread /\ (NextRecord(t, pc) => Becomes(t, T))
  BY <1>2, <1>3 DEF NextRecord
<1>6. QED
  BY <1>2, <1>3, <1>4, <1>5

LEMMA FindInv ==
  ASSUME IInv, NEW t \in Threads, Find(t)
  PROVE  IInv'
<1> DEFINE Unlink == [thread[t] EXCEPT !.pc = "unlink"]
<1>1. thread[t] \in Thread /\ TaskOK(thread[t], stored, Excused, injected)
  BY InHand
<1>2. thread[t].pc = "find" /\ UNCHANGED <<files, history>>
  BY DEF Find
<1>3. CASE NextRecord(t, "flush")
  <2>1. PICK T \in Thread : /\ NextRecord(t, "flush") => Becomes(t, T)
                            /\ TaskOK(T, stored, Excused, injected) /\ T.op # "reject"
                            /\ \A u \in Uuids : ~Sees(T, u)
    BY <1>2, NextRecordTask
  <2>2. QED
    BY <1>2, <1>3, <2>1, Quiet
<1>4. CASE Becomes(t, Unlink)
  <2>1. Unlink \in Thread
    BY <1>1 DEF Thread
  <2>2. TaskOK(Unlink, stored, Excused, injected)
    BY <1>1, <1>2 DEF TaskOK, Thread
  <2>3. Unlink.op # "reject" /\ \A u \in Uuids : ~Sees(Unlink, u)
    BY <1>1, <1>2 DEF Sees, Thread, TaskOK
  <2>4. QED
    BY <1>2, <1>4, <2>1, <2>2, <2>3, Quiet
<1>5. QED
  BY <1>3, <1>4 DEF Find, Goes

\* A listed record that cannot be read any more was removed, and one past its retention is
\* excused as well.
LEMMA CheckRecordInv ==
  ASSUME IInv, NEW t \in Threads, CheckRecord(t)
  PROVE  IInv'
<1>1. thread[t] \in Thread /\ TaskOK(thread[t], stored, Excused, injected)
  BY InHand
<1>2. thread[t].pc = "records" /\ UNCHANGED <<files, history>>
  BY DEF CheckRecord
<1>3. PICK i \in thread[t].todo :
        LET rest == [thread[t] EXCEPT !.todo = @ \ {i}]
        IN  \/ /\ i \notin json \/ Expired(i)
               /\ Becomes(t, [rest EXCEPT !.pc = "unlink", !.op = "expire", !.id = i])
            \/ i \in json /\ ~Expired(i) /\ Becomes(t, rest)
  BY DEF CheckRecord
<1> DEFINE rest == [thread[t] EXCEPT !.todo = @ \ {i}]
           Expire == [rest EXCEPT !.pc = "unlink", !.op = "expire", !.id = i]
<1>4. i \in Ids /\ thread[t].todo \in SUBSET Ids
  BY <1>1 DEF Thread
<1>5. \A u \in Uuids : i = u => stored[u] # None
  BY <1>1, <1>2 DEF TaskOK
<1>6. rest \in Thread /\ Expire \in Thread
  BY <1>1, <1>4 DEF Thread, Ops
<1>7. CASE (i \notin json \/ Expired(i)) /\ Becomes(t, Expire)
  <2>1. \A u \in Uuids : i = u => u \in Excused
    BY <1>5, <1>7, Excuses
  <2>2. TaskOK(Expire, stored, Excused, injected)
    BY <1>1, <1>2, <1>4, <1>5, <2>1 DEF TaskOK, Thread
  <2>3. Expire.op # "reject" /\ \A u \in Uuids : ~Sees(Expire, u)
    BY <1>1 DEF Sees, Thread
  <2>4. QED
    BY <1>2, <1>6, <1>7, <2>2, <2>3, Quiet
<1>8. CASE Becomes(t, rest)
  <2>1. TaskOK(rest, stored, Excused, injected)
    BY <1>1, <1>2 DEF TaskOK, Thread
  <2>2. rest.op # "reject" /\ \A u \in Uuids : ~Sees(rest, u)
    BY <1>1, <1>2 DEF Sees, Thread, TaskOK
  <2>3. QED
    BY <1>2, <1>6, <1>8, <2>1, <2>2, Quiet
<1>9. QED
  BY <1>3, <1>7, <1>8

\* A listed message without metadata belongs to no acknowledged record, or to one whose
\* metadata is gone.
LEMMA CheckMessageInv ==
  ASSUME IInv, NEW t \in Threads, CheckMessage(t)
  PROVE  IInv'
<1>1. /\ thread[t] \in Thread /\ TaskOK(thread[t], stored, Excused, injected)
      /\ \A i \in json \cap Uuids : stored[i] # None
  BY InHand
<1>2. thread[t].pc = "messages" /\ UNCHANGED <<files, history>>
  BY DEF CheckMessage
<1>3. CASE Ends(t)
  BY <1>2, <1>3, EndsInv
<1>4. CASE \E visible \in MayBeVisible :
             Becomes(t, [thread[t] EXCEPT !.pc = "flush", !.todo = visible])
  <2>1. PICK visible \in MayBeVisible :
               Becomes(t, [thread[t] EXCEPT !.pc = "flush", !.todo = visible])
    BY <1>4
  <2> DEFINE Flush == [thread[t] EXCEPT !.pc = "flush", !.todo = visible]
  <2>2. visible \subseteq json /\ json \subseteq Ids
    BY <2>1 DEF MayBeVisible, Listed, IInv, TypeOK
  <2>3. Flush \in Thread
    BY <1>1, <2>2 DEF Thread
  <2>4. TaskOK(Flush, stored, Excused, injected)
    BY <1>1, <1>2, <2>2 DEF TaskOK, Thread
  <2>5. Flush.op # "reject" /\ \A u \in Uuids : ~Sees(Flush, u)
    BY <1>1, <1>2 DEF Sees, Thread, TaskOK
  <2>6. QED
    BY <1>2, <2>1, <2>3, <2>4, <2>5, Quiet
<1>5. ASSUME NEW i \in thread[t].todo,
             LET rest == [thread[t] EXCEPT !.todo = @ \ {i}]
             IN  \/ IsOrphan(i) /\ Becomes(t, [rest EXCEPT !.pc = "orphan", !.id = i])
                 \/ ~IsOrphan(i) /\ Becomes(t, rest)
      PROVE  IInv'
  <2> DEFINE rest == [thread[t] EXCEPT !.todo = @ \ {i}]
             Orphan == [rest EXCEPT !.pc = "orphan", !.id = i]
  <2>1. i \in Ids /\ thread[t].todo \in SUBSET Ids
    BY <1>1 DEF Thread
  <2>2. rest \in Thread /\ Orphan \in Thread
    BY <1>1, <2>1 DEF Thread
  <2>3. thread[t].op # "reject"
    BY <1>1, <1>2 DEF TaskOK
  <2>4. CASE IsOrphan(i) /\ Becomes(t, Orphan)
    <3>1. \A u \in Uuids : i = u /\ stored[u] # None => u \in Excused
      BY <2>4 DEF IInv, Records, IsOrphan
    <3>2. thread[t].op = None
      BY <1>1, <1>2 DEF TaskOK
    <3>3. TaskOK(Orphan, stored, Excused, injected)
      BY <1>1, <1>2, <2>1, <3>1, <3>2 DEF TaskOK, Thread, Ops
    <3>4. Orphan.op # "reject" /\ \A u \in Uuids : Sees(Orphan, u) => Sees(thread[t], u)
      BY <1>1, <1>2, <2>3 DEF Sees, Thread
    <3>5. QED
      BY <1>2, <2>2, <2>4, <3>3, <3>4, Quiet
  <2>5. CASE Becomes(t, rest)
    <3>1. TaskOK(rest, stored, Excused, injected)
      BY <1>1, <1>2 DEF TaskOK, Thread
    <3>2. rest.op # "reject" /\ \A u \in Uuids : Sees(rest, u) => Sees(thread[t], u)
      BY <1>1, <1>2, <2>3 DEF Sees, Thread
    <3>3. QED
      BY <1>2, <2>2, <2>5, <3>1, <3>2, Quiet
  <2>6. QED
    BY <1>5, <2>4, <2>5
<1>6. QED
  BY <1>3, <1>4, <1>5 DEF CheckMessage

LEMMA FlushRecordInv ==
  ASSUME IInv, NEW t \in Threads, FlushRecord(t)
  PROVE  IInv'
<1>1. thread[t] \in Thread /\ TaskOK(thread[t], stored, Excused, injected)
  BY InHand
<1>2. thread[t].pc = "flush" /\ UNCHANGED <<files, history>>
  BY DEF FlushRecord
<1>3. CASE Ends(t)
  BY <1>2, <1>3, EndsInv
<1>4. ASSUME NEW i \in thread[t].todo,
             Becomes(t, [thread[t] EXCEPT !.pc = "find", !.op = "delete", !.id = i, !.todo = @ \ {i}])
      PROVE  IInv'
  <2> DEFINE T == [thread[t] EXCEPT !.pc = "find", !.op = "delete", !.id = i, !.todo = @ \ {i}]
  <2>1. i \in Ids /\ \A u \in Uuids : i = u => stored[u] # None
    BY <1>1, <1>2 DEF Thread, TaskOK
  <2>2. T \in Thread
    BY <1>1, <2>1 DEF Thread, Ops
  <2>3. TaskOK(T, stored, Excused, injected)
    BY <1>1, <1>2, <2>1 DEF TaskOK, Thread
  <2>4. T.op # "reject" /\ \A u \in Uuids : ~Sees(T, u)
    BY <1>1 DEF Sees, Thread
  <2>5. QED
    BY <1>2, <1>4, <2>2, <2>3, <2>4, Quiet
<1>5. QED
  BY <1>3, <1>4 DEF FlushRecord

-----------------------------------------------------------------------------
(* Steps that change the files or the history.                             *)

LEMMA AgeInv ==
  ASSUME IInv, NEW i \in Ids, Age(i)
  PROVE  IInv'
<1> USE DEF IInv
<1>1. /\ i \in json /\ aged' = aged \cup {i}
      /\ UNCHANGED <<eml, json, thread, stored, fate, injected, overlap>>
  BY DEF Age, history
<1>2. Excused \subseteq Excused'
  BY <1>1 DEF Excused, Explained
<1>3. TypeOK'
  BY <1>1 DEF TypeOK
<1>4. Tasks'
  <2>1. ASSUME NEW q \in Threads
        PROVE  TaskOK(thread[q], stored, Excused', injected)
    BY <1>2, Persist DEF TypeOK, Tasks
  <2>2. QED
    BY <1>1, <2>1 DEF Tasks
<1>5. Writers'
  BY <1>1 DEF Writers
<1>6. Records'
  BY <1>1, <1>2 DEF Records
<1>7. QED
  BY <1>3, <1>4, <1>5, <1>6

\* A fresh uuid: no message, no writer, and on no sweep's list.
LEMMA RejectInv ==
  ASSUME IInv, NEW t \in Threads, NEW m \in Messages, Reject(t, m)
  PROVE  IInv'
<1> USE DEF IInv
<1>1. PICK u \in Uuids :
        Fresh(u) /\ Starts(t, [Idle EXCEPT !.pc = "eml", !.op = "reject", !.id = u, !.msg = m])
  BY DEF Reject
<1> DEFINE T == [Idle EXCEPT !.pc = "eml", !.op = "reject", !.id = u, !.msg = m]
<1>2. /\ T \in Thread /\ T.pc = "eml" /\ T.op = "reject" /\ T.id = u /\ T.msg = m /\ T.todo = {}
      /\ Becomes(t, T)
  BY <1>1 DEF Starts, Idle, Thread, Ids, Ops
<1> HIDE DEF T
<1>3. /\ thread' \in [Threads -> Thread] /\ thread'[t] = T
      /\ \A q \in Threads \ {t} : thread'[q] = thread[q]
  BY <1>2, Assigned
<1>4. /\ UNCHANGED <<eml, json, aged, stored, fate, injected, overlap>>
      /\ Excused' = Excused
  BY <1>1 DEF Starts, files, history, Excused, Explained
<1>5. TypeOK'
  BY <1>3, <1>4 DEF TypeOK
<1>6. Tasks'
  <2>1. TaskOK(T, stored, Excused, injected)
    BY <1>2 DEF TaskOK, Ids
  <2>2. QED
    BY <1>2, <1>4, <2>1, TasksStep
<1>7. Writers'
  <2>1. /\ stored[u] = None /\ eml[u] = None
        /\ \A q \in Threads : thread[q].id # u /\ u \notin thread[q].todo
    BY <1>1 DEF Fresh
  <2>2. \A q \in Threads : ~Sees(thread'[q], u)
    BY <1>2, <1>3, <2>1 DEF Sees
  <2>3. ASSUME NEW q \in Threads \ {t}, thread[q].op = "reject"
        PROVE  thread[q].id # u /\ ~Sees(T, thread[q].id)
    BY <1>2, <2>1 DEF Sees
  <2>4. QED
    BY <1>2, <1>3, <1>4, <2>1, <2>2, <2>3 DEF Writers
<1>8. Records'
  BY <1>4 DEF Records
<1>9. QED
  BY <1>5, <1>6, <1>7, <1>8

\* No sweep has the message on its list before it is renamed, so it is there afterwards.
LEMMA RenameMessageInv ==
  ASSUME IInv, NEW t \in Threads, RenameMessage(t)
  PROVE  IInv'
<1> USE DEF IInv
<1> DEFINE T == [thread[t] EXCEPT !.pc = "json"]
           id == thread[t].id
<1>1. thread[t] \in Thread /\ TaskOK(thread[t], stored, Excused, injected)
  BY InHand
<1>2. /\ thread[t].pc = "eml" /\ eml' = [eml EXCEPT ![id] = thread[t].msg] /\ Becomes(t, T)
      /\ UNCHANGED <<json, aged, stored, fate, injected, overlap>>
  BY DEF RenameMessage, Goes, history
<1>3. /\ T \in Thread /\ T.pc = "json" /\ T.op = thread[t].op /\ T.id = id /\ T.msg = thread[t].msg
      /\ T.todo = thread[t].todo
  BY <1>1 DEF Thread
<1>4. /\ thread[t].msg \in Messages
      /\ (thread[t].op = "reject" /\ id \in Uuids) \/ (thread[t].op = "greylist" /\ id \in Keys)
  BY <1>1, <1>2 DEF TaskOK
<1>5. TaskOK(T, stored, Excused, injected)
  BY <1>1, <1>2, <1>3, <1>4 DEF TaskOK
<1> HIDE DEF T
<1>6. /\ thread' \in [Threads -> Thread] /\ thread'[t] = T
      /\ \A q \in Threads \ {t} : thread'[q] = thread[q]
  BY <1>2, <1>3, Assigned
<1>7. Excused' = Excused
  BY <1>2 DEF Excused, Explained
<1>8. TypeOK'
  BY <1>2, <1>4, <1>6 DEF TypeOK, Ids
<1>9. Tasks'
  BY <1>2, <1>3, <1>5, <1>7, TasksStep
<1>10. /\ \A u \in Uuids \ {id} : eml'[u] = eml[u]
       /\ id \in Uuids => /\ stored[id] = None /\ eml'[id] = thread[t].msg
                          /\ \A q \in Threads \ {t} : thread[q].op = "reject" => thread[q].id # id
                          /\ \A q \in Threads : ~Sees(thread[q], id)
  BY <1>2, <1>4 DEF TypeOK, Ids, Writers
<1>11. Writers'
  <2> SUFFICES ASSUME NEW q \in Threads, thread'[q].op = "reject"
               PROVE  LET u == thread'[q].id
                      IN  /\ stored[u] = None
                          /\ eml'[u] \in {None, thread'[q].msg}
                          /\ thread'[q].pc = "eml" => eml'[u] = None
                          /\ thread'[q].pc = "json" /\ eml'[u] = None => u \in overlap
                          /\ \A p \in Threads \ {q} : thread'[p].op = "reject" => thread'[p].id # u
                          /\ \A p \in Threads :
                               Sees(thread'[p], u) => thread'[q].pc = "json" /\ u \in overlap
    BY <1>2 DEF Writers
  <2>1. \A p \in Threads : /\ thread'[p].op = thread[p].op /\ thread'[p].id = thread[p].id
                           /\ \A u \in Uuids : Sees(thread'[p], u) => Sees(thread[p], u)
    BY <1>3, <1>6 DEF Sees
  <2>2. thread[q].op = "reject" /\ thread[q].id \in Uuids
    BY <2>1 DEF Tasks, TaskOK
  <2>3. CASE q = t
    BY <1>3, <1>4, <1>6, <1>10, <2>1, <2>2, <2>3
  <2>4. CASE q # t
    <3>1. thread'[q] = thread[q] /\ thread[q].id # id /\ eml'[thread[q].id] = eml[thread[q].id]
      BY <1>6, <1>10, <2>2, <2>4
    <3>2. QED
      BY <2>1, <2>2, <3>1 DEF Writers
  <2>5. QED
    BY <2>3, <2>4
<1>12. Records'
  BY <1>2, <1>4, <1>7, <1>10 DEF Records
<1>13. QED
  BY <1>8, <1>9, <1>11, <1>12

\* The record is acknowledged: its message is there, or a sweep listed it between the renames.
LEMMA RenameMetadataInv ==
  ASSUME IInv, NEW t \in Threads, RenameMetadata(t)
  PROVE  IInv'
<1> USE DEF IInv
<1> DEFINE id == thread[t].id
           msg == thread[t].msg
<1>1. thread[t] \in Thread /\ TaskOK(thread[t], stored, Excused, injected)
  BY InHand
<1>2. /\ thread[t].pc = "json" /\ json' = json \cup {id} /\ aged' = aged \ {id}
      /\ UNCHANGED <<eml, fate, injected, overlap>>
  BY DEF RenameMetadata
<1>3. /\ msg \in Messages
      /\ (thread[t].op = "reject" /\ id \in Uuids) \/ (thread[t].op = "greylist" /\ id \in Keys)
  BY <1>1, <1>2 DEF TaskOK
<1>4. thread[t].op = "reject" =>
        /\ stored[id] = None /\ eml[id] \in {None, msg} /\ (eml[id] = None => id \in overlap)
        /\ \A q \in Threads : Sees(thread[q], id) => id \in overlap
        /\ id \notin aged /\ fate[id] = {}
  BY <1>2, <1>3 DEF Writers, Records
<1>5. \A u \in Uuids : u \in aged' <=> u \in aged
  BY <1>2, <1>3, <1>4
<1>6. Excused' = Excused
  BY <1>2, <1>5 DEF Excused, Explained
<1>7. CASE thread[t].op = "reject" /\ stored' = [stored EXCEPT ![id] = msg] /\ Becomes(t, Clear(msg))
  <2> DEFINE T == Clear(msg)
  <2>1. /\ T \in Thread /\ T.op # "reject" /\ TaskOK(T, stored', Excused, injected)
        /\ \A u \in Uuids : ~Sees(T, u)
    BY <1>3 DEF Clear, Idle, Thread, TaskOK, Sees, Ids, Ops
  <2> HIDE DEF T
  <2>2. /\ id \in Uuids /\ stored'[id] = msg /\ msg # None
        /\ \A u \in Uuids \ {id} : stored'[u] = stored[u]
    BY <1>3, <1>7 DEF TypeOK
  <2>3. TypeOK'
    <3>1. thread' \in [Threads -> Thread]
      BY <1>7, <2>1, Assigned DEF T
    <3>2. QED
      BY <1>2, <1>3, <1>7, <2>2, <3>1 DEF TypeOK, Ids
  <2>4. Tasks'
    <3>1. \A u \in Uuids : stored[u] # None => stored'[u] = stored[u]
      BY <1>4, <1>7, <2>2
    <3>2. \A q \in Threads \ {t} : \A u \in Uuids :
            thread[q].pc = "orphan" /\ thread[q].id = u /\ stored'[u] # None =>
              stored[u] # None \/ u \in Excused'
      <4> SUFFICES ASSUME NEW q \in Threads, thread[q].pc = "orphan", thread[q].id = id
                   PROVE  id \in Excused
        BY <1>6, <2>2
      <4>1. id \in overlap
        BY <1>4, <1>7 DEF Sees
      <4>2. QED
        BY <2>2, <4>1 DEF Excused
    <3>3. QED
      BY <1>2, <1>6, <1>7, <2>1, <3>1, <3>2, TasksStep DEF T
  <2>5. Writers'
    BY <1>2, <1>7, <2>1, <2>2, WritersStep DEF T
  <2>6. Records'
    <3>1. ASSUME NEW u \in Uuids \ {id}
          PROVE  (u \in json' <=> u \in json) /\ stored'[u] = stored[u]
      BY <1>2, <2>2
    <3>2. id \in Excused \/ eml[id] = msg
      BY <1>4, <1>7, <2>2 DEF Excused
    <3>3. QED
      BY <1>2, <1>4, <1>5, <1>6, <1>7, <2>2, <3>1, <3>2 DEF Records
  <2>7. QED
    BY <2>3, <2>4, <2>5, <2>6
<1>8. CASE thread[t].op = "greylist" /\ Ends(t) /\ UNCHANGED stored
  <2>1. /\ Idle \in Thread /\ Idle.op # "reject" /\ TaskOK(Idle, stored, Excused, injected)
        /\ \A u \in Uuids : ~Sees(Idle, u)
    BY DEF Idle, Thread, TaskOK, Sees, Ops
  <2>2. id \in Keys /\ \A u \in Uuids : u \in json' <=> u \in json
    BY <1>2, <1>3, <1>8
  <2>3. Becomes(t, Idle)
    BY <1>8 DEF Ends
  <2>4. thread' \in [Threads -> Thread]
    BY <2>1, <2>3, Assigned
  <2>5. TypeOK'
    BY <1>2, <1>8, <2>2, <2>4 DEF TypeOK, Ids
  <2>6. Tasks'
    BY <1>2, <1>6, <1>8, <2>1, <2>3, TasksStep
  <2>7. Writers'
    BY <1>2, <1>8, <2>1, <2>3, WritersStep
  <2>8. Records'
    BY <1>2, <1>5, <1>6, <1>8, <2>2 DEF Records
  <2>9. QED
    BY <2>5, <2>6, <2>7, <2>8
<1>9. QED
  BY <1>7, <1>8 DEF RenameMetadata

LEMMA ReinjectInv ==
  ASSUME IInv, NEW t \in Threads, Reinject(t)
  PROVE  IInv'
<1> USE DEF IInv
<1> DEFINE T == [thread[t] EXCEPT !.pc = "find"]
<1>1. thread[t] \in Thread /\ TaskOK(thread[t], stored, Excused, injected)
  BY InHand
<1>2. /\ thread[t].pc = "inject" /\ Becomes(t, T)
      /\ injected' = injected \cup {<<thread[t].id, thread[t].msg>>}
      /\ UNCHANGED <<eml, json, aged, stored, fate, overlap>>
  BY DEF Reinject, Goes, files
<1>3. thread[t].id \in Ids /\ thread[t].msg \in Messages /\ thread[t].op = "release"
  BY <1>1, <1>2 DEF TaskOK
<1>4. Excused' = Excused
  BY <1>2 DEF Excused, Explained
<1>5. /\ T \in Thread /\ T.op = "release" /\ T.pc = "find" /\ T.id = thread[t].id
      /\ T.todo = thread[t].todo
  BY <1>1, <1>3 DEF Thread
<1>6. \A u \in Uuids : ~Sees(T, u)
  BY <1>5 DEF Sees
<1>7. TaskOK(T, stored, Excused, injected')
  BY <1>1, <1>2, <1>3, <1>5 DEF TaskOK
<1> HIDE DEF T
<1>8. TypeOK'
  <2>1. thread' \in [Threads -> Thread]
    BY <1>2, <1>5, Assigned
  <2>2. QED
    BY <1>2, <1>3, <2>1 DEF TypeOK
<1>9. Tasks'
  BY <1>2, <1>4, <1>5, <1>7, TasksStep
<1>10. Writers'
  BY <1>2, <1>5, <1>6, WritersStep
<1>11. Records'
  BY <1>2, <1>4 DEF Records
<1>12. QED
  BY <1>8, <1>9, <1>10, <1>11

\* A message that is removed gives its record an excuse, and one removed by a release had
\* been given to Postfix.
LEMMA UnlinkMessageInv ==
  ASSUME IInv, NEW t \in Threads, UnlinkMessage(t)
  PROVE  IInv'
<1> USE DEF IInv
<1> DEFINE T == [thread[t] EXCEPT !.pc = "unlink2"]
           id == thread[t].id
           op == thread[t].op
<1>1. thread[t] \in Thread /\ TaskOK(thread[t], stored, Excused, injected)
  BY InHand
<1>2. /\ thread[t].pc = "unlink" /\ Becomes(t, T) /\ eml' = [eml EXCEPT ![id] = None]
      /\ fate' = IF id \in Uuids /\ eml[id] # None THEN [fate EXCEPT ![id] = @ \cup {op}] ELSE fate
      /\ UNCHANGED <<json, aged, stored, injected, overlap>>
  BY DEF UnlinkMessage, Goes
<1>3. id \in Ids /\ (op \in {"delete", "release", "expire"} \/ (op = "clear" /\ id \in Keys))
  BY <1>1, <1>2 DEF TaskOK
<1>4. id \in Uuids => /\ stored[id] # None /\ op \in {"delete", "release", "expire"}
                      /\ op = "expire" => id \in Excused
                      /\ op = "release" => <<id, stored[id]>> \in injected
  BY <1>1, <1>2, <1>3 DEF TaskOK
<1>5. /\ T \in Thread /\ T.op = op /\ T.pc = "unlink2" /\ T.id = id /\ T.todo = thread[t].todo
      /\ op # "reject"
  BY <1>1, <1>3 DEF Thread
<1>6. \A u \in Uuids : ~Sees(T, u)
  BY <1>5 DEF Sees
<1>7. /\ fate' \in [Uuids -> SUBSET {"delete", "release", "expire"}]
      /\ \A u \in Uuids \ {id} : fate'[u] = fate[u]
      /\ id \in Uuids => /\ eml[id] = None => fate'[id] = fate[id]
                         /\ eml[id] # None => fate'[id] = fate[id] \cup {op}
  BY <1>2, <1>4 DEF TypeOK
<1>8. Excused \subseteq Excused'
  BY <1>2, <1>7 DEF Excused, Explained
<1>9. id \in Uuids => id \in Excused'
  <2> SUFFICES ASSUME id \in Uuids PROVE id \in Excused'
    OBVIOUS
  <2>1. CASE eml[id] = None
    <3>1. id \in Excused
      BY <1>4, <2>1 DEF Records
    <3>2. QED
      BY <1>8, <3>1
  <2>2. CASE eml[id] # None
    BY <1>4, <1>7, <1>8, <2>2 DEF Excused, Explained
  <2>3. QED
    BY <2>1, <2>2
<1>10. TaskOK(T, stored, Excused', injected)
  BY <1>1, <1>2, <1>3, <1>4, <1>5, <1>9 DEF TaskOK
<1> HIDE DEF T
<1>11. eml' \in [Ids -> Messages \cup {None}] /\ \A u \in Uuids \ {id} : eml'[u] = eml[u]
  BY <1>2 DEF TypeOK, Ids
<1>12. eml'[id] = None
  BY <1>2, <1>3 DEF TypeOK
<1>13. TypeOK'
  <2>1. thread' \in [Threads -> Thread]
    BY <1>2, <1>5, Assigned
  <2>2. QED
    BY <1>2, <1>7, <1>11, <2>1 DEF TypeOK
<1>14. Tasks'
  BY <1>2, <1>5, <1>8, <1>10, TasksStep
<1>15. Writers'
  BY <1>2, <1>4, <1>5, <1>6, <1>11, <1>12, WritersStep
<1>16. Records'
  BY <1>2, <1>4, <1>7, <1>8, <1>9, <1>11, <1>12 DEF Records
<1>17. QED
  BY <1>13, <1>14, <1>15, <1>16

\* delete() and the sweep remove the metadata last, when the record has its excuse.
LEMMA UnlinkMetadataInv ==
  ASSUME IInv, NEW t \in Threads, UnlinkMetadata(t)
  PROVE  IInv'
<1> USE DEF IInv
<1> DEFINE id == thread[t].id
           pc == IF thread[t].op = "expire" THEN "records" ELSE "flush"
<1>1. thread[t] \in Thread /\ TaskOK(thread[t], stored, Excused, injected)
  BY InHand
<1>2. /\ thread[t].pc = "unlink2" /\ json' = json \ {id} /\ NextRecord(t, pc)
      /\ UNCHANGED <<eml, aged, stored, fate, injected, overlap>>
  BY DEF UnlinkMetadata, history
<1>3. id \in Uuids => id \in Excused
  BY <1>1, <1>2 DEF TaskOK
<1>4. Excused' = Excused
  BY <1>2 DEF Excused, Explained
<1>5. PICK T \in Thread : /\ NextRecord(t, pc) => Becomes(t, T)
                          /\ TaskOK(T, stored, Excused, injected) /\ T.op # "reject"
                          /\ \A u \in Uuids : ~Sees(T, u)
  <2>1. pc \in {"records", "flush"} /\ thread[t].pc \notin {"messages", "orphan"}
    BY <1>2
  <2> HIDE DEF pc, IInv
  <2>2. QED
    BY <2>1, NextRecordTask DEF IInv
<1>6. Becomes(t, T)
  BY <1>2, <1>5
<1>7. TypeOK'
  <2>1. thread' \in [Threads -> Thread]
    BY <1>6, Assigned
  <2>2. QED
    BY <1>2, <2>1 DEF TypeOK
<1>8. Tasks'
  BY <1>2, <1>4, <1>5, <1>6, TasksStep
<1>9. Writers'
  BY <1>2, <1>5, <1>6, WritersStep
<1>10. Records'
  BY <1>2, <1>3, <1>4 DEF Records
<1>11. QED
  BY <1>7, <1>8, <1>9, <1>10

\* A sweep lists the messages: those of records between their two renames are noted.
LEMMA ListMessagesInv ==
  ASSUME IInv, NEW t \in Threads, ListMessages(t)
  PROVE  IInv'
<1> USE DEF IInv
<1> DEFINE T == [thread[t] EXCEPT !.pc = "messages", !.todo = {i \in Ids : eml[i] # None}]
<1>1. thread[t] \in Thread /\ TaskOK(thread[t], stored, Excused, injected)
  BY InHand
<1>2. /\ thread[t].pc = "records" /\ Becomes(t, T) /\ overlap' = overlap \cup Overlapped
      /\ UNCHANGED <<eml, json, aged, stored, fate, injected>>
  BY DEF ListMessages, files
<1>3. thread[t].op = None
  BY <1>1, <1>2 DEF TaskOK
<1>4. /\ T \in Thread /\ T.pc = "messages" /\ T.op = None /\ T.op # "reject"
      /\ T.todo = {i \in Ids : eml[i] # None}
  BY <1>1, <1>3 DEF Thread, Ops
<1>5. Excused \subseteq Excused'
  BY <1>2 DEF Excused, Explained
<1>6. TaskOK(T, stored, Excused', injected)
  BY <1>3, <1>4 DEF TaskOK, Ops
<1> HIDE DEF T
<1>7. /\ thread' \in [Threads -> Thread] /\ thread'[t] = T
      /\ \A q \in Threads \ {t} : thread'[q] = thread[q]
  BY <1>2, <1>4, Assigned
<1>8. TypeOK'
  BY <1>2, <1>7 DEF TypeOK, Overlapped
<1>9. Tasks'
  BY <1>2, <1>4, <1>5, <1>6, TasksStep
<1>10. Writers'
  <2>1. ASSUME NEW q \in Threads \ {t}, thread[q].op = "reject", thread[q].pc = "json"
        PROVE  thread[q].id \in overlap'
    <3>1. thread[q].id \in Uuids
      BY <2>1 DEF Tasks, TaskOK
    <3>2. QED
      BY <1>2, <2>1, <3>1 DEF Overlapped
  <2>2. ASSUME NEW q \in Threads \ {t}, thread[q].op = "reject", Sees(T, thread[q].id)
        PROVE  thread[q].pc = "json"
    <3>1. eml[thread[q].id] # None
      BY <1>4, <2>2 DEF Sees
    <3>2. thread[q].pc \in {"eml", "json"} /\ (thread[q].pc = "eml" => eml[thread[q].id] = None)
      BY <2>2 DEF Tasks, TaskOK, Writers
    <3>3. QED
      BY <3>1, <3>2
  <2>3. QED
    BY <1>2, <1>4, <1>7, <2>1, <2>2 DEF Writers
<1>11. Records'
  BY <1>2, <1>5 DEF Records
<1>12. QED
  BY <1>8, <1>9, <1>10, <1>11

LEMMA UnlinkOrphanInv ==
  ASSUME IInv, NEW t \in Threads, UnlinkOrphan(t)
  PROVE  IInv'
<1> USE DEF IInv
<1> DEFINE T == [thread[t] EXCEPT !.pc = "messages", !.id = None]
           id == thread[t].id
<1>1. thread[t] \in Thread /\ TaskOK(thread[t], stored, Excused, injected)
  BY InHand
<1>2. /\ thread[t].pc = "orphan" /\ Becomes(t, T) /\ eml' = [eml EXCEPT ![id] = None]
      /\ UNCHANGED <<json, aged, stored, fate, injected, overlap>>
  BY DEF UnlinkOrphan, history
<1>3. /\ id \in Ids /\ thread[t].op = None
      /\ id \in Uuids /\ stored[id] # None => id \in Excused
  BY <1>1, <1>2 DEF TaskOK
<1>4. /\ T \in Thread /\ T.pc = "messages" /\ T.op = None /\ T.op # "reject" /\ T.todo = thread[t].todo
  BY <1>1, <1>3 DEF Thread, Ops
<1>5. /\ TaskOK(T, stored, Excused, injected)
      /\ \A u \in Uuids : Sees(T, u) => Sees(thread[t], u)
  BY <1>2, <1>3, <1>4 DEF TaskOK, Sees, Ops
<1> HIDE DEF T
<1>6. Excused' = Excused
  BY <1>2 DEF Excused, Explained
<1>7. /\ eml' \in [Ids -> Messages \cup {None}] /\ eml'[id] = None
      /\ \A u \in Uuids \ {id} : eml'[u] = eml[u]
  BY <1>2, <1>3 DEF TypeOK, Ids
<1>8. TypeOK'
  <2>1. thread' \in [Threads -> Thread]
    BY <1>2, <1>4, Assigned
  <2>2. QED
    BY <1>2, <1>7, <2>1 DEF TypeOK
<1>9. Tasks'
  BY <1>2, <1>4, <1>5, <1>6, TasksStep
<1>10. Writers'
  <2>1. Sees(thread[t], id)
    BY <1>2 DEF Sees
  <2>2. QED
    BY <1>2, <1>4, <1>5, <1>7, <2>1, WritersStep
<1>11. Records'
  BY <1>2, <1>3, <1>6, <1>7 DEF Records
<1>12. QED
  BY <1>8, <1>9, <1>10, <1>11

-----------------------------------------------------------------------------
LEMMA InitInv == Init => IInv
<1> SUFFICES ASSUME Init PROVE IInv
  OBVIOUS
<1>1. Idle \in Thread /\ Idle.op # "reject" /\ TaskOK(Idle, stored, Excused, injected)
  BY DEF Idle, Thread, TaskOK, Ops
<1>2. TypeOK
  BY <1>1 DEF Init, TypeOK
<1>3. Tasks /\ Writers
  BY <1>1 DEF Init, Tasks, Writers
<1>4. Records
  BY DEF Init, Records
<1>5. QED
  BY <1>2, <1>3, <1>4 DEF IInv

LEMMA StepInv ==
  ASSUME IInv, NEW t \in Threads, Step(t)
  PROVE  IInv'
BY RenameMessageInv, RenameMetadataInv, GetInv, ReadInv, ReinjectInv, FindInv, UnlinkMessageInv,
   UnlinkMetadataInv, CheckRecordInv, ListMessagesInv, CheckMessageInv, UnlinkOrphanInv,
   FlushRecordInv DEF Step

LEMMA RequestInv ==
  ASSUME IInv, NEW t \in Threads, Request(t)
  PROVE  IInv'
<1>1. CASE \E m \in Messages : Reject(t, m) \/ Greylist(t, m)
  BY <1>1, RejectInv, GreylistInv
<1>2. CASE \E k \in Keys : Accepted(t, k)
  BY <1>2, AcceptedInv
<1>3. CASE quarantine_detail(t) \/ quarantine_release(t) \/ greylist_release(t) \/ quarantine_delete(t)
  <2>1. \E op \in {"view", "release", "delete"} : \E id \in Ids : OpenRecord(t, op, id)
    BY <1>3 DEF quarantine_detail, quarantine_release, greylist_release, quarantine_delete, Ids
  <2>2. QED
    BY <2>1, OpenRecordInv
<1>4. CASE quarantine_list(t) \/ quarantine_flush(t)
  BY <1>4, ListRecordsInv DEF quarantine_list, quarantine_flush
<1>5. QED
  BY <1>1, <1>2, <1>3, <1>4 DEF Request

\* Every step keeps the invariant: the threads interleave between any two file operations,
\* and requests die after any of them.
LEMMA NextInv == IInv /\ [Next]_vars => IInv'
<1> SUFFICES ASSUME IInv, [Next]_vars PROVE IInv'
  OBVIOUS
<1>1. ASSUME NEW i \in Ids, Age(i) PROVE IInv'
  BY <1>1, AgeInv
<1>2. ASSUME NEW t \in Requests, Request(t) \/ Step(t) \/ Abort(t) PROVE IInv'
  <2>1. t \in Threads
    BY DEF Threads
  <2>2. CASE Abort(t)
    BY <2>1, <2>2, EndsInv DEF Abort
  <2>3. QED
    BY <1>2, <2>1, <2>2, RequestInv, StepInv
<1>3. ASSUME NEW t \in Sweepers, Sweep(t) PROVE IInv'
  <2>1. t \in Threads
    BY DEF Threads
  <2>2. QED
    BY <1>3, <2>1, ListRecordsInv, StepInv DEF Sweep
<1>4. CASE UNCHANGED vars
  <2>1. UNCHANGED <<eml, json, aged, thread, stored, fate, injected, overlap>>
    BY <1>4 DEF vars, files, history
  <2>2. Excused' = Excused
    BY <2>1 DEF Excused, Explained
  <2>3. TypeOK'
    BY <2>1 DEF IInv, TypeOK
  <2>4. Tasks' /\ Writers' /\ Records'
    BY <2>1, <2>2 DEF IInv, Tasks, Writers, Records
  <2>5. QED
    BY <2>3, <2>4 DEF IInv
<1>5. QED
  BY <1>1, <1>2, <1>3, <1>4 DEF Next

\* What every thread may rely on holds in every reachable state.
THEOREM Invariance == Spec => []IInv
BY InitInv, NextInv, PTL DEF Spec

\* Every variable keeps its type, in the history too: only deletions, releases and expiries
\* remove a message under a uuid.
THEOREM Typing == Spec => []TypeOK
<1>1. IInv => TypeOK
  BY DEF IInv
<1>2. QED
  BY <1>1, Invariance, PTL

\* An acknowledged message is retained until a user deletes or releases it or its retention
\* is over, unless a sweep listed the messages between the two renames of store(): for any
\* number of requests and sweeps that interleave between file operations, and any crashes.
THEOREM Retention == Spec => []RetainedOrSwept
<1>1. IInv => RetainedOrSwept
  BY DEF IInv, Records, Excused, RetainedOrSwept
<1>2. QED
  BY <1>1, Invariance, PTL

\* A message that quarantine_release removed was given back to Postfix, unchanged, although
\* other requests and sweeps remove and re-read files in between and any step may fail.
THEOREM Releases == Spec => []ReleaseDelivers
<1>1. IInv => ReleaseDelivers
  BY DEF IInv, Records, ReleaseDelivers
<1>2. QED
  BY <1>1, Invariance, PTL

=============================================================================
