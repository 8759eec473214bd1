---------------------------- MODULE AtomicStore ----------------------------
(***************************************************************************)
(* What the exclusive server promises of its store file: every session     *)
(* appends at most one record, in one indivisible step, and that record is *)
(* the answer of the session's client to the record right before it.  Only *)
(* a session whose client has vanished may append something else.          *)
(***************************************************************************)
EXTENDS Message

CONSTANTS
  LoopMax,        \* sessions per client (its <loop_max> argument)
  OldStores,      \* contents the store file may have when the server starts
  StackMessages   \* messages that uninitialised memory may be parsed as

VARIABLES
  store,      \* the records of the store file
  recorded,   \* the sessions that have appended their record
  gone        \* the clients that disappeared in the middle of a session

vars == <<store, recorded, gone>>

Sessions == Clients \X (1 .. LoopMax)

Init ==
  /\ store \in OldStores
  /\ recorded = {}
  /\ gone = {}

(* Session s reads the last record, its client answers, the answer is      *)
(* appended: all in one step.                                              *)
Serve(s) ==
  /\ s \notin recorded
  /\ store' = Append(store, Served(s[1], LastMessage(store)))
  /\ recorded' = recorded \cup {s}
  /\ UNCHANGED gone

(* The client of session s never answered: a record is appended anyway.    *)
AppendIndeterminate(s) ==
  /\ s \notin recorded
  /\ s[1] \in gone
  /\ \E m \in StackMessages : store' = Append(store, ServerBump(m))
  /\ recorded' = recorded \cup {s}
  /\ UNCHANGED gone

Vanish(c) ==
  /\ gone' = gone \cup {c}
  /\ UNCHANGED <<store, recorded>>

Next ==
  \/ \E s \in Sessions : Serve(s) \/ AppendIndeterminate(s)
  \/ \E c \in Clients : Vanish(c)

Spec == Init /\ [][Next]_vars

-----------------------------------------------------------------------------
(* What the clients can rely on: behind the old records, which stay as     *)
(* they were, there is one record for each session that has recorded, in   *)
(* some order, and each answers the record before it (if the client did    *)
(* not vanish).  None is lost, doubled, replaced or the answer to another. *)
Answers(i, s) ==
  \/ store[i] = Served(s[1], LastMessage(SubSeq(store, 1, i - 1)))
  \/ s[1] \in gone /\ \E m \in StackMessages : store[i] = ServerBump(m)

OneRecordPerSession ==
  \E old \in OldStores :
    LET New == Len(old) + 1 .. Len(store) IN
    /\ Len(old) =< Len(store)
    /\ \A i \in 1 .. Len(old) : store[i] = old[i]
    /\ \E session \in [New -> recorded] :
         /\ \A s \in recorded : \E i \in New : session[i] = s
         /\ \A i, j \in New : session[i] = session[j] => i = j
         /\ \A i \in New : Answers(i, session[i])
=============================================================================
