----------------------------- MODULE RecordStore -----------------------------
(***************************************************************************)
(* What the functions message_store_* promise: the store is a sequence of  *)
(* texts, addressed from its beginning (1, 2, ...) or from its end (-1,    *)
(* -2, ...), where a write at 0 appends.  An operation on a record that    *)
(* does not exist is refused.  Any other takes effect in one step, or      *)
(* fails and changes nothing.                                              *)
(***************************************************************************)
EXTENDS Integers, Sequences

CONSTANTS Texts, Indices

VARIABLES
  records,   \* the texts
  request,   \* the operation in progress, or the last one
  outcome    \* <<"pending">>, or how it ended

vars == <<records, request, outcome>>

Requests ==
  [kind : {"write"}, index : Indices, text : Texts \cup {<<>>}]
    \cup [kind : {"read"}, index : Indices, text : {<<>>}]

Init ==
  /\ records = <<>>
  /\ request = [kind |-> "none", index |-> 0, text |-> <<>>]
  /\ outcome = <<"none">>

(* The position that an index names.                                       *)
Position(index) ==
  IF index > 0 THEN index ELSE Len(records) + 1 + index

Exists(r) ==
  \/ Position(r.index) \in 1 .. Len(records)
  \/ r.kind = "write" /\ r.index = 0

Request(r) ==
  /\ outcome # <<"pending">>
  /\ request' = r
  /\ outcome' = IF Exists(r) THEN <<"pending">> ELSE <<"refused">>
  /\ UNCHANGED records

Write ==
  LET p == Position(request.index) IN
  /\ outcome = <<"pending">> /\ request.kind = "write"
  /\ records' = IF request.index = 0 THEN Append(records, request.text)
                ELSE [records EXCEPT ![p] = request.text]
  /\ outcome' = <<"ok">>
  /\ UNCHANGED request

Read ==
  /\ outcome = <<"pending">> /\ request.kind = "read"
  /\ outcome' = <<"ok", records[Position(request.index)]>>
  /\ UNCHANGED <<records, request>>

Fail ==
  /\ outcome = <<"pending">> /\ outcome' = <<"error">>
  /\ UNCHANGED <<records, request>>

Next == (\E r \in Requests : Request(r)) \/ Write \/ Read \/ Fail

Spec == Init /\ [][Next]_vars
=============================================================================
