------------------------------ MODULE StoreFile ------------------------------
(***************************************************************************)
(* The store file at the level of bytes (lib/messageutil.c): the functions *)
(* message_store_read, message_store_write and message_store_delete, with  *)
(* the loops continue_reading and continue_writing around read() and       *)
(* write().  One process at a time uses the file; it may be killed between *)
(* two system calls, and another one goes on with the same file.           *)
(*                                                                         *)
(* External: lseek, read and write of the kernel.                          *)
(***************************************************************************)
EXTENDS Integers, Sequences

CONSTANTS
  MESSAGE_MAXSIZE,  \* bytes of a record
  Texts,            \* the C strings that are stored, sequences of non-zero bytes
  Garbage,          \* what memory beyond a string may be read as, up to a zero
  Indices,          \* the index arguments
  MaxBytes,         \* bound on the size of the file
  Faults            \* "fail": a call returns -1 or 0; "shortRead" and
                    \* "shortWrite": it transfers less than it was asked to;
                    \* "kill": the process dies between two calls

ASSUME StoreFileAssumption ==
  /\ MESSAGE_MAXSIZE \in Nat \ {0}
  /\ \A t \in Texts : t \in Seq(Nat \ {0}) /\ Len(t) < MESSAGE_MAXSIZE
  /\ \A g \in Garbage : g \in Seq(Nat \ {0})
  /\ Indices \subseteq Int
  /\ MaxBytes \in Nat
  /\ Faults \subseteq {"fail", "shortRead", "shortWrite", "kill"}

VARIABLES
  file,      \* the bytes of the file
  fpos,      \* the offset of the descriptor
  pc,        \* "idle", "read" or "write"
  op,        \* the operation in progress, or the last one
  offset,    \* the offset of its record
  want,      \* _want_read_length or _want_write_length
  buf,       \* write_buf, or what the outer calls of continue_reading have read
  outcome,   \* <<"pending">>, or how the operation ended; a read that
             \* succeeds leaves the text in _read_dest
  starts     \* history: how long the file was at the first byte of every
             \* append, completed or not

vars == <<file, fpos, pc, op, offset, want, buf, outcome, starts>>

Init ==
  /\ file = <<>> /\ fpos = 0
  /\ pc = "idle" /\ offset = 0 /\ want = 0 /\ buf = <<>>
  /\ op = [kind |-> "none", index |-> 0, text |-> <<>>]
  /\ outcome = <<"none">>
  /\ starts = <<>>

-----------------------------------------------------------------------------
(* C strings                                                               *)

Least(S) == CHOOSE n \in S : \A m \in S : n =< m

Terminated(bytes) == \E i \in 1 .. Len(bytes) : bytes[i] = 0

(* The string that begins where the bytes do; all of them when there is no *)
(* zero among them.                                                        *)
CString(bytes) ==
  IF Terminated(bytes)
  THEN SubSeq(bytes, 1, Least({i \in 1 .. Len(bytes) : bytes[i] = 0}) - 1)
  ELSE bytes

(* snprintf(dest, n, "%s", text): at most n - 1 characters.                *)
Printed(n, text) == SubSeq(text, 1, Least({n - 1, Len(text)}))

(* The same into a buffer of n bytes that was filled with zeros.           *)
Padded(n, text) ==
  [i \in 1 .. n |-> IF i =< Len(Printed(n, text)) THEN text[i] ELSE 0]

-----------------------------------------------------------------------------
(* Where an index is                                                       *)

(* A mutation of message_count: a part of a record counts as one.          *)
Mutant_message_count ==
  (Len(file) + MESSAGE_MAXSIZE - 1) \div MESSAGE_MAXSIZE

message_count == Len(file) \div MESSAGE_MAXSIZE

Absolute(i) == IF i < 0 THEN -i ELSE i

(* A mutation of Offset: an index from the end counts like one from the    *)
(* beginning, so that -1 is the end of the file.                           *)
Mutant_Offset(index) ==
  IF index = 0 THEN Len(file)
  ELSE IF index < 0 THEN Len(file) + (index + 1) * MESSAGE_MAXSIZE
  ELSE (index - 1) * MESSAGE_MAXSIZE

Offset(index) ==
  IF index =< 0 THEN Len(file) + index * MESSAGE_MAXSIZE
  ELSE (index - 1) * MESSAGE_MAXSIZE

(* The n bytes at offset o, fewer at the end of the file.                  *)
Bytes(o, n) == SubSeq(file, o + 1, Least({o + n, Len(file)}))

(* The file after the bytes are written at offset o.                       *)
Overwritten(o, bytes) ==
  SubSeq(file, 1, o) \o bytes \o SubSeq(file, o + Len(bytes) + 1, Len(file))

-----------------------------------------------------------------------------
(* message_store_write and message_store_delete                            *)

Begins(kind, index) ==
  /\ offset' = Offset(index) /\ fpos' = Offset(index)
  /\ pc' = kind /\ want' = MESSAGE_MAXSIZE
  /\ outcome' = <<"pending">>
  /\ UNCHANGED <<file, starts>>

(* There is no such record.  The descriptor is at the end of the file.     *)
Refused ==
  /\ outcome' = <<"refused">>
  /\ fpos' = Len(file)
  /\ UNCHANGED <<file, pc, offset, want, buf, starts>>

(* continue_writing copies the text to its buffer first.                   *)
message_store_write(index, text) ==
  /\ pc = "idle"
  /\ Offset(index) + MESSAGE_MAXSIZE =< MaxBytes
  /\ op' = [kind |-> "write", index |-> index, text |-> text]
  /\ IF message_count < Absolute(index) THEN Refused
     ELSE /\ Begins("write", index)
          /\ buf' = Padded(MESSAGE_MAXSIZE, text)

(* A record is deleted by writing the empty text over it.                  *)
message_store_delete(index) == message_store_write(index, <<>>)

message_store_read(index) ==
  /\ pc = "idle"
  /\ op' = [kind |-> "read", index |-> index, text |-> <<>>]
  /\ IF message_count = 0 \/ message_count < Absolute(index) \/ index = 0
     THEN Refused
     ELSE /\ Begins("read", index)
          /\ buf' = <<>>

(* The operation returns.                                                  *)
Returns(result) ==
  /\ pc' = "idle" /\ want' = 0 /\ buf' = <<>>
  /\ outcome' = result
  /\ UNCHANGED <<op, offset>>

(* History: the first bytes of an append are about to be written.          *)
Noted ==
  starts' = IF op.index = 0 /\ want = MESSAGE_MAXSIZE
            THEN Append(starts, Len(file)) ELSE starts

-----------------------------------------------------------------------------
(* continue_writing                                                        *)

(* A mutation of WriteAll: a record without room for the last byte.        *)
Mutant_WriteAll ==
  /\ pc = "write"
  /\ file' = Overwritten(fpos, SubSeq(buf, 1, want - 1))
  /\ fpos' = fpos + want - 1
  /\ Returns(<<"ok">>) /\ Noted

WriteAll ==
  /\ pc = "write"
  /\ file' = Overwritten(fpos, buf)
  /\ fpos' = fpos + want
  /\ Returns(<<"ok">>) /\ Noted

(* After n bytes the rest of the string, without its zero, is moved to the *)
(* front of the buffer, where the old characters still follow it.  The     *)
(* recursive call copies the string that is now there.                     *)
Shifted(n) ==
  LET rest == CString(SubSeq(buf, n + 1, want))
  IN  rest \o SubSeq(buf, Len(rest) + 1, want)

(* A mutation of WriteShort: the recursive call is not told that there is  *)
(* less to write.                                                          *)
Mutant_WriteShort ==
  /\ "shortWrite" \in Faults
  /\ pc = "write" /\ fpos - offset < MESSAGE_MAXSIZE
  /\ \E n \in 1 .. want - 1 :
       /\ file' = Overwritten(fpos, SubSeq(buf, 1, n))
       /\ fpos' = fpos + n
       /\ buf' = Padded(want, CString(Shifted(n)))
  /\ UNCHANGED <<pc, op, offset, want, outcome, starts>>

WriteShort ==
  /\ "shortWrite" \in Faults
  /\ pc = "write"
  /\ \E n \in 1 .. want - 1 :
       /\ file' = Overwritten(fpos, SubSeq(buf, 1, n))
       /\ fpos' = fpos + n
       /\ want' = want - n
       /\ buf' = Padded(want - n, CString(Shifted(n)))
  /\ Noted
  /\ UNCHANGED <<pc, op, offset, outcome>>

-----------------------------------------------------------------------------
(* continue_reading                                                        *)

(* The whole remainder is read: it is copied behind what was read before.  *)
(* A record that exists is there in full (TypeOK), so that no read meets   *)
(* the end of the file.                                                    *)
ReadAll ==
  /\ pc = "read"
  /\ fpos' = fpos + want
  /\ Returns(<<"ok", buf \o Printed(want, CString(Bytes(fpos, want)))>>)
  /\ UNCHANGED <<file, starts>>

(* n bytes are read.  They are used as a string even if no zero is among   *)
(* them: it goes on with whatever the buffer held before.                  *)
ReadShort ==
  /\ "shortRead" \in Faults
  /\ pc = "read"
  /\ \E n \in 1 .. want - 1 :
       /\ fpos' = fpos + n
       /\ want' = want - n
       /\ IF Terminated(Bytes(fpos, n))
          THEN buf' = buf \o CString(Bytes(fpos, n))
          ELSE \E g \in Garbage : buf' = buf \o Bytes(fpos, n) \o g
  /\ UNCHANGED <<file, pc, op, offset, outcome, starts>>

-----------------------------------------------------------------------------
(* Failures                                                                *)

(* A system call fails, in the first call of the loop or in a later one.   *)
CallFails ==
  /\ "fail" \in Faults
  /\ pc \in {"read", "write"}
  /\ Returns(<<"error">>)
  /\ UNCHANGED <<file, fpos, starts>>

(* The process is killed; another one opens the file.                      *)
Killed ==
  /\ "kill" \in Faults
  /\ pc \in {"read", "write"}
  /\ Returns(<<"error">>)
  /\ fpos' = 0
  /\ UNCHANGED <<file, starts>>

Next ==
  \/ \E index \in Indices :
       \/ \E text \in Texts : message_store_write(index, text)
       \/ message_store_read(index)
       \/ message_store_delete(index)
  \/ WriteAll \/ WriteShort \/ ReadAll \/ ReadShort
  \/ CallFails \/ Killed

Spec == Init /\ [][Next]_vars

-----------------------------------------------------------------------------
(* Properties                                                              *)

TypeOK ==
  /\ file \in Seq(Nat) /\ Len(file) =< MaxBytes
  /\ fpos \in 0 .. Len(file)
  /\ pc \in {"idle", "read", "write"}
  /\ offset \in 0 .. Len(file)
  /\ want \in 0 .. MESSAGE_MAXSIZE
  /\ buf \in Seq(Nat)
  /\ pc = "write" => Len(buf) = want
  /\ pc = "read" => fpos + want =< Len(file)
  /\ starts \in Seq(0 .. Len(file))

(* As long as the kernel transfers what it is asked to, or nothing at all, *)
(* the store is the sequence of texts that RecordStore describes.          *)
Records ==
  [i \in 1 .. message_count |->
     CString(Bytes((i - 1) * MESSAGE_MAXSIZE, MESSAGE_MAXSIZE))]
Abs == INSTANCE RecordStore WITH records <- Records, request <- op
AbsSpec == Abs!Spec

(* The records, in the order in which they were appended.  A record is     *)
(* whole, or the append that should have written it was ended by a failing *)
(* call or a kill after some of its bytes.                                 *)
Last(r) == IF r = Len(starts) THEN Len(file) ELSE starts[r + 1]
IsWhole(r) == Last(r) - starts[r] = MESSAGE_MAXSIZE

(* The record that an index names, and those that it counts to get there.  *)
Named(index) == IF index > 0 THEN index ELSE Len(starts) + 1 + index
Counted(index) == IF index > 0 THEN 1 .. Named(index) ELSE Named(index) .. Len(starts)

(* An append never changes a byte of an earlier record.  Any other         *)
(* operation changes only bytes of the record that its index names, as     *)
(* long as all records that the index counts are whole.  A record that was *)
(* cut off makes the indices that count it name other bytes, from the      *)
(* other end of the file than the indices that do not; those stay right.   *)
KeepsOtherRecords ==
  [][/\ Len(file') >= Len(file)
     /\ \A i \in 1 .. Len(file) :
          file'[i] # file[i] =>
            /\ op.index # 0
            /\ (\A r \in Counted(op.index) : r \in DOMAIN starts /\ IsWhole(r))
                 => i \in starts[Named(op.index)] + 1 .. Last(Named(op.index))]_vars

(* A write that returns normally has written exactly one record: if the    *)
(* file was a sequence of whole records, it still is.                      *)
WritesWholeRecords ==
  [][(pc = "write" /\ outcome' = <<"ok">>) =>
       /\ fpos' = offset + MESSAGE_MAXSIZE
       /\ offset % MESSAGE_MAXSIZE = 0 => fpos' % MESSAGE_MAXSIZE = 0]_vars

-----------------------------------------------------------------------------
(* A statement of the source that the code does not keep                   *)

(* "continue writing till whole size wrote. fill other space w/t zero."    *)
(* (continue_writing): the record is the text, and zeros behind it.        *)
FillsWithZero ==
  [][(pc = "write" /\ outcome' = <<"ok">>) =>
       \A i \in 1 .. MESSAGE_MAXSIZE :
         file'[offset + i] =
           (IF i =< Len(op.text) THEN op.text[i] ELSE 0)]_vars
==============================================================================
