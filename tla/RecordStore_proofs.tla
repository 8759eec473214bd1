-------------------------- MODULE RecordStore_proofs --------------------------
(***************************************************************************)
(* Proof that StoreFile implements RecordStore as long as the kernel moves *)
(* all the bytes it is asked to, or none: for any size of a record, any    *)
(* texts and indices, with failures and kills between any two calls.       *)
(***************************************************************************)
EXTENDS StoreFile_proofs

-----------------------------------------------------------------------------
(* Texts in their records                                                  *)

(* What is printed into zeros is found again.                              *)
LEMMA TextIsKept ==
  ASSUME NEW n \in Nat \ {0}, NEW text \in Seq(Nat), text \in Seq(Nat \ {0}),
         Len(text) < n
  PROVE  Terminated(Padded(n, text)) /\ CString(Padded(n, text)) = text
<1> DEFINE bytes == Padded(n, text)
           l == Len(text)
           Z == {i \in 1 .. Len(bytes) : bytes[i] = 0}
<1>1. /\ bytes \in Seq(Nat) /\ Len(bytes) = n
      /\ \A i \in 1 .. n : bytes[i] = IF i =< l THEN text[i] ELSE 0
  BY PaddedIs
<1>2. l \in Nat /\ l < n /\ \A i \in 1 .. l : text[i] # 0
  OBVIOUS
<1> HIDE DEF bytes
<1>3. l + 1 \in Z
  BY <1>1, <1>2
<1>4. Z \in SUBSET Nat /\ \A i \in Z : i >= l + 1
  BY <1>1, <1>2
<1>5. Terminated(bytes)
  BY <1>3 DEF Terminated
<1>6. Least(Z) = l + 1
  <2> DEFINE m == Least(Z)
  <2>1. m \in Z /\ m =< l + 1
    BY <1>3, <1>4, LeastIs
  <2>2. m \in Nat /\ m >= l + 1
    <3> HIDE DEF Z
    <3> QED
      BY <1>4, <2>1
  <2> HIDE DEF m
  <2>3. m = l + 1
    BY <1>2, <2>1, <2>2
  <2> QED
    BY <2>3 DEF m
<1>7. CString(bytes) = SubSeq(bytes, 1, l)
  <2>1. CString(bytes) = SubSeq(bytes, 1, Least(Z) - 1)
    BY <1>5 DEF CString
  <2> HIDE DEF Z
  <2> QED
    BY <1>2, <1>6, <2>1
<1>8. SubSeq(bytes, 1, l) = text
  <2> DEFINE front == SubSeq(bytes, 1, l)
  <2>1. front \in Seq(Nat)
    BY <1>1, <1>2
  <2>2. Len(front) = l
    BY <1>1, <1>2
  <2>3. \A i \in 1 .. l : front[i] = text[i]
    BY <1>1, <1>2
  <2> HIDE DEF front
  <2>4. front = text
    BY <2>1, <2>2, <2>3, SeqEqual
  <2> QED
    BY <2>4 DEF front
<1> QED
  BY <1>5, <1>7, <1>8 DEF bytes

-----------------------------------------------------------------------------
(* Where records are                                                       *)

LEMMA Quotient ==
  ASSUME NEW M \in Nat \ {0}, NEW k \in Nat
  PROVE  (k * M) \div M = k
  OBVIOUS

(* Record i lies before record p, or is record p, or lies behind it.       *)
LEMMA Ranges ==
  ASSUME NEW M \in Nat \ {0}, NEW i \in Nat \ {0}, NEW p \in Nat \ {0}
  PROVE  /\ i * M \in Nat /\ i * M = (i - 1) * M + M /\ (i - 1) * M \in Nat
         /\ i < p => i * M =< (p - 1) * M
         /\ i =< p => i * M =< p * M
<1>1. i * M \in Nat /\ (i - 1) * M \in Nat
  OBVIOUS
<1>2. i * M = (i - 1) * M + M
  OBVIOUS
<1>3. ASSUME i < p PROVE i * M =< (p - 1) * M
  <2>1. PICK d \in Nat : p - 1 = i + d
    <3>1. p - 1 - i \in Nat /\ p - 1 = i + (p - 1 - i)
      BY <1>3
    <3> QED
      BY <3>1
  <2>2. (i + d) * M = i * M + d * M /\ d * M >= 0
    OBVIOUS
  <2> QED
    BY <1>1, <2>1, <2>2
<1>4. ASSUME i =< p PROVE i * M =< p * M
  <2>1. PICK d \in Nat : p = i + d
    <3>1. p - i \in Nat /\ p = i + (p - i)
      BY <1>4
    <3> QED
      BY <3>1
  <2>2. (i + d) * M = i * M + d * M /\ d * M >= 0
    OBVIOUS
  <2> QED
    BY <1>1, <2>1, <2>2
<1> QED
  BY <1>1, <1>2, <1>3, <1>4

LEMMA ChunkIs ==
  ASSUME NEW f \in Seq(Nat), NEW o \in Nat, NEW n \in Nat, o + n =< Len(f)
  PROVE  LET b == SubSeq(f, o + 1, Least({o + n, Len(f)})) IN
         /\ b \in Seq(Nat) /\ Len(b) = n /\ \A k \in 1 .. n : b[k] = f[o + k]
<1>1. Least({o + n, Len(f)}) = o + n
  BY LeastOfTwo
<1> DEFINE b == SubSeq(f, o + 1, o + n)
<1>2. \A k \in o + 1 .. o + n : f[k] \in Nat
  OBVIOUS
<1>3. b \in Seq(Nat)
  BY <1>2
<1>4. Len(b) = n
  OBVIOUS
<1>5. \A k \in 1 .. n : b[k] = f[o + k]
  OBVIOUS
<1> QED
  BY <1>1, <1>3, <1>4, <1>5

-----------------------------------------------------------------------------
(* The invariant                                                           *)

WholeTransfers == Faults \cap {"shortRead", "shortWrite"} = {}

(* The file is a sequence of records, each of them with a zero in it.      *)
RecordsInv ==
  /\ Len(file) = message_count * MESSAGE_MAXSIZE
  /\ \A i \in 1 .. message_count :
       Terminated(Bytes((i - 1) * MESSAGE_MAXSIZE, MESSAGE_MAXSIZE))

(* An operation under way is at the beginning of the record that it names, *)
(* and a write has all of its text before it.                              *)
Place == Abs!Position(op.index)

RequestInv ==
  /\ outcome = <<"pending">> => pc # "idle"
  /\ pc # "idle" =>
       /\ op \in Abs!Requests /\ Abs!Exists(op)
       /\ want = MESSAGE_MAXSIZE
       /\ offset = (Place - 1) * MESSAGE_MAXSIZE
       /\ buf = IF pc = "write" THEN Padded(MESSAGE_MAXSIZE, op.text) ELSE <<>>

Sound == Typed /\ RecordsInv /\ RequestInv

LEMMA CountIs == Typed => message_count \in Nat /\ Len(Records) = message_count
<1> SUFFICES ASSUME Typed PROVE message_count \in Nat /\ Len(Records) = message_count
  OBVIOUS
<1>1. Len(file) \in Nat /\ MESSAGE_MAXSIZE \in Nat \ {0}
  BY StoreFileAssumption DEF Typed, TypeOK
<1>2. message_count \in Nat
  BY <1>1 DEF message_count
<1> QED
  BY <1>2 DEF Records

(* The checks of the code and the offsets it computes, in terms of records.*)
LEMMA PlaceIs ==
  ASSUME Typed, RecordsInv, NEW index \in Int
  PROVE  /\ Abs!Position(index) \in Int
         /\ ~(message_count < Absolute(index))
              <=> (Abs!Position(index) \in 1 .. message_count \/ index = 0)
         /\ index = 0 => Abs!Position(index) = message_count + 1
         /\ Offset(index) = (Abs!Position(index) - 1) * MESSAGE_MAXSIZE
<1> DEFINE c == message_count
           M == MESSAGE_MAXSIZE
           p == Abs!Position(index)
<1>1. c \in Nat /\ M \in Nat \ {0} /\ Len(file) = c * M
  BY CountIs, StoreFileAssumption DEF RecordsInv
<1>2. p = IF index > 0 THEN index ELSE c + 1 + index
  BY CountIs DEF Abs!Position
<1>3. Offset(index) = IF index =< 0 THEN c * M + index * M ELSE (index - 1) * M
  BY <1>1 DEF Offset
<1>4. Absolute(index) = IF index < 0 THEN -index ELSE index
  BY DEF Absolute
<1> HIDE DEF c, M, p
<1>5. p \in Int /\ (index = 0 => p = c + 1)
  BY <1>1, <1>2
<1>6. ~(c < Absolute(index)) <=> (p \in 1 .. c \/ index = 0)
  BY <1>1, <1>2, <1>4
<1>7. Offset(index) = (p - 1) * M
  <2>1. CASE index > 0
    BY <1>2, <1>3, <2>1
  <2>2. CASE ~(index > 0)
    <3>1. p - 1 = c + index
      BY <1>1, <1>2, <2>2
    <3>2. (c + index) * M = c * M + index * M
      BY <1>1
    <3>3. Offset(index) = c * M + index * M
      BY <1>3, <2>2
    <3> QED
      BY <3>1, <3>2, <3>3
  <2> QED
    BY <2>1, <2>2
<1> QED
  BY <1>5, <1>6, <1>7 DEF c, M, p

LEMMA SameFile ==
  ASSUME file' = file
  PROVE  message_count' = message_count /\ Records' = Records
         /\ (RecordsInv => RecordsInv')
  BY DEF message_count, Records, RecordsInv, Bytes

LEMMA SoundInit == Init => Sound /\ Abs!Init
<1> SUFFICES ASSUME Init PROVE Sound /\ Abs!Init
  OBVIOUS
<1>1. Typed
  BY TypeInit
<1>2. file = <<>> /\ Len(file) = 0
  BY DEF Init
<1>3. message_count = 0
  <2>1. 0 \div MESSAGE_MAXSIZE = 0
    BY StoreFileAssumption
  <2> QED
    BY <1>2, <2>1 DEF message_count
<1>4. RecordsInv
  BY <1>2, <1>3, StoreFileAssumption DEF RecordsInv
<1>5. RequestInv
  BY DEF Init, RequestInv
<1>6. Records = <<>>
  <2>1. Records = [i \in 1 .. 0 |->
          CString(Bytes((i - 1) * MESSAGE_MAXSIZE, MESSAGE_MAXSIZE))]
    BY <1>3 DEF Records
  <2> QED
    BY <2>1
<1>7. Abs!Init
  BY <1>6 DEF Init, Abs!Init
<1> QED
  BY <1>1, <1>4, <1>5, <1>7 DEF Sound

-----------------------------------------------------------------------------
(* Steps                                                                   *)

LEMMA BeginsSound ==
  ASSUME Sound, pc = "idle", NEW index \in Indices,
         NEW r \in Abs!Requests, r.index = index, op' = r,
         IF Abs!Exists(r)
         THEN /\ Begins(r.kind, index)
              /\ buf' = IF r.kind = "write" THEN Padded(MESSAGE_MAXSIZE, r.text)
                        ELSE <<>>
         ELSE Refused
  PROVE  RecordsInv' /\ RequestInv' /\ Abs!Request(r)
<1>1. index \in Int
  BY StoreFileAssumption
<1>2. outcome # <<"pending">>
  BY DEF Sound, RequestInv
<1>3. CASE Abs!Exists(r)
  <2>1. /\ file' = file /\ pc' = r.kind /\ outcome' = <<"pending">>
        /\ offset' = Offset(index) /\ want' = MESSAGE_MAXSIZE
        /\ buf' = IF r.kind = "write" THEN Padded(MESSAGE_MAXSIZE, r.text) ELSE <<>>
    BY <1>3 DEF Begins
  <2>2. Records' = Records /\ RecordsInv'
    BY <2>1, SameFile DEF Sound
  <2>3. Abs!Exists(op)' /\ op' \in Abs!Requests /\ Place' = Abs!Position(index)
    BY <1>3, <2>2 DEF Abs!Exists, Abs!Position, Place, Abs!Requests
  <2>4. Offset(index) = (Abs!Position(index) - 1) * MESSAGE_MAXSIZE
    BY <1>1, PlaceIs DEF Sound
  <2>5. r.kind \in {"read", "write"}
    BY DEF Abs!Requests
  <2>6. RequestInv'
    BY <2>1, <2>3, <2>4, <2>5 DEF RequestInv, Abs!Requests
  <2>7. Abs!Request(r)
    BY <1>2, <1>3, <2>1, <2>2 DEF Abs!Request
  <2> QED
    BY <2>2, <2>6, <2>7
<1>4. CASE ~Abs!Exists(r)
  <2>1. file' = file /\ pc' = "idle" /\ outcome' = <<"refused">>
    BY <1>4 DEF Refused
  <2>2. Records' = Records /\ RecordsInv'
    BY <2>1, SameFile DEF Sound
  <2>3. <<"refused">> # <<"pending">>
    OBVIOUS
  <2>4. RequestInv'
    BY <2>1, <2>3 DEF RequestInv
  <2>5. Abs!Request(r)
    BY <1>2, <1>4, <2>1, <2>2 DEF Abs!Request
  <2> QED
    BY <2>2, <2>4, <2>5
<1> QED
  BY <1>3, <1>4

LEMMA WriteBegins ==
  ASSUME Sound, NEW index \in Indices, NEW text \in Texts \cup {<<>>},
         message_store_write(index, text)
  PROVE  RecordsInv' /\ RequestInv' /\ Abs!Next
<1> DEFINE r == [kind |-> "write", index |-> index, text |-> text]
<1>1. r \in Abs!Requests
  BY DEF Abs!Requests
<1>2. r.index = index /\ r.kind = "write" /\ r.text = text /\ op' = r /\ pc = "idle"
  BY DEF message_store_write
<1> HIDE DEF r
<1>3. Abs!Exists(r) <=> ~(message_count < Absolute(index))
  <2>1. index \in Int /\ Len(Records) = message_count
    BY StoreFileAssumption, CountIs DEF Sound
  <2> QED
    BY <1>2, <2>1, PlaceIs DEF Abs!Exists, Sound
<1>4. IF Abs!Exists(r)
      THEN /\ Begins(r.kind, index)
           /\ buf' = IF r.kind = "write" THEN Padded(MESSAGE_MAXSIZE, r.text)
                     ELSE <<>>
      ELSE Refused
  BY <1>2, <1>3 DEF message_store_write
<1>5. RecordsInv' /\ RequestInv' /\ Abs!Request(r)
  BY <1>1, <1>2, <1>4, BeginsSound
<1> QED
  BY <1>1, <1>5 DEF Abs!Next

LEMMA ReadBegins ==
  ASSUME Sound, NEW index \in Indices, message_store_read(index)
  PROVE  RecordsInv' /\ RequestInv' /\ Abs!Next
<1> DEFINE r == [kind |-> "read", index |-> index, text |-> <<>>]
<1>1. r \in Abs!Requests
  BY DEF Abs!Requests
<1>2. r.index = index /\ r.kind = "read" /\ op' = r /\ pc = "idle"
  BY DEF message_store_read
<1> HIDE DEF r
<1>3. Abs!Exists(r)
        <=> ~(message_count = 0 \/ message_count < Absolute(index) \/ index = 0)
  <2>1. index \in Int /\ Len(Records) = message_count /\ message_count \in Nat
    BY StoreFileAssumption, CountIs DEF Sound
  <2>2. ~(message_count < Absolute(index))
          <=> (Abs!Position(index) \in 1 .. message_count \/ index = 0)
    BY <2>1, PlaceIs DEF Sound
  <2>3. index = 0 => Abs!Position(index) = message_count + 1
    BY <2>1, PlaceIs DEF Sound
  <2>4. Abs!Exists(r) <=> Abs!Position(index) \in 1 .. message_count
    BY <1>2, <2>1 DEF Abs!Exists
  <2> QED
    BY <2>1, <2>2, <2>3, <2>4
<1>4. IF Abs!Exists(r)
      THEN /\ Begins(r.kind, index)
           /\ buf' = IF r.kind = "write" THEN Padded(MESSAGE_MAXSIZE, r.text)
                     ELSE <<>>
      ELSE Refused
  BY <1>2, <1>3 DEF message_store_read
<1>5. RecordsInv' /\ RequestInv' /\ Abs!Request(r)
  BY <1>1, <1>2, <1>4, BeginsSound
<1> QED
  BY <1>1, <1>5 DEF Abs!Next

LEMMA ReturnsSound ==
  ASSUME NEW result, Returns(result), result # <<"pending">>
  PROVE  RequestInv'
  BY DEF Returns, RequestInv

LEMMA FailureSound ==
  ASSUME Sound, CallFails \/ Killed
  PROVE  RecordsInv' /\ RequestInv' /\ Abs!Next
<1>1. pc # "idle" /\ file' = file /\ Returns(<<"error">>)
  BY DEF CallFails, Killed
<1>2. <<"error">> # <<"pending">>
  OBVIOUS
<1>3. RequestInv'
  BY <1>1, <1>2, ReturnsSound
<1>4. Records' = Records /\ RecordsInv'
  BY <1>1, SameFile DEF Sound
<1>5. outcome = <<"pending">>
  BY <1>1 DEF Sound, Typed, UnderWay
<1>6. Abs!Fail
  BY <1>1, <1>4, <1>5 DEF Returns, Abs!Fail
<1> QED
  BY <1>3, <1>4, <1>6 DEF Abs!Next

(* The bytes of record i, and the record that they are.                    *)
LEMMA RecordIs ==
  ASSUME Typed, RecordsInv, NEW i \in 1 .. message_count
  PROVE  LET o == (i - 1) * MESSAGE_MAXSIZE
             b == Bytes(o, MESSAGE_MAXSIZE) IN
         /\ o \in Nat /\ o + MESSAGE_MAXSIZE =< Len(file)
         /\ b \in Seq(Nat) /\ Len(b) = MESSAGE_MAXSIZE /\ Terminated(b)
         /\ \A k \in 1 .. MESSAGE_MAXSIZE : b[k] = file[o + k]
         /\ Records[i] = CString(b)
<1> DEFINE M == MESSAGE_MAXSIZE
           o == (i - 1) * M
           c == message_count
<1>1. /\ M \in Nat \ {0} /\ c \in Nat /\ Len(file) = c * M /\ file \in Seq(Nat)
      /\ i \in Nat \ {0} /\ i =< c
  BY CountIs, StoreFileAssumption DEF RecordsInv, Typed, TypeOK
<1>2. o \in Nat /\ o + M =< c * M
  <2> HIDE DEF M, c
  <2>1. i * M \in Nat /\ i * M = o + M /\ o \in Nat
    BY <1>1, Ranges
  <2>2. i * M =< c * M
    <3>1. c \in Nat \ {0}
      BY <1>1
    <3> QED
      BY <1>1, <3>1, Ranges
  <2> HIDE DEF o
  <2> QED
    BY <2>1, <2>2
<1>3. Terminated(Bytes(o, M)) /\ Records[i] = CString(Bytes(o, M))
  <2>1. Terminated(Bytes(o, M))
    BY DEF RecordsInv
  <2>2. Records[i] = CString(Bytes(o, M))
    BY Zenon DEF Records
  <2> QED
    BY <2>1, <2>2
<1>4. Bytes(o, M) = SubSeq(file, o + 1, Least({o + M, Len(file)}))
  BY DEF Bytes
<1> HIDE DEF o, M, c
<1>5. o + M =< Len(file)
  BY <1>1, <1>2
<1> DEFINE b == SubSeq(file, o + 1, Least({o + M, Len(file)}))
<1>6. b \in Seq(Nat) /\ Len(b) = M /\ \A k \in 1 .. M : b[k] = file[o + k]
  <2> HIDE DEF b
  <2>1. M \in Nat
    BY <1>1
  <2> QED
    BY <1>1, <1>2, <1>5, <2>1, ChunkIs, Zenon DEF b
<1>7. /\ Bytes(o, M) \in Seq(Nat) /\ Len(Bytes(o, M)) = M
      /\ \A k \in 1 .. M : Bytes(o, M)[k] = file[o + k]
  BY <1>4, <1>6, Zenon
<1> QED
  BY <1>2, <1>3, <1>7, <1>5 DEF o, M

LEMMA ReadSound ==
  ASSUME Sound, ReadAll
  PROVE  RecordsInv' /\ RequestInv' /\ Abs!Next
<1> DEFINE b == Bytes(fpos, want)
           text == CString(b)
<1>1. /\ pc = "read" /\ file' = file /\ Returns(<<"ok", buf \o Printed(want, text)>>)
  BY DEF ReadAll
<1>2. <<"ok", buf \o Printed(want, text)>> # <<"pending">>
  OBVIOUS
<1>3. RequestInv'
  BY <1>1, <1>2, ReturnsSound
<1>4. Records' = Records /\ RecordsInv'
  BY <1>1, SameFile DEF Sound
<1>5. /\ outcome = <<"pending">> /\ op.kind = "read" /\ buf = <<>>
      /\ want = MESSAGE_MAXSIZE /\ fpos = (Place - 1) * MESSAGE_MAXSIZE
      /\ Abs!Exists(op)
  <2>1. /\ outcome = <<"pending">> /\ op.kind = "read" /\ buf = <<>>
        /\ want = MESSAGE_MAXSIZE /\ fpos + want = offset + MESSAGE_MAXSIZE
        /\ offset = (Place - 1) * MESSAGE_MAXSIZE /\ Abs!Exists(op)
    BY <1>1 DEF Sound, RequestInv, Typed, UnderWay
  <2>2. MESSAGE_MAXSIZE \in Nat /\ fpos \in Nat /\ offset \in Nat
    BY StoreFileAssumption DEF Sound, Typed, TypeOK
  <2>3. fpos = offset
    BY <2>1, <2>2
  <2> QED
    BY <2>1, <2>3
<1>6. Place \in 1 .. message_count
  BY <1>5, CountIs DEF Abs!Exists, Place, Sound
<1>7. b \in Seq(Nat) /\ Len(b) = want /\ Terminated(b) /\ Records[Place] = text
  BY <1>5, <1>6, RecordIs DEF Sound
<1>8. buf \o Printed(want, text) = Records[Place]
  <2>1. text \in Seq(Nat) /\ Len(text) < want
    BY <1>7, CStringIs
  <2>2. want \in Nat \ {0}
    BY <1>5, StoreFileAssumption
  <2> HIDE DEF text, b
  <2>3. Printed(want, text) = text
    BY <2>1, <2>2, PrintedIs
  <2>4. <<>> \o text = text
    BY <2>1
  <2> QED
    BY <1>5, <1>7, <2>3, <2>4
<1>9. Abs!Read
  BY <1>1, <1>4, <1>5, <1>8 DEF Returns, Abs!Read, Place
<1> QED
  BY <1>3, <1>4, <1>9 DEF Abs!Next

(* What a write that takes effect does to the records.                     *)
LEMMA Rewritten ==
  ASSUME Sound, WriteAll, NEW M, M = MESSAGE_MAXSIZE, NEW p, p = Place,
         NEW c, c = message_count, NEW cc, cc = IF p = c + 1 THEN c + 1 ELSE c
  PROVE  /\ c \in Nat /\ p \in 1 .. c + 1 /\ cc \in Nat
         /\ message_count' = cc /\ Len(file') = cc * M
         /\ \A i \in 1 .. cc :
              Bytes((i - 1) * M, M)' = IF i = p THEN buf ELSE Bytes((i - 1) * M, M)
<1> DEFINE o == (p - 1) * M
<1>1. /\ pc = "write" /\ want = M /\ offset = o /\ fpos + want = offset + M
      /\ Abs!Exists(op) /\ op \in Abs!Requests /\ buf \in Seq(Nat) /\ Len(buf) = M
  BY DEF Sound, RequestInv, Typed, TypeOK, UnderWay, WriteAll
<1>2. /\ M \in Nat \ {0} /\ c \in Nat /\ Len(file) = c * M /\ file \in Seq(Nat)
      /\ fpos \in Nat /\ offset \in Nat
  BY CountIs, StoreFileAssumption DEF Sound, RecordsInv, Typed, TypeOK
<1>3. fpos = o /\ o \in Nat
  <2> HIDE DEF o
  <2> QED
    BY <1>1, <1>2
<1>4. p \in 1 .. c + 1
  <2>1. op.index \in Int
    BY <1>1, StoreFileAssumption DEF Abs!Requests
  <2>2. p \in 1 .. c \/ op.index = 0
    BY <1>1, CountIs DEF Abs!Exists, Place, Sound
  <2>3. op.index = 0 => p = c + 1
    BY <2>1, PlaceIs DEF Place, Sound
  <2> QED
    BY <1>2, <2>2, <2>3
<1>5. cc \in Nat \ {0} /\ p \in Nat \ {0} /\ p =< cc /\ c =< cc
  BY <1>2, <1>4
<1>6. /\ file' \in Seq(Nat)
      /\ Len(file') = IF o + M > Len(file) THEN o + M ELSE Len(file)
      /\ \A j \in 1 .. Len(file') :
           file'[j] = IF j \in o + 1 .. o + M THEN buf[j - o] ELSE file[j]
  BY <1>1, <1>3, WriteAllIs, WriteIs DEF Sound
<1>7. ASSUME NEW j \in 1 .. Len(file')
       PROVE  /\ j \in o + 1 .. o + M => file'[j] = buf[j - o]
              /\ j \notin o + 1 .. o + M => file'[j] = file[j]
  <2> HIDE DEF o
  <2> QED
    BY <1>6
<1>8. o + M = p * M /\ p * M \in Nat
  BY <1>2, <1>5, Ranges
<1>9. Len(file') = cc * M
  <2>1. CASE p = c + 1
    <3>1. o = c * M /\ cc = p
      BY <1>2, <2>1
    <3>2. o + M > Len(file)
      BY <1>2, <1>3, <3>1
    <3> QED
      BY <1>6, <1>8, <3>1, <3>2
  <2>2. CASE p # c + 1
    <3>1. p \in 1 .. c /\ c \in Nat \ {0} /\ cc = c
      BY <1>2, <1>4, <2>2
    <3>2. p * M =< c * M /\ c * M \in Nat
      BY <1>2, <1>5, <3>1, Ranges
    <3> QED
      BY <1>2, <1>6, <1>8, <3>1, <3>2
  <2> QED
    BY <2>1, <2>2
<1>10. message_count' = cc
  <2>1. (cc * M) \div M = cc
    BY <1>2, <1>5, Quotient
  <2> QED
    BY <1>9, <2>1 DEF message_count
<1>11. ASSUME NEW i \in 1 .. cc
       PROVE  Bytes((i - 1) * M, M)' = IF i = p THEN buf ELSE Bytes((i - 1) * M, M)
  <2> DEFINE q == (i - 1) * M
             b == SubSeq(file', q + 1, Least({q + M, Len(file')}))
  <2>1. i \in Nat \ {0} /\ i =< cc
    BY <1>5
  <2>2. q \in Nat /\ q + M = i * M /\ i * M =< cc * M
    BY <1>2, <1>5, <2>1, Ranges
  <2>3. Bytes(q, M)' = b
    BY DEF Bytes
  <2> HIDE DEF q
  <2>4. q + M =< Len(file')
    BY <1>9, <2>2
  <2>5. b \in Seq(Nat) /\ Len(b) = M /\ \A k \in 1 .. M : b[k] = file'[q + k]
    <3> HIDE DEF b
    <3>1. ASSUME NEW f \in Seq(Nat), q + M =< Len(f)
          PROVE  LET part == SubSeq(f, q + 1, Least({q + M, Len(f)})) IN
                 /\ part \in Seq(Nat) /\ Len(part) = M
                 /\ \A k \in 1 .. M : part[k] = f[q + k]
      <4>1. M \in Nat
        BY <1>2
      <4> QED
        BY <2>2, <3>1, <4>1, ChunkIs, Zenon
    <3>2. file' \in Seq(Nat)
      BY <1>6
    <3> QED
      BY <2>4, <3>1, <3>2, Zenon DEF b
  <2> HIDE DEF b, o
  <2>6. \A k \in 1 .. M : q + k \in 1 .. Len(file')
    BY <1>2, <1>6, <2>2, <2>4
  <2>7. CASE i = p
    <3>1. q = o
      BY <2>7 DEF q, o
    <3>2. ASSUME NEW k \in 1 .. M PROVE b[k] = buf[k]
      <4> DEFINE j == o + k
      <4>1. b[k] = file'[j] /\ j \in 1 .. Len(file')
        BY <2>5, <2>6, <3>1
      <4>2. j \in o + 1 .. o + M /\ j - o = k
        BY <1>2, <1>3
      <4> HIDE DEF j
      <4>3. file'[j] = buf[j - o]
        BY <1>7, <4>1, <4>2
      <4> QED
        BY <4>1, <4>2, <4>3
    <3>3. b = buf
      BY <1>1, <2>5, <3>2, SeqEqual
    <3> QED
      BY <2>3, <2>7, <3>3 DEF q
  <2>8. CASE i # p
    <3>1. i \in 1 .. c
      BY <1>2, <1>4, <2>1, <2>8
    <3> DEFINE old == Bytes(q, M)
    <3>2. old \in Seq(Nat) /\ Len(old) = M /\ \A k \in 1 .. M : old[k] = file[q + k]
      BY <3>1, RecordIs DEF Sound, q
    <3> HIDE DEF old
    <3>3. q + M =< o \/ o + M =< q
      <4>1. CASE i < p
        <5>1. i * M =< o
          BY <1>2, <1>5, <2>1, <4>1, Ranges DEF o
        <5> QED
          BY <2>2, <5>1
      <4>2. CASE p < i
        <5>1. p * M =< q
          BY <1>2, <1>5, <2>1, <4>2, Ranges DEF q
        <5> QED
          BY <1>8, <5>1
      <4> QED
        BY <1>5, <2>1, <2>8, <4>1, <4>2
    <3>4. ASSUME NEW k \in 1 .. M PROVE b[k] = old[k]
      <4>1. b[k] = file'[q + k] /\ q + k \in 1 .. Len(file') /\ old[k] = file[q + k]
        BY <2>5, <2>6, <3>2
      <4>2. q + k \notin o + 1 .. o + M
        BY <1>2, <1>3, <2>2, <3>3
      <4> QED
        BY <1>7, <4>1, <4>2
    <3>5. b = old
      BY <2>5, <3>2, <3>4, SeqEqual
    <3> QED
      BY <2>3, <2>8, <3>5 DEF q, old
  <2> QED
    BY <2>7, <2>8
<1> QED
  BY <1>2, <1>4, <1>5, <1>9, <1>10, <1>11

LEMMA WriteSound ==
  ASSUME Sound, WriteAll
  PROVE  RecordsInv' /\ RequestInv' /\ Abs!Next
<1> DEFINE M == MESSAGE_MAXSIZE
<1>1. PICK p, c : p = Place /\ c = message_count
  OBVIOUS
<1> DEFINE cc == IF p = c + 1 THEN c + 1 ELSE c
<1>2. /\ c \in Nat /\ p \in 1 .. c + 1 /\ cc \in Nat
      /\ message_count' = cc /\ Len(file') = cc * M
      /\ \A i \in 1 .. cc :
           Bytes((i - 1) * M, M)' = IF i = p THEN buf ELSE Bytes((i - 1) * M, M)
  <2> HIDE DEF M
  <2>1. M = MESSAGE_MAXSIZE
    BY DEF M
  <2> QED
    BY <1>1, <2>1, Rewritten
<1>3. /\ pc = "write" /\ Returns(<<"ok">>) /\ outcome = <<"pending">>
      /\ op.kind = "write" /\ op \in Abs!Requests /\ Abs!Exists(op)
      /\ buf = Padded(M, op.text)
  BY DEF WriteAll, Sound, RequestInv, Typed, UnderWay
<1>4. op.text \in Texts \cup {<<>>} /\ op.index \in Int
  <2>1. op.text \in Texts \cup {<<>>} /\ op.index \in Indices
    BY <1>3 DEF Abs!Requests
  <2> QED
    BY <2>1, StoreFileAssumption
<1>5. Terminated(buf) /\ CString(buf) = op.text
  <2>1. M \in Nat \ {0}
    BY StoreFileAssumption
  <2> HIDE DEF M
  <2>2. /\ op.text \in Seq(Nat) /\ op.text \in Seq(Nat \ {0})
        /\ Len(op.text) < M
    BY <1>4, TextType DEF M
  <2> QED
    BY <1>3, <2>1, <2>2, TextIsKept
<1>6. <<"ok">> # <<"pending">>
  OBVIOUS
<1>7. RequestInv'
  BY <1>3, <1>6, ReturnsSound
<1>8. ASSUME NEW i \in 1 .. cc, i # p PROVE i \in 1 .. c
  BY <1>2, <1>8
<1>9. RecordsInv'
  <2>1. ASSUME NEW i \in 1 .. cc PROVE Terminated(Bytes((i - 1) * M, M)')
    <3>1. CASE i = p
      BY <1>2, <1>5, <3>1
    <3>2. CASE i # p
      <4>1. Bytes((i - 1) * M, M)' = Bytes((i - 1) * M, M)
        BY <1>2, <3>2
      <4>2. Terminated(Bytes((i - 1) * M, M))
        BY <1>1, <1>8, <3>2 DEF Sound, RecordsInv
      <4> QED
        BY <4>1, <4>2
    <3> QED
      BY <3>1, <3>2
  <2> QED
    BY <1>2, <2>1 DEF RecordsInv, Terminated
<1>10. Records' = [i \in 1 .. cc |-> IF i = p THEN op.text ELSE Records[i]]
  <2>1. ASSUME NEW i \in 1 .. cc
        PROVE  CString(Bytes((i - 1) * M, M)')
                 = IF i = p THEN op.text ELSE Records[i]
    <3>1. CASE i = p
      BY <1>2, <1>5, <3>1
    <3>2. CASE i # p
      <4>1. Bytes((i - 1) * M, M)' = Bytes((i - 1) * M, M)
        BY <1>2, <3>2
      <4>2. Records[i] = CString(Bytes((i - 1) * M, M))
        BY <1>1, <1>8, <3>2 DEF Records
      <4> QED
        BY <3>2, <4>1, <4>2
    <3> QED
      BY <3>1, <3>2
  <2>2. Records' = [i \in 1 .. cc |-> CString(Bytes((i - 1) * M, M)')]
    BY <1>2 DEF Records, CString, Terminated
  <2> QED
    BY <2>1, <2>2
<1>11. Records = [i \in 1 .. c |-> Records[i]] /\ Len(Records) = c
  BY <1>1, CountIs DEF Records, Sound
<1>12. Abs!Write
  <2>1. Records' = IF op.index = 0 THEN Append(Records, op.text)
                   ELSE [Records EXCEPT ![p] = op.text]
    <3>1. CASE op.index = 0
      <4>1. p = c + 1 /\ cc = c + 1
        BY <1>1, <1>4, <3>1, PlaceIs DEF Place, Sound
      <4> QED
        BY <1>2, <1>10, <1>11, <3>1, <4>1
    <3>2. CASE op.index # 0
      <4>1. p \in 1 .. c
        BY <1>1, <1>3, <1>11, <3>2 DEF Abs!Exists, Place
      <4>2. cc = c
        BY <1>2, <4>1
      <4>3. [Records EXCEPT ![p] = op.text]
              = [i \in 1 .. c |-> IF i = p THEN op.text ELSE Records[i]]
        BY <1>11, <4>1
      <4> QED
        BY <1>10, <3>2, <4>2, <4>3
    <3> QED
      BY <3>1, <3>2
  <2> QED
    BY <1>1, <1>3, <2>1 DEF Returns, Abs!Write, Place
<1> QED
  BY <1>7, <1>9, <1>12 DEF Abs!Next

-----------------------------------------------------------------------------
(* StoreFile implements RecordStore                                        *)

LEMMA SoundStep ==
  ASSUME WholeTransfers, Sound, [Next]_vars
  PROVE  Sound' /\ [Abs!Next]_Abs!vars
<1>1. Typed'
  BY TypeStep DEF Sound
<1>2. CASE Next
  <2>1. ~WriteShort /\ ~ReadShort
    BY DEF WholeTransfers, WriteShort, ReadShort
  <2>2. ASSUME NEW index \in Indices, NEW text \in Texts,
               message_store_write(index, text)
        PROVE  RecordsInv' /\ RequestInv' /\ Abs!Next
    BY <2>2, WriteBegins
  <2>3. ASSUME NEW index \in Indices, message_store_delete(index)
        PROVE  RecordsInv' /\ RequestInv' /\ Abs!Next
    BY <2>3, WriteBegins DEF message_store_delete
  <2> QED
    BY <1>1, <1>2, <2>1, <2>2, <2>3, ReadBegins, WriteSound, ReadSound, FailureSound
    DEF Next, Sound
<1>3. CASE UNCHANGED vars
  <2>1. Records' = Records /\ RecordsInv'
    BY <1>3, SameFile DEF Sound, vars
  <2>2. Place' = Place /\ Abs!Exists(op)' = Abs!Exists(op)
    BY <1>3, <2>1 DEF Place, Abs!Position, Abs!Exists, vars
  <2>3. RequestInv'
    BY <1>3, <2>2 DEF RequestInv, Sound, vars, Abs!Requests
  <2> QED
    BY <1>1, <1>3, <2>1, <2>3 DEF Sound, vars, Abs!vars
<1> QED
  BY <1>2, <1>3

(* AbsSpec: the store is the sequence of texts of RecordStore, addressed   *)
(* from both ends; every operation takes effect in one step, or fails and  *)
(* changes nothing (message_store_read, _write and _delete).               *)
THEOREM FileIsRecordStore == WholeTransfers => (Spec => AbsSpec)
<1> SUFFICES ASSUME WholeTransfers PROVE Spec => AbsSpec
  OBVIOUS
<1>1. Init => Sound /\ Abs!Init
  BY SoundInit
<1>2. Sound /\ [Next]_vars => Sound' /\ [Abs!Next]_Abs!vars
  BY SoundStep
<1> QED
  BY <1>1, <1>2, PTL DEF Spec, AbsSpec, Abs!Spec
=============================================================================
