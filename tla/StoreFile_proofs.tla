--------------------------- MODULE StoreFile_proofs ---------------------------
(***************************************************************************)
(* Proofs about StoreFile, for any size of a record, any texts, indices    *)
(* and sizes of the file.                                                  *)
(***************************************************************************)
EXTENDS StoreFile, SequenceTheorems, WellFoundedInduction, TLAPS

-----------------------------------------------------------------------------
(* Least elements and C strings                                            *)

LEMMA SmallestElement ==
  ASSUME NEW S \in SUBSET Nat, S # {}
  PROVE  \E n \in S : \A m \in S : n =< m
<1> DEFINE R == {p \in Nat \X Nat : p[1] < p[2]}
<1>1. IsWellFoundedOn(R, Nat)
  BY NatLessThanWellFounded, Zenon DEF OpToRel
<1>2. PICK n \in S : \A m \in S : <<m, n>> \notin R
  <2> HIDE DEF R
  <2> QED
    BY <1>1, WFMin
<1>3. \A m \in S : ~(m < n)
  BY <1>2
<1> QED
  BY <1>3

LEMMA LeastIs ==
  ASSUME NEW S \in SUBSET Nat, S # {}
  PROVE  Least(S) \in S /\ \A m \in S : Least(S) =< m
  BY SmallestElement DEF Least

LEMMA LeastOfTwo ==
  ASSUME NEW a \in Nat, NEW b \in Nat
  PROVE  Least({a, b}) = IF a =< b THEN a ELSE b
<1>1. Least({a, b}) \in {a, b} /\ \A m \in {a, b} : Least({a, b}) =< m
  BY LeastIs
<1> QED
  BY <1>1

LEMMA CStringIs ==
  ASSUME NEW bytes \in Seq(Nat)
  PROVE  /\ CString(bytes) \in Seq(Nat) /\ Len(CString(bytes)) =< Len(bytes)
         /\ Terminated(bytes) => Len(CString(bytes)) < Len(bytes)
<1>1. CASE ~Terminated(bytes)
  BY <1>1 DEF CString
<1>2. CASE Terminated(bytes)
  <2> DEFINE Z == {i \in 1 .. Len(bytes) : bytes[i] = 0}
  <2>1. Z \in SUBSET Nat /\ Z # {}
    BY <1>2 DEF Terminated
  <2>2. Least(Z) \in Z
    BY <2>1, LeastIs
  <2>3. Least(Z) - 1 \in 0 .. Len(bytes) - 1
    BY <2>2
  <2>4. CString(bytes) = SubSeq(bytes, 1, Least(Z) - 1)
    BY <1>2 DEF CString
  <2> HIDE DEF Z
  <2> QED
    BY <2>3, <2>4
<1> QED
  BY <1>1, <1>2

LEMMA PrintedIs ==
  ASSUME NEW n \in Nat \ {0}, NEW text \in Seq(Nat)
  PROVE  /\ Printed(n, text) \in Seq(Nat)
         /\ Len(Printed(n, text)) = IF n - 1 =< Len(text) THEN n - 1 ELSE Len(text)
         /\ Len(text) < n => Printed(n, text) = text
<1>1. Least({n - 1, Len(text)}) = IF n - 1 =< Len(text) THEN n - 1 ELSE Len(text)
  BY LeastOfTwo
<1>2. Printed(n, text) = SubSeq(text, 1, IF n - 1 =< Len(text) THEN n - 1 ELSE Len(text))
  BY <1>1 DEF Printed
<1> QED
  BY <1>2

LEMMA PaddedIs ==
  ASSUME NEW n \in Nat \ {0}, NEW text \in Seq(Nat)
  PROVE  /\ Padded(n, text) \in Seq(Nat) /\ Len(Padded(n, text)) = n
         /\ Len(text) < n =>
              \A i \in 1 .. n :
                Padded(n, text)[i] = IF i =< Len(text) THEN text[i] ELSE 0
<1> DEFINE m == Len(Printed(n, text))
<1>1. m \in Nat /\ m =< Len(text) /\ (Len(text) < n => m = Len(text))
  <2>1. m = IF n - 1 =< Len(text) THEN n - 1 ELSE Len(text)
    BY PrintedIs
  <2> HIDE DEF m
  <2> QED
    BY <2>1
<1>2. Padded(n, text) = [i \in 1 .. n |-> IF i =< m THEN text[i] ELSE 0]
  BY DEF Padded
<1> HIDE DEF m
<1>3. \A i \in 1 .. n : (IF i =< m THEN text[i] ELSE 0) \in Nat
  BY <1>1
<1> QED
  BY <1>1, <1>2, <1>3

-----------------------------------------------------------------------------
(* Bytes of the file                                                       *)

LEMMA ThreeParts ==
  ASSUME NEW s \in Seq(Nat), NEW t \in Seq(Nat), NEW u \in Seq(Nat)
  PROVE  /\ s \o t \o u \in Seq(Nat)
         /\ Len(s \o t \o u) = Len(s) + Len(t) + Len(u)
         /\ \A i \in 1 .. Len(s) + Len(t) + Len(u) :
              (s \o t \o u)[i] =
                IF i =< Len(s) THEN s[i]
                ELSE IF i =< Len(s) + Len(t) THEN t[i - Len(s)]
                ELSE u[i - Len(s) - Len(t)]
<1> DEFINE st == s \o t
<1>1. /\ st \in Seq(Nat) /\ Len(st) = Len(s) + Len(t)
      /\ \A i \in 1 .. Len(st) : st[i] = IF i =< Len(s) THEN s[i] ELSE t[i - Len(s)]
  OBVIOUS
<1> HIDE DEF st
<1>2. /\ st \o u \in Seq(Nat) /\ Len(st \o u) = Len(st) + Len(u)
      /\ \A i \in 1 .. Len(st) + Len(u) :
           (st \o u)[i] = IF i =< Len(st) THEN st[i] ELSE u[i - Len(st)]
  <2>1. st \in Seq(Nat) /\ u \in Seq(Nat)
    BY <1>1
  <2> QED
    BY <2>1, ConcatProperties, Zenon
<1> DEFINE a == Len(s)
           b == Len(t)
           c == Len(u)
<1>3. a \in Nat /\ b \in Nat /\ c \in Nat
  OBVIOUS
<1>4. ASSUME NEW i \in 1 .. a + b + c
      PROVE  (st \o u)[i] = IF i =< a THEN s[i]
                             ELSE IF i =< a + b THEN t[i - a] ELSE u[i - a - b]
  <2> HIDE DEF a, b, c
  <2>1. i \in Int /\ 1 =< i /\ i =< a + b + c /\ a + b \in Nat
    BY <1>3
  <2>2. /\ Len(st) = a + b
        /\ \A j \in 1 .. a + b : st[j] = IF j =< a THEN s[j] ELSE t[j - a]
        /\ \A j \in 1 .. a + b + c :
             (st \o u)[j] = IF j =< a + b THEN st[j] ELSE u[j - (a + b)]
    BY <1>1, <1>2 DEF a, b, c
  <2>3. (st \o u)[i] = IF i =< a + b THEN st[i] ELSE u[i - (a + b)]
    BY <2>2
  <2>4. CASE i =< a + b
    <3>1. i \in 1 .. a + b
      BY <2>1, <2>4
    <3>2. st[i] = IF i =< a THEN s[i] ELSE t[i - a]
      BY <2>2, <3>1
    <3> QED
      BY <2>3, <2>4, <3>2
  <2>5. CASE ~(i =< a + b)
    <3>1. i - (a + b) = i - a - b /\ ~(i =< a)
      BY <1>3, <2>1, <2>5
    <3> QED
      BY <2>3, <2>5, <3>1
  <2> QED
    BY <2>4, <2>5
<1>5. Len(st \o u) = a + b + c
  BY <1>1, <1>2
<1>6. /\ st \o u \in Seq(Nat) /\ Len(st \o u) = Len(s) + Len(t) + Len(u)
      /\ \A i \in 1 .. Len(s) + Len(t) + Len(u) :
           (st \o u)[i] = IF i =< Len(s) THEN s[i]
                          ELSE IF i =< Len(s) + Len(t) THEN t[i - Len(s)]
                          ELSE u[i - Len(s) - Len(t)]
  BY <1>2, <1>4, <1>5, Zenon
<1> QED
  BY <1>6, Zenon DEF st

LEMMA OverwrittenIs ==
  ASSUME file \in Seq(Nat), NEW o \in 0 .. Len(file), NEW bytes \in Seq(Nat)
  PROVE  LET new == Overwritten(o, bytes) IN
         /\ new \in Seq(Nat)
         /\ Len(new) = IF o + Len(bytes) > Len(file) THEN o + Len(bytes)
                       ELSE Len(file)
         /\ \A i \in 1 .. Len(new) :
              new[i] = IF i \in o + 1 .. o + Len(bytes) THEN bytes[i - o]
                       ELSE file[i]
<1> DEFINE before == SubSeq(file, 1, o)
           after  == SubSeq(file, o + Len(bytes) + 1, Len(file))
<1>1. before \in Seq(Nat) /\ Len(before) = o /\ \A i \in 1 .. o : before[i] = file[i]
  <2>1. \A i \in 1 .. o : file[i] \in Nat
    OBVIOUS
  <2>2. before \in Seq(Nat)
    BY <2>1
  <2>3. Len(before) = o
    OBVIOUS
  <2>4. \A i \in 1 .. o : before[i] = file[i]
    OBVIOUS
  <2> QED
    BY <2>2, <2>3, <2>4
<1>2. /\ after \in Seq(Nat)
      /\ Len(after) = IF o + Len(bytes) > Len(file) THEN 0
                      ELSE Len(file) - (o + Len(bytes))
      /\ \A i \in 1 .. Len(after) : after[i] = file[o + Len(bytes) + i]
  OBVIOUS
<1>3. Overwritten(o, bytes) = before \o bytes \o after
  BY DEF Overwritten
<1> HIDE DEF before, after
<1> DEFINE b == Len(bytes)
           r == Len(after)
<1>4. o \in Nat /\ b \in Nat /\ r \in Nat /\ Len(file) \in Nat /\ o =< Len(file)
  BY <1>2
<1>5. /\ before \o bytes \o after \in Seq(Nat)
      /\ Len(before \o bytes \o after) = o + b + r
      /\ \A i \in 1 .. o + b + r :
           (before \o bytes \o after)[i] =
             IF i =< o THEN before[i]
             ELSE IF i =< o + b THEN bytes[i - o] ELSE after[i - o - b]
  <2>1. /\ before \o bytes \o after \in Seq(Nat)
        /\ Len(before \o bytes \o after) = Len(before) + Len(bytes) + Len(after)
        /\ \A i \in 1 .. Len(before) + Len(bytes) + Len(after) :
             (before \o bytes \o after)[i] =
               IF i =< Len(before) THEN before[i]
               ELSE IF i =< Len(before) + Len(bytes) THEN bytes[i - Len(before)]
               ELSE after[i - Len(before) - Len(bytes)]
    BY <1>1, <1>2, ThreeParts, Zenon
  <2>2. Len(before) = o
    BY <1>1
  <2> QED
    BY <2>1, <2>2, Zenon
<1>6. ASSUME NEW i \in 1 .. o + b + r
      PROVE  (before \o bytes \o after)[i] =
               IF i \in o + 1 .. o + b THEN bytes[i - o] ELSE file[i]
  <2>i. i \in Int
    BY <1>4
  <2>1. CASE i =< o
    BY <1>1, <1>4, <1>5, <2>1
  <2>2. CASE ~(i =< o) /\ i =< o + b
    BY <1>4, <1>5, <2>2
  <2>3. CASE ~(i =< o + b)
    <3>1. i - o - b \in 1 .. r /\ ~(i =< o) /\ i \notin o + 1 .. o + b
      BY <1>4, <2>i, <2>3
    <3>2. after[i - o - b] = file[i]
      <4>1. after[i - o - b] = file[o + b + (i - o - b)]
        BY <1>2, <3>1, Zenon
      <4>2. o + b + (i - o - b) = i
        BY <1>4, <2>i
      <4> QED
        BY <4>1, <4>2
    <3> HIDE DEF b, r
    <3> QED
      BY <1>4, <1>5, <2>3, <3>1, <3>2
  <2> QED
    BY <2>1, <2>2, <2>3
<1>7. o + b + r = IF o + b > Len(file) THEN o + b ELSE Len(file)
  <2> DEFINE l == Len(file)
  <2>1. r = IF o + b > l THEN 0 ELSE l - (o + b)
    BY <1>2, Zenon
  <2>2. o \in Nat /\ b \in Nat /\ l \in Nat
    BY <1>4, Zenon
  <2> HIDE DEF b, r, l
  <2>3. o + b + r = IF o + b > l THEN o + b ELSE l
    BY <2>1, <2>2
  <2> QED
    BY <2>3, Zenon DEF l
<1> QED
  BY <1>3, <1>5, <1>6, <1>7

LEMMA BytesIs ==
  ASSUME file \in Seq(Nat), NEW o \in Nat, NEW n \in Nat, o + n =< Len(file)
  PROVE  /\ Bytes(o, n) \in Seq(Nat) /\ Len(Bytes(o, n)) = n
         /\ \A i \in 1 .. n : Bytes(o, n)[i] = file[o + i]
<1>1. Least({o + n, Len(file)}) = o + n
  BY LeastOfTwo
<1>2. Bytes(o, n) = SubSeq(file, o + 1, o + n)
  BY <1>1 DEF Bytes
<1>3. /\ SubSeq(file, o + 1, o + n) \in Seq(Nat)
      /\ Len(SubSeq(file, o + 1, o + n)) = n
  OBVIOUS
<1>4. \A i \in 1 .. n : SubSeq(file, o + 1, o + n)[i] = file[o + i]
  OBVIOUS
<1> QED
  BY <1>2, <1>3, <1>4

-----------------------------------------------------------------------------
(* Types                                                                   *)

LEMMA TextType ==
  \A text \in Texts \cup {<<>>} :
    text \in Seq(Nat) /\ text \in Seq(Nat \ {0}) /\ Len(text) < MESSAGE_MAXSIZE
<1>1. ASSUME NEW text \in Texts PROVE text \in Seq(Nat)
  <2>1. text \in Seq(Nat \ {0})
    BY StoreFileAssumption
  <2> QED
    BY <2>1
<1>2. <<>> \in Seq(Nat) /\ <<>> \in Seq(Nat \ {0}) /\ Len(<<>>) < MESSAGE_MAXSIZE
  BY StoreFileAssumption
<1>3. \A text \in Texts : text \in Seq(Nat \ {0}) /\ Len(text) < MESSAGE_MAXSIZE
  BY StoreFileAssumption
<1> QED
  BY <1>1, <1>2, <1>3, Zenon

(* The products of a record's size that the offsets are made of.           *)
LEMMA WholeRecords ==
  ASSUME NEW n \in Nat, NEW M \in Nat \ {0}, NEW i \in Nat, i =< n \div M
  PROVE  i * M =< n
<1>1. (n \div M) * M =< n
  OBVIOUS
<1>2. i * M =< (n \div M) * M
  OBVIOUS
<1> QED
  BY <1>1, <1>2

LEMMA Products ==
  ASSUME NEW M \in Nat \ {0}, NEW i \in Nat \ {0}
  PROVE  /\ i * M \in Nat /\ i * M >= M
         /\ (i - 1) * M = i * M - M /\ (-i) * M = -(i * M)
<1>1. i * M \in Nat
  OBVIOUS
<1>2. (i - 1) * M = i * M - M /\ (i - 1) * M >= 0
  OBVIOUS
<1>3. (-i) * M = -(i * M)
  OBVIOUS
<1> QED
  BY <1>1, <1>2, <1>3

(* An index that is not refused names a record that is there, or 0.        *)
LEMMA OffsetIs ==
  ASSUME file \in Seq(Nat), NEW index \in Int, ~(message_count < Absolute(index))
  PROVE  /\ Offset(index) \in 0 .. Len(file)
         /\ index # 0 => Offset(index) + MESSAGE_MAXSIZE =< Len(file)
<1> DEFINE M == MESSAGE_MAXSIZE
           n == Len(file)
<1>1. M \in Nat \ {0} /\ n \in Nat
  BY StoreFileAssumption
<1>2. /\ message_count = n \div M
      /\ Absolute(index) = IF index < 0 THEN -index ELSE index
      /\ Offset(index) = IF index =< 0 THEN n + index * M ELSE (index - 1) * M
  BY DEF message_count, Absolute, Offset
<1> HIDE DEF M, n
<1>3. Absolute(index) \in Nat /\ Absolute(index) =< n \div M
  BY <1>1, <1>2
<1>4. ASSUME NEW i \in Nat, i =< n \div M PROVE i * M =< n
  BY <1>1, <1>4, WholeRecords
<1>5. CASE index = 0
  <2>1. Offset(index) = n
    BY <1>1, <1>2, <1>5
  <2> QED
    BY <1>1, <1>5, <2>1 DEF n
<1>6. CASE index > 0
  <2>1. index \in Nat /\ index * M =< n
    BY <1>2, <1>3, <1>4, <1>6
  <2>2. (index - 1) * M = index * M - M /\ index * M >= M /\ index * M \in Int
    BY <1>1, <1>6, Products
  <2> QED
    BY <1>1, <1>2, <1>6, <2>1, <2>2 DEF M, n
<1>7. CASE index < 0
  <2> DEFINE i == -index
             p == i * M
  <2>1. i \in Nat \ {0} /\ p =< n /\ index = -i
    BY <1>2, <1>3, <1>4, <1>7
  <2>2. index * M = -p /\ p >= M /\ p \in Int
    <3> HIDE DEF i
    <3> QED
      BY <1>1, <2>1, Products
  <2>3. Offset(index) = n + index * M
    BY <1>2, <1>7
  <2> HIDE DEF i, p
  <2>4. Offset(index) = n - p
    BY <1>1, <2>2, <2>3
  <2>5. Offset(index) \in 0 .. n /\ Offset(index) + M =< n
    BY <1>1, <2>1, <2>2, <2>4
  <2> QED
    BY <2>5 DEF M, n
<1> QED
  BY <1>5, <1>6, <1>7

(* An operation under way is in the middle of its record.                  *)
UnderWay ==
  pc # "idle" =>
    /\ want >= 1 /\ fpos + want = offset + MESSAGE_MAXSIZE /\ fpos >= offset
    /\ offset + MESSAGE_MAXSIZE =< IF pc = "read" THEN Len(file) ELSE MaxBytes
    /\ outcome = <<"pending">> /\ op.kind = pc

Typed == TypeOK /\ UnderWay

LEMMA TypeInit == Init => Typed
  BY StoreFileAssumption DEF Init, Typed, TypeOK, UnderWay

(* Where records start stays inside a file that does not get shorter.      *)
LEMMA StartsType ==
  ASSUME Typed, Noted \/ UNCHANGED starts, Len(file') \in Nat, Len(file) =< Len(file')
  PROVE  starts' \in Seq(0 .. Len(file'))
<1>1. /\ Len(file) \in Nat /\ starts \in Seq(0 .. Len(file))
      /\ Len(file) \in 0 .. Len(file')
  BY DEF Typed, TypeOK
<1>2. starts \in Seq(0 .. Len(file'))
  <2>1. \A i \in 1 .. Len(starts) : starts[i] \in 0 .. Len(file')
    <3>1. \A i \in 1 .. Len(starts) : starts[i] \in 0 .. Len(file)
      BY <1>1, ElementOfSeq
    <3> QED
      BY <1>1, <3>1
  <2>2. starts \in [1 .. Len(starts) -> 0 .. Len(file')] /\ Len(starts) \in Nat
    BY <1>1, <2>1
  <2> QED
    BY <2>2, SeqDef
<1>3. Append(starts, Len(file)) \in Seq(0 .. Len(file'))
  BY <1>1, <1>2
<1> QED
  BY <1>2, <1>3 DEF Noted

LEMMA BeginsType ==
  ASSUME Typed, pc = "idle", NEW index \in Int, ~(message_count < Absolute(index)),
         NEW kind \in {"read", "write"}, Begins(kind, index), op'.kind = kind,
         kind = "read" => index # 0 /\ buf' = <<>>,
         kind = "write" => /\ Offset(index) + MESSAGE_MAXSIZE =< MaxBytes
                           /\ buf' \in Seq(Nat) /\ Len(buf') = MESSAGE_MAXSIZE
  PROVE  Typed'
<1>1. /\ Offset(index) \in 0 .. Len(file)
      /\ index # 0 => Offset(index) + MESSAGE_MAXSIZE =< Len(file)
  BY OffsetIs DEF Typed, TypeOK
<1>2. /\ MESSAGE_MAXSIZE \in Nat \ {0} /\ file' = file /\ pc' = kind
      /\ offset' = Offset(index) /\ fpos' = Offset(index) /\ starts' = starts
      /\ want' = MESSAGE_MAXSIZE /\ outcome' = <<"pending">>
  BY StoreFileAssumption DEF Begins
<1>3. buf' \in Seq(Nat) /\ (kind = "write" => Len(buf') = MESSAGE_MAXSIZE)
  <2>1. <<>> \in Seq(Nat)
    OBVIOUS
  <2> QED
    BY <2>1
<1>4. /\ file \in Seq(Nat) /\ Len(file) =< MaxBytes /\ Len(file) \in Nat
      /\ starts' \in Seq(0 .. Len(file'))
  BY <1>2 DEF Typed, TypeOK
<1>5. TypeOK'
  BY <1>1, <1>2, <1>3, <1>4 DEF TypeOK
<1>6. UnderWay'
  BY <1>1, <1>2, <1>4 DEF UnderWay
<1> QED
  BY <1>5, <1>6 DEF Typed

LEMMA WriteType ==
  ASSUME Typed, NEW index \in Int, NEW text \in Texts \cup {<<>>},
         message_store_write(index, text)
  PROVE  Typed'
<1>1. CASE message_count < Absolute(index)
  BY <1>1 DEF message_store_write, Refused, Typed, TypeOK, UnderWay
<1>2. CASE ~(message_count < Absolute(index))
  <2>1. buf' \in Seq(Nat) /\ Len(buf') = MESSAGE_MAXSIZE
    BY <1>2, TextType, PaddedIs, StoreFileAssumption DEF message_store_write
  <2>2. op'.kind = "write"
    BY DEF message_store_write
  <2> QED
    BY <1>2, <2>1, <2>2, BeginsType DEF message_store_write
<1> QED
  BY <1>1, <1>2

LEMMA ReadType ==
  ASSUME Typed, NEW index \in Int, message_store_read(index)
  PROVE  Typed'
<1>1. CASE message_count = 0 \/ message_count < Absolute(index) \/ index = 0
  BY <1>1 DEF message_store_read, Refused, Typed, TypeOK, UnderWay
<1>2. CASE ~(message_count = 0 \/ message_count < Absolute(index) \/ index = 0)
  <2>1. op'.kind = "read"
    BY DEF message_store_read
  <2> QED
    BY <1>2, <2>1, BeginsType DEF message_store_read
<1> QED
  BY <1>1, <1>2

LEMMA ReturnsType ==
  ASSUME Typed, NEW result, Returns(result), file' \in Seq(Nat),
         Len(file') =< MaxBytes, Len(file) =< Len(file'), fpos' \in 0 .. Len(file'),
         Noted \/ UNCHANGED starts
  PROVE  Typed'
<1>1. starts' \in Seq(0 .. Len(file'))
  BY StartsType
<1> QED
  BY <1>1, StoreFileAssumption DEF Typed, TypeOK, UnderWay, Returns

(* What a write() of the first n bytes of buf does to the file.            *)
LEMMA WriteIs ==
  ASSUME Typed, pc = "write", NEW n \in 1 .. want,
         file' = Overwritten(fpos, SubSeq(buf, 1, n))
  PROVE  /\ file' \in Seq(Nat) /\ Len(file') =< MaxBytes /\ Len(file) =< Len(file')
         /\ Len(file') = IF fpos + n > Len(file) THEN fpos + n ELSE Len(file)
         /\ fpos + n =< Len(file') /\ fpos + n =< offset + MESSAGE_MAXSIZE
         /\ \A i \in 1 .. Len(file') :
              file'[i] = IF i \in fpos + 1 .. fpos + n THEN buf[i - fpos] ELSE file[i]
<1> DEFINE bytes == SubSeq(buf, 1, n)
<1>t. /\ file \in Seq(Nat) /\ fpos \in 0 .. Len(file) /\ offset \in Nat
      /\ buf \in Seq(Nat) /\ Len(buf) = want /\ want \in Nat /\ n \in Nat /\ n =< want
      /\ fpos + want = offset + MESSAGE_MAXSIZE /\ Len(file) =< MaxBytes
      /\ offset + MESSAGE_MAXSIZE =< MaxBytes /\ MaxBytes \in Nat
  BY StoreFileAssumption DEF Typed, TypeOK, UnderWay
<1>1. bytes \in Seq(Nat) /\ Len(bytes) = n /\ \A i \in 1 .. n : bytes[i] = buf[i]
  <2>1. \A i \in 1 .. n : buf[i] \in Nat
    BY <1>t
  <2>2. bytes \in Seq(Nat)
    BY <1>t, <2>1
  <2>3. Len(bytes) = n
    BY <1>t
  <2>4. \A i \in 1 .. n : bytes[i] = buf[i]
    BY <1>t
  <2> QED
    BY <2>2, <2>3, <2>4
<1> HIDE DEF bytes
<1>2. /\ file' \in Seq(Nat)
      /\ Len(file') = IF fpos + n > Len(file) THEN fpos + n ELSE Len(file)
      /\ \A i \in 1 .. Len(file') :
           file'[i] = IF i \in fpos + 1 .. fpos + n THEN bytes[i - fpos] ELSE file[i]
  BY <1>t, <1>1, OverwrittenIs DEF bytes
<1>3. ASSUME NEW i \in fpos + 1 .. fpos + n PROVE bytes[i - fpos] = buf[i - fpos]
  <2>1. i - fpos \in 1 .. n
    BY <1>t
  <2> QED
    BY <1>1, <2>1
<1>4. /\ Len(file') =< MaxBytes /\ Len(file) =< Len(file')
      /\ fpos + n =< Len(file') /\ fpos + n =< offset + MESSAGE_MAXSIZE
  <2> DEFINE l == Len(file)
             ll == Len(file')
  <2>1. /\ l \in Nat /\ ll = IF fpos + n > l THEN fpos + n ELSE l
        /\ fpos \in Nat /\ fpos =< l
    BY <1>t, <1>2
  <2>2. MESSAGE_MAXSIZE \in Nat
    BY StoreFileAssumption
  <2> HIDE DEF l, ll
  <2>3. ll =< MaxBytes /\ l =< ll /\ fpos + n =< ll
    BY <1>t, <2>1, <2>2 DEF l
  <2> QED
    BY <1>t, <2>1, <2>2, <2>3 DEF l, ll
<1>5. ASSUME NEW i \in 1 .. Len(file')
      PROVE  file'[i] = IF i \in fpos + 1 .. fpos + n THEN buf[i - fpos] ELSE file[i]
  BY <1>2, <1>3
<1> QED
  BY <1>2, <1>4, <1>5

(* WriteAll as a write of the first want bytes.                            *)
LEMMA WriteAllIs ==
  ASSUME Typed, WriteAll
  PROVE  want \in 1 .. want /\ file' = Overwritten(fpos, SubSeq(buf, 1, want))
<1>1. buf \in Seq(Nat) /\ Len(buf) = want /\ want \in Nat /\ want >= 1
  BY DEF Typed, TypeOK, UnderWay, WriteAll
<1>2. SubSeq(buf, 1, want) = buf
  BY <1>1
<1>3. want \in 1 .. want
  BY <1>1
<1>4. file' = Overwritten(fpos, buf)
  BY DEF WriteAll
<1>5. file' = Overwritten(fpos, SubSeq(buf, 1, want))
  BY <1>2, <1>4, Zenon
<1> QED
  BY <1>3, <1>5

LEMMA ShiftedType ==
  ASSUME Typed, pc = "write", NEW n \in 1 .. want - 1
  PROVE  CString(Shifted(n)) \in Seq(Nat)
<1> DEFINE rest == CString(SubSeq(buf, n + 1, want))
<1>1. buf \in Seq(Nat) /\ Len(buf) = want /\ want \in Nat
  BY DEF Typed, TypeOK
<1>2. SubSeq(buf, n + 1, want) \in Seq(Nat)
  BY <1>1
<1>3. rest \in Seq(Nat)
  BY <1>2, CStringIs
<1> HIDE DEF rest
<1>4. Len(rest) + 1 \in 1 .. Len(rest) + 1 /\ Len(rest) \in Nat
  BY <1>3
<1>5. SubSeq(buf, Len(rest) + 1, want) \in Seq(Nat)
  BY <1>1, <1>4
<1>6. Shifted(n) \in Seq(Nat)
  BY <1>3, <1>5 DEF Shifted, rest
<1> QED
  BY <1>6, CStringIs

LEMMA TransferType ==
  ASSUME Typed, WriteAll \/ WriteShort \/ ReadAll \/ ReadShort
  PROVE  Typed'
<1>t. /\ file \in Seq(Nat) /\ fpos \in 0 .. Len(file) /\ offset \in 0 .. Len(file)
      /\ Len(file) \in Nat /\ want \in 0 .. MESSAGE_MAXSIZE
      /\ MESSAGE_MAXSIZE \in Nat \ {0} /\ buf \in Seq(Nat)
  BY StoreFileAssumption DEF Typed, TypeOK
<1>1. CASE WriteAll
  <2>1. /\ file' \in Seq(Nat) /\ Len(file') =< MaxBytes /\ Len(file) =< Len(file')
        /\ fpos + want =< Len(file')
    BY <1>1, WriteAllIs, WriteIs DEF WriteAll
  <2>2. fpos' \in 0 .. Len(file')
    BY <1>t, <1>1, <2>1 DEF WriteAll
  <2> QED
    BY <1>1, <2>1, <2>2, ReturnsType DEF WriteAll
<1>2. CASE WriteShort
  <2>1. PICK n \in 1 .. want - 1 :
             /\ file' = Overwritten(fpos, SubSeq(buf, 1, n))
             /\ fpos' = fpos + n /\ want' = want - n
             /\ buf' = Padded(want - n, CString(Shifted(n)))
    BY <1>2 DEF WriteShort
  <2>2. pc = "write" /\ UNCHANGED <<pc, op, offset, outcome>>
    BY <1>2 DEF WriteShort
  <2>3. /\ file' \in Seq(Nat) /\ Len(file') =< MaxBytes /\ Len(file) =< Len(file')
        /\ fpos + n =< Len(file')
    <3>1. n \in 1 .. want
      BY <1>t, <2>1
    <3> QED
      BY <2>1, <2>2, <3>1, WriteIs
  <2>4. n \in Nat \ {0} /\ want - n \in Nat \ {0} /\ want - n =< MESSAGE_MAXSIZE
    BY <1>t, <2>1
  <2>5. buf' \in Seq(Nat) /\ Len(buf') = want - n
    BY <2>1, <2>2, <2>4, ShiftedType, PaddedIs
  <2>6. TypeOK'
    <3>1. starts' \in Seq(0 .. Len(file'))
      BY <1>2, <2>3, StartsType DEF WriteShort
    <3> QED
      BY <1>t, <2>1, <2>2, <2>3, <2>4, <2>5, <3>1 DEF TypeOK
  <2>7. UnderWay'
    BY <1>t, <2>1, <2>2, <2>3, <2>4 DEF Typed, UnderWay
  <2> QED
    BY <2>6, <2>7 DEF Typed
<1>3. CASE ReadAll
  <2>1. file' = file /\ fpos' = fpos + want /\ fpos + want =< Len(file)
    BY <1>3 DEF ReadAll, Typed, TypeOK
  <2>2. Len(file) =< MaxBytes
    BY DEF Typed, TypeOK
  <2> QED
    BY <1>t, <1>3, <2>1, <2>2, ReturnsType DEF ReadAll
<1>4. CASE ReadShort
  <2>1. PICK n \in 1 .. want - 1 :
             /\ fpos' = fpos + n /\ want' = want - n
             /\ IF Terminated(Bytes(fpos, n))
                THEN buf' = buf \o CString(Bytes(fpos, n))
                ELSE \E g \in Garbage : buf' = buf \o Bytes(fpos, n) \o g
    BY <1>4 DEF ReadShort
  <2>2. pc = "read" /\ UNCHANGED <<file, pc, op, offset, outcome, starts>>
    BY <1>4 DEF ReadShort
  <2>3. n \in Nat /\ fpos + n =< Len(file) /\ fpos \in Nat
        /\ fpos + want =< Len(file) /\ want - n \in Nat \ {0}
        /\ want - n =< MESSAGE_MAXSIZE
    BY <1>t, <2>1, <2>2 DEF Typed, TypeOK
  <2>4. buf' \in Seq(Nat)
    <3>1. Bytes(fpos, n) \in Seq(Nat)
      BY <1>t, <2>3, BytesIs
    <3>2. CString(Bytes(fpos, n)) \in Seq(Nat)
      BY <3>1, CStringIs
    <3>3. ASSUME NEW g \in Garbage PROVE g \in Seq(Nat)
      <4>1. g \in Seq(Nat \ {0})
        BY StoreFileAssumption
      <4> QED
        BY <4>1
    <3> DEFINE bytes == Bytes(fpos, n)
               text == CString(Bytes(fpos, n))
    <3>4. bytes \in Seq(Nat) /\ text \in Seq(Nat) /\ buf \in Seq(Nat)
      BY <3>1, <3>2 DEF Typed, TypeOK
    <3>5. \/ buf' = buf \o text
          \/ \E g \in Garbage : buf' = buf \o bytes \o g
      BY <2>1, Zenon
    <3> HIDE DEF bytes, text
    <3>6. CASE buf' = buf \o text
      BY <3>4, <3>6
    <3>7. CASE \E g \in Garbage : buf' = buf \o bytes \o g
      <4>1. PICK g \in Garbage : buf' = buf \o bytes \o g
        BY <3>7
      <4>2. g \in Seq(Nat)
        BY <3>3
      <4>3. buf \o bytes \in Seq(Nat)
        BY <3>4
      <4> QED
        BY <4>1, <4>2, <4>3
    <3> QED
      BY <3>5, <3>6, <3>7
  <2>5. TypeOK'
    BY <1>t, <2>1, <2>2, <2>3, <2>4 DEF Typed, TypeOK
  <2>6. UnderWay'
    BY <1>t, <2>1, <2>2, <2>3 DEF Typed, UnderWay
  <2> QED
    BY <2>5, <2>6 DEF Typed
<1> QED
  BY <1>1, <1>2, <1>3, <1>4

LEMMA TypeStep == Typed /\ [Next]_vars => Typed'
<1> SUFFICES ASSUME Typed, [Next]_vars PROVE Typed'
  OBVIOUS
<1>1. ASSUME NEW index \in Indices,
             \/ \E text \in Texts : message_store_write(index, text)
             \/ message_store_read(index) \/ message_store_delete(index)
      PROVE  Typed'
  <2>1. index \in Int
    BY StoreFileAssumption
  <2> QED
    BY <1>1, <2>1, WriteType, ReadType DEF message_store_delete
<1>2. CASE CallFails \/ Killed
  <2>1. /\ file' = file /\ (fpos' = fpos \/ fpos' = 0)
        /\ file \in Seq(Nat) /\ Len(file) =< MaxBytes /\ fpos \in 0 .. Len(file)
    BY <1>2 DEF CallFails, Killed, Typed, TypeOK
  <2>2. Len(file) =< Len(file') /\ fpos' \in 0 .. Len(file')
    BY <2>1
  <2>3. Returns(<<"error">>) /\ UNCHANGED starts
    BY <1>2 DEF CallFails, Killed
  <2> QED
    BY <2>1, <2>2, <2>3, ReturnsType
<1>3. CASE UNCHANGED vars
  BY <1>3 DEF vars, Typed, TypeOK, UnderWay
<1> QED
  BY <1>1, <1>2, <1>3, TransferType DEF Next

(* TypeOK: the offset of the descriptor is always inside the file, and an  *)
(* operation that was not refused works on bytes that exist, whatever part *)
(* of a record an earlier writer has left (message_count, lseek).          *)
THEOREM FileTypes == Spec => []TypeOK
<1>1. Typed => TypeOK
  BY DEF Typed
<1> QED
  BY <1>1, TypeInit, TypeStep, PTL DEF Spec

-----------------------------------------------------------------------------
(* Records                                                                 *)

(* Records that are whole from the p-th up to the r-th follow one another  *)
(* without a gap.                                                          *)
Chain(p, r) ==
  (\A q \in p .. r - 1 : starts[q + 1] - starts[q] = MESSAGE_MAXSIZE)
    => starts[r] = starts[p] + (r - p) * MESSAGE_MAXSIZE

(* Where records start, and where a write under way is.                    *)
StartsInv ==
  /\ \A r \in 1 .. Len(starts) : \A p \in 1 .. r : Chain(p, r)
  /\ IF starts = <<>> THEN Len(file) = 0 ELSE starts[1] = 0

WriteInv ==
  pc = "write" =>
    /\ op.index \in Int
    /\ IF op.index = 0
       THEN fpos = Len(file) /\ (want < MESSAGE_MAXSIZE => starts # <<>>)
       ELSE offset = Offset(op.index) /\ offset + MESSAGE_MAXSIZE =< Len(file)

PlaceInv == Typed /\ StartsInv /\ WriteInv

LEMMA PlaceInit == Init => PlaceInv
<1> SUFFICES ASSUME Init PROVE PlaceInv
  OBVIOUS
<1>1. starts = <<>> /\ Len(file) = 0 /\ Len(starts) = 0 /\ pc = "idle"
  BY DEF Init
<1> QED
  BY <1>1, TypeInit DEF PlaceInv, StartsInv, WriteInv

(* What a write() of the first bytes of buf does to the history.           *)
LEMMA NotedKeeps ==
  ASSUME PlaceInv, pc = "write", Noted, NEW n \in 1 .. want,
         file' = Overwritten(fpos, SubSeq(buf, 1, n))
  PROVE  /\ StartsInv' /\ (op.index = 0 => starts' # <<>>)
         /\ op.index # 0 => starts' = starts /\ Len(file') = Len(file)
         /\ op.index = 0 => Len(file') = fpos + n
<1> DEFINE N == Len(starts)
           M == MESSAGE_MAXSIZE
<1>t. /\ N \in Nat /\ M \in Nat \ {0} /\ starts \in Seq(Nat)
      /\ want \in 1 .. M /\ n \in Nat \ {0} /\ Len(file) \in Nat /\ fpos \in Nat
      /\ fpos =< Len(file)
  <2>1. starts \in Seq(0 .. Len(file)) /\ Len(file) \in Nat
    BY DEF PlaceInv, Typed, TypeOK
  <2>2. starts \in Seq(Nat)
    <3>1. \A i \in 1 .. Len(starts) : starts[i] \in Nat
      BY <2>1, ElementOfSeq
    <3>2. starts \in [1 .. Len(starts) -> Nat] /\ Len(starts) \in Nat
      BY <2>1, <3>1
    <3> QED
      BY <3>2, SeqDef
  <2> QED
    BY <2>1, <2>2, StoreFileAssumption DEF PlaceInv, Typed, TypeOK, UnderWay
<1>w. /\ Len(file') = IF fpos + n > Len(file) THEN fpos + n ELSE Len(file)
      /\ fpos + n =< offset + M
  BY WriteIs DEF PlaceInv
<1>i. /\ \A r \in 1 .. N : \A p \in 1 .. r : Chain(p, r)
      /\ IF starts = <<>> THEN Len(file) = 0 ELSE starts[1] = 0
  BY DEF PlaceInv, StartsInv
<1>1. CASE op.index # 0
  <2>1. starts' = starts
    BY <1>1 DEF Noted
  <2>2. Len(file') = Len(file)
    <3>1. offset + M =< Len(file) /\ offset \in Nat
      BY <1>1 DEF PlaceInv, WriteInv, Typed, TypeOK
    <3> HIDE DEF M
    <3> QED
      BY <1>t, <1>w, <3>1
  <2>3. StartsInv'
    BY <1>i, <2>1, <2>2 DEF StartsInv, Chain
  <2> QED
    BY <1>1, <2>1, <2>2, <2>3
<1>2. CASE op.index = 0 /\ want # M
  <2>1. starts' = starts /\ starts # <<>>
    BY <1>t, <1>2 DEF Noted, PlaceInv, WriteInv
  <2>2. Len(file') = fpos + n
    BY <1>t, <1>w, <1>2 DEF PlaceInv, WriteInv
  <2>3. StartsInv'
    BY <1>i, <2>1 DEF StartsInv, Chain
  <2> QED
    BY <1>2, <2>1, <2>2, <2>3
<1>3. CASE op.index = 0 /\ want = M
  <2>1. /\ starts' = Append(starts, Len(file)) /\ Len(starts') = N + 1
        /\ starts'[N + 1] = Len(file) /\ \A i \in 1 .. N : starts'[i] = starts[i]
        /\ starts' # <<>>
    BY <1>t, <1>3 DEF Noted
  <2>2. Len(file') = fpos + n
    BY <1>t, <1>w, <1>3 DEF PlaceInv, WriteInv
  <2>3. starts'[1] = 0
    <3>1. CASE starts = <<>>
      BY <1>i, <2>1, <3>1
    <3>2. CASE starts # <<>>
      <4>1. 1 \in 1 .. N
        BY <1>t, <3>2
      <4> QED
        BY <1>i, <2>1, <3>2, <4>1
    <3> QED
      BY <3>1, <3>2
  <2>4. ASSUME NEW r \in 1 .. N + 1, NEW p \in 1 .. r,
               \A q \in p .. r - 1 : starts'[q + 1] - starts'[q] = M
        PROVE  starts'[r] = starts'[p] + (r - p) * M
    <3>1. CASE r = p
      <4>1. starts'[p] \in Nat /\ (r - p) * M = 0
        <5>1. starts' \in Seq(Nat) /\ p \in 1 .. Len(starts')
          BY <1>t, <2>1
        <5> HIDE DEF M
        <5> QED
          BY <1>t, <3>1, <5>1, ElementOfSeq
      <4> QED
        BY <3>1, <4>1
    <3>2. CASE r # p /\ r =< N
      <4>1. r \in 1 .. N /\ p \in 1 .. N
        BY <1>t, <3>2
      <4>2. ASSUME NEW q \in p .. r - 1 PROVE starts[q + 1] - starts[q] = M
        <5>1. q \in 1 .. N /\ q + 1 \in 1 .. N
          BY <1>t, <4>1
        <5>2. starts'[q + 1] - starts'[q] = M
          BY <2>4
        <5> QED
          BY <2>1, <5>1, <5>2
      <4>3. starts[r] = starts[p] + (r - p) * M
        BY <1>i, <4>1, <4>2 DEF Chain
      <4> QED
        BY <2>1, <4>1, <4>3
    <3>3. CASE r # p /\ r = N + 1
      <4>1. N \in 1 .. N /\ p \in 1 .. N
        BY <1>t, <3>3
      <4>2. ASSUME NEW q \in p .. N - 1 PROVE starts[q + 1] - starts[q] = M
        <5>1. q \in 1 .. N /\ q + 1 \in 1 .. N /\ q \in p .. r - 1
          BY <1>t, <3>3, <4>1
        <5>2. starts'[q + 1] - starts'[q] = M
          BY <2>4, <5>1
        <5> QED
          BY <2>1, <5>1, <5>2
      <4>3. starts[N] = starts[p] + (N - p) * M
        BY <1>i, <4>1, <4>2 DEF Chain
      <4>4. Len(file) - starts[N] = M
        <5>1. N \in p .. r - 1
          BY <1>t, <3>3, <4>1
        <5> QED
          BY <2>1, <2>4, <4>1, <5>1
      <4>5. (r - p) * M = (N - p) * M + M
        <5> DEFINE d == N - p
        <5>1. d \in Nat /\ r - p = d + 1
          BY <1>t, <3>3, <4>1
        <5> HIDE DEF d, M
        <5>2. (d + 1) * M = d * M + M
          BY <1>t, <5>1
        <5> QED
          BY <5>1, <5>2 DEF d
      <4>6. /\ starts[N] \in Nat /\ starts[p] \in Nat /\ (N - p) * M \in Int
            /\ starts'[p] = starts[p] /\ starts'[r] = Len(file)
        BY <1>t, <2>1, <3>3, <4>1
      <4> QED
        <5> DEFINE a == (N - p) * M
                   b == (r - p) * M
        <5>1. a \in Int /\ b = a + M /\ starts[N] = starts[p] + a
          BY <4>3, <4>5, <4>6
        <5> HIDE DEF a, b
        <5>2. starts'[r] = starts'[p] + b
          <6> DEFINE sN == starts[N]
                     sp == starts[p]
                     tr == starts'[r]
                     tp == starts'[p]
                     l  == Len(file)
          <6>1. /\ sN \in Nat /\ sp \in Nat /\ l \in Nat /\ M \in Nat
                /\ l - sN = M /\ tp = sp /\ tr = l /\ sN = sp + a
            BY <1>t, <4>4, <4>6, <5>1
          <6> HIDE DEF sN, sp, tr, tp, l, M
          <6>2. tr = tp + b
            BY <5>1, <6>1
          <6> QED
            BY <6>2 DEF tr, tp
        <5> QED
          BY <5>2 DEF b
    <3> QED
      BY <1>t, <3>1, <3>2, <3>3
  <2>5. StartsInv'
    BY <2>1, <2>3, <2>4 DEF StartsInv, Chain
  <2> QED
    BY <1>3, <2>1, <2>2, <2>5
<1> QED
  BY <1>1, <1>2, <1>3

LEMMA PlaceStep == PlaceInv /\ [Next]_vars => PlaceInv'
<1> SUFFICES ASSUME PlaceInv, [Next]_vars PROVE StartsInv' /\ WriteInv'
  BY TypeStep DEF PlaceInv
<1>1. ASSUME UNCHANGED <<file, starts>>
      PROVE  StartsInv'
  BY <1>1 DEF PlaceInv, StartsInv, Chain
<1>2. ASSUME NEW index \in Int, NEW text, message_store_write(index, text)
      PROVE  StartsInv' /\ WriteInv'
  <2>1. UNCHANGED <<file, starts>> /\ op'.index = index
    BY <1>2 DEF message_store_write, Begins, Refused
  <2>2. CASE message_count < Absolute(index)
    BY <1>1, <1>2, <2>1, <2>2 DEF message_store_write, Refused, WriteInv
  <2>3. CASE ~(message_count < Absolute(index))
    <3>1. /\ offset' = Offset(index) /\ fpos' = Offset(index)
          /\ want' = MESSAGE_MAXSIZE
      BY <1>2, <2>3 DEF message_store_write, Begins
    <3>2. index # 0 => Offset(index) + MESSAGE_MAXSIZE =< Len(file)
      BY <2>3, OffsetIs DEF PlaceInv, Typed, TypeOK
    <3>3. index = 0 => Offset(index) = Len(file)
      BY StoreFileAssumption DEF Offset, PlaceInv, Typed, TypeOK
    <3>4. Offset(index)' = Offset(index)
      BY <2>1 DEF Offset
    <3>5. ~(MESSAGE_MAXSIZE < MESSAGE_MAXSIZE)
      BY StoreFileAssumption
    <3>6. WriteInv'
      BY <2>1, <3>1, <3>2, <3>3, <3>4, <3>5 DEF WriteInv, Offset
    <3> QED
      BY <1>1, <2>1, <3>6
  <2> QED
    BY <2>2, <2>3
<1>3. ASSUME NEW index \in Int, message_store_read(index)
      PROVE  StartsInv' /\ WriteInv'
  <2>1. UNCHANGED <<file, starts>> /\ pc' # "write"
    BY <1>3 DEF message_store_read, Begins, Refused
  <2> QED
    BY <1>1, <2>1 DEF WriteInv
<1>4. CASE ReadAll \/ ReadShort \/ CallFails \/ Killed
  <2>1. UNCHANGED <<file, starts>> /\ pc' # "write"
    BY <1>4 DEF ReadAll, ReadShort, CallFails, Killed, Returns
  <2> QED
    BY <1>1, <2>1 DEF WriteInv
<1>5. CASE WriteAll
  <2>1. pc' # "write" /\ pc = "write" /\ Noted
    BY <1>5 DEF WriteAll, Returns
  <2>2. StartsInv'
    BY <1>5, <2>1, WriteAllIs, NotedKeeps DEF PlaceInv
  <2> QED
    BY <2>1, <2>2 DEF WriteInv
<1>6. CASE WriteShort
  <2>1. PICK n \in 1 .. want - 1 :
             /\ file' = Overwritten(fpos, SubSeq(buf, 1, n))
             /\ fpos' = fpos + n /\ want' = want - n
    BY <1>6 DEF WriteShort
  <2>2. pc = "write" /\ Noted /\ UNCHANGED <<pc, op, offset>>
    BY <1>6 DEF WriteShort
  <2>3. n \in 1 .. want
    BY <2>1 DEF PlaceInv, Typed, TypeOK
  <2>4. /\ StartsInv' /\ (op.index = 0 => starts' # <<>>)
        /\ op.index # 0 => starts' = starts /\ Len(file') = Len(file)
        /\ op.index = 0 => Len(file') = fpos + n
    BY <2>1, <2>2, <2>3, NotedKeeps
  <2>5. WriteInv'
    <3>1. Len(file') = Len(file) => Offset(op.index)' = Offset(op.index)
      BY <2>2 DEF Offset
    <3> QED
      BY <2>1, <2>2, <2>4, <3>1 DEF PlaceInv, WriteInv
  <2> QED
    BY <2>4, <2>5
<1>7. CASE UNCHANGED vars
  BY <1>1, <1>7 DEF vars, PlaceInv, WriteInv, Offset
<1> QED
  BY <1>2, <1>3, <1>4, <1>5, <1>6, <1>7, StoreFileAssumption
  DEF Next, message_store_delete

(* The record that an index names, counting whole records only, is where   *)
(* message_store_write puts the descriptor.                                *)
LEMMA NamedIsThere ==
  ASSUME PlaceInv, pc = "write", op.index # 0,
         \A r \in Counted(op.index) : r \in DOMAIN starts /\ IsWhole(r)
  PROVE  /\ starts[Named(op.index)] = offset
         /\ Last(Named(op.index)) = offset + MESSAGE_MAXSIZE
<1> DEFINE N == Len(starts)
           M == MESSAGE_MAXSIZE
           k == op.index
           l == Len(file)
<1>t. /\ N \in Nat /\ M \in Nat \ {0} /\ k \in Int /\ l \in Nat /\ offset = Offset(k)
      /\ DOMAIN starts = 1 .. N
      /\ \A r \in 1 .. N : starts[r] \in Nat
  <2>1. starts \in Seq(0 .. Len(file)) /\ Len(file) \in Nat
    BY DEF PlaceInv, Typed, TypeOK
  <2>2. \A r \in 1 .. N : starts[r] \in Nat
    BY <2>1, ElementOfSeq
  <2> QED
    BY <2>1, <2>2, StoreFileAssumption DEF PlaceInv, WriteInv
<1>1. CASE k > 0
  <2>1. Named(k) = k /\ Counted(k) = 1 .. k
    BY <1>1 DEF Named, Counted
  <2>2. k \in 1 .. N /\ 1 \in 1 .. k
    BY <1>t, <1>1, <2>1
  <2>3. ASSUME NEW q \in 1 .. k - 1 PROVE starts[q + 1] - starts[q] = M
    <3>1. q \in 1 .. k /\ q # N
      <4> HIDE DEF k, N, M
      <4> QED
        BY <1>t, <2>2
    <3>2. IsWhole(q)
      BY <2>1, <3>1
    <3> QED
      BY <3>1, <3>2 DEF IsWhole, Last
  <2>4. starts[k] = starts[1] + (k - 1) * M
    BY <2>2, <2>3 DEF PlaceInv, StartsInv, Chain
  <2>5. starts[1] = 0
    BY <1>t, <2>2 DEF PlaceInv, StartsInv
  <2>6. Offset(k) = (k - 1) * M
    BY <1>t, <1>1 DEF Offset
  <2>7. Last(k) - starts[k] = M
    BY <2>1, <2>2 DEF IsWhole
  <2>8. Last(k) \in Int
    BY <1>t, <2>2 DEF Last
  <2>9. starts[k] \in Nat /\ (k - 1) * M \in Int
    BY <1>t, <1>1, <2>2
  <2> QED
    <3> DEFINE a == (k - 1) * M
    <3>1. a \in Int /\ starts[k] = 0 + a /\ offset = a
      BY <1>t, <2>4, <2>5, <2>6, <2>9
    <3> HIDE DEF a, M, N, k
    <3>2. starts[k] = offset /\ Last(k) = offset + M
      BY <1>t, <2>7, <2>8, <3>1
    <3> QED
      BY <2>1, <3>2 DEF k, M
<1>2. CASE k < 0
  <2> DEFINE p == Named(k)
  <2>1. p = N + 1 + k /\ Counted(k) = p .. N
    BY <1>t, <1>2 DEF Named, Counted
  <2>2. p \in 1 .. N /\ N \in 1 .. N
    <3>1. p \in p .. N
      BY <1>t, <1>2, <2>1
    <3>2. p \in 1 .. N
      BY <1>t, <2>1, <3>1
    <3> QED
      BY <1>t, <3>2
  <2>3. ASSUME NEW q \in p .. N - 1 PROVE starts[q + 1] - starts[q] = M
    <3>1. q \in p .. N /\ q # N
      <4> HIDE DEF p, k, N, M
      <4> QED
        BY <1>t, <2>2
    <3>2. IsWhole(q)
      BY <2>1, <3>1
    <3> QED
      BY <3>1, <3>2 DEF IsWhole, Last
  <2>4. starts[N] = starts[p] + (N - p) * M
    BY <2>2, <2>3 DEF PlaceInv, StartsInv, Chain
  <2>5. l - starts[N] = M
    <3>1. N \in Counted(k)
      BY <2>1, <2>2
    <3> QED
      BY <3>1 DEF IsWhole, Last
  <2>6. Last(p) - starts[p] = M
    <3>1. p \in Counted(k)
      BY <2>1, <2>2
    <3> QED
      BY <3>1 DEF IsWhole
  <2>7. Last(p) \in Int
    <3>1. p # N => p + 1 \in 1 .. N
      BY <1>t, <2>2
    <3> QED
      BY <1>t, <3>1 DEF Last
  <2>8. Offset(k) = l + k * M
    BY <1>t, <1>2 DEF Offset
  <2>9. (N - p) * M = -(k * M) - M /\ k * M \in Int
    <3> HIDE DEF p, M, N, k
    <3> DEFINE j == -k
    <3>1. N - p = j - 1 /\ k = -j /\ j \in Nat \ {0}
      BY <1>t, <1>2, <2>1
    <3> HIDE DEF j
    <3>2. (j - 1) * M = j * M - M /\ (-j) * M = -(j * M) /\ j * M \in Nat
      BY <1>t, <3>1, Products
    <3> DEFINE x == j * M
               y == k * M
               z == (N - p) * M
    <3>3. x \in Nat /\ y = -x /\ z = x - M
      BY <3>1, <3>2
    <3> HIDE DEF x, y, z
    <3>4. z = -y - M /\ y \in Int
      BY <1>t, <3>3
    <3> QED
      BY <3>4 DEF y, z
  <2>10. starts[p] = offset /\ Last(p) = offset + M
    <3> DEFINE a == k * M
               z == (N - p) * M
    <3>1. /\ a \in Int /\ z = -a - M /\ starts[N] = starts[p] + z
          /\ offset = l + a /\ starts[p] \in Nat /\ starts[N] \in Nat
      BY <1>t, <2>2, <2>4, <2>8, <2>9
    <3> HIDE DEF a, z, p, M, N, k, l
    <3> QED
      BY <1>t, <2>5, <2>6, <2>7, <3>1
  <2> QED
    BY <2>10
<1> QED
  BY <1>t, <1>1, <1>2

(* KeepsOtherRecords: an append changes nothing that was there, and what   *)
(* write() changes otherwise lies in the record that the index names,      *)
(* after any number of short writes, as long as no record was cut off      *)
(* among those that the index counts (message_store_write,                 *)
(* continue_writing).                                                      *)
THEOREM OthersAreKept == Spec => KeepsOtherRecords
<1> DEFINE Kept ==
      /\ Len(file') >= Len(file)
      /\ \A i \in 1 .. Len(file) :
           file'[i] # file[i] =>
             /\ op.index # 0
             /\ (\A r \in Counted(op.index) : r \in DOMAIN starts /\ IsWhole(r))
                  => i \in starts[Named(op.index)] + 1 .. Last(Named(op.index))
<1>1. PlaceInv /\ [Next]_vars => [Kept]_vars
  <2> SUFFICES ASSUME PlaceInv, Next PROVE Kept
    OBVIOUS
  <2>1. CASE UNCHANGED file
    BY <2>1 DEF PlaceInv, Typed, TypeOK
  <2>2. CASE WriteAll \/ WriteShort
    <3>w. pc = "write"
      BY <2>2 DEF WriteAll, WriteShort
    <3>1. PICK n \in 1 .. want : file' = Overwritten(fpos, SubSeq(buf, 1, n))
      BY <2>2, WriteAllIs DEF WriteShort, PlaceInv, Typed, TypeOK
    <3>2. /\ Len(file) =< Len(file') /\ fpos + n =< offset + MESSAGE_MAXSIZE
          /\ \A i \in 1 .. Len(file') :
               file'[i] = IF i \in fpos + 1 .. fpos + n THEN buf[i - fpos]
                          ELSE file[i]
      BY <3>w, <3>1, WriteIs DEF PlaceInv
    <3>3. /\ fpos \in Nat /\ n \in Nat /\ offset \in Nat /\ offset =< fpos
          /\ Len(file) \in Nat /\ Len(file') \in Nat /\ MESSAGE_MAXSIZE \in Nat
      BY <3>w, <3>1, WriteIs, StoreFileAssumption
      DEF PlaceInv, Typed, TypeOK, UnderWay
    <3>4. ASSUME NEW i \in 1 .. Len(file), file'[i] # file[i]
          PROVE  /\ op.index # 0
                 /\ (\A r \in Counted(op.index) : r \in DOMAIN starts /\ IsWhole(r))
                      => i \in starts[Named(op.index)] + 1 .. Last(Named(op.index))
      <4>1. i \in 1 .. Len(file')
        BY <3>2, <3>3
      <4>2. i \in fpos + 1 .. fpos + n
        BY <3>2, <3>4, <4>1
      <4>3. i \in offset + 1 .. offset + MESSAGE_MAXSIZE
        BY <3>2, <3>3, <4>2
      <4>4. op.index # 0
        <5>1. fpos # Len(file)
          BY <3>3, <4>2
        <5> QED
          BY <3>w, <5>1 DEF PlaceInv, WriteInv
      <4> QED
        BY <3>w, <4>3, <4>4, NamedIsThere
    <3> QED
      BY <3>2, <3>3, <3>4
  <2>3. ASSUME ~WriteAll, ~WriteShort PROVE UNCHANGED file
    BY <2>3 DEF Next, message_store_write, message_store_read,
       message_store_delete, Begins, Refused, ReadAll, ReadShort, CallFails, Killed
  <2> QED
    BY <2>1, <2>2, <2>3
<1> QED
  BY <1>1, PlaceInit, PlaceStep, PTL DEF Spec, KeepsOtherRecords

LEMMA NextMultiple ==
  ASSUME NEW M \in Nat \ {0}, NEW n \in Nat, n % M = 0
  PROVE  (n + M) % M = 0
<1> DEFINE k == n \div M
<1>1. k \in Nat /\ n = M * k
  OBVIOUS
<1> HIDE DEF k
<1>2. n + M = M * (k + 1)
  BY <1>1
<1>3. (M * (k + 1)) % M = 0
  BY <1>1
<1> QED
  BY <1>2, <1>3, Zenon

(* WritesWholeRecords: a write that returns normally has written all the   *)
(* bytes of its record and stops at its end (continue_writing).            *)
THEOREM WritesAreWhole == Spec => WritesWholeRecords
<1> DEFINE Whole ==
      (pc = "write" /\ outcome' = <<"ok">>) =>
        /\ fpos' = offset + MESSAGE_MAXSIZE
        /\ offset % MESSAGE_MAXSIZE = 0 => fpos' % MESSAGE_MAXSIZE = 0
<1>1. Typed /\ [Next]_vars => [Whole]_vars
  <2> SUFFICES ASSUME Typed, Next, pc = "write", outcome' = <<"ok">>
               PROVE  /\ fpos' = offset + MESSAGE_MAXSIZE
                      /\ offset % MESSAGE_MAXSIZE = 0 => fpos' % MESSAGE_MAXSIZE = 0
    OBVIOUS
  <2>1. outcome = <<"pending">> /\ fpos + want = offset + MESSAGE_MAXSIZE
        /\ offset \in Nat /\ MESSAGE_MAXSIZE \in Nat \ {0}
    BY StoreFileAssumption DEF Typed, TypeOK, UnderWay
  <2>2. WriteAll
    BY <2>1 DEF Next, message_store_write, message_store_read,
       message_store_delete, WriteShort, ReadAll, ReadShort, CallFails, Killed,
       Returns
  <2>3. fpos' = offset + MESSAGE_MAXSIZE
    BY <2>1, <2>2 DEF WriteAll
  <2> QED
    BY <2>1, <2>3, NextMultiple
<1> QED
  BY <1>1, TypeInit, TypeStep, PTL DEF Spec, WritesWholeRecords

=============================================================================
