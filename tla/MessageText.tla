------------------------------ MODULE MessageText ------------------------------
(***************************************************************************)
(* The text form "<number> <id_1> <id_2>" of messages                      *)
(* (lib/messageutil.c) on its way from the store to a client and back      *)
(* (src/client.c, child_process of src/server-exclusive.c).                *)
(*                                                                         *)
(* One read() is taken for a whole message, however much of it has         *)
(* arrived.  The sessions follow one another, as the lock makes them do in *)
(* StoreServer; the messages behind the texts are those of Message.        *)
(*                                                                         *)
(* No text is spelled out: an identifier is the first len characters of a  *)
(* name, and a text the first len characters of the complete text of a     *)
(* message.  Nothing keeps a name from being empty, or from having white   *)
(* space in it.                                                            *)
(***************************************************************************)
EXTENDS Integers, FiniteSetsExt, SequencesExt

CONSTANTS
  NAMES,            \* names that clients may be started with
  NONE,             \* the name in the default message
  Length,           \* strlen of each of these names
  Word,             \* characters of a name before its first white space, if any
  JunkIds,          \* identifiers that stray characters may be taken for
  IntMax,           \* INT_MAX
  ID_MAXSIZE,       \* 35
  MESSAGE_MAXSIZE,  \* 100
  OldNumbers,       \* numbers that the last record may have at the start
  JunkNumbers,      \* numbers that uninitialised memory may be parsed as
  MaxRecords        \* bound on the length of the store

ASSUME MessageTextAssumption ==
  /\ NONE \notin NAMES /\ NAMES \cup {NONE} \subseteq DOMAIN Word
  /\ Length \in [NAMES \cup {NONE} -> Nat]
  /\ Word \in [DOMAIN Word -> Nat]
  /\ JunkIds \subseteq [name : DOMAIN Word, len : Nat]
  /\ IntMax \in Nat
  /\ ID_MAXSIZE \in Nat \ {0} /\ Length[NONE] < ID_MAXSIZE
  /\ MESSAGE_MAXSIZE \in Nat /\ MaxRecords \in Nat
  /\ OldNumbers \cup JunkNumbers \subseteq -(IntMax + 1) .. IntMax

VARIABLES
  store,   \* the texts of the records
  at,      \* whose turn it is: nobody's ("idle"), "client" or "server"
  id,      \* the client's argument id
  seen,    \* message_struct_recv of the client
  wire,    \* message_struct_send as a text, what the client writes
  cut,     \* history: a read() of this session returned less than was sent
  overrun  \* history: a sscanf of this session wrote past the end of its id

vars == <<store, at, id, seen, wire, cut, overrun>>

-----------------------------------------------------------------------------
(* Identifiers and messages                                                *)

Id(name) == [name |-> name, len |-> Length[name]]

ScannedIds == [name : DOMAIN Word, len : Nat]

(* What "%s" finds again: it skips white space and stops at the next.      *)
IsWord(i) == 0 < i.len /\ i.len =< Word[i.name]

M == INSTANCE Message WITH
       Clients <- {Id(n) : n \in NAMES}, Ids <- ScannedIds, NONE <- Id(NONE)

(* The check of main (client.c): a longer argument ends in usage().        *)
Accepted == {n \in NAMES : Length[n] =< ID_MAXSIZE}

(* message_t_valid; the addresses that it also looks at are never NULL.    *)
Valid(m) == m.id_1.len =< ID_MAXSIZE /\ m.id_2.len =< ID_MAXSIZE

(* A mutation of Truncated: it leaves no place for the zero.               *)
Mutant_Truncated(i) == [i EXCEPT !.len = Min({@, ID_MAXSIZE})]

(* snprintf(id_1_p, ID_MAXSIZE, "%s", id_1) of message_t_init.             *)
Truncated(i) == [i EXCEPT !.len = Min({@, ID_MAXSIZE - 1})]

message_t_init(m) ==
  [m EXCEPT !.id_1 = Truncated(@), !.id_2 = Truncated(@)]

-----------------------------------------------------------------------------
(* From a message to its text                                              *)

(* How many characters "%d" prints.                                        *)
Digits[n \in Nat] == IF n < 10 THEN 1 ELSE 1 + Digits[n \div 10]
Width(n) == IF n < 0 THEN 1 + Digits[-n] ELSE Digits[n]

(* (int)log10(n) of a positive n: how often n can be divided by ten.       *)
Log10[n \in Nat] == IF n < 10 THEN 0 ELSE 1 + Log10[n \div 10]

(* A mutation of number_digit: the minus sign is not counted.              *)
Mutant_number_digit(n) == IF n = 0 THEN 1 ELSE Log10[IF n < 0 THEN -n ELSE n] + 1

(* message_string_new computes the size.  abs() of the smallest int is     *)
(* negative, its log10 no number, and the cast of that gives the smallest  *)
(* int again (x86): as an unsigned int, a size that cuts nothing off.      *)
number_digit(n) ==
  CASE n = -(IntMax + 1) -> IntMax + 3
    [] n < 0 /\ n # -(IntMax + 1) -> 1 + Log10[-n] + 1
    [] n = 0 -> 1
    [] n > 0 -> Log10[n] + 1

(* Where the fields of a text begin, counted in characters before them.    *)
From1(m) == Width(m.number) + 1
From2(m) == From1(m) + m.id_1.len + 1
Complete(m) == From2(m) + m.id_2.len

(* snprintf(message_string, message_size, ...), the zero included in size. *)
message_string_new(m) ==
  LET message_size == number_digit(m.number) + m.id_1.len + m.id_2.len + 2 + 1
  IN  [of |-> m, len |-> Min({Complete(m), message_size - 1})]

-----------------------------------------------------------------------------
(* From a text to a message                                                *)

(* The numbers that the text of n begins with, and the one of k digits (or *)
(* none).                                                                  *)
LeadingNumbers[n \in Nat] == IF n < 10 THEN {n} ELSE {n} \cup LeadingNumbers[n \div 10]
FirstDigits(n, k) == {p \in LeadingNumbers[n] : Digits[p] = k}

(* sscanf(text, "%d %s %s"): every message the text may be taken for.  If  *)
(* what has arrived ends with a zero, a field that came in part is taken   *)
(* as it is; if not, it may go on at random.                               *)
Number(text, ends) ==
  LET n == text.of.number
      part == IF n < 0 THEN {-p : p \in FirstDigits(-n, text.len - 1)}
              ELSE FirstDigits(n, text.len)
  IN  IF text.len > Width(n) THEN {n}
      ELSE part \cup (IF part # {} /\ ends THEN {} ELSE JunkNumbers)

(* An array that the scan did not come to keeps what was in its memory, of *)
(* which message_t_init takes as much as it has place for.                 *)
Uninitialised == {Truncated(j) : j \in JunkIds}

(* The identifier i, of which n characters are there (and what follows it, *)
(* if n is greater than its length).                                       *)
Field(i, n, ends) ==
  IF n > i.len THEN {i}
  ELSE (IF n > 0 THEN {[i EXCEPT !.len = n]} ELSE {})
         \cup (IF ~ends THEN JunkIds ELSE IF n > 0 THEN {} ELSE Uninitialised)

(* From an identifier that is no word on, the scan finds the words of the  *)
(* rest of the text as they come, and may miss one for the last array.     *)
Loose(text, ends) ==
  IF ends
  THEN Uninitialised
         \cup {j \in JunkIds : \/ j.len =< text.of.id_1.len
                              \/ j.len =< text.of.id_2.len}
  ELSE JunkIds

Scanned(text, ends) ==
  LET m == text.of
  IN  [number : Number(text, ends),
       id_1 : IF IsWord(m.id_1) THEN Field(m.id_1, text.len - From1(m), ends)
              ELSE Loose(text, ends),
       id_2 : IF IsWord(m.id_1) /\ IsWord(m.id_2)
              THEN Field(m.id_2, text.len - From2(m), ends)
              ELSE Loose(text, ends)]

(* "%s" writes the identifier and a zero into an array of ID_MAXSIZE       *)
(* bytes, however long it is.                                              *)
Overruns(m) == m.id_1.len >= ID_MAXSIZE \/ m.id_2.len >= ID_MAXSIZE

(* The messages that may come of the scan: after an overrun, any.          *)
message_extract(m) ==
  {message_t_init(x) :
     x \in IF Overruns(m) THEN [number : JunkNumbers, id_1 : JunkIds, id_2 : JunkIds]
           ELSE {m}}

Nothing == [of |-> M!DefaultMessage, len |-> 0]

Init ==
  /\ store \in {<<>>} \cup
       {<<message_string_new([M!DefaultMessage EXCEPT !.number = n])>> :
          n \in OldNumbers}
  /\ at = "idle" /\ id = Id(NONE) /\ seen = M!DefaultMessage /\ wire = Nothing
  /\ cut = FALSE /\ overrun = FALSE

-----------------------------------------------------------------------------
(* One session                                                             *)

(* What the child sends: strlen(text) bytes, the zero not included.        *)
LastText ==
  IF store = <<>> THEN message_string_new(message_t_init(M!DefaultMessage))
  ELSE Last(store)

(* The client's read_socket returns the first k of them, into a buffer of  *)
(* zeros.                                                                  *)
ClientReads(name) ==
  /\ at = "idle" /\ at' = "client"
  /\ Len(store) < MaxRecords
  /\ id' = Id(name)
  /\ \E k \in 1 .. LastText.len :
       /\ cut' = (k < LastText.len)
       /\ \E m \in Scanned([LastText EXCEPT !.len = k], TRUE) :
            seen' \in message_extract(m) /\ overrun' = Overruns(m)
  /\ UNCHANGED <<store, wire>>

ClientWrites ==
  /\ at = "client" /\ at' = "server"
  /\ LET m == message_t_init(M!ClientMessage(id, seen))
     IN  Valid(m) /\ wire' = message_string_new(m)
  /\ UNCHANGED <<store, id, seen, cut, overrun>>

(* A mutation of Sent: write_socket sends strlen(text) bytes, as the child *)
(* does.                                                                   *)
Mutant_Sent == wire.len

(* write_socket sends the zero as well, for the child's buffer is not      *)
(* initialised.                                                            *)
Sent == wire.len + 1

(* The child takes what its read() returns for the whole text, even if     *)
(* nothing came before the connection ended; an overrun may also end it.   *)
ChildStores ==
  /\ at = "server" /\ at' = "idle"
  /\ \E k \in 0 .. Sent :
       /\ cut' = (cut \/ k < Sent)
       /\ \E m \in Scanned([wire EXCEPT !.len = Min({k, wire.len})], k > wire.len) :
            /\ overrun' = (overrun \/ Overruns(m))
            /\ \/ \E x \in message_extract(m) :
                    /\ Valid(x)
                    /\ store' = Append(store, message_string_new(M!ServerBump(x)))
               \/ Overruns(m) /\ UNCHANGED store
  /\ seen' = M!DefaultMessage /\ wire' = Nothing
  /\ UNCHANGED id

Idle == at = "idle" /\ Len(store) >= MaxRecords /\ UNCHANGED vars

Next ==
  \/ \E name \in Accepted : ClientReads(name)
  \/ ClientWrites \/ ChildStores \/ Idle

Spec == Init /\ [][Next]_vars

-----------------------------------------------------------------------------
(* Properties                                                              *)

Texts == {store[i] : i \in DOMAIN store} \cup {wire}

(* The type invariant: each text is one of a message that message_t_init   *)
(* made, and fits into the MESSAGE_MAXSIZE bytes it is printed and read    *)
(* into.                                                                   *)
TypeOK ==
  /\ at \in {"idle", "client", "server"} /\ {cut, overrun} \subseteq BOOLEAN
  /\ \A m \in {text.of : text \in Texts} \cup {seen} :
       /\ m \in M!message_t
       /\ m.id_1.len < ID_MAXSIZE /\ m.id_2.len < ID_MAXSIZE
  /\ \A text \in Texts : text.len + 1 =< MESSAGE_MAXSIZE

(* sscanf writes past the end of an id only in a child, and only if read() *)
(* gave it less than was sent: never in the client, where every text ends  *)
(* in zeros, and never for a text that is whole, whatever sessions came    *)
(* before and however odd the names in it (as long as the store consists   *)
(* of whole records: see StoreFile).                                       *)
OverrunOnlyWhenCut == overrun => cut /\ at = "idle"

(* The size that message_string_new computes with log10 is never too small *)
(* for any number: what was written last is the complete text.             *)
NothingCutOff ==
  \A text \in Texts \ {Nothing} : text.len = Complete(text.of)

(* A session in which both read() calls return all that was sent counts    *)
(* twice from the number of the last record, as StoreServer says, and      *)
(* carries the identifiers over that are words: the client's (what         *)
(* message_t_init leaves of it), and id_2 if no other field is misplaced.  *)
(* No length is sent, and only one of the two texts is sent with its end.  *)
KeepsTheMessage ==
  LET last == LastText.of
      new == Last(store').of
  IN  /\ new.number = M!Served(id, last).number
      /\ IsWord(Truncated(id)) => new.id_1 = Truncated(id)
      /\ (\A i \in {Truncated(id), last.id_1, last.id_2} : IsWord(i)) =>
           new.id_2 = last.id_2

WholeTextsKeepTheMessage ==
  [][Len(store') > Len(store) /\ ~cut' => KeepsTheMessage]_vars
================================================================================
