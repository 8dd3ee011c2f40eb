------------------------------ MODULE MStream ------------------------------
(***************************************************************************)
(* The byte streams of aether/mstream.h with the buffers of                *)
(* mstream_buffers.h: operator<< turns a value into bytes, operator>>      *)
(* reads them back and leaves in the reader whether the last read had the  *)
(* bytes it asked for.  Messages, saved objects and file headers are       *)
(* values of such types written one after the other and read in the same   *)
(* order, by a reader that may have been given only the first part of the  *)
(* bytes.  The fields of a structure are chained, s & a & b & c, and so    *)
(* are the values of a message: each is read whatever became of the one    *)
(* before it, and what is left at the end is the result of the last read.  *)
(*                                                                         *)
(* A type is a record: a scalar or an enum of some bytes; a time point;    *)
(* the scalars of a string or a vector; an array of scalars; a vector or a *)
(* deque; an array; a list; a map, ordered or not; a structure with a      *)
(* Serializator, or a pair; a unique_ptr or a shared_ptr.  The values are  *)
(* numbers, sequences, functions, and for a pointer the sequence of the    *)
(* value it points to, if any.                                             *)
(***************************************************************************)
EXTENDS Integers, SequencesExt

CONSTANTS MsBase,        \* number of values of a byte
          SizeBytes,     \* bytes of size_type
          Ticks,         \* ticks of the clock in a microsecond
          MaxMsWrites    \* bound: values written to one buffer

VARIABLES ms_phase,      \* "write", then "read"
          ms_written,    \* [type, value] of each value, in order
          ms_data,       \* the bytes
          ms_reader,     \* VectorReader: offset_ and result_
          ms_read        \* [target, value, result] of each read

msVars == <<ms_phase, ms_written, ms_data, ms_reader, ms_read>>

Scalar(w) == [kind |-> "scalar", width |-> w]
TimePoint == [kind |-> "time"]
Scalars(w) == [kind |-> "scalars", width |-> w]
ScalarArray(n, w) == [kind |-> "scalar_array", length |-> n, width |-> w]
Vector(t) == [kind |-> "vector", of |-> t]
Array(n, t) == [kind |-> "array", length |-> n, of |-> t]
List(t) == [kind |-> "list", of |-> t]
Map(k, t) == [kind |-> "map", key |-> k, of |-> t]
Struct(fields) == [kind |-> "struct", fields |-> fields]
Pair(a, b) == Struct(<<a, b>>)
Pointer(t) == [kind |-> "pointer", of |-> t]

TimeWidth == 2

-----------------------------------------------------------------------------
(* Writing: VectorWriter appends, so an operator<< is the bytes it adds.   *)

WriteScalar(w, v) == [j \in 1 .. w |-> (v \div MsBase ^ (j - 1)) % MsBase]

WriteSize(n) == WriteScalar(SizeBytes, n % MsBase ^ SizeBytes)

RECURSIVE Write(_, _)

WriteScalarArray(w, s) == FlattenSeq([i \in DOMAIN s |-> WriteScalar(w, s[i])])

WriteScalars(w, s) == WriteSize(Len(s)) \o WriteScalarArray(w, s)

WriteArray(t, s) == FlattenSeq([i \in DOMAIN s |-> Write(t, s[i])])

WriteVector(t, s) == WriteSize(Len(s)) \o WriteArray(t, s)

WriteStruct(fields, s) == FlattenSeq([i \in DOMAIN fields |-> Write(fields[i], s[i])])

WriteMap(a, b, m) ==
  LET keys == SetToSortSeq(DOMAIN m, <)
  IN  WriteSize(Len(keys)) \o FlattenSeq([i \in DOMAIN keys |-> WriteStruct(<<a, b>>, <<keys[i], m[keys[i]]>>)])

WriteTime(v) == WriteScalar(TimeWidth, v \div Ticks)

WritePointer(t, p) ==
  IF p # <<>> THEN WriteScalar(1, 1) \o Write(t, p[1]) ELSE WriteScalar(1, 0)

(* The operator<< of a type. *)
Write(t, v) ==
  CASE t.kind = "scalar" -> WriteScalar(t.width, v)
    [] t.kind = "time" -> WriteTime(v)
    [] t.kind = "scalars" -> WriteScalars(t.width, v)
    [] t.kind = "scalar_array" -> WriteScalarArray(t.width, v)
    [] t.kind \in {"vector", "list"} -> WriteVector(t.of, v)
    [] t.kind = "array" -> WriteArray(t.of, v)
    [] t.kind = "map" -> WriteMap(t.key, t.of, v)
    [] t.kind = "struct" -> WriteStruct(t.fields, v)
    [] t.kind = "pointer" -> WritePointer(t.of, v)

-----------------------------------------------------------------------------
(* Reading.  An operator>> is given the target and the reader, and returns *)
(* both as it leaves them.                                                 *)

Left(target, reader) == [value |-> target, reader |-> reader]

(* VectorReader::read: all of the bytes or none. *)
Take(reader, size) ==
  IF reader.offset + size > Len(reader.data)
  THEN [bytes |-> <<>>, reader |-> [reader EXCEPT !.result = "kNo"]]
  ELSE [bytes |-> SubSeq(reader.data, reader.offset + 1, reader.offset + size),
        reader |-> [reader EXCEPT !.offset = @ + size, !.result = "kYes"]]

DataWasRead(reader) == reader.result = "kYes"

Number(bytes) == FoldRight(LAMBDA byte, acc : byte + MsBase * acc, bytes, 0)

ReadScalar(w, target, reader) ==
  LET took == Take(reader, w)
  IN  Left(IF DataWasRead(took.reader) THEN Number(took.bytes) ELSE target, took.reader)

(* A value of a type as it is constructed. *)
RECURSIVE Fresh(_)
Fresh(t) ==
  CASE t.kind \in {"scalar", "time"} -> 0
    [] t.kind \in {"scalars", "vector", "list", "map", "pointer"} -> <<>>
    [] t.kind = "array" -> [i \in 1 .. t.length |-> Fresh(t.of)]
    [] t.kind = "scalar_array" -> [i \in 1 .. t.length |-> 0]
    [] t.kind = "struct" -> [i \in DOMAIN t.fields |-> Fresh(t.fields[i])]

(* resize of a vector or a deque: what it has is kept. *)
Resize(t, s, n) == [i \in 1 .. n |-> IF i <= Len(s) THEN s[i] ELSE Fresh(t)]

RECURSIVE Read(_, _, _)

(* The elements that are there, one after the other, until one cannot be   *)
(* read; that one is left as its operator>> left it.                       *)
ReadArray(t, targets, reader) ==
  LET Next1(acc, i) ==
        LET x == Read(t, acc.value[i], acc.reader)
        IN  IF acc.on
            THEN [value |-> [acc.value EXCEPT ![i] = x.value], reader |-> x.reader,
                  on |-> DataWasRead(x.reader)]
            ELSE acc
      end == FoldLeft(Next1, [value |-> targets, reader |-> reader, on |-> TRUE],
                      [i \in DOMAIN targets |-> i])
  IN  Left(end.value, end.reader)

(* Mutant: the loop goes on after an element that could not be read. *)
ReadVectorThrough(t, target, reader) ==
  LET size == ReadScalar(SizeBytes, 0, reader)
      Next1(acc, i) ==
        LET x == Read(t, acc.value[i], acc.reader)
        IN  Left([acc.value EXCEPT ![i] = x.value], x.reader)
  IN  IF DataWasRead(size.reader)
      THEN FoldLeft(Next1, Left(Resize(t, target, size.value), size.reader),
                    [i \in 1 .. size.value |-> i])
      ELSE Left(target, size.reader)

(* The size first; without it the target stays as it is. *)
ReadVector(t, target, reader) ==
  LET size == ReadScalar(SizeBytes, 0, reader)
  IN  IF DataWasRead(size.reader)
      THEN ReadArray(t, Resize(t, target, size.value), size.reader)
      ELSE Left(target, size.reader)

(* An array of scalars is read at once. *)
ReadScalarArray(w, target, reader) ==
  LET took == Take(reader, w * Len(target))
      numbers == [i \in DOMAIN target |-> Number(SubSeq(took.bytes, w * (i - 1) + 1, w * i))]
  IN  Left(IF DataWasRead(took.reader) THEN numbers ELSE target, took.reader)

(* A string, or a vector of scalars: the size, then all of it at once. *)
ReadScalars(w, target, reader) ==
  LET size == ReadScalar(SizeBytes, 0, reader)
  IN  IF DataWasRead(size.reader)
      THEN ReadScalarArray(w, Resize(Scalar(w), target, size.value), size.reader)
      ELSE Left(target, size.reader)

(* Each field is read whatever became of the ones before it. *)
ReadStruct(fields, target, reader) ==
  LET Next1(acc, i) ==
        LET x == Read(fields[i], acc.value[i], acc.reader)
        IN  Left([acc.value EXCEPT ![i] = x.value], x.reader)
  IN  FoldLeft(Next1, Left(target, reader), [i \in DOMAIN fields |-> i])

(* A list or a map: cleared, then filled with the elements that can be     *)
(* read.                                                                   *)
ReadFilling(t, Put(_, _), target, reader) ==
  LET size == ReadScalar(SizeBytes, 0, reader)
      Next1(acc, i) ==
        LET x == Read(t, Fresh(t), acc.reader)
        IN  CASE ~ acc.on -> acc
              [] acc.on /\ DataWasRead(x.reader) ->
                   [acc EXCEPT !.value = Put(@, x.value), !.reader = x.reader]
              [] OTHER -> [acc EXCEPT !.reader = x.reader, !.on = FALSE]
      end == FoldLeft(Next1, [value |-> <<>>, reader |-> size.reader, on |-> TRUE],
                      [i \in 1 .. size.value |-> i])
  IN  IF DataWasRead(size.reader) THEN Left(end.value, end.reader) ELSE Left(target, size.reader)

ReadList(t, target, reader) == ReadFilling(t, Append, target, reader)

(* emplace does not replace. *)
Emplace(m, p) == m @@ (p[1] :> p[2])

ReadMap(a, b, target, reader) == ReadFilling(Pair(a, b), Emplace, target, reader)

ReadTime(target, reader) ==
  LET count == ReadScalar(TimeWidth, 0, reader)
  IN  Left(IF DataWasRead(count.reader) THEN count.value * Ticks ELSE target, count.reader)

(* Without a value the target is left alone, with one it is replaced once  *)
(* the value could be read.                                                *)
ReadPointer(t, target, reader) ==
  LET has == ReadScalar(1, 0, reader)
      temp == Read(t, Fresh(t), has.reader)
  IN  IF ~ DataWasRead(has.reader) \/ has.value = 0 THEN Left(target, has.reader)
      ELSE Left(IF DataWasRead(temp.reader) THEN <<temp.value>> ELSE target, temp.reader)

(* The operator>> of a type. *)
Read(t, target, reader) ==
  CASE t.kind = "scalar" -> ReadScalar(t.width, target, reader)
    [] t.kind = "time" -> ReadTime(target, reader)
    [] t.kind = "scalars" -> ReadScalars(t.width, target, reader)
    [] t.kind = "scalar_array" -> ReadScalarArray(t.width, target, reader)
    [] t.kind = "vector" -> ReadVector(t.of, target, reader)
    [] t.kind = "list" -> ReadList(t.of, target, reader)
    [] t.kind = "array" -> ReadArray(t.of, target, reader)
    [] t.kind = "map" -> ReadMap(t.key, t.of, target, reader)
    [] t.kind = "struct" -> ReadStruct(t.fields, target, reader)
    [] t.kind = "pointer" -> ReadPointer(t.of, target, reader)

-----------------------------------------------------------------------------
(* A buffer is written, a part of it arrives, and it is read in order.     *)

(* The types tried, with some values of each. *)
MsValues ==
  (Scalar(2) :> {6}) @@ (TimePoint :> {2, 3})
  @@ (Scalars(1) :> {<<>>, <<1, 2>>}) @@ (Scalars(2) :> {<<9>>})
  @@ (Vector(Scalars(1)) :> {<<>>, <<<<2>>, <<0>>>>}) @@ (Vector(Scalars(2)) :> {<<<<4>>, <<>>>>})
  @@ (Vector(Pointer(Scalar(1))) :> {<<<<>>, <<3>>>>})
  @@ (Array(2, Pair(Scalar(1), Scalar(1))) :> {<<<<1, 2>>, <<3, 0>>>>})
  @@ (List(Scalars(1)) :> {<<<<0>>, <<>>>>})
  @@ (Map(Scalar(1), Scalars(1)) :> {<<>>, (0 :> <<1>>) @@ (2 :> <<>>)})
  @@ (Map(Scalar(2), Scalar(1)) :> {(5 :> 1) @@ (7 :> 2)})
  @@ (Map(Scalar(1), Map(Scalar(1), Scalar(1))) :> {(1 :> (2 :> 3)) @@ (2 :> <<>>)})
  @@ (Struct(<<Scalar(1), ScalarArray(2, 1), Scalars(1)>>) :> {<<1, <<2, 0>>, <<3>>>>})
  @@ (Vector(Struct(<<Scalar(1), Scalar(2), ScalarArray(1, 2)>>)) :> {<<<<1, 2, <<9>>>>>>})
  @@ (Pair(Scalars(1), Scalar(1)) :> {<<<<3>>, 2>>})
  @@ (Pointer(Scalars(1)) :> {<<>>, <<<<1>>>>})

MsInit ==
  /\ ms_phase = "write" /\ ms_written = <<>> /\ ms_data = <<>> /\ ms_read = <<>>
  /\ ms_reader = [offset |-> 0, result |-> "kNo"]

MsWrite ==
  \E t \in DOMAIN MsValues : \E v \in MsValues[t] :
    /\ ms_phase = "write" /\ Len(ms_written) < MaxMsWrites
    /\ ms_written' = Append(ms_written, [type |-> t, value |-> v])
    /\ ms_data' = ms_data \o Write(t, v)
    /\ UNCHANGED <<ms_phase, ms_reader, ms_read>>

(* The first n of the bytes reach the reader. *)
MsArrive ==
  \E n \in 0 .. Len(ms_data) :
    /\ ms_phase = "write" /\ ms_phase' = "read"
    /\ ms_data' = SubSeq(ms_data, 1, n)
    /\ UNCHANGED <<ms_written, ms_reader, ms_read>>

(* The next of a chain, into a new variable, or into one with a value of   *)
(* the type.                                                               *)
MsRead ==
  /\ ms_phase = "read" /\ Len(ms_read) < Len(ms_written)
  /\ LET t == ms_written[Len(ms_read) + 1].type
     IN  \E target \in MsValues[t] \cup {Fresh(t)} :
           LET x == Read(t, target, [data |-> ms_data] @@ ms_reader)
           IN  /\ ms_read' = Append(ms_read, [target |-> target, value |-> x.value,
                                              result |-> x.reader.result])
               /\ ms_reader' = [offset |-> x.reader.offset, result |-> x.reader.result]
  /\ UNCHANGED <<ms_phase, ms_written, ms_data>>

MsNext == MsWrite \/ MsArrive \/ MsRead

-----------------------------------------------------------------------------
(* The bytes of the first n values. *)
BytesOf(n) == FoldLeft(LAMBDA acc, w : acc + Len(Write(w.type, w.value)), 0, SubSeq(ms_written, 1, n))

RECURSIVE HasPointer(_)
HasPointer(t) ==
  CASE t.kind \in {"scalar", "time", "scalars", "scalar_array"} -> FALSE
    [] t.kind \in {"vector", "array"} -> HasPointer(t.of)
    [] t.kind \in {"list", "map"} -> FALSE
    [] t.kind = "struct" -> \E i \in DOMAIN t.fields : HasPointer(t.fields[i])
    [] t.kind = "pointer" -> TRUE

(* The most bytes an operator>> asks the buffer for at once. *)
RECURSIVE Widest(_)
Widest(t) ==
  CASE t.kind = "scalar" -> t.width
    [] t.kind = "time" -> TimeWidth
    [] t.kind = "scalars" -> t.width * MsBase ^ SizeBytes
    [] t.kind = "scalar_array" -> t.length * t.width
    [] t.kind \in {"vector", "list"} -> Max({SizeBytes, Widest(t.of)})
    [] t.kind = "map" -> Max({SizeBytes, Widest(t.key), Widest(t.of)})
    [] t.kind = "array" -> Widest(t.of)
    [] t.kind = "struct" -> Max({Widest(t.fields[i]) : i \in DOMAIN t.fields})
    [] t.kind = "pointer" -> Max({1, Widest(t.of)})

(* And the bytes it asks for first. *)
RECURSIVE FirstRead(_)
FirstRead(t) ==
  CASE t.kind = "scalar" -> t.width
    [] t.kind = "time" -> TimeWidth
    [] t.kind = "scalar_array" -> t.length * t.width
    [] t.kind \in {"scalars", "vector", "list", "map"} -> SizeBytes
    [] t.kind = "array" -> FirstRead(t.of)
    [] t.kind = "struct" -> FirstRead(t.fields[1])
    [] t.kind = "pointer" -> 1

(* A chain whose last field may still find bytes where an earlier one did  *)
(* not find enough.                                                        *)
RECURSIVE Blind(_)
Blind(t) ==
  CASE t.kind \in {"scalar", "time", "scalars", "scalar_array"} -> FALSE
    [] t.kind \in {"vector", "list", "array", "pointer"} -> Blind(t.of)
    [] t.kind = "map" -> Blind(Pair(t.key, t.of))
    [] t.kind = "struct" ->
         \/ Blind(Last(t.fields))
         \/ \E field \in Range(Front(t.fields)) : Widest(field) > FirstRead(Last(t.fields))

(* The value a clock of microseconds can hold. *)
Held(t, v) == IF t.kind = "time" THEN (v \div Ticks) * Ticks ELSE v

(* What was written is read: every value whose bytes are all there comes   *)
(* out as it went in, a time point to the microsecond, whatever the target *)
(* held before, and the reader stands before the next one.  The exception  *)
(* is a null pointer, which leaves a target alone (operator>> of           *)
(* unique_ptr).                                                            *)
ReadAsWritten ==
  \A i \in DOMAIN ms_read :
    LET w == ms_written[i] IN
      BytesOf(i) <= Len(ms_data) =>
        /\ ms_read[i].result = "kYes"
        /\ ms_read[i].target = Fresh(w.type) \/ ~ HasPointer(w.type) =>
             ms_read[i].value = Held(w.type, w.value)
        /\ i = Len(ms_read) => ms_reader.offset = BytesOf(i)

(* The reader never passes the end of the bytes, and a chain of values     *)
(* that are not all there ends in kNo, wherever they were cut, as long as  *)
(* its last field asks for no less at first than the earlier ones ask for  *)
(* at once.  One that asks for less may be read from the bytes that were   *)
(* too few for an earlier one, and the chain ends in kYes (operator& and   *)
(* Serializator look at no result).                                        *)
CutIsNoticed ==
  /\ ms_reader.offset <= Len(ms_data)
  /\ \A n \in DOMAIN ms_read :
       LET chain == Struct([i \in 1 .. n |-> ms_written[i].type])
       IN  BytesOf(n) > Len(ms_data) /\ ~ Blind(chain) => ms_read[n].result = "kNo"

(* The variables hold what they are described to. *)
MsTypeOK ==
  /\ ms_phase \in {"write", "read"} /\ Len(ms_written) <= MaxMsWrites
  /\ ms_data \in Seq(0 .. MsBase - 1)
  /\ ms_reader.offset \in Nat /\ ms_reader.result \in {"kYes", "kNo"}
  /\ Len(ms_read) <= Len(ms_written)
=============================================================================
