------------------------------- MODULE GgufFile -------------------------------
(***************************************************************************)
(* The GGUF container (src/gguf.cpp): the file is opened, measured and     *)
(* mapped, a cursor reads its directory, and every range is checked        *)
(* against the size of the file before it is used.                         *)
(*                                                                         *)
(* The file is an image of a good model with at most one word changed, or  *)
(* cut short.  A word stands for a field of any width: positions count     *)
(* words, MaxWord is the largest value of the 64-bit arithmetic, and a     *)
(* string is its length followed by its words.                             *)
(***************************************************************************)
EXTENDS Integers, Sequences, FiniteSets, SequencesExt

CONSTANTS
  NameOf(_),       \* the words of a key, or of the name of a tensor
  Image,           \* the words of a good file
  Faults,          \* what may be wrong with it: a changed word, a smaller size
  HeaderWords,     \* the smallest file that is looked at (24 bytes)
  Magic, Version,
  ValueTypes,      \* names of the metadata value types, by number
  TensorTypes,     \* names of the tensor types, by number
  Alignment,       \* alignment_ without general.alignment (32)
  WordBits,        \* width of the arithmetic (64)
  MaxDepth,        \* nesting of metadata arrays (8)
  MaxDimensions    \* 4

ASSUME ContainerAssumption ==
  /\ WordBits \in Nat /\ Len(Image) < 2 ^ WordBits
  /\ Image \in Seq(0 .. 2 ^ WordBits - 1)
  /\ MaxDepth \in Nat /\ MaxDimensions \in Nat

VARIABLES
  disk,         \* the words of the file, and the size it was cut to
  phase,        \* where the constructor is
  fd, mapping,  \* whether the descriptor and the mapping are held
  file_size,
  directory     \* what the constructor parsed

containerVars == <<disk, phase, fd, mapping, file_size, directory>>

-----------------------------------------------------------------------------
(* Cursor: a position, or Truncated once a read would leave the file *)

Truncated == -1

MaxWord == 2 ^ WordBits - 1

\* memory past the image holds whatever it holds
Word(p) == IF p + 1 \in DOMAIN disk.words THEN disk.words[p + 1] ELSE 0

(* Cursor::require, in an order that cannot wrap *)
Fits(p, count) == ~(count > file_size) /\ ~(p > file_size - count)

Skip(p, count) == IF p # Truncated /\ Fits(p, count) THEN p + count ELSE Truncated

Readable(p) == Skip(p, 1) # Truncated

(* past a string whose length is the word at p *)
SkipString(p) == IF Readable(p) THEN Skip(p + 1, Word(p)) ELSE Truncated

Text(p) == [i \in 1 .. Word(p) |-> Word(p + i)]

ScalarSize(type) ==
  CASE type \in {"u32", "i32", "f32", "boolean"} -> 1
    [] type = "f64" -> 2
    [] OTHER -> 0

TypeKnown(p) == Readable(p) /\ Word(p) + 1 \in DOMAIN ValueTypes
ValueType(p) == ValueTypes[Word(p) + 1]

(* count * size is only formed when it cannot overflow *)
SkipScalars(p, count, size) ==
  IF count > MaxWord \div size THEN Truncated ELSE Skip(p, count * size)

SkipValue(start, kind) ==
  LET skip[depth \in 0 .. MaxDepth + 1, type \in Range(ValueTypes), p \in Int] ==
        CASE depth > MaxDepth \/ p = Truncated -> Truncated
          [] ScalarSize(type) # 0 -> Skip(p, ScalarSize(type))
          [] type = "string" -> SkipString(p)
          [] type = "array" ->
               IF ~TypeKnown(p) \/ ~Readable(p + 1) THEN Truncated
               ELSE LET element == ValueType(p)
                        count == Word(p + 1)
                        rest[n \in 0 .. count, q \in Int] ==
                          IF n = 0 \/ q = Truncated THEN q
                          ELSE rest[n - 1, skip[depth + 1, element, q]]
                    IN IF ScalarSize(element) # 0
                       THEN SkipScalars(p + 2, count, ScalarSize(element))
                       ELSE rest[count, p + 2]
  IN skip[0, kind, start]

-----------------------------------------------------------------------------
(* The directory.  A key or a name is told apart by what it is made of: a   *)
(* text, a layer, a chunk, an item and its part.                            *)

Key(text) == <<text, 0, 0, "", "">>

\* an optional value is a sequence of at most one
FindMetadata(entries, key) == IF key \in DOMAIN entries THEN <<entries[key]>> ELSE <<>>
FindTensor(entries, name) == IF name \in DOMAIN entries THEN <<entries[name]>> ELSE <<>>

\* the entries read so far, by what they are found by
Named(entries) ==
  [name \in {e.name : e \in Range(entries)} |->
     entries[CHOOSE i \in DOMAIN entries : entries[i].name = name]]
Knows(entries, name) == \E i \in DOMAIN entries : entries[i].name = name

Bad == [p |-> Truncated, entries |-> <<>>]

RECURSIVE ReadMetadata(_, _, _)
\* `count` metadata entries from p on: key, type, where the value begins
ReadMetadata(p, count, entries) ==
  IF count = 0 THEN [p |-> p, entries |-> entries]
  ELSE LET q == SkipString(p)
           next == SkipValue(q + 1, ValueType(q))
       IN IF q = Truncated THEN Bad
          ELSE IF \/ ~TypeKnown(q)
                  \/ Knows(entries, Text(p))
                  \/ next = Truncated
          THEN Bad
          ELSE ReadMetadata(next, count - 1, Append(entries,
                 [name |-> Text(p), type |-> ValueType(q), offset |-> q + 1]))

\* an unsigned value, or nullopt when it is negative or of another type
Nullopt == -1
Integer(entries, key) ==
  LET found == FindMetadata(entries, key)
  IN IF found = <<>> THEN Nullopt
     ELSE LET value == Word(found[1].offset)
          IN CASE found[1].type = "u32" -> value
               [] found[1].type = "i32" /\ 2 * value <= MaxWord -> value
               [] OTHER -> Nullopt

PowerOfTwo(n) == \E k \in 0 .. WordBits - 1 : 2 ^ k = n

\* (value + mask) & ~mask
AlignUp(value, alignment) ==
  IF ~PowerOfTwo(alignment) \/ value > MaxWord - (alignment - 1) THEN Truncated
  ELSE ((value + alignment - 1) \div alignment) * alignment

ElementSize(type) == IF type = "i8" THEN 1 ELSE 2

\* the product of the dimensions, unless one is zero or it would wrap
Elements(dimensions) ==
  FoldLeft(LAMBDA elements, extent :
             IF elements = Truncated \/ extent = 0 THEN Truncated
             ELSE IF elements > MaxWord \div extent THEN Truncated
             ELSE elements * extent,
           1, dimensions)

TensorBytes(type, elements) ==
  IF elements > MaxWord \div ElementSize(type) THEN Truncated
  ELSE elements * ElementSize(type)

RECURSIVE ReadTensors(_, _, _)
\* `count` tensors from p on: name, number of dimensions, dimensions, type, offset
ReadTensors(p, count, entries) ==
  IF count = 0 THEN [p |-> p, entries |-> entries]
  ELSE LET q == SkipString(p)
           rank == Word(q)
           next == Skip(q, rank + 3)
           dimensions == [d \in 1 .. rank |-> Word(q + d)]
           elements == Elements(dimensions)
           type == TensorTypes[Word(q + rank + 1) + 1]
           bytes == TensorBytes(type, elements)
       IN IF q = Truncated THEN Bad
          ELSE IF \/ ~Readable(q) \/ rank = 0 \/ rank > MaxDimensions
                  \/ next = Truncated
                  \/ Knows(entries, Text(p))
                  \/ elements = Truncated
                  \/ Word(q + rank + 1) + 1 \notin DOMAIN TensorTypes
                  \/ bytes = Truncated
          THEN Bad
          ELSE ReadTensors(next, count - 1, Append(entries,
                 [name |-> Text(p), dimensions |-> dimensions, elements |-> elements,
                  type |-> type, offset |-> Word(q + rank + 2), bytes |-> bytes]))

\* at(): the range is inside the file
Inside(offset, size) == ~(offset > file_size) /\ ~(size > file_size - offset)

\* Mutant: the sum with the data offset may wrap.
OffsetFitsAlways(offset, data_offset) == TRUE

OffsetFits(offset, data_offset) == ~(offset > MaxWord - data_offset)

Absolute(tensor, data_offset) == (tensor.offset + data_offset) % (MaxWord + 1)

\* every tensor must lie inside the file
DataInside(tensors, data_offset) ==
  /\ data_offset # Truncated /\ data_offset <= file_size
  /\ \A i \in DOMAIN tensors :
       /\ OffsetFits(tensors[i].offset, data_offset)
       /\ Inside(Absolute(tensors[i], data_offset), tensors[i].bytes)

NoDirectory == [ok |-> FALSE, metadata |-> <<>>, tensors |-> <<>>, data_offset |-> 0]

\* general.alignment, where the file has one
DataAlignment(metadata) ==
  LET declared == Integer(metadata, NameOf(Key("general.alignment")))
  IN IF declared = Nullopt THEN Alignment ELSE declared

\* offsets become absolute
WithData(metadata, tensors, data_offset) ==
  IF ~DataInside(tensors, data_offset) THEN NoDirectory
  ELSE [ok |-> TRUE, metadata |-> metadata, data_offset |-> data_offset,
        tensors |-> Named([i \in DOMAIN tensors |->
          [tensors[i] EXCEPT !.offset = Absolute(tensors[i], data_offset)]])]

\* the data begin at the first aligned word past the directory
WithTensors(metadata, tensors) ==
  IF tensors.p = Truncated THEN NoDirectory
  ELSE WithData(metadata, tensors.entries, AlignUp(tensors.p, DataAlignment(metadata)))

WithMetadata(metadata, tensor_count) ==
  IF metadata.p = Truncated THEN NoDirectory
  ELSE WithTensors(Named(metadata.entries), ReadTensors(metadata.p, tensor_count, <<>>))

Directory ==
  IF \/ Word(0) # Magic \/ Word(1) # Version
     \/ \E count \in {Word(2), Word(3)} : count > file_size - 4
  THEN NoDirectory
  ELSE WithMetadata(ReadMetadata(4, Word(3), <<>>), Word(2))

-----------------------------------------------------------------------------
(* What the loader reads of a parsed file *)

Metadata(key) == FindMetadata(directory.metadata, NameOf(Key(key)))
OfType(key, type) == Metadata(key) # <<>> /\ Metadata(key)[1].type = type
At(key) == Metadata(key)[1].offset

IntegerOf(key) == Integer(directory.metadata, NameOf(Key(key)))
NumberOf(key) == IF OfType(key, "f32") THEN Word(At(key)) ELSE IntegerOf(key)
BooleanOf(key) == OfType(key, "boolean") /\ Word(At(key)) # 0
StringOf(key) == IF OfType(key, "string") THEN <<Text(At(key))>> ELSE <<>>

ArrayLength(key, type) ==
  IF OfType(key, "array") /\ ValueType(At(key)) = type THEN Word(At(key) + 1) ELSE 0

StringArray(key) ==
  LET count == ArrayLength(key, "string")
      start[i \in 1 .. count] ==
        IF i = 1 THEN At(key) + 2 ELSE SkipString(start[i - 1])
  IN [i \in 1 .. count |-> Text(start[i])]

IntegerArray(key) ==
  [i \in 1 .. ArrayLength(key, "u32") |-> Word(At(key) + 1 + i)]

Tensor(name) == FindTensor(directory.tensors, NameOf(name))

-----------------------------------------------------------------------------
(* The constructor *)

ContainerInit ==
  /\ \E good \in {Image}, fault \in Faults :
       disk = [size |-> fault.size,
               words |-> IF fault.at = -1 THEN good
                         ELSE [good EXCEPT ![fault.at + 1] = fault.value]]
  /\ phase = "opening" /\ fd = FALSE /\ mapping = FALSE
  /\ file_size = 0 /\ directory = NoDirectory

Close == fd' = FALSE /\ mapping' = FALSE /\ file_size' = 0 /\ directory' = NoDirectory

Open ==
  /\ phase = "opening"
  /\ \/ phase' = "measuring" /\ fd' = TRUE
     \/ phase' = "failed" /\ UNCHANGED fd
  /\ UNCHANGED <<disk, mapping, file_size, directory>>

Measure ==
  /\ phase = "measuring" /\ disk.size >= HeaderWords
  /\ phase' = "mapping" /\ file_size' = disk.size
  /\ UNCHANGED <<disk, fd, mapping, directory>>

\* fstat fails, or the file is too small
MeasureFails == phase = "measuring" /\ phase' = "failed" /\ Close /\ UNCHANGED disk

Map ==
  /\ phase = "mapping" /\ phase' = "parsing" /\ mapping' = TRUE
  /\ UNCHANGED <<disk, fd, file_size, directory>>

\* Mutant: only the mapping is undone.
MapFailsOpen == phase = "mapping" /\ phase' = "failed" /\ UNCHANGED <<disk, fd, mapping, file_size, directory>>

MapFails == phase = "mapping" /\ phase' = "failed" /\ Close /\ UNCHANGED disk

Parse ==
  /\ phase = "parsing"
  /\ directory' = Directory /\ directory'.ok
  /\ phase' = "metadata"
  /\ UNCHANGED <<disk, fd, mapping, file_size>>

\* the directory is malformed, or an allocation fails
ParseFails == phase = "parsing" /\ phase' = "failed" /\ Close /\ UNCHANGED disk

ContainerNext == Open \/ Measure \/ MeasureFails \/ Map \/ MapFails \/ Parse \/ ParseFails
=============================================================================
