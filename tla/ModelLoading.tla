----------------------------- MODULE ModelLoading -----------------------------
(***************************************************************************)
(* MachModel's constructor (src/model.cpp) over an opened container: the   *)
(* metadata the format fixes, the geometry, the manifest of every tensor,  *)
(* the vocabulary, and then the descriptors that the executor reads for    *)
(* the life of the process, with the tables of src/codec_cache.cpp.        *)
(*                                                                         *)
(* A span names a tensor, its first element and the number of elements.    *)
(* The sizes of the released model (2048 hidden, 256 experts, ...) are     *)
(* constants.                                                              *)
(***************************************************************************)
EXTENDS GgufFile

CONSTANTS
  Expected(_),        \* what the value of a fixed key must be
  NonFinite,          \* a word that is no finite number, of any float type
  Rounded(_),         \* f32 to f16 and back
  ValidUtf8(_), PaddingName(_), Space, \* of words
  Layers, Hidden, Experts, ExpertHidden, Vocabulary,
  ExpertChunk,        \* experts in one tensor (32)
  HeadChunks,         \* 8
  FullInterval,       \* one layer in four attends fully
  QueryRows, KeyRows, Inner, Channels, Heads, HeadWidth, StateWidth, Kernel,
  Tile, Group,        \* 16, 64
  PackedWidth,        \* bytes of a row of the output head (hidden / 8 * 5)
  NeTileWords, ExpertTileWords, \* 64, 24
  StateBits,          \* a codec state (16)
  NeShift, NeRowBits, \* bits of state * (state + 1) that choose a row (6, 9)
  ExpertValues, NeValues

ASSUME GeometryAssumption ==
  /\ Experts % ExpertChunk = 0 /\ Vocabulary % HeadChunks = 0
  /\ Hidden % Tile = 0 /\ ExpertHidden % Tile = 0 /\ Hidden % Group = 0
  /\ NeShift + NeRowBits = StateBits - 1

VARIABLE model        \* the descriptors, or none

loadingVars == <<disk, phase, fd, mapping, file_size, directory, model>>

Projections == <<"gate", "up", "down">>
LayerIds == 0 .. Layers - 1
ExpertIds == 0 .. Experts - 1
ChunkIds == {c \in ExpertIds : c % ExpertChunk = 0}
HeadIds == 0 .. HeadChunks - 1
IsFull(l) == (l + 1) % FullInterval = 0

-----------------------------------------------------------------------------
(* Names, views and shapes *)

Global(item) == <<"mach", 0, 0, item, "">>
Dense(l, item) == <<"hf", l, 0, item, "">>
Codec(l, item, part) == <<"mach.ne", l, 0, item, part>>
Chunk(l, c, item, part) == <<"mach.expert", l, c, item, part>>
HeadTensor(k, part) == <<"mach.output", k, 0, "", part>>

Found(name, type) == Tensor(name) # <<>> /\ Tensor(name)[1].type = type

Aligned(name) == Tensor(name)[1].offset % ElementSize(Tensor(name)[1].type) = 0

Dimensions(name) == Tensor(name)[1].dimensions
Count(name) == Tensor(name)[1].elements

HasShape(name, type, dimensions) ==
  Found(name, type) /\ Aligned(name) /\ Dimensions(name) = dimensions

Span(name, first, size) == [tensor |-> name, first |-> first, size |-> size]
Whole(name) == Span(name, 0, Count(name))

\* what the mapping holds there
Values(span) ==
  LET t == Tensor(span.tensor)[1]
  IN [i \in 1 .. span.size |-> Word(t.offset + (span.first + i - 1) * ElementSize(t.type))]
Read(name, i) == Values(Span(name, i, 1))[1]

Finite(name) == NonFinite \notin Range(Values(Whole(name)))

\* Mutant: an index may come twice.
Increasing(values) == \A i \in 1 .. Len(values) - 1 : values[i] <= values[i + 1]

StrictlyIncreasing(values) == \A i \in 1 .. Len(values) - 1 : values[i] < values[i + 1]

VectorOk(name, size) == HasShape(name, "bf16", <<size>>) /\ Finite(name)
MatrixOk(name, rows, columns) == HasShape(name, "bf16", <<columns, rows>>) /\ Finite(name)

Tiles(rows, columns) == (rows \div Tile) * (columns \div Tile)

NonExpertParts == {"trellis", "SU", "SV", "Wscale"}

NonExpertOk(l, item, rows, columns) ==
  /\ HasShape(Codec(l, item, "SU"), "i8", <<columns>>)
  /\ HasShape(Codec(l, item, "SV"), "i8", <<rows>>)
  /\ rows % Tile = 0 /\ columns % Tile = 0
  /\ HasShape(Codec(l, item, "trellis"), "i16", <<NeTileWords, Tiles(rows, columns)>>)
  /\ HasShape(Codec(l, item, "Wscale"), "f32", <<1>>)
  /\ Read(Codec(l, item, "Wscale"), 0) \notin {NonFinite, 0}
  /\ \A part \in {"SU", "SV"} : Range(Values(Whole(Codec(l, item, part)))) \subseteq {1, MaxWord}

NonExpert(l, item) == [part \in NonExpertParts |-> Whole(Codec(l, item, part))]

-----------------------------------------------------------------------------
(* The embedding and the chunks of the output head *)

EmbeddingOk ==
  LET index == Global("exc_idx")
      indexes == Values(Whole(index))
  IN /\ HasShape(Global("q_packed"), "i8", <<Hidden \div 2, Vocabulary>>)
     /\ HasShape(Global("mn"), "f16", <<Hidden \div Group, Vocabulary>>)
     /\ HasShape(Global("mx"), "f16", Dimensions(Global("mn")))
     /\ Found(index, "i32") /\ Aligned(index) /\ Len(Dimensions(index)) = 1
     /\ HasShape(Global("exc_bits"), "i16", Dimensions(index))
     /\ StrictlyIncreasing(indexes)
     /\ indexes # <<>> => Last(indexes) < Vocabulary * Hidden

EmbeddingFinite ==
  /\ \A item \in {"mn", "mx", "exc_bits"} : Finite(Global(item))
  /\ \A i \in 0 .. Count(Global("mn")) - 1 : Read(Global("mn"), i) <= Read(Global("mx"), i)

HeadRows == Vocabulary \div HeadChunks

Protected(k) == Tensor(HeadTensor(k, "prot_rows")) # <<>>

HeadChunkOk(k) ==
  LET rows == Values(Whole(HeadTensor(k, "prot_rows")))
  IN /\ HasShape(HeadTensor(k, "qp"), "i8", <<PackedWidth, HeadRows>>)
     /\ HasShape(HeadTensor(k, "gscale"), "f16", <<Hidden \div Group, HeadRows>>)
     /\ Finite(HeadTensor(k, "gscale"))
     /\ Protected(k) <=> Tensor(HeadTensor(k, "prot_dense")) # <<>>
     /\ Protected(k) =>
          /\ Found(HeadTensor(k, "prot_rows"), "i32") /\ Aligned(HeadTensor(k, "prot_rows"))
          /\ Len(Dimensions(HeadTensor(k, "prot_rows"))) = 1
          /\ HasShape(HeadTensor(k, "prot_dense"), "bf16", <<Hidden, Count(HeadTensor(k, "prot_rows"))>>)
          /\ Finite(HeadTensor(k, "prot_dense"))
          /\ StrictlyIncreasing(rows) /\ Last(rows) < HeadRows

HeadParts(k) == {"qp", "gscale"} \cup (IF Protected(k) THEN {"prot_rows", "prot_dense"} ELSE {})

-----------------------------------------------------------------------------
(* The routed experts: ExpertChunk of them share each tensor *)

Rows(projection) == IF projection = "down" THEN Hidden ELSE ExpertHidden
Columns(projection) == IF projection = "down" THEN ExpertHidden ELSE Hidden

ExpertParts == {"trellis", "su", "sv", "wave_gamma"}

\* elements of one expert
PartSize(projection, part) ==
  LET rows == Rows(projection) columns == Columns(projection)
  IN CASE part = "trellis" -> Tiles(rows, columns) * ExpertTileWords
       [] part = "su" -> columns
       [] part = "sv" -> rows
       [] OTHER -> (rows \div Tile) + (columns \div Tile)

PartDimensions(projection, part) ==
  IF part = "trellis"
  THEN <<ExpertTileWords, Tiles(Rows(projection), Columns(projection)), ExpertChunk>>
  ELSE <<PartSize(projection, part), ExpertChunk>>

\* Mutant: the gammas of the waves are not looked at.
ExpertChunkOkScales(l, c, projection) ==
  \A part \in ExpertParts :
    LET name == Chunk(l, c, projection, part)
    IN /\ HasShape(name, IF part = "trellis" THEN "i16" ELSE "f16",
                   PartDimensions(projection, part))
       /\ part \in {"su", "sv"} => Finite(name)

ExpertChunkOk(l, c, projection) ==
  \A part \in ExpertParts :
    LET name == Chunk(l, c, projection, part)
    IN /\ HasShape(name, IF part = "trellis" THEN "i16" ELSE "f16",
                   PartDimensions(projection, part))
       /\ part # "trellis" => Finite(name)

\* Mutant: the expert's own number is used inside its chunk.
ExpertByNumber(l, e, projection) ==
  [part \in ExpertParts |->
     LET size == PartSize(projection, part)
     IN Span(Chunk(l, (e \div ExpertChunk) * ExpertChunk, projection, part), e * size, size)]

Expert(l, e, projection) ==
  [part \in ExpertParts |->
     LET size == PartSize(projection, part)
     IN Span(Chunk(l, (e \div ExpertChunk) * ExpertChunk, projection, part),
             (e % ExpertChunk) * size, size)]

-----------------------------------------------------------------------------
(* Metadata and geometry *)

FixedStrings ==
  {"general.architecture", "adi.model_family", "adi.expert_codec", "adi.ne_codec",
   "adi.embedding_codec", "adi.head_codec", "tokenizer.ggml.model",
   "tokenizer.ggml.pre", "tokenizer.chat_template"}

OptionalStrings ==
  {"adi.regular_rms_norm", "adi.gated_rms_norm", "adi.tokenizer_normalizer",
   "adi.tokenizer_pretokenizer"}

FixedIntegers ==
  {"adi.format_version", "adi.expert.k_num", "adi.expert.k_den", "adi.expert.l",
   "adi.expert.v", "adi.expert.tlut_bits", "adi.expert.tile_x", "adi.expert.tile_y"}

\* the container's format and codecs
FormatOk ==
  /\ \A key \in FixedStrings : StringOf(key) = <<Expected(key)>>
  /\ \A key \in OptionalStrings : StringOf(key) \in {<<>>, <<Expected(key)>>}
  /\ BooleanOf("adi.additive")
  /\ \A key \in FixedIntegers : IntegerOf(key) = Expected(key)
  /\ StringOf("general.name") \notin {<<>>, << <<>> >>}
  /\ ValidUtf8(StringOf("general.name")[1])

ConfigKeys ==
  {"block_count", "embedding_length", "expert_count", "expert_used_count",
   "expert_feed_forward_length", "context_length"}

LayerKeys ==
  {"expert_shared_feed_forward_length", "attention.head_count",
   "attention.head_count_kv", "full_attention_interval", "ssm.conv_kernel",
   "ssm.inner_size", "ssm.state_size", "ssm.time_step_rank", "ssm.group_count"}

GeometryOk ==
  /\ \A key \in ConfigKeys : IntegerOf(key) = Expected(key)
  /\ \A key \in LayerKeys : IntegerOf(key) = Expected(key)
  /\ \A key \in {"layer_norm_rms_epsilon", "rope.freq_base"} : NumberOf(key) = Expected(key)

\* the vocabulary is the second dimension of the packed embedding
VocabularyOk ==
  /\ Found(Global("tlut.expert"), "f32") /\ Found(Global("tlut.ne"), "f32")
  /\ Found(Global("q_packed"), "i8")
  /\ Len(Dimensions(Global("q_packed"))) = 2
  /\ (Dimensions(Global("q_packed"))[1] * 2) % (MaxWord + 1) = Hidden
  /\ Dimensions(Global("q_packed"))[2] = Vocabulary

-----------------------------------------------------------------------------
(* The manifest: every tensor the descriptors will need *)

LookupTablesOk ==
  /\ HasShape(Global("tlut.expert"), "f32", <<ExpertValues, 2 ^ (StateBits - 1)>>)
  /\ HasShape(Global("tlut.ne"), "f32", <<NeValues, 2 ^ NeRowBits>>)
  /\ Finite(Global("tlut.expert")) /\ Finite(Global("tlut.ne"))

AttentionOk(l) ==
  /\ NonExpertOk(l, "q_proj", QueryRows, Hidden)
  /\ NonExpertOk(l, "k_proj", KeyRows, Hidden)
  /\ NonExpertOk(l, "v_proj", KeyRows, Hidden)
  /\ NonExpertOk(l, "o_proj", Hidden, Inner)
  /\ \A item \in {"q_norm", "k_norm"} : VectorOk(Dense(l, item), HeadWidth)

LinearOk(l) ==
  /\ NonExpertOk(l, "in_proj_qkv", Channels, Hidden)
  /\ NonExpertOk(l, "in_proj_z", Inner, Hidden)
  /\ NonExpertOk(l, "out_proj", Hidden, Inner)
  /\ \A item \in {"in_proj_a", "in_proj_b"} : MatrixOk(Dense(l, item), Heads, Hidden)
  /\ \A item \in {"dt_bias", "A_log"} : VectorOk(Dense(l, item), Heads)
  /\ VectorOk(Dense(l, "norm"), StateWidth)
  /\ HasShape(Dense(l, "conv1d"), "bf16", <<Kernel, 1, Channels>>)
  /\ Finite(Dense(l, "conv1d"))

LayerOk(l) ==
  /\ \A item \in {"input_layernorm", "post_attention_layernorm"} : VectorOk(Dense(l, item), Hidden)
  /\ MatrixOk(Dense(l, "mlp.gate"), Experts, Hidden)
  /\ MatrixOk(Dense(l, "mlp.shared_expert_gate"), 1, Hidden)
  /\ NonExpertOk(l, "gate_proj", ExpertHidden, Hidden)
  /\ NonExpertOk(l, "up_proj", ExpertHidden, Hidden)
  /\ NonExpertOk(l, "down_proj", Hidden, ExpertHidden)
  /\ \A c \in ChunkIds : \A projection \in Range(Projections) : ExpertChunkOk(l, c, projection)
  /\ IF IsFull(l) THEN AttentionOk(l) ELSE LinearOk(l)

Tokens == StringArray("tokenizer.ggml.tokens")
Types == IntegerArray("tokenizer.ggml.token_type")
Padding == 5

\* every token is one of a kind, and padding is a tail of named rows
TokensOk ==
  /\ Len(Tokens) = Vocabulary /\ Len(Types) = Len(Tokens)
  /\ \A key \in {"tokenizer.ggml.bos_token_id", "tokenizer.ggml.eos_token_id"} :
       IntegerOf(key) # Nullopt /\ IntegerOf(key) < Len(Tokens)
  /\ \A i \in DOMAIN Tokens :
       /\ Tokens[i] # <<>> /\ ValidUtf8(Tokens[i]) /\ Types[i] \in 1 .. 5
       /\ \A j \in 1 .. i - 1 : Tokens[j] # Tokens[i] /\ (Types[j] = Padding => Types[i] = Padding)
       /\ Types[i] = Padding => Tokens[i] = PaddingName(i - 1)

\* a merge is two tokens around one space, and their concatenation is a token
MergesOk ==
  LET merges == StringArray("tokenizer.ggml.merges")
  IN /\ merges # <<>> /\ IsInjective(merges)
     /\ \A i \in DOMAIN merges :
          /\ ValidUtf8(merges[i])
          /\ Cardinality({p \in DOMAIN merges[i] : merges[i][p] = Space}) = 1
          /\ LET p == CHOOSE p \in DOMAIN merges[i] : merges[i][p] = Space
                 left == SubSeq(merges[i], 1, p - 1)
                 right == SubSeq(merges[i], p + 1, Len(merges[i]))
             IN {left, right, left \o right} \subseteq Range(Tokens)

ManifestOk ==
  /\ LookupTablesOk
  /\ EmbeddingOk /\ EmbeddingFinite
  /\ \A l \in LayerIds : LayerOk(l)
  /\ VectorOk(Global("norm"), Hidden)
  /\ \A k \in HeadIds : HeadChunkOk(k)
  /\ TokensOk /\ MergesOk

-----------------------------------------------------------------------------
(* src/codec_cache.cpp.  A table value is the word of the lattice it comes  *)
(* from, rounded, and whether it is negated.                                *)

States == 0 .. 2 ^ StateBits - 1
Product(state) == state * (state + 1)
ExpertRow(state) == Product(state) % 2 ^ (StateBits - 1)
NeRow(state) == (Product(state) \div 2 ^ NeShift) % 2 ^ NeRowBits
Negative(state) == (Product(state) \div 2 ^ (StateBits - 1)) % 2 = 1

\* only the first component takes the sign
TableValue(table, width, row, component, negative) ==
  [word |-> Rounded(Read(table, row * width + component)),
   negated |-> component = 0 /\ negative]

ExpertStateValues ==
  [state \in States |-> [component \in 0 .. ExpertValues - 1 |->
     TableValue(Global("tlut.expert"), ExpertValues, ExpertRow(state), component, Negative(state))]]

NeStateValues ==
  [state \in States |-> [component \in 0 .. NeValues - 1 |->
     TableValue(Global("tlut.ne"), NeValues, NeRow(state), component, Negative(state))]]

\* Mutant: both components of a row take the sign.
NeSignedTlutBoth ==
  [signed \in 0 .. 2 ^ (NeRowBits + 1) - 1 |-> [component \in 0 .. NeValues - 1 |->
     TableValue(Global("tlut.ne"), NeValues, signed % 2 ^ NeRowBits, 0, signed >= 2 ^ NeRowBits)]]

\* a row for each lattice row and sign
NeSignedTlut ==
  [signed \in 0 .. 2 ^ (NeRowBits + 1) - 1 |-> [component \in 0 .. NeValues - 1 |->
     TableValue(Global("tlut.ne"), NeValues, signed % 2 ^ NeRowBits, component,
                signed >= 2 ^ NeRowBits)]]

\* the first walk that meets a tile, or 0 when none does
Walk(walks) == IF walks = {} THEN 0 ELSE Min(walks)

\* a wave is a diagonal of tiles: walks that begin in the last column, then walks
\* that begin in the first row and write the longest one again
WaveIndexes(rows, columns) ==
  [cell \in (0 .. rows - 1) \X (0 .. columns - 1) |->
     LET along == {i \in 0 .. columns - 1 : cell[1] = columns - i - 1 - cell[2]}
         down == {i \in 0 .. rows - 1 : cell[1] - (rows - i - 1) = columns - 1 - cell[2]}
     IN IF along # {} THEN rows + Walk(along) ELSE Walk(down)]

-----------------------------------------------------------------------------
(* cache_descriptors *)

GammaValues == (Hidden + ExpertHidden) \div Tile

\* the experts, in the order their gammas are converted
ExpertOrder ==
  [n \in 0 .. Layers * Experts * 3 - 1 |->
     <<n \div (Experts * 3), (n \div 3) % Experts, Projections[(n % 3) + 1]>>]

GammaOf(expert) == Values(Expert(expert[1], expert[2], expert[3])["wave_gamma"])

\* gamma_offset has advanced by GammaValues for each expert before
ExpertDescriptors ==
  [n \in DOMAIN ExpertOrder |->
     LET expert == ExpertOrder[n]
         rows == Rows(expert[3]) \div Tile
         columns == Columns(expert[3]) \div Tile
     IN [expert |-> expert,
         spans |-> Expert(expert[1], expert[2], expert[3]),
         gamma |-> n * GammaValues,
         waves |-> WaveIndexes(rows, columns)]]

\* expert_wave_gamma_
GammaCache == FlattenSeq([n \in 1 .. Cardinality(DOMAIN ExpertOrder) |-> GammaOf(ExpertOrder[n - 1])])

DenseItems(l) ==
  {"input_layernorm", "post_attention_layernorm", "mlp.gate", "mlp.shared_expert_gate"} \cup
  (IF IsFull(l) THEN {"q_norm", "k_norm"}
   ELSE {"in_proj_a", "in_proj_b", "conv1d", "dt_bias", "A_log", "norm"})

CodecItems(l) ==
  {"gate_proj", "up_proj", "down_proj"} \cup
  (IF IsFull(l) THEN {"q_proj", "k_proj", "v_proj", "o_proj"}
   ELSE {"in_proj_qkv", "in_proj_z", "out_proj"})

Descriptors ==
  [ready |-> TRUE,
   embedding |-> [item \in {"q_packed", "mn", "mx", "exc_idx", "exc_bits"} |-> Whole(Global(item))],
   head_chunks |-> [k \in HeadIds |-> [part \in HeadParts(k) |-> Whole(HeadTensor(k, part))]],
   final_norm |-> Whole(Global("norm")),
   dense |-> [l \in LayerIds |-> [item \in DenseItems(l) |-> Whole(Dense(l, item))]],
   codec |-> [l \in LayerIds |-> [item \in CodecItems(l) |-> NonExpert(l, item)]],
   experts |-> ExpertDescriptors,
   wave_gamma |-> GammaCache,
   expert_state_values |-> ExpertStateValues,
   ne_state_values |-> NeStateValues,
   ne_signed_tlut |-> NeSignedTlut]

NoDescriptors == [ready |-> FALSE]

-----------------------------------------------------------------------------
(* The constructor.  Whatever it throws, the members it made are destroyed, *)
(* the container among them.                                                *)

Init == ContainerInit /\ model = NoDescriptors

OpenFile == ContainerNext /\ UNCHANGED model

Passes(next) ==
  phase' = next /\ UNCHANGED <<disk, fd, mapping, file_size, directory>>

\* each check's failure, and an allocation that fails at any of them
Throw ==
  /\ phase \in {"metadata", "manifest", "caching"}
  /\ phase' = "failed" /\ Close /\ model' = NoDescriptors
  /\ UNCHANGED disk

CheckMetadata ==
  /\ phase = "metadata"
  /\ (FormatOk /\ GeometryOk /\ VocabularyOk) = TRUE
  /\ Passes("manifest") /\ UNCHANGED model

ValidateManifest ==
  /\ phase = "manifest"
  /\ ManifestOk = TRUE \* evaluated as one condition
  /\ Passes("caching") /\ UNCHANGED model

CacheDescriptors ==
  /\ phase = "caching"
  /\ Passes("ready") /\ model' = Descriptors

Destroy ==
  /\ phase = "ready" /\ phase' = "closed"
  /\ Close /\ model' = NoDescriptors
  /\ UNCHANGED disk

Next == OpenFile \/ CheckMetadata \/ ValidateManifest \/ CacheDescriptors \/ Throw \/ Destroy

Spec == Init /\ [][Next]_loadingVars

-----------------------------------------------------------------------------
(* Properties *)

SpansOf(parts) == {parts[part] : part \in DOMAIN parts}

\* every span the executor will read through
AllSpans ==
  {model.final_norm} \cup SpansOf(model.embedding)
  \cup UNION {SpansOf(model.head_chunks[k]) : k \in HeadIds}
  \cup UNION {SpansOf(model.dense[l]) : l \in LayerIds}
  \cup UNION {SpansOf(model.codec[l][item]) : <<l, item>> \in
                {<<l, item>> \in LayerIds \X UNION {CodecItems(l) : l \in LayerIds} :
                   item \in CodecItems(l)}}
  \cup UNION {SpansOf(model.experts[n].spans) : n \in DOMAIN model.experts}

\* Whatever one word of the file is, or wherever it is cut, the descriptors of a
\* model that loads read only the data section of the file that is mapped, each
\* inside its own tensor and aligned for its element type (at(), view() and the
\* shape checks; no product, sum or alignment of the parser has wrapped).
SpansInside ==
  phase = "ready" =>
    \A span \in AllSpans :
      LET t == Tensor(span.tensor)[1]
          size == ElementSize(t.type)
      IN /\ span.first + span.size <= t.elements
         /\ t.offset >= directory.data_offset
         /\ t.offset + t.elements * size <= disk.size
         /\ (t.offset + span.first * size) % size = 0

\* The experts of a chunk share its tensors without a word in common and without
\* one left over, and the converted gammas each expert is given are its own.
ExpertsKeepTheirWords ==
  phase = "ready" =>
    \A n \in DOMAIN model.experts :
      LET d == model.experts[n]
          mine == d.spans["wave_gamma"]
      IN /\ \A i \in 1 .. mine.size :
              model.wave_gamma[d.gamma + i] = Read(mine.tensor, mine.first + i - 1)
         /\ \A m \in DOMAIN model.experts \ {n} :
              LET other == model.experts[m].spans["wave_gamma"]
              IN other.tensor = mine.tensor =>
                   other.first >= mine.first + mine.size \/ mine.first >= other.first + other.size
         /\ \A part \in ExpertParts :
              LET span == d.spans[part]
              IN span.first % span.size = 0 /\ span.first + span.size <= Count(span.tensor)

\* What the executor looks up in a sorted list of indexes (the exceptions of the
\* embedding, the protected rows of the head) is found at most once, and an index
\* never leads outside the table it is an index of.
IndexesUsable ==
  phase = "ready" =>
    LET indexes == Values(model.embedding["exc_idx"])
    IN /\ \A i, j \in DOMAIN indexes : i # j => indexes[i] # indexes[j]
       /\ \A i \in DOMAIN indexes : indexes[i] < Vocabulary * Hidden
       /\ \A k \in HeadIds : "prot_rows" \in DOMAIN model.head_chunks[k] =>
            LET rows == Values(model.head_chunks[k]["prot_rows"])
            IN /\ \A i, j \in DOMAIN rows : i < j => rows[i] < rows[j]
               /\ \A i \in DOMAIN rows : rows[i] < HeadRows
               /\ Len(rows) * Hidden = model.head_chunks[k]["prot_dense"].size

\* The two decoders of the non-expert codec agree: the bits of state * (state + 1)
\* from NeShift on select in the signed table what the state table holds
\* (codec_cache.cpp:95); and two tiles share a wave, one of the gammas', only on
\* the same diagonal.
TablesAgree ==
  phase = "ready" =>
    /\ \A state \in States :
         model.ne_state_values[state] =
           model.ne_signed_tlut[(Product(state) \div 2 ^ NeShift) % 2 ^ (NeRowBits + 1)]
    /\ \A n \in DOMAIN model.experts :
         LET waves == model.experts[n].waves
         IN \A a, b \in DOMAIN waves :
              /\ waves[a] \in 0 .. GammaValues - 1
              /\ waves[a] = waves[b] <=> a[1] + a[2] = b[1] + b[2]

\* No weight a loaded model computes with is infinite or not a number, and no
\* group of the embedding has its bounds exchanged.
AcceptedWeightsFinite ==
  phase = "ready" =>
    /\ \A span \in AllSpans :
         Tensor(span.tensor)[1].type \in {"f16", "bf16", "f32"} => NonFinite \notin Range(Values(span))
    /\ \A i \in 1 .. Len(model.wave_gamma) : model.wave_gamma[i] # NonFinite

\* A load that fails at any point holds neither descriptor nor mapping nor a
\* half-made model, and a model that is ready holds what its spans point into.
NothingHeldAfterFailure ==
  /\ phase \in {"failed", "closed"} => ~fd /\ ~mapping /\ ~model.ready
  /\ model.ready => fd /\ mapping /\ directory.ok /\ file_size = disk.size
=============================================================================
